--------------------------- MODULE MCAsyncClient ---------------------------
(* The instances of AsyncClient for TLC: its constants are given in the      *)
(* configurations.                                                           *)
EXTENDS AsyncClient
=============================================================================
