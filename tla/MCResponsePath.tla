--------------------------- MODULE MCResponsePath ---------------------------
(* Small instances of ResponsePath for TLC. *)
EXTENDS ResponsePath, TLC

BatchCalls == AsyncBatch
WaitingCalls == AsyncBatch \cup {"get_batch"}
MixedCalls == AsyncBatch \cup {"get", "async_get"}

\* The clients are interchangeable.
ClientSymmetry == Permutations(Clients)
=============================================================================
