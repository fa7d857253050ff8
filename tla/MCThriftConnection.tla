------------------------- MODULE MCThriftConnection -------------------------
(* Small instances of ThriftConnection for TLC. *)
EXTENDS ThriftConnection

AllPrograms == AsyncPrograms \cup SyncPrograms
ZeroOrMinusOne == {0, -1}

\* What the theorems of ThriftProofs assume of the trace.
ASSUME TraceIsSound == TraceSound
=============================================================================
