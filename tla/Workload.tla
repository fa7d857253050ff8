------------------------------ MODULE Workload ------------------------------
(***************************************************************************)
(* The trace file and what the benchmark makes of it:                      *)
(* generate_TS_tracefile_binary (utils/TS_value_master.h) writes rounds of *)
(* PUT or GET queries, and load_trace (benchmark/src/TS_proxy_benchmark.cpp) *)
(* cuts the file into the calls that run_benchmark makes.                  *)
(*                                                                         *)
(* The proxy starts with the buckets that proxy_server.cpp makes up; the   *)
(* trace's time begins where theirs ends, at 0 here and 1700000000 in the  *)
(* code.                                                                   *)
(*                                                                         *)
(* A line is a key and a value; the empty value marks a GET.  Values and   *)
(* the sampling of ranges are abstracted: a GET covers the item's time     *)
(* from the first stamp to the latest.                                     *)
(***************************************************************************)
EXTENDS Integers, Sequences, SequencesExt

CONSTANTS
  no_items,           \* items in the file of item ids
  N,                  \* buckets the proxy is to start with
  batch_size,         \* batch size the trace was generated with
  client_batch_size   \* batch size of the benchmark that replays it

ASSUME WorkloadAssumption ==
  /\ no_items \in Nat \ {0} /\ N \in Nat /\ batch_size \in Nat \ {0} /\ client_batch_size \in Nat \ {0}
  /\ batch_size <= no_items

Key(item, from, to) == [item |-> item, from |-> from, to |-> to]
Line(key, value)    == [key |-> key, value |-> value]

\* A round has one query for each item, as many items as whole batches hold.
RoundSize == (no_items \div batch_size) * batch_size

PutRound(stamp)  == [j \in 1 .. RoundSize |-> Line(Key(j, stamp, stamp), "bucket")]
GetRound(latest) == [j \in 1 .. RoundSize |-> Line(Key(j, 0, latest), "")]

\* The keys that main of proxy_server.cpp passes to init, N / num_items for each item.
InitialKeys == {Key(j, -s, -s) : j \in 1 .. no_items, s \in 1 .. N \div no_items}

\* Fault: latest_timestamp is not advanced.
generateOneStamp(rounds) ==
  FlattenSeq([n \in DOMAIN rounds |-> IF rounds[n] THEN PutRound(0) ELSE GetRound(0)])

\* generate_TS_tracefile_binary for the rounds drawn, TRUE being a PUT round; a PUT
\* round advances latest_timestamp.
generate_TS_tracefile_binary(rounds) ==
  FoldLeft(LAMBDA file, put :
             IF put THEN [lines  |-> file.lines \o PutRound(file.latest),
                          latest |-> file.latest + 1]
                    ELSE [file EXCEPT !.lines = @ \o GetRound(file.latest - 1)],
           [lines |-> <<>>, latest |-> 0], rounds).lines

\* The first round is a PUT round (i == 0).
TraceFiles(n) == {generate_TS_tracefile_binary(<<TRUE>> \o rounds)
                    : rounds \in UNION {[1 .. k -> BOOLEAN] : k \in 0 .. n - 1}}

-----------------------------------------------------------------------------
(* load_trace.  Two batches are being filled, one of PUTs and one of GETs.   *)

Keys(batch)   == [n \in DOMAIN batch |-> batch[n].key]
Values(batch) == [n \in DOMAIN batch |-> batch[n].value]
PutCall(batch) == [keys |-> Keys(batch), values |-> Values(batch)]
GetCall(batch) == [keys |-> Keys(batch), values |-> <<>>]

\* Appends the batch to the trace if `full', and leaves it empty.
Flush(s, full, kind) ==
  IF ~full THEN s
  ELSE IF kind = "put"
    THEN [s EXCEPT !.trace = Append(@, PutCall(s.put)), !.put = <<>>]
    ELSE [s EXCEPT !.trace = Append(@, GetCall(s.get)), !.get = <<>>]

\* Fault: the open batch is kept when the kind of query changes.
LoadLineByKind(s, line) ==
  IF line.value = ""
    THEN LET u == Flush(s, Len(s.get) = client_batch_size, "get")
         IN  [u EXCEPT !.processing_put = FALSE, !.get = Append(@, line)]
    ELSE LET u == Flush(s, Len(s.put) = client_batch_size, "put")
         IN  [u EXCEPT !.processing_put = TRUE, !.put = Append(@, line)]

\* One turn of the loop: the line's batch is flushed when it is full, the other one
\* when the kind of query changes.
LoadLine(s, line) ==
  IF line.value = ""
    THEN LET u == Flush(Flush(s, Len(s.get) = client_batch_size, "get"),
                        s.processing_put, "put")
         IN  [u EXCEPT !.processing_put = FALSE, !.get = Append(@, line)]
    ELSE LET u == Flush(Flush(s, Len(s.put) = client_batch_size, "put"),
                        ~s.processing_put, "get")
         IN  [u EXCEPT !.processing_put = TRUE, !.put = Append(@, line)]

load_trace(lines) ==
  LET s == FoldLeft(LoadLine, [trace |-> <<>>, put |-> <<>>, get |-> <<>>,
                               processing_put |-> TRUE], lines)
  IN  Flush(Flush(s, s.get # <<>>, "get"), s.put # <<>>, "put").trace

\* The lines that a sequence of calls stands for.
LinesOf(call) ==
  [n \in DOMAIN call.keys |-> Line(call.keys[n], IF call.values = <<>> THEN "" ELSE call.values[n])]
AllLines(calls) == FlattenSeq([n \in DOMAIN calls |-> LinesOf(calls[n])])
=============================================================================
