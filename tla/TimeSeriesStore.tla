-------------------------- MODULE TimeSeriesStore --------------------------
(***************************************************************************)
(* What the proxy promises its clients, without batches, cache or server:  *)
(* a store of buckets <<item, timestamp>> in which a PUT replaces the      *)
(* item's oldest bucket and a GET is answered with the buckets of a range  *)
(* as they were when the GET was taken.                                    *)
(***************************************************************************)
EXTENDS Integers

CONSTANTS BucketKeys, Payloads, Requests, Ranges

VARIABLES
  buckets,   \* bucket key -> payload
  doomed,    \* replaced buckets that are still readable
  asked,     \* GET in progress or just answered -> the buckets it is owed
  answers    \* GET -> the buckets it was answered with

storeVars == <<buckets, doomed, asked, answers>>

Stored     == DOMAIN buckets
OfItem(it) == {k \in Stored : k[1] = it}

Init ==
  /\ buckets \in [Stored -> Payloads] /\ Stored \subseteq BucketKeys
  /\ doomed = {}
  /\ DOMAIN asked = {} /\ DOMAIN answers = {}

\* The new bucket is readable at once.  The bucket it replaces, the item's oldest,
\* goes at once or is doomed to go later.  No other bucket changes.
Put(k) ==
  /\ UNCHANGED <<asked, answers>>
  /\ k \in DOMAIN buckets' /\ buckets'[k] \in Payloads
  /\ \A j \in DOMAIN buckets' \ {k} : j \in Stored /\ buckets'[j] = buckets[j]
  /\ \E old \in OfItem(k[1]) :
       /\ \A j \in OfItem(k[1]) : old[2] <= j[2]
       /\ \/ /\ DOMAIN buckets' = (Stored \ {old}) \cup {k}
             /\ UNCHANGED doomed
          \/ /\ DOMAIN buckets' = Stored \cup {k}
             /\ doomed' = doomed \cup {old}

Expire(k) ==
  /\ k \in doomed
  /\ buckets' = [j \in Stored \ {k} |-> buckets[j]]
  /\ doomed' = doomed \ {k}
  /\ UNCHANGED <<asked, answers>>

\* A GET for [start, end]: every bucket with a timestamp in the range, and of the
\* earlier ones at most the latest, which may hold the range's first readings.
Covers(K, item, start, end) ==
  /\ K # {} /\ K \subseteq OfItem(item)
  /\ {k \in OfItem(item) : start <= k[2] /\ k[2] <= end} \subseteq K
  /\ \A k \in K : k[2] <= end
  /\ \A k \in K : k[2] < start => \A j \in OfItem(item) : j[2] < start => j[2] <= k[2]

Get(r, item, start, end) ==
  /\ r \notin DOMAIN asked /\ DOMAIN asked' = DOMAIN asked \cup {r}
  /\ \A q \in DOMAIN asked : asked'[q] = asked[q]
  /\ Covers(DOMAIN asked'[r], item, start, end)
  /\ asked'[r] = [k \in DOMAIN asked'[r] |-> buckets[k]]
  /\ UNCHANGED <<buckets, doomed, answers>>

\* Some GETs are answered with what they are owed; no answer is given twice.
Reply ==
  /\ DOMAIN answers \subseteq DOMAIN answers' /\ DOMAIN answers' \subseteq DOMAIN asked
  /\ \A r \in DOMAIN answers' :
       answers'[r] = IF r \in DOMAIN answers THEN answers[r] ELSE asked[r]
  /\ UNCHANGED <<buckets, doomed, asked>>

\* The answered GETs are over.
Forget ==
  /\ asked' = [r \in DOMAIN asked \ DOMAIN answers |-> asked[r]]
  /\ DOMAIN answers' = {}
  /\ UNCHANGED <<buckets, doomed>>

Next ==
  \/ Reply
  \/ Forget
  \/ \E k \in BucketKeys : Expire(k)
  \/ \E k \in BucketKeys : Put(k)
  \/ \E r \in Requests, item \in {k[1] : k \in BucketKeys}, g \in Ranges :
       Get(r, item, g[1], g[2])

Spec == Init /\ [][Next]_storeVars
=============================================================================
