-------------------------- MODULE FrequencySmoother --------------------------
(***************************************************************************)
(* FrequencySmoother (proxy/src/FrequencySmoother.cpp): for every key the  *)
(* batch number at which it was last touched, an index of the keys ordered *)
(* by that number, and for every item the timestamps of its buckets.       *)
(*                                                                         *)
(* A key "item@timestamp" is the pair <<item, timestamp>>, so that         *)
(* get_key_timestamp_split is the projection on the two components.  A     *)
(* smoother is a record:                                                   *)
(*   accessFreqs   key -> frequency                                        *)
(*   accessTree    set of <<key, frequency>> pairs, ordered by freqCmp     *)
(*   stamps        item -> set of timestamps (uniqueItemWithTimeStamp)     *)
(* The operators are the class's methods as functions of the record.       *)
(***************************************************************************)
EXTENDS Integers, StdMap

\* std::string's operator<, on keys.
KeyLess(j, k) == j[1] < k[1] \/ (j[1] = k[1] /\ j[2] < k[2])

\* Fault: the index is ordered by key alone.
keyCmp(a, b) == KeyLess(a[1], b[1])

\* The order of accessTree.
freqCmp(a, b) == a[2] < b[2] \/ (a[2] = b[2] /\ KeyLess(a[1], b[1]))

\* accessFreqs[key] as a value.
getFrequency(s, k) == At(s.accessFreqs, k, 0)

\* What getFrequency leaves behind: operator[] inserts a zero entry for a key
\* that has none.
Touch(s, k) ==
  [accessFreqs |-> Assign(s.accessFreqs, k, getFrequency(s, k)),
   accessTree  |-> s.accessTree,
   stamps      |-> s.stamps]

\* The timestamps of an item; what get_timestamp_for_key returns.
StampsOf(s, item) == At(s.stamps, item, {})

\* get_timestamp_for_key's side effect: operator[] again.
TouchStamps(s, item) ==
  [accessFreqs |-> s.accessFreqs,
   accessTree  |-> s.accessTree,
   stamps      |-> Assign(s.stamps, item, StampsOf(s, item))]

\* insert: the frequency is reset to zero, and an entry of accessTree under an
\* older frequency of the same key stays.
insert(s, k) ==
  [accessFreqs |-> Assign(s.accessFreqs, k, 0),
   accessTree  |-> s.accessTree \cup {<<k, 0>>},
   stamps      |-> Assign(s.stamps, k[1], StampsOf(s, k[1]) \cup {k[2]})]

\* Fault: the frequency is not advanced.
setFrequencyStuck(s, k, value) == s

setFrequency(s, k, value) ==
  [accessFreqs |-> Assign(s.accessFreqs, k, value),
   accessTree  |-> (s.accessTree \ {<<k, getFrequency(s, k)>>}) \cup {<<k, value>>},
   stamps      |-> s.stamps]

\* Fault: the ordered index is forgotten.
removeKeyKeepTree(s, k) ==
  [accessFreqs |-> Erase(s.accessFreqs, k),
   accessTree  |-> s.accessTree,
   stamps      |-> Assign(s.stamps, k[1], StampsOf(s, k[1]) \ {k[2]})]

\* Fault: the item's entry is erased without looking at what is left.
removeKeyDropItem(s, k) ==
  [accessFreqs |-> Erase(s.accessFreqs, k),
   accessTree  |-> s.accessTree \ {<<k, getFrequency(s, k)>>},
   stamps      |-> Erase(s.stamps, k[1])]

\* removeKey: an item loses its entry together with its last timestamp.
removeKey(s, k) ==
  LET left == StampsOf(s, k[1]) \ {k[2]}
  IN  [accessFreqs |-> Erase(s.accessFreqs, k),
       accessTree  |-> s.accessTree \ {<<k, getFrequency(s, k)>>},
       stamps      |-> IF left = {} THEN Erase(s.stamps, k[1])
                                    ELSE Assign(s.stamps, k[1], left)]

\* checkIfUniqueItemWithTimeStampExists
KeyExists(s, k) == k \in DOMAIN s.accessFreqs

\* The entry of accessTree that comes first among those in the set E.
FirstEntry(E) == CHOOSE e \in E : \A f \in E \ {e} : freqCmp(e, f)

getKeyWithMinFrequency(s) == FirstEntry(s.accessTree)[1]

\* getOldestKey(keys_to_be_deleted, currentKey): the bucket of the item of
\* currentKey with the smallest timestamp.  keys_to_be_deleted is passed and
\* not looked at.  Defined when the item has a bucket; dereferencing begin()
\* of an empty set is undefined behaviour.
getOldestKey(s, currentKey) ==
  LET T == StampsOf(s, currentKey[1])
  IN  <<currentKey[1], CHOOSE t \in T : \A u \in T : t <= u>>
=============================================================================
