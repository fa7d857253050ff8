----------------------------- MODULE PlaceProofs -----------------------------
(***************************************************************************)
(* Where the buckets are, when clients put in time order: each bucket is   *)
(* in the cache, in the write-back buffer or on the server, and each       *)
(* storage id is read at most once and written at most once, whatever the  *)
(* order in which the batches and the clear thread take their steps.       *)
(*                                                                         *)
(* A key's next id is fixed when the key is read, with the number of the   *)
(* batch as its frequency, and used only when the key is written back:     *)
(* Placed says that it is unused until then, which needs bounds on the     *)
(* frequencies (Bounded), that a PUT never brings back a key that was used *)
(* before (Past), and that there is always an entry to evict (Room).       *)
(***************************************************************************)
EXTENDS IndexProofs, FiniteSetTheorems

\* The keys with an id, real and fake, and the id under which each is to be found or
\* written next.
Objects == LiveKeys \cup FakeKeys
Current == [k \in Keys |-> <<k, IF k \in FakeKeys THEN getFrequency(fakeBst, k)
                                                  ELSE getFrequency(realBst, k)>>]

\* The ids ever read or written, and those of responses still to come.
Used        == seen \cup DOMAIN server \cup DOMAIN writeBatch
Pending     == {n \in DOMAIN storage_keys : pc = "read" \/ (pc = "apply" /\ n >= Cursor)}
PendingKeys == {storage_keys[n][1] : n \in Pending}

\* The number of a batch is the largest frequency in use, and while ids are read only
\* earlier numbers are.
Bounded ==
  /\ \A id \in Used : id[2] <= timeStamp /\ (pc = "read" => id[2] < timeStamp)
  /\ \A k \in Objects : Current[k][2] <= timeStamp

\* A key in the cache or in the batch has an unused id; any other is on the server, or
\* about to be, under an id that was never asked for.
Placed ==
  \A k \in Objects :
    IF k \in CacheKeys(cache) \cup PendingKeys
      THEN Current[k] \notin Used
      ELSE Current[k] \in (DOMAIN server \cup DOMAIN writeBatch) \ seen

\* What is written was never used before.
Written ==
  /\ DOMAIN writeBatch \cap seen = {}
  /\ pc \in {"collect", "split", "read"} => DOMAIN writeBatch = {}
  /\ pc = "apply" => DOMAIN writeBatch \cap DOMAIN server = {}
  /\ pc = "clear" => DOMAIN writeBatch \subseteq DOMAIN server
  /\ pc = "apply" => \A id \in DOMAIN writeBatch : id[1] \in RealKeys => id[1] \in DOMAIN EvictedItems

\* Cache, write-back buffer and batch do not overlap.
Apart ==
  /\ CacheKeys(cache) \cap PendingKeys = {}
  /\ pc = "read" => CacheKeys(cache) \cap Fetched = {}
  /\ DOMAIN EvictedItems \subseteq
       LiveKeys \ (CacheKeys(cache) \cup PendingKeys \cup keys_to_be_deleted)
  /\ \A k \in DOMAIN EvictedItems : Current[k] \in DOMAIN writeBatch

\* The ids of a batch are on the server until the batch is done with them, and reach the
\* clear thread after they were read.
ReadIds ==
  /\ \A n \in Pending : storage_keys[n] \in DOMAIN server \ Discarded
  /\ pc = "read" => IdSet(storage_keys) \cap seen = {}
  /\ pc \in {"apply", "clear"} => IdSet(storage_keys) \subseteq seen
  /\ Discarded \subseteq seen

\* A bucket that was ever on the server is not newer than the buckets its item keeps.
Past ==
  \A id \in Used : id[1] \in RealKeys =>
    \E j \in LiveKeys \ keys_to_be_deleted : j[1] = id[1][1] /\ id[1][2] <= j[2]

\* Every bucket that is doomed made room for one more in the cache.
Room ==
  /\ IsFiniteSet(keys_to_be_deleted)
  /\ CacheSize + Cardinality(keys_to_be_deleted) <= Len(cache)

Place    == Bounded /\ Placed /\ Written /\ Apart /\ ReadIds /\ Past /\ Room
PlaceInv == RunInv /\ Place
-----------------------------------------------------------------------------
(* Facts about the parts                                                     *)

\* Real and fake keys differ, and Current gives each key an id of its own.
LEMMA ObjectFacts ==
  ASSUME RunInv
  PROVE  /\ LiveKeys \subseteq RealKeys /\ RealKeys \cap FakeKeys = {} /\ Objects \subseteq Keys
         /\ CacheKeys(cache) \subseteq LiveKeys
         /\ \A k \in Objects : Current[k] \in StorageIds /\ Current[k][1] = k
         /\ \A k \in LiveKeys : Current[k] = <<k, getFrequency(realBst, k)>>
         /\ \A k \in FakeKeys : Current[k] = <<k, getFrequency(fakeBst, k)>>
         /\ timeStamp \in Nat /\ \A k \in Objects : Current[k][2] \in Nat
<1>1. LiveKeys \subseteq RealKeys /\ CacheKeys(cache) \subseteq LiveKeys
  BY IndexFacts DEF RunInv, IndexInv, BatchAccounts, CacheIndexed
<1>2. RealKeys \cap FakeKeys = {}
  BY ConstantsAssumption DEF FakeKeys, RealKeys
<1>3. Objects \subseteq Keys
  BY <1>1, KeyTypes DEF Objects
<1>4. \A k \in Keys : getFrequency(realBst, k) \in Nat /\ getFrequency(fakeBst, k) \in Nat
  BY SmootherParts DEF RunInv, IndexInv, TypeInv, TypeOK
<1>5. \A k \in Keys : Current[k] = <<k, IF k \in FakeKeys THEN getFrequency(fakeBst, k)
                                                        ELSE getFrequency(realBst, k)>>
  BY DEF Current
<1>6. \A k \in LiveKeys : Current[k] = <<k, getFrequency(realBst, k)>>
  BY <1>1, <1>2, <1>3, <1>5 DEF Objects
<1>7. \A k \in FakeKeys : Current[k] = <<k, getFrequency(fakeBst, k)>>
  BY <1>3, <1>5 DEF Objects
<1>8. \A k \in Objects : Current[k] \in StorageIds /\ Current[k][1] = k /\ Current[k][2] \in Nat
  BY <1>3, <1>4, <1>6, <1>7 DEF StorageIds, Objects
<1>9. timeStamp \in Nat
  BY DEF RunInv, IndexInv, TypeInv, TypeOK
<1> QED
  BY <1>1, <1>2, <1>3, <1>6, <1>7, <1>8, <1>9

\* The ids in use are ids.
LEMMA UsedIds ==
  ASSUME RunInv
  PROVE  /\ Used \subseteq StorageIds
         /\ \A id \in StorageIds : id[2] \in Nat /\ id[1] \in Keys /\ id = <<id[1], id[2]>>
BY DEF RunInv, IndexInv, TypeInv, TypeOK, IsMap, Used, StorageIds

\* Outside the response loop no response is left; while a batch is collected nothing is
\* pending.
LEMMA PendingFacts ==
  ASSUME RunInv
  PROVE  /\ pc \in {"collect", "split", "clear"} => Pending = {} /\ PendingKeys = {}
         /\ pc = "read" => Pending = DOMAIN storage_keys /\ PendingKeys = ReadKeys
         /\ pc = "apply" => PendingKeys = Due
         /\ \A n \in Pending : n \in DOMAIN storage_keys
<1>1. pc \in {"collect", "split", "clear"} => Pending = {}
  BY DEF Pending
<1> QED
  BY <1>1 DEF Pending, PendingKeys, ReadKeys, Due

\* A step that moves no bucket and reads or writes no id.
LEMMA SamePlace ==
  ASSUME PlaceInv, LiveKeys' = LiveKeys, Current' = Current,
         UNCHANGED <<cache, EvictedItems, keys_to_be_deleted, timeStamp, storage_keys, responses,
                     writeBatch, server, keysNotUsed, seen>>,
         \/ pc' = pc /\ storage_batch' = storage_batch
         \/ pc \in {"collect", "split"} /\ pc' \in {"collect", "split"}
  PROVE  Place'
<1>1. Used' = Used /\ Discarded' = Discarded /\ Objects' = Objects
  BY DEF Used, Discarded, IdSet, Objects
<1>2. Pending' = Pending /\ PendingKeys' = PendingKeys
  <2>1. Cursor' = Cursor
    BY DEF Cursor
  <2>2. Pending' = Pending
    BY <2>1 DEF Pending
  <2> QED
    BY <2>2 DEF PendingKeys
<1>3. /\ pc' \in {"read", "apply", "clear"} => pc' = pc /\ Fetched' = Fetched
      /\ pc' \in {"collect", "split", "read"} => pc \in {"collect", "split", "read"}
  BY DEF Fetched
<1>4. CacheKeys(cache)' = CacheKeys(cache) /\ IdSet(storage_keys)' = IdSet(storage_keys)
  BY DEF CacheKeys, IdSet
<1>5. Bounded' /\ Placed'
  BY <1>1, <1>2, <1>3, <1>4 DEF PlaceInv, Place, Bounded, Placed
<1>6. Written' /\ Apart'
  BY <1>1, <1>2, <1>3, <1>4 DEF PlaceInv, Place, Written, Apart
<1>7. ReadIds' /\ Past' /\ Room'
  BY <1>1, <1>2, <1>3, <1>4 DEF PlaceInv, Place, ReadIds, Past, Room
<1> QED
  BY <1>5, <1>6, <1>7 DEF Place

\* init: the buckets in the cache have no id on the server.
LEMMA InitPlace == Init => PlaceInv
<1> SUFFICES ASSUME Init
             PROVE  PlaceInv
  OBVIOUS
<1>1. RunInv
  BY InitRun
<1>2. /\ pc = "collect" /\ timeStamp = 0 /\ storage_keys = <<>> /\ seen = {}
      /\ writeBatch = EmptyMap /\ EvictedItems = EmptyMap /\ DOMAIN EmptyMap = {}
      /\ keys_to_be_deleted = {} /\ keysNotUsed = <<>>
      /\ realBst = Loaded(InitKeys, LoadedStamps) /\ fakeBst = Loaded(FakeKeys, EmptyMap)
  BY DEF Init, EmptyMap
<1>3. \A k \in Keys : getFrequency(realBst, k) = 0 /\ getFrequency(fakeBst, k) = 0
  BY <1>2 DEF Loaded, getFrequency, At
<1>4. \A k \in Objects : k \in Keys /\ Current[k] = <<k, 0>>
  BY <1>1, <1>3, ObjectFacts DEF Objects
<1>5. LiveKeys = InitKeys
  <2>1. LiveKeys = DOMAIN realBst.accessFreqs \ {NoKey}
    BY <1>1, IndexFacts DEF RunInv
  <2> QED
    BY <1>2, <2>1, KeyTypes, ConstantsAssumption DEF Loaded
<1>6. PICK c \in Placements :
        /\ cache = [n \in 1 .. CacheSize |-> <<c[n], <<c[n], InitVersion>>>>]
        /\ server = [id \in ((InitKeys \ {c[n] : n \in 1 .. CacheSize}) \cup FakeKeys) \X {0}
                       |-> encryptNonDeterministic(<<id[1], InitVersion>>)]
  BY DEF Init
<1>7. /\ CacheKeys(cache) = {c[n] : n \in 1 .. CacheSize} /\ Len(cache) = CacheSize
      /\ DOMAIN server = ((InitKeys \ CacheKeys(cache)) \cup FakeKeys) \X {0}
  <2>1. CacheKeys(cache) = {c[n] : n \in 1 .. CacheSize}
    BY <1>6 DEF CacheKeys
  <2>2. DOMAIN cache = 1 .. CacheSize /\ CacheSize \in Nat
    BY <1>6, ConstantsAssumption
  <2>3. Len(cache) = CacheSize
    BY <1>6, <2>2
  <2> QED
    BY <1>6, <2>1, <2>3
<1>8. Used = DOMAIN server /\ PendingKeys = {} /\ Pending = {}
  BY <1>1, <1>2, PendingFacts DEF Used
<1>9. Bounded
  BY <1>2, <1>4, <1>7, <1>8 DEF Bounded
<1>10. Placed
  <2>1. CacheKeys(cache) \cap FakeKeys = {}
    BY <1>1, ObjectFacts
  <2>2. \A k \in Objects : <<k, 0>> \in DOMAIN server <=> k \notin CacheKeys(cache)
    BY <1>5, <1>7, <2>1 DEF Objects
  <2> QED
    BY <1>2, <1>4, <1>8, <2>2 DEF Placed
<1>11. Written /\ Apart
  BY <1>2, <1>8 DEF Written, Apart
<1>12. ReadIds
  BY <1>2, <1>8 DEF ReadIds, Discarded
<1>13. Past
  <2>1. ASSUME NEW id \in Used, id[1] \in RealKeys
        PROVE  id[1] \in LiveKeys /\ id[1][2] \in Nat
    BY <1>1, <1>5, <1>7, <1>8, <2>1, ObjectFacts, KeyTypes
  <2> QED
    BY <1>2, <2>1 DEF Past
<1>14. Room
  BY <1>2, <1>7, ConstantsAssumption, FS_EmptySet DEF Room
<1> QED
  BY <1>1, <1>9, <1>10, <1>11, <1>12, <1>13, <1>14 DEF PlaceInv, Place

-----------------------------------------------------------------------------
(* Collecting and reading                                                    *)

\* Collecting a GET, answering requests and waiting move no bucket.
LEMMA QuietPlace ==
  ASSUME PlaceInv,
         \/ SubGet \/ \E k \in Keys : ClearPromises(k)
         \/ UNCHANGED <<bstVars, storeVars, timeStamp, pc, batchVars, server, keysNotUsed, seen>>
         \/ \E item \in Items, r \in Ranges : PopGet(item, r[1], r[2])
  PROVE  Place'
<1>1. CASE \/ SubGet \/ \E k \in Keys : ClearPromises(k)
           \/ UNCHANGED <<bstVars, storeVars, timeStamp, pc, batchVars, server, keysNotUsed, seen>>
  <2>1. /\ UNCHANGED <<realBst, fakeBst, cache, EvictedItems, keys_to_be_deleted, timeStamp,
                       storage_keys, responses, writeBatch, server, keysNotUsed, seen>>
        /\ \/ pc' = pc /\ storage_batch' = storage_batch
           \/ pc \in {"collect", "split"} /\ pc' \in {"collect", "split"}
    BY <1>1 DEF SubGet, ClearPromises, bstVars, storeVars, getVars, batchVars
  <2>2. LiveKeys' = LiveKeys
    BY <2>1, LiveSame DEF PlaceInv, RunInv
  <2>3. Current' = Current
    BY <2>1 DEF Current
  <2> QED
    BY <2>1, <2>2, <2>3, SamePlace
<1>2. ASSUME NEW item \in Items, NEW r \in Ranges, PopGet(item, r[1], r[2])
      PROVE  Place'
  <2>1. /\ UNCHANGED <<fakeBst, cache, EvictedItems, keys_to_be_deleted, timeStamp,
                       storage_keys, responses, writeBatch, server, keysNotUsed, seen>>
        /\ pc \in {"collect", "split"} /\ pc' \in {"collect", "split"}
        /\ realBst' = TouchStamps(realBst, item)
    BY <1>2 DEF PopGet, Collecting, storeVars, batchVars
  <2>2. LiveKeys' = LiveKeys
    <3>1. Agrees(realBst') /\ Live(realBst') = Live(realBst)
      BY <2>1, IndexFacts, TouchStampsAgrees, LiveAfter DEF PlaceInv, RunInv
    <3> QED
      BY <3>1, IndexNext, IndexFacts DEF PlaceInv, RunInv
  <2>3. Current' = Current
    BY <2>1 DEF Current, TouchStamps, getFrequency
  <2> QED
    BY <2>1, <2>2, <2>3, SamePlace
<1> QED
  BY <1>1, <1>2

\* StartBatch: the batch gets a number no id has yet.
LEMMA StartBatchPlace ==
  ASSUME PlaceInv, StartBatch
  PROVE  Place'
<1>1. /\ pc = "collect" /\ pc' = "read" /\ timeStamp' = timeStamp + 1
      /\ UNCHANGED <<realBst, fakeBst, cache, EvictedItems, keys_to_be_deleted, storage_batch,
                     storage_keys, responses, writeBatch, server, keysNotUsed, seen>>
  BY DEF StartBatch, bstVars, storeVars, batchVars
<1>2. LiveKeys' = LiveKeys /\ Current' = Current
  <2>1. LiveKeys' = LiveKeys
    BY <1>1, LiveSame DEF PlaceInv, RunInv
  <2> QED
    BY <1>1, <2>1 DEF Current
<1>3. storage_keys = <<>> /\ Pending = {} /\ PendingKeys = {} /\ Pending' = {} /\ PendingKeys' = {}
  <2>1. storage_keys = <<>>
    BY <1>1 DEF PlaceInv, RunInv, IndexInv, TypeInv, Shape
  <2> QED
    BY <1>1, <2>1 DEF Pending, PendingKeys
<1>4. Used' = Used /\ Discarded' = Discarded /\ Objects' = Objects /\ Fetched' = Fetched
  BY <1>1, <1>2 DEF Used, Discarded, IdSet, Objects, Fetched
<1>5. CacheKeys(cache)' = CacheKeys(cache) /\ IdSet(storage_keys)' = {} /\ IdSet(storage_keys) = {}
  BY <1>1, <1>3 DEF CacheKeys, IdSet
<1>6. Bounded'
  <2>1. timeStamp \in Nat /\ \A id \in Used : id[2] \in Nat
    BY ObjectFacts, UsedIds DEF PlaceInv
  <2>2. \A k \in Objects : Current[k][2] \in Nat
    BY ObjectFacts DEF PlaceInv
  <2> QED
    BY <1>1, <1>2, <1>4, <2>1, <2>2 DEF PlaceInv, Place, Bounded
<1>7. Placed'
  BY <1>1, <1>2, <1>3, <1>4, <1>5 DEF PlaceInv, Place, Placed
<1>8. CacheKeys(cache) \cap Fetched = {}
  BY <1>1 DEF PlaceInv, RunInv, IndexInv, BatchAccounts, OperationsDistinct, Fetched
<1>9. Written' /\ Apart'
  BY <1>1, <1>2, <1>3, <1>4, <1>5, <1>8 DEF PlaceInv, Place, Written, Apart
<1>10. ReadIds' /\ Past' /\ Room'
  BY <1>1, <1>2, <1>3, <1>4, <1>5 DEF PlaceInv, Place, ReadIds, Past, Room
<1> QED
  BY <1>6, <1>7, <1>9, <1>10 DEF Place

\* The key of an id that is appended was not read before.
LEMMA NewlyRead ==
  ASSUME RunInv, KeysDistinct', NEW id, storage_keys' = Append(storage_keys, id)
  PROVE  id[1] \notin ReadKeys
<1>1. storage_keys \in Seq(StorageIds) /\ Len(storage_keys) \in Nat
  BY IndexFacts DEF RunInv
<1> DEFINE L == Len(storage_keys)
<1>2. /\ DOMAIN storage_keys = 1 .. L /\ DOMAIN storage_keys' = 1 .. (L + 1)
      /\ storage_keys'[L + 1] = id
      /\ \A n \in DOMAIN storage_keys : storage_keys'[n] = storage_keys[n] /\ n # L + 1
  BY <1>1
<1>3. \A m, n \in DOMAIN storage_keys' : storage_keys'[m][1] = storage_keys'[n][1] => m = n
  BY DEF KeysDistinct
<1>4. \A n \in DOMAIN storage_keys : n \in DOMAIN storage_keys' /\ L + 1 \in DOMAIN storage_keys'
  BY <1>1, <1>2
<1> HIDE DEF L
<1>5. \A n \in DOMAIN storage_keys : storage_keys[n][1] # id[1]
  BY <1>2, <1>3, <1>4
<1> QED
  BY <1>5 DEF ReadKeys

\* The read of one key that is on the server: its id joins the batch, and its next id has
\* the number of the batch.
IdRead(k) ==
  /\ pc = "read" /\ pc' = "read" /\ k \notin CacheKeys(cache)
  /\ storage_keys' = Append(storage_keys, Current[k]) /\ LiveKeys' = LiveKeys
  /\ \A j \in Keys : Current'[j] = IF j = k THEN <<k, timeStamp>> ELSE Current[j]
  /\ UNCHANGED <<cache, EvictedItems, keys_to_be_deleted, timeStamp, storage_batch, responses,
                 writeBatch, server, keysNotUsed, seen>>

\* Reading an object makes it pending.
LEMMA ReadPlace ==
  ASSUME PlaceInv, RunInv', NEW k \in Objects, IdRead(k)
  PROVE  Place'
<1>0. /\ pc = "read" /\ pc' = "read" /\ k \notin CacheKeys(cache)
      /\ storage_keys' = Append(storage_keys, Current[k]) /\ LiveKeys' = LiveKeys
      /\ \A j \in Keys : Current'[j] = IF j = k THEN <<k, timeStamp>> ELSE Current[j]
      /\ UNCHANGED <<cache, EvictedItems, keys_to_be_deleted, timeStamp, storage_batch, responses,
                     writeBatch, server, keysNotUsed, seen>>
  BY DEF IdRead
<1> DEFINE L == Len(storage_keys)
<1>1. Current[k] \in StorageIds /\ Current[k][1] = k /\ Objects \subseteq Keys /\ timeStamp \in Nat
  BY <1>0, ObjectFacts DEF PlaceInv
<1>2. k \notin ReadKeys /\ k \notin PendingKeys
  BY <1>0, <1>1, NewlyRead, PendingFacts DEF PlaceInv, RunInv, Rest
<1>3. DOMAIN writeBatch = {} /\ DOMAIN EvictedItems = {}
  BY <1>0 DEF PlaceInv, RunInv, IndexInv, BatchAccounts, EvictedWritten, Place, Written
<1>4. Current[k] \in DOMAIN server /\ Current[k] \notin seen
  BY <1>0, <1>2, <1>3 DEF PlaceInv, Place, Placed
<1>5. /\ L \in Nat /\ DOMAIN storage_keys = 1 .. L /\ DOMAIN storage_keys' = 1 .. (L + 1)
      /\ storage_keys'[L + 1] = Current[k]
      /\ \A n \in DOMAIN storage_keys : storage_keys'[n] = storage_keys[n]
  BY <1>0, IndexFacts DEF PlaceInv, RunInv
<1> HIDE DEF L
<1>6. DOMAIN storage_keys' = DOMAIN storage_keys \cup {L + 1}
  BY <1>0, <1>5
<1>7. Pending' = DOMAIN storage_keys' /\ Pending = DOMAIN storage_keys
  BY <1>0 DEF Pending
<1>8. PendingKeys' = PendingKeys \cup {k}
  <2>1. PendingKeys' = {storage_keys'[n][1] : n \in DOMAIN storage_keys'}
    BY <1>0, <1>7 DEF PendingKeys
  <2> QED
    BY <1>0, <1>1, <1>5, <1>6, <1>7, <2>1 DEF PendingKeys
<1>9. Used' = Used /\ Discarded' = Discarded /\ Objects' = Objects /\ Fetched' = Fetched
      /\ CacheKeys(cache)' = CacheKeys(cache)
  BY <1>0 DEF Used, Discarded, IdSet, Objects, Fetched, CacheKeys
<1>10. IdSet(storage_keys)' = IdSet(storage_keys) \cup {Current[k]}
  <2>1. IdSet(storage_keys)' = {storage_keys'[n] : n \in DOMAIN storage_keys'}
    BY <1>0 DEF IdSet
  <2> QED
    BY <1>0, <1>5, <1>6, <2>1 DEF IdSet
<1>11. Bounded'
  BY <1>0, <1>1, <1>9 DEF PlaceInv, Place, Bounded
<1>12. <<k, timeStamp>> \notin Used
  BY <1>0, <1>1 DEF PlaceInv, Place, Bounded
<1>13. Placed'
  <2>1. ASSUME NEW j \in Objects
        PROVE  IF j \in CacheKeys(cache) \cup PendingKeys'
                 THEN Current'[j] \notin Used
                 ELSE Current'[j] \in (DOMAIN server \cup DOMAIN writeBatch) \ seen
    <3>1. CASE j = k
      BY <1>0, <1>1, <1>8, <1>12, <3>1
    <3>2. CASE j # k
      <4>1. Current'[j] = Current[j] /\ (j \in PendingKeys' <=> j \in PendingKeys)
        BY <1>0, <1>1, <1>8, <3>2
      <4> QED
        BY <1>0, <4>1 DEF PlaceInv, Place, Placed
    <3> QED
      BY <1>0, <3>1, <3>2
  <2> QED
    BY <1>0, <1>9, <2>1 DEF Placed
<1>14. Written' /\ Apart'
  BY <1>0, <1>3, <1>8, <1>9 DEF PlaceInv, Place, Written, Apart
<1>15. ReadIds'
  <2>1. \A n \in Pending' : storage_keys'[n] \in DOMAIN server \ Discarded
    BY <1>0, <1>4, <1>5, <1>6, <1>7 DEF PlaceInv, Place, ReadIds
  <2>2. (IdSet(storage_keys) \cup {Current[k]}) \cap seen = {}
    BY <1>0, <1>4 DEF PlaceInv, Place, ReadIds
  <2> QED
    BY <1>0, <1>9, <1>10, <2>1, <2>2 DEF PlaceInv, Place, ReadIds
<1>16. Past' /\ Room'
  BY <1>0, <1>9 DEF PlaceInv, Place, Past, Room
<1> QED
  BY <1>0, <1>11, <1>13, <1>14, <1>15, <1>16 DEF Place

\* setFrequency changes the frequency of its key only.
LEMMA FrequencySet ==
  ASSUME NEW s, NEW k, NEW v
  PROVE  \A j : getFrequency(setFrequency(s, k, v), j) = IF j = k THEN v ELSE getFrequency(s, j)
BY MapEntries DEF getFrequency, setFrequency

\* The three kinds of read.
LEMMA ReadOperationEffect ==
  ASSUME PlaceInv, ReadOperation
  PROVE  \E k \in Objects : IdRead(k)
<1> DEFINE k  == storage_batch[Len(storage_keys) + 1]
<1>1. /\ pc = "read" /\ pc' = "read" /\ Len(storage_keys) < Len(storage_batch)
      /\ storage_keys' = Append(storage_keys, <<k, getFrequency(realBst, k)>>)
      /\ realBst' = setFrequency(realBst, k, timeStamp)
      /\ UNCHANGED <<fakeBst, cache, EvictedItems, keys_to_be_deleted, timeStamp, storage_batch,
                     responses, writeBatch, server, keysNotUsed, seen>>
  BY DEF ReadOperation, storeVars
<1>2. Len(storage_keys) + 1 \in DOMAIN storage_batch
  BY <1>1, IndexFacts DEF PlaceInv, RunInv
<1>3. k \in LiveKeys /\ k \in Fetched
  BY <1>1, <1>2 DEF PlaceInv, RunInv, IndexInv, BatchAccounts, OperationsDistinct, Fetched
<1> HIDE DEF k
<1>4. k \notin CacheKeys(cache)
  BY <1>1, <1>3 DEF PlaceInv, Place, Apart
<1>5. LiveKeys' = LiveKeys
  <2>1. Agrees(realBst') /\ Live(realBst') = Live(realBst)
    BY <1>1, <1>3, IndexFacts, SetFrequencyAgrees, LiveAfter DEF PlaceInv, RunInv
  <2> QED
    BY <2>1, IndexFacts, IndexNext DEF PlaceInv, RunInv
<1>6. k \in Objects /\ k \notin FakeKeys /\ Current[k] = <<k, getFrequency(realBst, k)>>
  BY <1>3, ObjectFacts DEF PlaceInv, Objects
<1>7. \A j \in Keys : Current'[j] = IF j = k THEN <<k, timeStamp>> ELSE Current[j]
  <2>1. \A j : getFrequency(realBst', j) = IF j = k THEN timeStamp ELSE getFrequency(realBst, j)
    BY <1>1, FrequencySet
  <2>2. \A j \in Keys : Current'[j] = <<j, IF j \in FakeKeys THEN getFrequency(fakeBst', j)
                                           ELSE getFrequency(realBst', j)>>
    BY DEF Current, getFrequency
  <2> QED
    BY <1>1, <1>6, <2>1, <2>2 DEF Current
<1>8. IdRead(k)
  BY <1>1, <1>4, <1>5, <1>6, <1>7 DEF IdRead
<1> QED
  BY <1>6, <1>8

\* A real object read as cover is read like any other, or not at all.
LEMMA ReadFakeRealEffect ==
  ASSUME PlaceInv, ReadFakeReal
  PROVE  \/ \E k \in Objects : IdRead(k)
         \/ UNCHANGED <<bstVars, storeVars, timeStamp, pc, batchVars, server, keysNotUsed, seen>>
<1> DEFINE free == {e \in OnServer : ~isPresent(runningKeys, e[1])}
           e    == FirstEntry(free)
           k    == e[1]
<1>1. /\ pc = "read" /\ pc' = "read"
      /\ UNCHANGED <<fakeBst, cache, EvictedItems, keys_to_be_deleted, timeStamp, storage_batch,
                     responses, writeBatch, server, keysNotUsed, seen>>
  BY DEF ReadFakeReal, storeVars
<1>2. CASE free = {}
  BY <1>2 DEF ReadFakeReal, bstVars, batchVars
<1>3. CASE free # {}
  <2>1. /\ storage_keys' = Append(storage_keys, <<k, getFrequency(realBst, k)>>)
        /\ realBst' = setFrequency(realBst, k, timeStamp)
    BY <1>3 DEF ReadFakeReal
  <2>2. OnServer \subseteq realBst.accessTree /\ realBst.accessTree \subseteq RealKeys \X Nat
    BY IndexFacts, SmootherParts DEF PlaceInv, RunInv, OnServer, RealOK
  <2>3. e \in free
    <3>1. free \subseteq (Nat \X Nat) \X Nat
      BY <2>2, KeyTypes
    <3> HIDE DEF free
    <3> QED
      BY <3>1, <1>3, FirstEntryIn
  <2>4. e \in realBst.accessTree /\ k \notin CacheKeys(cache)
    BY <2>3 DEF OnServer
  <2> HIDE DEF free, e
  <2>5. k \in LiveKeys
    BY <2>4, IndexFacts DEF PlaceInv, RunInv, Agrees
  <2> HIDE DEF k
  <2>6. LiveKeys' = LiveKeys
    <3>1. Agrees(realBst') /\ Live(realBst') = Live(realBst)
      BY <2>1, <2>5, IndexFacts, SetFrequencyAgrees, LiveAfter DEF PlaceInv, RunInv
    <3> QED
      BY <3>1, IndexFacts, IndexNext DEF PlaceInv, RunInv
  <2>7. k \in Objects /\ k \notin FakeKeys /\ Current[k] = <<k, getFrequency(realBst, k)>>
    BY <2>5, ObjectFacts DEF PlaceInv, Objects
  <2>8. \A j \in Keys : Current'[j] = IF j = k THEN <<k, timeStamp>> ELSE Current[j]
    <3>1. \A j : getFrequency(realBst', j) = IF j = k THEN timeStamp ELSE getFrequency(realBst, j)
      BY <2>1, FrequencySet
    <3>2. \A j \in Keys : Current'[j] = <<j, IF j \in FakeKeys THEN getFrequency(fakeBst', j)
                                             ELSE getFrequency(realBst', j)>>
      BY DEF Current, getFrequency
    <3> QED
      BY <1>1, <2>7, <3>1, <3>2 DEF Current
  <2>9. IdRead(k)
    BY <1>1, <2>1, <2>4, <2>6, <2>7, <2>8 DEF IdRead, k
  <2> QED
    BY <2>7, <2>9
<1> QED
  BY <1>2, <1>3

\* A fake object is read like any other.
LEMMA ReadFakeEffect ==
  ASSUME PlaceInv, RunInv', ReadFake
  PROVE  \E k \in Objects : IdRead(k)
<1> DEFINE k == getKeyWithMinFrequency(fakeBst)
           L == Len(storage_keys)
<1>1. /\ pc = "read" /\ pc' = "read" /\ L >= NumReal
      /\ storage_keys' = Append(storage_keys, <<k, getFrequency(fakeBst, k)>>)
      /\ fakeBst' = setFrequency(fakeBst, k, timeStamp)
      /\ UNCHANGED <<realBst, cache, EvictedItems, keys_to_be_deleted, timeStamp, storage_batch,
                     responses, writeBatch, server, keysNotUsed, seen>>
  BY DEF ReadFake, storeVars
<1> HIDE DEF k
<1>2. k \in FakeKeys
  <2>1. /\ L \in Nat /\ L + 1 \in DOMAIN storage_keys'
        /\ storage_keys'[L + 1] = <<k, getFrequency(fakeBst, k)>>
    BY <1>1, IndexFacts DEF PlaceInv, RunInv
  <2>2. NumReal' = NumReal /\ NumReal \in Nat
    BY <1>1, NumRealType DEF PlaceInv, RunInv, IndexInv, NumReal, FakeReals
  <2>3. ~(L + 1 <= NumReal')
    BY <1>1, <2>1, <2>2
  <2>4. storage_keys'[L + 1][1] \in IF L + 1 <= NumReal' THEN RealKeys ELSE FakeKeys
    BY <1>1, <2>1 DEF RunInv, IndexInv, TypeInv, Shape
  <2> QED
    BY <2>1, <2>3, <2>4
<1>3. k \in Objects /\ k \notin CacheKeys(cache) /\ Current[k] = <<k, getFrequency(fakeBst, k)>>
  BY <1>2, ObjectFacts DEF PlaceInv, Objects
<1>4. LiveKeys' = LiveKeys
  BY <1>1, LiveSame DEF PlaceInv, RunInv
<1>5. \A j \in Keys : Current'[j] = IF j = k THEN <<k, timeStamp>> ELSE Current[j]
  <2>1. \A j : getFrequency(fakeBst', j) = IF j = k THEN timeStamp ELSE getFrequency(fakeBst, j)
    BY <1>1, FrequencySet
  <2>2. \A j \in Keys : Current'[j] = <<j, IF j \in FakeKeys THEN getFrequency(fakeBst', j)
                                           ELSE getFrequency(realBst', j)>>
    BY DEF Current, getFrequency
  <2> QED
    BY <1>1, <1>2, <2>1, <2>2 DEF Current
<1>6. IdRead(k)
  BY <1>1, <1>3, <1>4, <1>5 DEF IdRead
<1> QED
  BY <1>3, <1>6

-----------------------------------------------------------------------------
(* The batch's two calls to the server and the responses between them        *)

\* GetBatch: all the ids are there, so the call does not fail, and they count as used.
LEMMA GetBatchPlace ==
  ASSUME PlaceInv, GetBatch
  PROVE  Place' /\ status' = "up"
<1> DEFINE ids == IdSet(storage_keys)
<1>1. /\ pc = "read" /\ seen' = seen \cup ids
      /\ UNCHANGED <<realBst, fakeBst, cache, EvictedItems, keys_to_be_deleted, timeStamp,
                     storage_batch, storage_keys, writeBatch, server, keysNotUsed>>
  BY DEF GetBatch, IdSet, bstVars, storeVars
<1>2. Pending = DOMAIN storage_keys /\ PendingKeys = ReadKeys
  BY <1>1, PendingFacts DEF PlaceInv
<1>3. ids \subseteq DOMAIN server \ Discarded
  BY <1>2 DEF PlaceInv, Place, ReadIds, IdSet
<1>4. /\ pc' = "apply" /\ status' = "up"
      /\ responses' = [n \in DOMAIN storage_keys |-> server[storage_keys[n]]]
  BY <1>3 DEF GetBatch, IdSet
<1>5. Cursor' = 1
  <2>1. /\ Len(storage_keys) \in Nat /\ DOMAIN storage_keys = 1 .. Len(storage_keys)
    BY IndexFacts DEF PlaceInv, RunInv
  <2>2. Len(responses') = Len(storage_keys)
    BY <1>4, <2>1
  <2> QED
    BY <1>1, <2>1, <2>2 DEF Cursor
<1>6. Pending' = Pending
  <2>1. \A n \in DOMAIN storage_keys : n >= 1
    BY IndexFacts DEF PlaceInv, RunInv
  <2>2. Pending' = {n \in DOMAIN storage_keys : n >= 1}
    BY <1>1, <1>4, <1>5 DEF Pending
  <2> QED
    BY <1>2, <2>1, <2>2
<1>7. PendingKeys' = PendingKeys
  BY <1>1, <1>6 DEF PendingKeys
<1>8. DOMAIN writeBatch = {} /\ DOMAIN EvictedItems = {}
  BY <1>1 DEF PlaceInv, RunInv, IndexInv, BatchAccounts, EvictedWritten, Place, Written
<1>9. Used' = Used
  BY <1>1, <1>3 DEF Used
<1>10. LiveKeys' = LiveKeys /\ Objects' = Objects /\ Current' = Current
  <2>1. LiveKeys' = LiveKeys
    BY <1>1, LiveSame DEF PlaceInv, RunInv
  <2> QED
    BY <1>1, <2>1 DEF Objects, Current
<1>11. /\ CacheKeys(cache)' = CacheKeys(cache) /\ IdSet(storage_keys)' = ids
       /\ Discarded' = Discarded
  BY <1>1 DEF CacheKeys, IdSet, Discarded
<1>12. Bounded'
  BY <1>1, <1>4, <1>9, <1>10 DEF PlaceInv, Place, Bounded
<1>13. \A j \in Objects : j \notin PendingKeys => Current[j] \notin ids
  BY <1>2, ObjectFacts DEF PlaceInv, IdSet, ReadKeys
<1> HIDE DEF ids
<1>14. Placed'
  BY <1>1, <1>7, <1>9, <1>10, <1>11, <1>13 DEF PlaceInv, Place, Placed
<1>15. Written' /\ Apart'
  BY <1>1, <1>4, <1>7, <1>8, <1>10, <1>11 DEF PlaceInv, Place, Written, Apart
<1>16. ReadIds'
  BY <1>1, <1>4, <1>6, <1>11 DEF PlaceInv, Place, ReadIds
<1>17. Past' /\ Room'
  BY <1>1, <1>9, <1>10 DEF PlaceInv, Place, Past, Room
<1> QED
  BY <1>4, <1>12, <1>14, <1>15, <1>16, <1>17 DEF Place

\* The next response is the only one that is no longer pending after it.
LEMMA PendingNext ==
  ASSUME RunInv, pc = "apply", pc' = "apply", responses # <<>>, responses' = Tail(responses),
         storage_keys' = storage_keys, NEW k, k = storage_keys[Cursor][1]
  PROVE  /\ Cursor \in Pending /\ Pending' \subseteq Pending
         /\ PendingKeys' = PendingKeys \ {k} /\ k \in PendingKeys
<1> DEFINE L == Len(storage_keys)
           M == Len(responses)
<1>1. /\ L \in Nat /\ DOMAIN storage_keys = 1 .. L
      /\ M \in Nat \ {0} /\ Len(responses') = M - 1 /\ M <= L
  <2>1. responses \in Seq(Ciphertexts)
    BY DEF RunInv, IndexInv, TypeInv, TypeOK
  <2>2. Len(responses) <= Len(storage_keys)
    BY DEF RunInv, IndexInv, TypeInv, Shape
  <2> QED
    BY <2>1, <2>2, IndexFacts DEF RunInv
<1>2. Cursor = L - M + 1 /\ Cursor' = L - M + 2
  BY <1>1 DEF Cursor
<1> HIDE DEF L, M
<1>3. /\ Cursor \in Int /\ Cursor' = Cursor + 1 /\ Cursor \in DOMAIN storage_keys
      /\ \A n \in DOMAIN storage_keys : n \in Int
  BY <1>1, <1>2
<1>4. /\ Pending = {n \in DOMAIN storage_keys : n >= Cursor}
      /\ Pending' = {n \in DOMAIN storage_keys : n >= Cursor'}
  BY DEF Pending
<1>5. Cursor \in Pending /\ \A n : n \in Pending' <=> n \in Pending /\ n # Cursor
  BY <1>3, <1>4
<1>6. PendingKeys' = {storage_keys[n][1] : n \in Pending'}
  BY DEF PendingKeys
<1>7. \A n \in Pending : storage_keys[n][1] = k => n = Cursor
  BY <1>3, <1>4 DEF RunInv, Rest, KeysDistinct
<1> QED
  BY <1>5, <1>6, <1>7 DEF PendingKeys

\* A response is applied: the id fixed for x, which leaves the cache or the batch, is
\* written, and nothing else changes its place.
LEMMA ApplyPlace ==
  ASSUME PlaceInv, pc = "apply", pc' = "apply", responses # <<>>, responses' = Tail(responses),
         NEW k, k = storage_keys[Cursor][1], NEW x \in Objects, x \in Objects',
         LiveKeys' \subseteq LiveKeys, \A j \in Objects' : Current'[j] = Current[j],
         x \in CacheKeys(cache) \cup PendingKeys,
         \A j \in Objects' : j \in CacheKeys(cache') \cup PendingKeys' <=>
                               j \in CacheKeys(cache) \cup PendingKeys /\ j # x,
         DOMAIN writeBatch' = DOMAIN writeBatch \cup {Current[x]},
         LiveKeys' \ keys_to_be_deleted' = LiveKeys \ keys_to_be_deleted,
         x \in LiveKeys => x \in DOMAIN EvictedItems' \ keys_to_be_deleted,
         DOMAIN EvictedItems \subseteq DOMAIN EvictedItems',
         UNCHANGED <<timeStamp, storage_keys, server, keysNotUsed, seen>>
  PROVE  (Bounded /\ Placed /\ Written /\ ReadIds /\ Past)'
<1>1. /\ Current[x] \in StorageIds /\ Current[x][1] = x /\ Objects \subseteq Keys
      /\ LiveKeys \subseteq RealKeys /\ RealKeys \cap FakeKeys = {}
      /\ \A j \in Objects : Current[j][1] = j
  BY ObjectFacts DEF PlaceInv
<1>2. Current[x] \notin Used
  BY DEF PlaceInv, Place, Placed
<1>3. Used' = Used \cup {Current[x]} /\ Objects' \subseteq Objects /\ Discarded' = Discarded
  BY DEF Used, Objects, Discarded, IdSet
<1>4. Pending' \subseteq Pending /\ CacheKeys(cache)' = CacheKeys(cache')
      /\ IdSet(storage_keys)' = IdSet(storage_keys)
  BY PendingNext DEF PlaceInv, CacheKeys, IdSet
<1>5. Bounded'
  BY <1>3 DEF PlaceInv, Place, Bounded
<1>6. Placed'
  <2>1. ASSUME NEW j \in Objects'
        PROVE  IF j \in CacheKeys(cache') \cup PendingKeys'
                 THEN Current[j] \notin Used'
                 ELSE Current[j] \in (DOMAIN server \cup DOMAIN writeBatch') \ seen
    <3>1. CASE j = x
      BY <3>1, <1>2 DEF Used
    <3>2. CASE j # x
      <4>1. Current[j] # Current[x] /\ j \in Objects
        BY <1>1, <1>3, <3>2
      <4> QED
        BY <1>3, <3>2, <4>1 DEF PlaceInv, Place, Placed
    <3> QED
      BY <3>1, <3>2
  <2> QED
    BY <1>4, <2>1 DEF Placed
<1>7. Written'
  <2>1. Current[x] \notin seen /\ Current[x] \notin DOMAIN server
    BY <1>2 DEF Used
  <2>2. x \in RealKeys => x \in DOMAIN EvictedItems'
    BY <1>1 DEF Objects
  <2> QED
    BY <1>1, <2>1, <2>2 DEF PlaceInv, Place, Written
<1>8. ReadIds'
  BY <1>3, <1>4 DEF PlaceInv, Place, ReadIds
<1>9. Past'
  <2>1. x \in RealKeys => x \in LiveKeys \ keys_to_be_deleted /\ x[2] <= x[2]
    BY <1>1, KeyTypes DEF Objects
  <2> QED
    BY <1>1, <1>3, <2>1 DEF PlaceInv, Place, Past
<1> QED
  BY <1>5, <1>6, <1>7, <1>8, <1>9

\* Touch leaves the frequencies alone, and removeKey those of the other keys.
LEMMA FrequencyKept ==
  ASSUME NEW s, NEW k
  PROVE  /\ \A j : getFrequency(Touch(s, k), j) = getFrequency(s, j)
         /\ \A j : j # k => getFrequency(removeKey(s, k), j) = getFrequency(s, j)
<1>1. /\ Touch(s, k).accessFreqs = Assign(s.accessFreqs, k, getFrequency(s, k))
      /\ removeKey(s, k).accessFreqs = Erase(s.accessFreqs, k)
  BY DEF Touch, removeKey
<1> QED
  BY <1>1, MapEntries DEF getFrequency

\* ApplyReal: the least recently used entry x leaves the cache and is written back under
\* its next id; the key k enters the cache, or goes if it was doomed.
EntryReplaced(x, k) ==
  /\ pc = "apply" /\ pc' = "apply" /\ responses # <<>> /\ responses' = Tail(responses)
  /\ Cursor <= NumReal
  /\ x \in CacheKeys(cache) /\ k \in LiveKeys
  /\ DOMAIN EvictedItems' = DOMAIN EvictedItems \cup {x}
  /\ DOMAIN writeBatch' = DOMAIN writeBatch \cup {Current[x]}
  /\ keys_to_be_deleted' = keys_to_be_deleted \ {k}
  /\ LiveKeys' = IF k \in keys_to_be_deleted THEN LiveKeys \ {k} ELSE LiveKeys
  /\ CacheKeys(cache') = (CacheKeys(cache) \ {x})
                            \cup (IF k \in keys_to_be_deleted THEN {} ELSE {k})
  /\ Len(cache') = Len(cache) - (IF k \in keys_to_be_deleted THEN 1 ELSE 0)
  /\ \A j \in Objects' : Current'[j] = Current[j]
  /\ UNCHANGED <<fakeBst, timeStamp, storage_batch, storage_keys, server, keysNotUsed, seen>>

\* The least recently used entry makes room for the object that was read.
LEMMA ApplyRealEffect ==
  ASSUME RunInv, ApplyReal, cache # <<>>, NEW x, NEW k,
         x = LREntry(cache, <<NoKey, NoValue>>)[1], k = storage_keys[Cursor][1],
         k \notin CacheKeys(cache)
  PROVE  EntryReplaced(x, k)
<1> DEFINE lr   == LREntry(cache, <<NoKey, NoValue>>)
           bst  == Touch(realBst, x)
           left == evictLRElement(cache)
           v    == decryptNonDeterministic(Head(responses))
           w    == IF k \in CacheKeys(left) THEN CachedValue(left, k) ELSE v
<1>1. /\ pc = "apply" /\ pc' = "apply" /\ responses # <<>> /\ Cursor <= NumReal
      /\ responses' = Tail(responses)
      /\ EvictedItems' = Assign(EvictedItems, x, lr[2])
      /\ writeBatch' = Assign(writeBatch, <<x, getFrequency(realBst, x)>>,
                              encryptNonDeterministic(lr[2]))
      /\ keys_to_be_deleted' = keys_to_be_deleted \ {k}
      /\ IF k \in keys_to_be_deleted
           THEN realBst' = removeKey(bst, k) /\ cache' = left
           ELSE realBst' = bst /\ cache' = insertIntoCache(left, k, w)
      /\ UNCHANGED <<fakeBst, timeStamp, storage_batch, storage_keys, server, keysNotUsed, seen>>
  BY DEF ApplyReal
<1>2. k \in LiveKeys /\ k \in RealKeys
  <2>1. Cursor \in Awaited
    BY <1>1, CursorNext DEF RunInv
  <2> QED
    BY <1>1, <2>1, IndexFacts DEF RunInv, IndexInv, BatchAccounts, AwaitedKnown
<1>3. cache \in Seq(RealKeys \X Payloads) /\ CacheDistinct(cache) /\ Len(cache) \in Nat
  BY IndexFacts DEF RunInv
<1>4. /\ left \in Seq(RealKeys \X Payloads) /\ CacheDistinct(left)
      /\ x \in CacheKeys(cache) /\ CacheKeys(left) = CacheKeys(cache) \ {x}
      /\ Len(left) = Len(cache) - 1
  BY <1>3, EvictLR
<1>5. x \in LiveKeys /\ Current[x] = <<x, getFrequency(realBst, x)>>
  BY <1>4, ObjectFacts
<1>6. w \in Payloads
  <2>1. v \in Payloads
    BY <1>1, CursorType DEF RunInv, IndexInv
  <2> HIDE DEF v, left
  <2> QED
    BY <2>1, <1>4, CachedValueType
<1> HIDE DEF lr, left, v, w
<1>7. /\ DOMAIN EvictedItems' = DOMAIN EvictedItems \cup {x}
      /\ DOMAIN writeBatch' = DOMAIN writeBatch \cup {Current[x]}
  BY <1>1, <1>5 DEF Assign
<1>8. RealOK(bst) /\ Agrees(bst) /\ Live(bst) = LiveKeys
  <2>1. x \in RealKeys \cup {NoKey} /\ x \in Live(realBst) \cup {NoKey}
    BY <1>5, IndexFacts DEF RunInv
  <2> QED
    BY <2>1, IndexFacts, TouchType, TouchAgrees, LiveAfter DEF RealOK, RunInv
<1>9. \A j : getFrequency(bst, j) = getFrequency(realBst, j)
  BY FrequencyKept
<1> HIDE DEF bst
<1>10. LiveKeys' = IF k \in keys_to_be_deleted THEN LiveKeys \ {k} ELSE LiveKeys
  <2>1. CASE k \in keys_to_be_deleted
    <3>1. Agrees(realBst') /\ Live(realBst') = Live(bst) \ {k}
      BY <1>1, <1>2, <1>8, <2>1, RemoveKeyAgrees, LiveAfter
    <3> QED
      BY <1>8, <2>1, <3>1, IndexNext
  <2>2. CASE k \notin keys_to_be_deleted
    BY <1>1, <1>8, <2>2, IndexNext
  <2> QED
    BY <2>1, <2>2
<1>11. \A j : j # k \/ k \notin keys_to_be_deleted =>
                 getFrequency(realBst', j) = getFrequency(realBst, j)
  <2>1. CASE k \in keys_to_be_deleted
    BY <1>1, <1>9, <2>1, FrequencyKept
  <2>2. CASE k \notin keys_to_be_deleted
    BY <1>1, <1>9, <2>2
  <2> QED
    BY <2>1, <2>2
<1>12. \A j \in Objects' : Current'[j] = Current[j]
  <2>1. \A j \in Keys : Current'[j] = <<j, IF j \in FakeKeys THEN getFrequency(fakeBst', j)
                                           ELSE getFrequency(realBst', j)>>
    BY DEF Current, getFrequency
  <2>2. \A j \in Objects' : j \in Keys /\ (j \in FakeKeys \/ j # k \/ k \notin keys_to_be_deleted)
    BY <1>10, ObjectFacts DEF Objects
  <2> QED
    BY <1>1, <1>11, <2>1, <2>2 DEF Current
<1>13. /\ CacheKeys(cache') = (CacheKeys(cache) \ {x})
                                 \cup (IF k \in keys_to_be_deleted THEN {} ELSE {k})
       /\ Len(cache') = Len(cache) - (IF k \in keys_to_be_deleted THEN 1 ELSE 0)
  <2>1. CASE k \in keys_to_be_deleted
    BY <1>1, <1>4, <2>1
  <2>2. CASE k \notin keys_to_be_deleted
    <3>1. cache' = insertIntoCache(left, k, w) /\ k \notin CacheKeys(left)
      BY <1>1, <1>4, <2>2
    <3>2. CacheKeys(cache') = CacheKeys(left) \cup {k} /\ Len(cache') = Len(left) + 1
      BY <1>2, <1>4, <1>6, <3>1, CacheInsert
    <3> QED
      BY <1>3, <1>4, <2>2, <3>2
  <2> QED
    BY <2>1, <2>2
<1> QED
  BY <1>1, <1>2, <1>4, <1>7, <1>10, <1>12, <1>13 DEF EntryReplaced

\* Applying a real object moves two buckets.
LEMMA ApplyRealPlace ==
  ASSUME PlaceInv, CacheSize > 0, ApplyReal
  PROVE  Place'
<1>0. PICK x, k : x = LREntry(cache, <<NoKey, NoValue>>)[1] /\ k = storage_keys[Cursor][1]
  OBVIOUS
<1>1. Len(cache) \in Nat /\ IsFiniteSet(keys_to_be_deleted)
      /\ Cardinality(keys_to_be_deleted) \in Nat /\ CacheSize \in Nat
      /\ CacheSize + Cardinality(keys_to_be_deleted) <= Len(cache)
  BY IndexFacts, FS_CardinalityType, ConstantsAssumption DEF PlaceInv, RunInv, Place, Room
<1>2. cache # <<>>
  BY <1>1
<1>3. k \in PendingKeys /\ PendingKeys' = PendingKeys \ {k} /\ k \notin CacheKeys(cache)
  <2>1. /\ pc = "apply" /\ pc' = "apply" /\ responses # <<>> /\ responses' = Tail(responses)
        /\ storage_keys' = storage_keys
    BY DEF ApplyReal
  <2>2. k \in PendingKeys /\ PendingKeys' = PendingKeys \ {k}
    BY <1>0, <2>1, PendingNext DEF PlaceInv
  <2> QED
    BY <2>2 DEF PlaceInv, Place, Apart
<1>a. EntryReplaced(x, k)
  BY <1>0, <1>2, <1>3, ApplyRealEffect DEF PlaceInv
<1>4. /\ pc = "apply" /\ pc' = "apply" /\ responses # <<>> /\ responses' = Tail(responses)
      /\ Cursor <= NumReal
      /\ x \in CacheKeys(cache) /\ k \in LiveKeys
      /\ DOMAIN EvictedItems' = DOMAIN EvictedItems \cup {x}
      /\ DOMAIN writeBatch' = DOMAIN writeBatch \cup {Current[x]}
      /\ keys_to_be_deleted' = keys_to_be_deleted \ {k}
      /\ LiveKeys' = IF k \in keys_to_be_deleted THEN LiveKeys \ {k} ELSE LiveKeys
      /\ CacheKeys(cache') = (CacheKeys(cache) \ {x})
                                \cup (IF k \in keys_to_be_deleted THEN {} ELSE {k})
      /\ Len(cache') = Len(cache) - (IF k \in keys_to_be_deleted THEN 1 ELSE 0)
      /\ \A j \in Objects' : Current'[j] = Current[j]
      /\ UNCHANGED <<fakeBst, timeStamp, storage_batch, storage_keys, server, keysNotUsed, seen>>
  BY <1>a DEF EntryReplaced
<1>5. /\ CacheKeys(cache) \cap PendingKeys = {}
      /\ DOMAIN EvictedItems \subseteq
           LiveKeys \ (CacheKeys(cache) \cup PendingKeys \cup keys_to_be_deleted)
      /\ \A j \in DOMAIN EvictedItems : Current[j] \in DOMAIN writeBatch
  BY DEF PlaceInv, Place, Apart
<1>6. CacheKeys(cache) \subseteq LiveKeys /\ keys_to_be_deleted \cap CacheKeys(cache) = {}
  BY DEF PlaceInv, RunInv, IndexInv, BatchAccounts, CacheIndexed, DoomedRunning
<1>7. x \in LiveKeys /\ x \in LiveKeys' /\ x # k /\ x \notin PendingKeys /\ x \notin keys_to_be_deleted
  BY <1>3, <1>4, <1>5, <1>6
<1>8. x \in Objects /\ x \in Objects'
  BY <1>7 DEF Objects
<1>9. LiveKeys' \ keys_to_be_deleted' = LiveKeys \ keys_to_be_deleted /\ LiveKeys' \subseteq LiveKeys
  BY <1>4
<1>10. k \notin FakeKeys
  BY <1>4, ObjectFacts DEF PlaceInv
<1>11. ASSUME NEW j \in Objects'
       PROVE  j \in CacheKeys(cache') \cup PendingKeys' <=>
                j \in CacheKeys(cache) \cup PendingKeys /\ j # x
  <2>1. k \in keys_to_be_deleted => j # k
    BY <1>4, <1>10, <1>11 DEF Objects
  <2> QED
    BY <1>3, <1>4, <1>7, <2>1
<1>12. (Bounded /\ Placed /\ Written /\ ReadIds /\ Past)'
  BY <1>0, <1>4, <1>7, <1>8, <1>9, <1>11, ApplyPlace
<1>13. Apart'
  <2>1. CacheKeys(cache') \cap PendingKeys' = {}
    BY <1>3, <1>4, <1>5
  <2>2. DOMAIN EvictedItems' \subseteq
          LiveKeys' \ (CacheKeys(cache') \cup PendingKeys' \cup keys_to_be_deleted')
    BY <1>3, <1>4, <1>5, <1>7
  <2>3. \A j \in DOMAIN EvictedItems' : Current'[j] \in DOMAIN writeBatch'
    <3>1. \A j \in DOMAIN EvictedItems' : Current'[j] = Current[j]
      BY <1>4, <2>2 DEF Objects
    <3> QED
      BY <1>4, <1>5, <3>1
  <2>4. CacheKeys(cache)' = CacheKeys(cache')
    BY DEF CacheKeys
  <2> QED
    BY <1>4, <2>1, <2>2, <2>3, <2>4 DEF Apart
<1>14. Room'
  <2>1. /\ IsFiniteSet(keys_to_be_deleted')
        /\ Cardinality(keys_to_be_deleted') =
             Cardinality(keys_to_be_deleted) - (IF k \in keys_to_be_deleted THEN 1 ELSE 0)
    BY <1>1, <1>4, FS_RemoveElement
  <2> QED
    BY <1>1, <1>4, <2>1 DEF Room
<1> QED
  BY <1>12, <1>13, <1>14 DEF Place

\* Applying a fake one moves none.
LEMMA ApplyFakePlace ==
  ASSUME PlaceInv, ApplyFake
  PROVE  Place'
<1>0. PICK k : k = storage_keys[Cursor][1]
  OBVIOUS
<1>1. /\ pc = "apply" /\ pc' = "apply" /\ responses # <<>> /\ responses' = Tail(responses)
      /\ Cursor > NumReal
      /\ DOMAIN writeBatch' = DOMAIN writeBatch \cup {<<k, getFrequency(fakeBst, k)>>}
      /\ UNCHANGED <<realBst, fakeBst, cache, EvictedItems, keys_to_be_deleted, timeStamp,
                     storage_batch, storage_keys, server, keysNotUsed, seen>>
  BY <1>0 DEF ApplyFake, Assign, bstVars, storeVars
<1>2. k \in FakeKeys
  <2>1. k \in IF Cursor <= NumReal THEN RealKeys ELSE FakeKeys
    BY <1>0, <1>1, CursorType DEF PlaceInv, RunInv, IndexInv
  <2>2. NumReal \in Nat /\ Cursor \in Int
    BY <1>1, NumRealType DEF PlaceInv, RunInv, IndexInv, TypeInv, TypeOK, Cursor
  <2> QED
    BY <1>1, <2>1, <2>2
<1>3. /\ k \in Objects /\ k \notin LiveKeys /\ k \notin CacheKeys(cache)
      /\ Current[k] = <<k, getFrequency(fakeBst, k)>>
  BY <1>2, ObjectFacts DEF PlaceInv, Objects
<1>4. LiveKeys' = LiveKeys /\ Objects' = Objects /\ Current' = Current
  <2>1. LiveKeys' = LiveKeys
    BY <1>1, LiveSame DEF PlaceInv, RunInv
  <2> QED
    BY <1>1, <2>1 DEF Objects, Current
<1>5. k \in PendingKeys /\ PendingKeys' = PendingKeys \ {k}
  BY <1>0, <1>1, PendingNext DEF PlaceInv
<1>6. (Bounded /\ Placed /\ Written /\ ReadIds /\ Past)'
  <2>1. CacheKeys(cache') = CacheKeys(cache)
    BY <1>1
  <2>2. k \in Objects' /\ k \in CacheKeys(cache) \cup PendingKeys
    BY <1>3, <1>4, <1>5
  <2>3. \A j \in Objects' : j \in CacheKeys(cache') \cup PendingKeys' <=>
                              j \in CacheKeys(cache) \cup PendingKeys /\ j # k
    BY <1>3, <1>5, <2>1
  <2>4. /\ LiveKeys' \subseteq LiveKeys /\ \A j \in Objects' : Current'[j] = Current[j]
        /\ LiveKeys' \ keys_to_be_deleted' = LiveKeys \ keys_to_be_deleted
        /\ DOMAIN EvictedItems \subseteq DOMAIN EvictedItems'
        /\ DOMAIN writeBatch' = DOMAIN writeBatch \cup {Current[k]}
    BY <1>1, <1>3, <1>4
  <2> QED
    BY <1>0, <1>1, <1>3, <2>2, <2>3, <2>4, ApplyPlace
<1>7. Apart' /\ Room'
  <2>1. CacheKeys(cache)' = CacheKeys(cache)
    BY <1>1 DEF CacheKeys
  <2> QED
    BY <1>1, <1>4, <1>5, <2>1 DEF PlaceInv, Place, Apart, Room
<1> QED
  BY <1>6, <1>7 DEF Place

\* PutBatch: what was about to be written is on the server.
LEMMA PutBatchPlace ==
  ASSUME PlaceInv, RunInv', PutBatch
  PROVE  Place'
<1>1. /\ pc = "apply" /\ pc' = "clear" /\ responses = <<>>
      /\ DOMAIN server' = DOMAIN server \cup DOMAIN writeBatch
      /\ UNCHANGED <<realBst, fakeBst, cache, keys_to_be_deleted, timeStamp, storage_keys,
                     writeBatch, keysNotUsed, seen>>
  BY DEF PutBatch, Merge, bstVars, batchVars
<1>2. Pending = {} /\ PendingKeys = {} /\ Pending' = {} /\ PendingKeys' = {}
  <2>1. Len(storage_keys) \in Nat /\ DOMAIN storage_keys = 1 .. Len(storage_keys)
        /\ Cursor = Len(storage_keys) + 1
    BY <1>1, IndexFacts DEF PlaceInv, RunInv, Cursor
  <2>2. Pending = {}
    BY <1>1, <2>1 DEF Pending
  <2>3. Pending' = {}
    BY <1>1 DEF Pending
  <2> QED
    BY <2>2, <2>3 DEF PendingKeys
<1>3. LiveKeys' = LiveKeys /\ Objects' = Objects /\ Current' = Current
  <2>1. LiveKeys' = LiveKeys
    BY <1>1, LiveSame DEF PlaceInv, RunInv
  <2> QED
    BY <1>1, <2>1 DEF Objects, Current
<1>4. DOMAIN EvictedItems' = {}
  BY <1>1 DEF RunInv, IndexInv, BatchAccounts, EvictedWritten
<1>5. /\ Used' = Used /\ Discarded' = Discarded /\ CacheKeys(cache)' = CacheKeys(cache)
      /\ IdSet(storage_keys)' = IdSet(storage_keys)
  BY <1>1 DEF Used, Discarded, IdSet, CacheKeys
<1>6. Bounded' /\ Placed'
  BY <1>1, <1>2, <1>3, <1>5 DEF PlaceInv, Place, Bounded, Placed
<1>7. Written' /\ Apart'
  BY <1>1, <1>2, <1>4, <1>5 DEF PlaceInv, Place, Written, Apart
<1>8. ReadIds' /\ Past' /\ Room'
  BY <1>1, <1>2, <1>3, <1>5 DEF PlaceInv, Place, ReadIds, Past, Room
<1> QED
  BY <1>6, <1>7, <1>8 DEF Place

-----------------------------------------------------------------------------
(* The end of a batch and the clear thread                                   *)

\* The clear thread's queue gets the ids of a batch and loses those of the oldest one.
LEMMA DiscardedNext ==
  ASSUME RunInv
  PROVE  /\ keysNotUsed' = Append(keysNotUsed, storage_keys) =>
              Discarded' = Discarded \cup IdSet(storage_keys)
         /\ keysNotUsed # <<>> /\ keysNotUsed' = Tail(keysNotUsed) =>
              Discarded = Discarded' \cup IdSet(Head(keysNotUsed))
<1> DEFINE q == keysNotUsed
           L == Len(q)
<1>1. q \in Seq(Seq(StorageIds)) /\ storage_keys \in Seq(StorageIds)
  BY DEF RunInv, IndexInv, TypeInv, TypeOK
<1>2. L \in Nat /\ DOMAIN q = 1 .. L
  BY <1>1
<1>3. Discarded' = UNION {IdSet(q'[m]) : m \in DOMAIN q'}
  BY DEF Discarded, IdSet
<1>4. ASSUME q' = Append(q, storage_keys)
      PROVE  Discarded' = Discarded \cup IdSet(storage_keys)
  <2>1. /\ DOMAIN q' = 1 .. (L + 1) /\ q'[L + 1] = storage_keys
        /\ \A m \in DOMAIN q : q'[m] = q[m]
    BY <1>1, <1>4
  <2> HIDE DEF q, L
  <2>2. DOMAIN q' = DOMAIN q \cup {L + 1}
    BY <1>2, <2>1
  <2>3. \A x : x \in UNION {IdSet(q'[m]) : m \in DOMAIN q'} <=>
                 x \in IdSet(storage_keys) \/ \E m \in DOMAIN q : x \in IdSet(q[m])
    BY <2>1, <2>2
  <2>4. \A x : x \in Discarded <=> \E m \in DOMAIN q : x \in IdSet(q[m])
    BY DEF Discarded, q
  <2> QED
    BY <1>3, <2>3, <2>4
<1>5. ASSUME q # <<>>, q' = Tail(q)
      PROVE  Discarded = Discarded' \cup IdSet(Head(q))
  <2>1. /\ L > 0 /\ Head(q) = q[1] /\ DOMAIN q' = 1 .. (L - 1)
        /\ \A m \in DOMAIN q' : q'[m] = q[m + 1]
    BY <1>1, <1>5
  <2> HIDE DEF q, L
  <2>2. /\ 1 \in DOMAIN q /\ \A m \in DOMAIN q' : m + 1 \in DOMAIN q
        /\ \A m \in DOMAIN q : m # 1 => m - 1 \in DOMAIN q' /\ q'[m - 1] = q[m]
    BY <1>2, <2>1
  <2>3. \A x : x \in Discarded <=> \E m \in DOMAIN q : x \in IdSet(q[m])
    BY DEF Discarded, q
  <2>4. \A x : x \in Discarded' <=> \E m \in DOMAIN q' : x \in IdSet(q'[m])
    BY <1>3
  <2> QED
    BY <2>1, <2>2, <2>3, <2>4
<1> QED
  BY <1>4, <1>5

\* FinishBatch: the ids that were read are left to the clear thread.
LEMMA FinishBatchPlace ==
  ASSUME PlaceInv, FinishBatch
  PROVE  Place'
<1>1. /\ pc = "clear" /\ pc' = "collect" /\ keysNotUsed' = Append(keysNotUsed, storage_keys)
      /\ storage_keys' = <<>> /\ DOMAIN writeBatch' = {}
      /\ UNCHANGED <<realBst, fakeBst, cache, EvictedItems, keys_to_be_deleted, timeStamp, server,
                     seen>>
  BY DEF FinishBatch, EmptyMap, bstVars, storeVars
<1>2. Pending = {} /\ PendingKeys = {} /\ Pending' = {} /\ PendingKeys' = {}
  BY <1>1 DEF Pending, PendingKeys
<1>3. LiveKeys' = LiveKeys /\ Objects' = Objects /\ Current' = Current
  <2>1. LiveKeys' = LiveKeys
    BY <1>1, LiveSame DEF PlaceInv, RunInv
  <2> QED
    BY <1>1, <2>1 DEF Objects, Current
<1>4. DOMAIN EvictedItems = {} /\ DOMAIN writeBatch \subseteq DOMAIN server
      /\ IdSet(storage_keys) \subseteq seen /\ Discarded \subseteq seen
  BY <1>1 DEF PlaceInv, RunInv, IndexInv, BatchAccounts, EvictedWritten, Place, Written, ReadIds
<1>5. Used' = Used /\ CacheKeys(cache)' = CacheKeys(cache)
  BY <1>1, <1>4 DEF Used, CacheKeys
<1>6. Discarded' = Discarded \cup IdSet(storage_keys)
  BY <1>1, DiscardedNext DEF PlaceInv
<1>7. Bounded' /\ Placed'
  BY <1>1, <1>2, <1>3, <1>4, <1>5 DEF PlaceInv, Place, Bounded, Placed
<1>8. Written' /\ Apart'
  BY <1>1, <1>2, <1>4, <1>5 DEF PlaceInv, Place, Written, Apart
<1>9. ReadIds' /\ Past' /\ Room'
  BY <1>1, <1>2, <1>3, <1>4, <1>5, <1>6 DEF PlaceInv, Place, ReadIds, Past, Room
<1> QED
  BY <1>7, <1>8, <1>9 DEF Place

\* ClearThread: an id that goes was read, so nothing is to be found under it any more.
LEMMA ClearThreadPlace ==
  ASSUME PlaceInv, ClearThread
  PROVE  Place'
<1> DEFINE gone == IdSet(Head(keysNotUsed))
<1>1. /\ keysNotUsed # <<>> /\ keysNotUsed' = Tail(keysNotUsed)
      /\ DOMAIN server' = DOMAIN server \ gone
      /\ UNCHANGED <<realBst, fakeBst, cache, EvictedItems, keys_to_be_deleted, timeStamp, pc,
                     storage_batch, storage_keys, responses, writeBatch, seen>>
  BY DEF ClearThread, EraseAll, bstVars, storeVars, batchVars
<1>2. gone \subseteq Discarded /\ Discarded' \subseteq Discarded
  BY <1>1, DiscardedNext DEF PlaceInv
<1> HIDE DEF gone
<1>3. gone \subseteq seen
  BY <1>2 DEF PlaceInv, Place, ReadIds
<1>4. LiveKeys' = LiveKeys /\ Objects' = Objects /\ Current' = Current
  <2>1. LiveKeys' = LiveKeys
    BY <1>1, LiveSame DEF PlaceInv, RunInv
  <2> QED
    BY <1>1, <2>1 DEF Objects, Current
<1>5. Pending' = Pending /\ PendingKeys' = PendingKeys
  <2>1. Pending' = Pending
    BY <1>1 DEF Pending, Cursor
  <2> QED
    BY <1>1, <2>1 DEF PendingKeys
<1>6. /\ Used' = Used /\ CacheKeys(cache)' = CacheKeys(cache) /\ Fetched' = Fetched
      /\ IdSet(storage_keys)' = IdSet(storage_keys)
  BY <1>1, <1>3 DEF Used, CacheKeys, Fetched, IdSet
<1>7. Bounded' /\ Placed'
  BY <1>1, <1>3, <1>4, <1>5, <1>6 DEF PlaceInv, Place, Bounded, Placed
<1>8. Written' /\ Apart'
  BY <1>1, <1>3, <1>4, <1>5, <1>6 DEF PlaceInv, Place, Written, Apart
<1>9. ReadIds' /\ Past' /\ Room'
  BY <1>1, <1>2, <1>4, <1>5, <1>6 DEF PlaceInv, Place, ReadIds, Past, Room
<1> QED
  BY <1>7, <1>8, <1>9 DEF Place

-----------------------------------------------------------------------------
(* A PUT                                                                     *)

\* PopPut fixes the id of the new key and no other.
LEMMA PopPutCurrent ==
  ASSUME RunInv, RePut = FALSE, NEW k \in RealKeys, NEW version \in Versions, PopPut(k, version),
         StampsOf(realBst, k[1]) # {}, NEW old, old = getOldestKey(realBst, k)
  PROVE  /\ Current'[k] = <<k, timeStamp>> /\ k \notin Objects
         /\ Objects' = (IF Held(old) THEN Objects \ {old} ELSE Objects) \cup {k}
         /\ \A j \in Objects : j # old \/ ~Held(old) => Current'[j] = Current[j]
<1>1. /\ k \notin LiveKeys /\ old \in LiveKeys
      /\ LiveKeys' = (IF Held(old) THEN LiveKeys \ {old} ELSE LiveKeys) \cup {k}
      /\ getFrequency(realBst', k) = timeStamp
      /\ \A j \in LiveKeys : j # old => getFrequency(realBst', j) = getFrequency(realBst, j)
      /\ ~Held(old) => getFrequency(realBst', old) = getFrequency(realBst, old)
  BY PopPutEffect DEF RunInv
<1>2. fakeBst' = fakeBst
  BY DEF PopPut
<1>3. /\ LiveKeys \subseteq RealKeys /\ RealKeys \cap FakeKeys = {} /\ k \in Keys
      /\ Objects \subseteq Keys
  BY ObjectFacts, KeyTypes
<1>4. \A j \in Keys : Current'[j] = <<j, IF j \in FakeKeys THEN getFrequency(fakeBst', j)
                                         ELSE getFrequency(realBst', j)>>
  BY DEF Current, getFrequency
<1>5. Current'[k] = <<k, timeStamp>> /\ k \notin Objects
  BY <1>1, <1>3, <1>4 DEF Objects
<1>6. Objects' = (IF Held(old) THEN Objects \ {old} ELSE Objects) \cup {k}
  <2>1. old \notin FakeKeys
    BY <1>1, <1>3
  <2> QED
    BY <1>1, <2>1 DEF Objects
<1>7. \A j \in FakeKeys : Current'[j] = Current[j]
  BY <1>2, <1>3, <1>4 DEF Current, Objects
<1>8. \A j \in LiveKeys : j # old \/ ~Held(old) => Current'[j] = Current[j]
  <2>1. \A j \in LiveKeys : j \in Keys /\ j \notin FakeKeys
    BY <1>3 DEF Objects
  <2> QED
    BY <1>1, <1>4, <2>1 DEF Current
<1> QED
  BY <1>5, <1>6, <1>7, <1>8 DEF Objects

\* PopPut: a key newer than every bucket of its item has never been used, and its id
\* neither; a doomed bucket makes room for one more in the cache.
LEMMA PopPutPlace ==
  ASSUME PlaceInv, RePut = FALSE, NEW k \in RealKeys, NEW version \in Versions, PopPut(k, version)
  PROVE  Place'
<1>1. /\ pc = "collect" /\ pc' = "collect" /\ \A t \in StampsOf(realBst, k[1]) : t < k[2]
      /\ UNCHANGED <<fakeBst, timeStamp, storage_keys, responses, writeBatch, server, keysNotUsed,
                     seen>>
  BY DEF PopPut, Collecting, Puttable
<1>2. CASE StampsOf(realBst, k[1]) = {}
  <2>1. UNCHANGED <<realBst, cache, EvictedItems, keys_to_be_deleted, storage_batch>>
    BY <1>2 DEF PopPut, storeVars
  <2>2. LiveKeys' = LiveKeys /\ Current' = Current
    BY <1>1, <2>1, LiveSame DEF PlaceInv, RunInv, Current
  <2> QED
    BY <1>1, <2>1, <2>2, SamePlace
<1>3. CASE StampsOf(realBst, k[1]) # {}
  <2>0. PICK old : old = getOldestKey(realBst, k)
    OBVIOUS
  <2> DEFINE drop == Held(old)
  <2>1. /\ IF drop THEN DropHeld(old) ELSE DropLater(old)
        /\ k \notin LiveKeys /\ old \in LiveKeys /\ old[1] = k[1] /\ old[2] < k[2]
        /\ LiveKeys' = (IF drop THEN LiveKeys \ {old} ELSE LiveKeys) \cup {k}
        /\ CacheKeys(cache') =
             (IF drop THEN CacheKeys(cache) \ {old} ELSE CacheKeys(cache)) \cup {k}
        /\ Len(cache') = Len(cache) + (IF drop THEN 0 ELSE 1)
    BY <1>3, <2>0, PopPutEffect DEF PlaceInv, RunInv
  <2>2. /\ keys_to_be_deleted' = keys_to_be_deleted \cup (IF drop THEN {} ELSE {old})
        /\ DOMAIN EvictedItems' \subseteq DOMAIN EvictedItems
    BY <2>1 DEF DropHeld, DropLater, Erase
  <2> HIDE DEF drop
  <2>3. DOMAIN EvictedItems' = {} /\ DOMAIN writeBatch = {}
    BY <1>1, <2>2 DEF PlaceInv, RunInv, IndexInv, BatchAccounts, EvictedWritten, Place, Written
  <2>4. Pending = {} /\ PendingKeys = {} /\ Pending' = {} /\ PendingKeys' = {}
    BY <1>1 DEF Pending, PendingKeys
  <2>5. /\ Used' = Used /\ Discarded' = Discarded /\ CacheKeys(cache)' = CacheKeys(cache')
        /\ IdSet(storage_keys)' = IdSet(storage_keys)
    BY <1>1 DEF Used, Discarded, IdSet, CacheKeys
  <2>6. /\ LiveKeys \subseteq RealKeys /\ k # old /\ timeStamp \in Nat
        /\ \A j \in Objects : Current[j][2] \in Nat
    BY <2>1, ObjectFacts, KeyTypes DEF PlaceInv
  <2>7. /\ Current'[k] = <<k, timeStamp>>
        /\ Objects' = (IF drop THEN Objects \ {old} ELSE Objects) \cup {k}
        /\ \A j \in Objects : j # old \/ ~drop => Current'[j] = Current[j]
    BY <1>3, <2>0, PopPutCurrent DEF PlaceInv, drop
  <2>8. Current'[k] = <<k, timeStamp>>
    BY <2>7
  <2>9. \A j \in Objects' : j # k =>
          j \in Objects /\ Current'[j] = Current[j] /\ (j = old => ~drop)
    BY <2>7
  <2>10. \A id \in Used : id[1] # k
    <3>1. ASSUME NEW id \in Used, id[1] = k
          PROVE  FALSE
      <4>1. PICK j \in LiveKeys : j[1] = k[1] /\ k[2] <= j[2]
        BY <3>1 DEF PlaceInv, Place, Past
      <4>2. j[2] \in StampsOf(realBst, k[1]) /\ j[2] \in Nat /\ k[2] \in Nat
        BY <4>1, IndexFacts, LiveMember, KeyTypes DEF PlaceInv, RunInv
      <4> QED
        BY <1>1, <4>1, <4>2
    <3> QED
      BY <3>1
  <2>11. Bounded'
    BY <1>1, <2>5, <2>6, <2>8, <2>9 DEF PlaceInv, Place, Bounded
  <2>12. Placed'
    <3>1. ASSUME NEW j \in Objects'
          PROVE  IF j \in CacheKeys(cache') THEN Current'[j] \notin Used
                   ELSE Current'[j] \in DOMAIN server \ seen
      <4>1. CASE j = k
        BY <2>1, <2>8, <2>10, <4>1
      <4>2. CASE j # k
        <5>1. j \in Objects /\ Current'[j] = Current[j]
          BY <2>9, <4>2
        <5>2. j \in CacheKeys(cache') <=> j \in CacheKeys(cache)
          BY <2>1, <2>9, <4>2
        <5> QED
          BY <2>3, <2>4, <5>1, <5>2 DEF PlaceInv, Place, Placed
      <4> QED
        BY <4>1, <4>2
    <3> QED
      BY <1>1, <2>3, <2>4, <2>5, <3>1 DEF Placed
  <2>13. Written' /\ Apart' /\ ReadIds'
    BY <1>1, <2>3, <2>4, <2>5 DEF PlaceInv, Place, Written, Apart, ReadIds
  <2>14. Past'
    <3>1. ASSUME NEW id \in Used, id[1] \in RealKeys
          PROVE  \E j \in LiveKeys' \ keys_to_be_deleted' : j[1] = id[1][1] /\ id[1][2] <= j[2]
      <4>1. PICK j \in LiveKeys \ keys_to_be_deleted : j[1] = id[1][1] /\ id[1][2] <= j[2]
        BY <3>1 DEF PlaceInv, Place, Past
      <4>2. CASE j = old
        <5>1. k[1] = id[1][1] /\ id[1][2] <= k[2]
          <6>1. id[1][2] \in Nat /\ old[2] \in Nat /\ k[2] \in Nat
            BY <2>1, <2>6, <3>1, KeyTypes
          <6> QED
            BY <2>1, <4>1, <4>2, <6>1
        <5>2. k \in LiveKeys' \ keys_to_be_deleted'
          <6>1. k \notin keys_to_be_deleted
            BY <2>1 DEF PlaceInv, RunInv, IndexInv, BatchAccounts, DoomedRunning
          <6> QED
            BY <2>1, <2>2, <2>6, <6>1
        <5> QED
          BY <5>1, <5>2
      <4>3. CASE j # old
        BY <2>1, <2>2, <4>1, <4>3
      <4> QED
        BY <4>2, <4>3
    <3> QED
      BY <2>5, <3>1 DEF Past
  <2>15. Room'
    <3>1. /\ IsFiniteSet(keys_to_be_deleted) /\ Cardinality(keys_to_be_deleted) \in Nat
          /\ Len(cache) \in Nat /\ CacheSize \in Nat
          /\ CacheSize + Cardinality(keys_to_be_deleted) <= Len(cache)
      BY IndexFacts, FS_CardinalityType, ConstantsAssumption DEF PlaceInv, RunInv, Place, Room
    <3>2. CASE drop
      BY <2>1, <2>2, <3>1, <3>2 DEF Room
    <3>3. CASE ~drop
      <4>1. keys_to_be_deleted' = keys_to_be_deleted \cup {old}
        BY <2>2, <3>3
      <4>2. /\ IsFiniteSet(keys_to_be_deleted')
            /\ Cardinality(keys_to_be_deleted') = IF old \in keys_to_be_deleted
                 THEN Cardinality(keys_to_be_deleted) ELSE Cardinality(keys_to_be_deleted) + 1
        BY <3>1, <4>1, FS_AddElement
      <4> QED
        BY <2>1, <3>1, <3>3, <4>2 DEF Room
    <3> QED
      BY <3>2, <3>3
  <2> QED
    BY <2>11, <2>12, <2>13, <2>14, <2>15 DEF Place
<1> QED
  BY <1>2, <1>3

-----------------------------------------------------------------------------
(* Every step keeps the places, and the properties follow                    *)

\* Every step keeps each bucket in one place.
LEMMA NextPlace ==
  ASSUME RePut = FALSE, CacheSize > 0
  PROVE  PlaceInv /\ [Next]_vars => PlaceInv'
<1> SUFFICES ASSUME PlaceInv, [Next]_vars
             PROVE  PlaceInv'
  OBVIOUS
<1>1. RunInv'
  BY NextRun DEF PlaceInv
<1>2. SUFFICES Place'
  BY <1>1 DEF PlaceInv
<1>3. CASE UNCHANGED vars \/ SubGet
  BY <1>3, QuietPlace DEF vars
<1>4. CASE Poll
  BY <1>3, <1>4 DEF Poll
<1>5. CASE Pop
  BY <1>5, QuietPlace, PopPutPlace DEF Pop
<1>6. CASE ReadOperation \/ ReadFakeReal \/ ReadFake
  BY <1>1, <1>6, ReadPlace, QuietPlace, ReadOperationEffect, ReadFakeRealEffect, ReadFakeEffect
<1>7. CASE StartBatch \/ GetBatch \/ ApplyReal \/ ApplyFake \/ PutBatch \/ FinishBatch
  BY <1>1, <1>7, StartBatchPlace, GetBatchPlace, ApplyRealPlace, ApplyFakePlace, PutBatchPlace,
     FinishBatchPlace
<1>8. CASE ExecuteBatch
  BY <1>6, <1>7, <1>8, QuietPlace DEF ExecuteBatch
<1>9. CASE ClearThread
  BY <1>9, ClearThreadPlace
<1> QED
  BY <1>3, <1>4, <1>5, <1>8, <1>9 DEF Next

\* Each bucket is always in one place.
LEMMA PlaceInvariant ==
  ASSUME RePut = FALSE, CacheSize > 0
  PROVE  Spec => []PlaceInv
<1>1. PlaceInv /\ [Next]_vars => PlaceInv'
  BY NextPlace
<1> QED
  BY <1>1, InitPlace, PTL DEF Spec

\* The ids of the responses still to come.
LEMMA InFlightPending == RunInv => InFlight = {storage_keys[n] : n \in Pending}
<1> SUFFICES ASSUME RunInv
             PROVE  InFlight = {storage_keys[n] : n \in Pending}
  OBVIOUS
<1>1. /\ Len(storage_keys) \in Nat /\ Len(responses) \in Nat
      /\ DOMAIN storage_keys = 1 .. Len(storage_keys)
  BY IndexFacts DEF RunInv, IndexInv, TypeInv, TypeOK
<1>2. \A n \in DOMAIN storage_keys : n > Len(storage_keys) - Len(responses) <=> n >= Cursor
  BY <1>1 DEF Cursor
<1> QED
  BY <1>2 DEF InFlight, Pending

\* Where the payload of a bucket is to be found on the server.
LEMMA IdOfPlace ==
  ASSUME PlaceInv, NEW k \in LiveKeys
  PROVE  IF k \in PendingKeys THEN IdOf(k) \in DOMAIN server \ Discarded
                              ELSE IdOf(k) = Current[k]
<1>1. InFlight = {storage_keys[n] : n \in Pending}
  BY InFlightPending DEF PlaceInv
<1>2. k \in PendingKeys <=> \E id \in InFlight : id[1] = k
  BY <1>1 DEF PendingKeys
<1>3. \A id \in InFlight : id \in DOMAIN server \ Discarded
  BY <1>1 DEF PlaceInv, Place, ReadIds
<1>4. Current[k] = <<k, getFrequency(realBst, k)>>
  BY ObjectFacts DEF PlaceInv
<1> QED
  BY <1>2, <1>3, <1>4 DEF IdOf

\* With PUTs in time order and a cache that holds a bucket, for every batch size and every
\* interleaving: each bucket the index knows is in exactly one of cache, write-back buffer
\* and server, and on the server under the id the proxy will ask for.
THEOREM BucketsInOnePlace ==
  ASSUME RePut = FALSE, CacheSize > 0
  PROVE  Spec => []NothingLost
<1>1. ASSUME PlaceInv, NEW k \in LiveKeys
      PROVE  /\ Cardinality({n \in DOMAIN cache : cache[n][1] = k}) <= 1
             /\ k \in CacheKeys(cache) => k \notin DOMAIN EvictedItems /\ ~Stored(k)
             /\ k \in DOMAIN EvictedItems => ~Stored(k)
             /\ Held(k) \/ Stored(k)
  <2>1. k \in Objects /\ k \in RealKeys /\ Current[k][1] = k
    BY <1>1, ObjectFacts DEF PlaceInv, Objects
  <2>2. Cardinality({n \in DOMAIN cache : cache[n][1] = k}) <= 1
    <3> DEFINE S == {n \in DOMAIN cache : cache[n][1] = k}
    <3>1. \A m, n \in S : m = n
      BY <1>1 DEF PlaceInv, RunInv, IndexInv, BatchAccounts, CacheIndexed
    <3> SUFFICES Cardinality(S) <= 1
      OBVIOUS
    <3> HIDE DEF S
    <3>2. CASE S = {}
      BY <3>2, FS_EmptySet
    <3>3. CASE S # {}
      <4>1. PICK n \in S : TRUE
        BY <3>3
      <4>2. S = {n}
        BY <3>1, <4>1
      <4>3. Cardinality({n}) = 1
        BY FS_Singleton
      <4> QED
        BY <4>2, <4>3
    <3> QED
      BY <3>2, <3>3
  <2>3. k \in CacheKeys(cache) => k \notin DOMAIN EvictedItems /\ ~Stored(k)
    <3>1. SUFFICES ASSUME k \in CacheKeys(cache)
                   PROVE  k \notin DOMAIN EvictedItems /\ ~Stored(k)
      OBVIOUS
    <3>2. k \notin DOMAIN EvictedItems /\ k \notin PendingKeys
      BY <1>1, <3>1 DEF PlaceInv, Place, Apart
    <3>3. Current[k] \notin Used
      BY <1>1, <2>1, <3>1 DEF PlaceInv, Place, Placed
    <3> QED
      BY <1>1, <3>2, <3>3, IdOfPlace DEF Stored, Used
  <2>4. k \in DOMAIN EvictedItems => ~Stored(k)
    <3>1. SUFFICES ASSUME k \in DOMAIN EvictedItems
                   PROVE  ~Stored(k)
      OBVIOUS
    <3>2. pc = "apply" /\ k \notin PendingKeys /\ Current[k] \in DOMAIN writeBatch
      BY <1>1, <3>1 DEF PlaceInv, RunInv, IndexInv, BatchAccounts, EvictedWritten, Place, Apart
    <3>3. Current[k] \notin DOMAIN server
      BY <1>1, <3>2 DEF PlaceInv, Place, Written
    <3> QED
      BY <1>1, <3>2, <3>3, IdOfPlace DEF Stored
  <2>5. Held(k) \/ Stored(k)
    <3>1. SUFFICES ASSUME k \notin CacheKeys(cache), k \notin DOMAIN EvictedItems
                   PROVE  Stored(k)
      BY DEF Held
    <3>2. CASE k \in PendingKeys
      BY <1>1, <3>2, IdOfPlace DEF Stored
    <3>3. CASE k \notin PendingKeys
      <4>1. Current[k] \in DOMAIN server \cup DOMAIN writeBatch
        BY <1>1, <2>1, <3>1, <3>3 DEF PlaceInv, Place, Placed
      <4>2. pc \in {"collect", "split", "read", "apply", "clear"}
        BY <1>1 DEF PlaceInv, RunInv, IndexInv, TypeInv, TypeOK
      <4>3. Current[k] \in DOMAIN writeBatch => Current[k] \in DOMAIN server
        BY <1>1, <2>1, <3>1, <4>2 DEF PlaceInv, Place, Written
      <4> QED
        BY <1>1, <3>3, <4>1, <4>3, IdOfPlace DEF Stored
    <3> QED
      BY <3>2, <3>3
  <2> QED
    BY <2>2, <2>3, <2>4, <2>5
<1>2. PlaceInv => NothingLost
  BY <1>1 DEF NothingLost
<1> QED
  BY <1>2, PlaceInvariant, PTL

\* Under the same conditions no storage id is asked for twice, in one batch or over the
\* whole run, and none is written that was read or written before.
THEOREM IdsUsedOnce ==
  ASSUME RePut = FALSE, CacheSize > 0
  PROVE  Spec => []IdsFresh
<1>1. PlaceInv => IdsFresh
  <2> SUFFICES ASSUME PlaceInv
               PROVE  IdsFresh
    OBVIOUS
  <2>1. \A m, n \in DOMAIN storage_keys : storage_keys[m] = storage_keys[n] => m = n
    BY DEF PlaceInv, RunInv, Rest, KeysDistinct
  <2>2. pc = "read" => \A n \in DOMAIN storage_keys : storage_keys[n] \notin seen
    BY DEF PlaceInv, Place, ReadIds, IdSet
  <2>3. pc = "apply" => DOMAIN writeBatch \cap (seen \cup DOMAIN server) = {}
    BY DEF PlaceInv, Place, Written
  <2> QED
    BY <2>1, <2>2, <2>3 DEF IdsFresh
<1> QED
  BY <1>1, PlaceInvariant, PTL

\* Under the same conditions the clear thread, however far it is behind, deletes no id
\* under which a bucket or a fake object is to be found, or is about to be written.
THEOREM ClearThreadSafe ==
  ASSUME RePut = FALSE, CacheSize > 0
  PROVE  Spec => []DiscardedDead
<1>1. ASSUME PlaceInv, NEW id \in Discarded
      PROVE  /\ id \notin DOMAIN writeBatch
             /\ id[1] \in LiveKeys => id # IdOf(id[1])
             /\ id[1] \in FakeKeys => id # <<id[1], getFrequency(fakeBst, id[1])>>
  <2>1. id \in seen /\ id \in Used
    BY <1>1 DEF PlaceInv, Place, ReadIds, Used
  <2>2. id \notin DOMAIN writeBatch
    BY <1>1, <2>1 DEF PlaceInv, Place, Written
  <2>3. \A k \in Objects : id # Current[k]
    BY <1>1, <2>1 DEF PlaceInv, Place, Placed
  <2>4. \A k \in LiveKeys : id # IdOf(k)
    BY <1>1, <2>3, IdOfPlace DEF Objects
  <2>5. \A k \in FakeKeys : id # <<k, getFrequency(fakeBst, k)>>
    BY <1>1, <2>3, ObjectFacts DEF PlaceInv, Objects
  <2> QED
    BY <2>2, <2>4, <2>5
<1>2. PlaceInv => DiscardedDead
  BY <1>1 DEF DiscardedDead
<1> QED
  BY <1>2, PlaceInvariant, PTL
=============================================================================
