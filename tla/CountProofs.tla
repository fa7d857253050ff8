----------------------------- MODULE CountProofs -----------------------------
(***************************************************************************)
(* How many: the buckets of an item, the objects on the server, the ids a  *)
(* batch reads and writes, and, from these numbers, that the proxy never   *)
(* stops and that no object waits on the server without bound.             *)
(*                                                                         *)
(* A PUT caches a bucket before the bucket it replaces is gone, so neither *)
(* the number of buckets nor the length of the cache is constant; their    *)
(* difference is (Balanced).  It is the number of buckets on the server,   *)
(* and bounds the real keys a batch can read, in size_t arithmetic too.    *)
(***************************************************************************)
EXTENDS StoreProofs

\* What the counting needs: clients put in time order, the cache holds a bucket, and the
\* loaded buckets can be counted in a size_t.
Countable ==
  /\ RePut = FALSE /\ CacheSize > 0
  /\ IsFiniteSet(InitKeys) /\ Cardinality(InitKeys) < SizeMax

Balanced ==
  /\ IsFiniteSet(LiveKeys)
  /\ Cardinality(LiveKeys) = Len(cache) + NumStored

\* An id on the server is the current one of a key, or was read and is to be deleted.
Accounted ==
  /\ DOMAIN server \subseteq Discarded \cup IdSet(storage_keys) \cup {Current[k] : k \in Objects}
  /\ DOMAIN writeBatch \subseteq {Current[k] : k \in Objects}

\* The ids in the write batch, of which the fake ones come last.
FakeWritten == {id \in DOMAIN writeBatch : IsFake(id)}
Metered ==
  pc = "apply" =>
    /\ NumReal = B - F /\ Len(storage_keys) = B
    /\ IsFiniteSet(DOMAIN writeBatch) /\ Cardinality(DOMAIN writeBatch) = Cursor - 1
    /\ Cardinality(FakeWritten) = IF Cursor - 1 <= NumReal THEN 0 ELSE Cursor - 1 - NumReal

Counts   == Balanced /\ Accounted /\ Metered /\ ItemsKeepBuckets
CountInv == PlaceInv /\ Counts

-----------------------------------------------------------------------------
(* The numbers of buckets                                                    *)

\* A part of a finite set.
LEMMA PartCard ==
  ASSUME NEW S, IsFiniteSet(S), NEW T, T \subseteq S
  PROVE  IsFiniteSet(T) /\ Cardinality(T) \in Nat /\ Cardinality(T) <= Cardinality(S)
<1>1. T \in SUBSET S
  OBVIOUS
<1> QED
  BY <1>1, FS_Subset, FS_CardinalityType

\* A function that gives different elements different values, and one that reaches every
\* element too.
LEMMA IntoCard ==
  ASSUME NEW S, NEW T, IsFiniteSet(T), NEW f \in [S -> T], \A a, b \in S : f[a] = f[b] => a = b
  PROVE  IsFiniteSet(S) /\ Cardinality(S) <= Cardinality(T)
<1>1. f \in Injection(S, T)
  BY DEF Injection, IsInjective
<1> QED
  BY <1>1, FS_Injection

\* A bijection keeps the number of elements.
LEMMA OntoCard ==
  ASSUME NEW S, NEW T, IsFiniteSet(S), NEW f \in [S -> T], \A a, b \in S : f[a] = f[b] => a = b,
         \A t \in T : \E s \in S : f[s] = t
  PROVE  IsFiniteSet(T) /\ Cardinality(T) = Cardinality(S)
<1>1. f \in Injection(S, T) /\ f \in Surjection(S, T)
  BY DEF Injection, IsInjective, Surjection
<1> QED
  BY <1>1, FS_Surjection

\* The numbers up to n.
LEMMA UpToCard ==
  ASSUME NEW n \in Nat
  PROVE  IsFiniteSet(1 .. n) /\ Cardinality(1 .. n) = n
<1>1. /\ IsFiniteSet(1 .. n)
      /\ Cardinality(1 .. n) = IF 1 > n THEN 0 ELSE n - 1 + 1
  BY FS_Interval
<1> QED
  BY <1>1

\* The cache holds each key once.
LEMMA CacheCard ==
  ASSUME RunInv
  PROVE  IsFiniteSet(CacheKeys(cache)) /\ Cardinality(CacheKeys(cache)) = Len(cache)
<1> DEFINE L == Len(cache)
           f == [n \in 1 .. L |-> cache[n][1]]
<1>1. L \in Nat /\ DOMAIN cache = 1 .. L
  BY IndexFacts DEF RunInv
<1>2. f \in [1 .. L -> CacheKeys(cache)] /\ \A t \in CacheKeys(cache) : \E n \in 1 .. L : f[n] = t
  BY <1>1 DEF CacheKeys
<1>3. \A m, n \in 1 .. L : f[m] = f[n] => m = n
  BY <1>1 DEF RunInv, IndexInv, BatchAccounts, CacheIndexed
<1>4. IsFiniteSet(1 .. L) /\ Cardinality(1 .. L) = L
  BY <1>1, UpToCard
<1> HIDE DEF L, f
<1> QED
  BY <1>2, <1>3, <1>4, OntoCard DEF L

\* The number of fake keys.
LEMMA FakesCard == IsFiniteSet(FakeKeys) /\ Cardinality(FakeKeys) = D /\ D \in Nat
<1>1. D \in Nat
  BY ConstantsAssumption
<1>2. IsFiniteSet(1 .. D) /\ Cardinality(1 .. D) = D
  BY <1>1, UpToCard
<1>3. IsFiniteSet({0}) /\ Cardinality({0}) = 1
  BY FS_Singleton
<1>4. /\ IsFiniteSet({0} \X (1 .. D))
      /\ Cardinality({0} \X (1 .. D)) = Cardinality({0}) * Cardinality(1 .. D)
  BY <1>2, <1>3, FS_Product
<1> QED
  BY <1>1, <1>2, <1>3, <1>4 DEF FakeKeys

\* The number of buckets that are not in the cache.
LEMMA StoredCard ==
  ASSUME RunInv, Balanced, Countable
  PROVE  /\ IsFiniteSet(LiveKeys \ CacheKeys(cache))
         /\ Cardinality(LiveKeys \ CacheKeys(cache)) = NumStored
         /\ NumStored \in Nat /\ NumStored < SizeMax
<1>1. LiveKeys \cap CacheKeys(cache) = CacheKeys(cache)
  BY ObjectFacts
<1>2. /\ IsFiniteSet(LiveKeys \ CacheKeys(cache))
      /\ Cardinality(LiveKeys \ CacheKeys(cache)) = Cardinality(LiveKeys) - Len(cache)
  <2>1. /\ IsFiniteSet(LiveKeys \ CacheKeys(cache))
        /\ Cardinality(LiveKeys \ CacheKeys(cache)) =
             Cardinality(LiveKeys) - Cardinality(LiveKeys \cap CacheKeys(cache))
    BY FS_Difference DEF Balanced
  <2> QED
    BY <1>1, <2>1, CacheCard
<1>3. Cardinality(LiveKeys) = Len(cache) + NumStored /\ Len(cache) \in Nat /\ NumStored \in Int
  BY IndexFacts, FS_CardinalityType, ConstantsAssumption DEF RunInv, Balanced, NumStored, Countable
<1>4. Cardinality(LiveKeys \ CacheKeys(cache)) = NumStored
  BY <1>2, <1>3
<1>5. NumStored \in Nat
  BY <1>2, <1>4, FS_CardinalityType
<1>6. NumStored < SizeMax
  BY <1>5, FS_CardinalityType, ConstantsAssumption DEF NumStored, Countable
<1> QED
  BY <1>2, <1>4, <1>5, <1>6

\* They leave the numbers of buckets alone.
LEMMA SameBuckets ==
  ASSUME Balanced, ItemsKeepBuckets, LiveKeys' = LiveKeys,
         UNCHANGED <<cache, keys_to_be_deleted>>
  PROVE  Balanced' /\ ItemsKeepBuckets'
<1>1. \A item \in Items : BucketCount(item)' = BucketCount(item)
  BY DEF BucketCount
<1> QED
  BY <1>1 DEF Balanced, ItemsKeepBuckets

\* init gives every item its buckets.
LEMMA InitBuckets ==
  ASSUME Countable, Init
  PROVE  /\ Balanced /\ ItemsKeepBuckets
         /\ LiveKeys = InitKeys /\ PlaceInv
<1>1. PlaceInv
  BY InitPlace
<1>2. LiveKeys = InitKeys
  <2>1. LiveKeys = DOMAIN realBst.accessFreqs \ {NoKey}
    BY <1>1, IndexFacts DEF PlaceInv, RunInv
  <2>2. realBst = Loaded(InitKeys, LoadedStamps)
    BY DEF Init
  <2> QED
    BY <2>1, <2>2, KeyTypes, ConstantsAssumption DEF Loaded
<1>3. Len(cache) = CacheSize
  <2>1. PICK c \in Placements : cache = [n \in 1 .. CacheSize |-> <<c[n], <<c[n], InitVersion>>>>]
    BY DEF Init
  <2> QED
    BY <2>1, ConstantsAssumption
<1>4. Balanced
  BY <1>2, <1>3, FS_CardinalityType, ConstantsAssumption DEF Balanced, NumStored, Countable
<1>5. ItemsKeepBuckets
  <2>1. keys_to_be_deleted = {}
    BY DEF Init
  <2>2. ASSUME NEW item \in Items
        PROVE  BucketCount(item) >= Loadeds(item)
    <3> DEFINE S == {k \in InitKeys : k[1] = item}
    <3>1. {k \in LiveKeys \ keys_to_be_deleted : k[1] = item} = S
      BY <1>2, <2>1
    <3>2. S \subseteq InitKeys /\ BucketCount(item) = Cardinality(S) /\ Loadeds(item) = Cardinality(S)
      BY <3>1 DEF BucketCount, Loadeds
    <3> HIDE DEF S
    <3>3. Cardinality(S) \in Nat
      BY <3>2, PartCard DEF Countable
    <3> QED
      BY <3>2, <3>3
  <2> QED
    BY <2>2 DEF ItemsKeepBuckets
<1> QED
  BY <1>1, <1>2, <1>4, <1>5

\* PopPut: one bucket more in the index for one more in the cache, and for its item one
\* bucket that stays for one that goes.
LEMMA PopPutBuckets ==
  ASSUME CountInv, Countable, NEW k \in RealKeys, NEW version \in Versions, PopPut(k, version),
         StampsOf(realBst, k[1]) # {}
  PROVE  Balanced' /\ ItemsKeepBuckets'
<1>0. PICK old : old = getOldestKey(realBst, k)
  OBVIOUS
<1> DEFINE drop == Held(old)
<1>1. /\ IF drop THEN DropHeld(old) ELSE DropLater(old)
      /\ k \notin LiveKeys /\ old \in LiveKeys /\ old[1] = k[1] /\ old[2] < k[2]
      /\ LiveKeys' = (IF drop THEN LiveKeys \ {old} ELSE LiveKeys) \cup {k}
      /\ Len(cache') = Len(cache) + (IF drop THEN 0 ELSE 1)
  BY <1>0, PopPutEffect DEF CountInv, PlaceInv, RunInv, Countable
<1>2. keys_to_be_deleted' = keys_to_be_deleted \cup (IF drop THEN {} ELSE {old})
  BY <1>1 DEF DropHeld, DropLater
<1> HIDE DEF drop
<1>3. k # old /\ k \notin keys_to_be_deleted
  BY <1>1 DEF CountInv, PlaceInv, RunInv, IndexInv, BatchAccounts, DoomedRunning
<1>4. /\ IsFiniteSet(LiveKeys) /\ Cardinality(LiveKeys) \in Nat
      /\ Cardinality(LiveKeys) = Len(cache) + NumStored
      /\ Len(cache) \in Nat /\ NumStored \in Int
  BY IndexFacts, FS_CardinalityType, ConstantsAssumption
     DEF CountInv, PlaceInv, RunInv, Counts, Balanced, NumStored, Countable
<1>5. Balanced'
  <2>1. CASE drop
    <3>1. IsFiniteSet(LiveKeys \ {old}) /\ Cardinality(LiveKeys \ {old}) = Cardinality(LiveKeys) - 1
      BY <1>1, <1>4, FS_RemoveElement
    <3>2. /\ IsFiniteSet((LiveKeys \ {old}) \cup {k})
          /\ Cardinality((LiveKeys \ {old}) \cup {k}) = Cardinality(LiveKeys \ {old}) + 1
      BY <1>1, <3>1, FS_AddElement
    <3> QED
      BY <1>1, <1>4, <2>1, <3>1, <3>2 DEF Balanced
  <2>2. CASE ~drop
    <3>1. /\ IsFiniteSet(LiveKeys \cup {k})
          /\ Cardinality(LiveKeys \cup {k}) = Cardinality(LiveKeys) + 1
      BY <1>1, <1>4, FS_AddElement
    <3> QED
      BY <1>1, <1>4, <2>2, <3>1 DEF Balanced
  <2> QED
    BY <2>1, <2>2
<1>6. ASSUME NEW item \in Items
      PROVE  BucketCount(item)' >= Loadeds(item)
  <2> DEFINE S == {j \in LiveKeys \ keys_to_be_deleted : j[1] = item}
             T == {j \in LiveKeys' \ keys_to_be_deleted' : j[1] = item}
  <2>1. BucketCount(item) = Cardinality(S) /\ BucketCount(item)' = Cardinality(T)
    BY DEF BucketCount
  <2>2. /\ IsFiniteSet(S) /\ Cardinality(S) \in Nat /\ Loadeds(item) \in Nat
        /\ Cardinality(S) >= Loadeds(item)
    <3>1. S \subseteq LiveKeys
      OBVIOUS
    <3> HIDE DEF S
    <3>2. IsFiniteSet(S) /\ Cardinality(S) \in Nat
      BY <1>4, <3>1, PartCard
    <3> DEFINE I == {j \in InitKeys : j[1] = item}
    <3>3. I \subseteq InitKeys /\ Loadeds(item) = Cardinality(I)
      BY DEF Loadeds
    <3> HIDE DEF I
    <3>4. Loadeds(item) \in Nat
      BY <3>3, PartCard DEF Countable
    <3> QED
      BY <2>1, <3>2, <3>4 DEF CountInv, Counts, ItemsKeepBuckets
  <2>3. \A j : j \in LiveKeys' \ keys_to_be_deleted' <=>
                 (j \in LiveKeys \ keys_to_be_deleted /\ j # old) \/ j = k
    BY <1>1, <1>2, <1>3
  <2>4. CASE item = k[1]
    <3>1. T = (S \ {old}) \cup {k} /\ k \notin S
      BY <1>1, <2>3, <2>4
    <3> HIDE DEF S, T
    <3>2. /\ IsFiniteSet(S \ {old})
          /\ Cardinality(S \ {old}) = IF old \in S THEN Cardinality(S) - 1 ELSE Cardinality(S)
      BY <2>2, FS_RemoveElement
    <3>3. Cardinality((S \ {old}) \cup {k}) = Cardinality(S \ {old}) + 1
      BY <3>1, <3>2, FS_AddElement
    <3> QED
      BY <2>1, <2>2, <3>1, <3>2, <3>3
  <2>5. CASE item # k[1]
    <3>1. T = S
      BY <1>1, <2>3, <2>5
    <3> QED
      BY <2>1, <2>2, <3>1
  <2> QED
    BY <2>4, <2>5
<1> QED
  BY <1>5, <1>6 DEF ItemsKeepBuckets

\* ApplyReal: a doomed bucket leaves the index without entering the cache.
LEMMA ApplyRealBuckets ==
  ASSUME CountInv, Countable, NEW x, NEW k, EntryReplaced(x, k)
  PROVE  Balanced' /\ ItemsKeepBuckets'
<1>1. /\ keys_to_be_deleted' = keys_to_be_deleted \ {k} /\ k \in LiveKeys
      /\ LiveKeys' = IF k \in keys_to_be_deleted THEN LiveKeys \ {k} ELSE LiveKeys
      /\ Len(cache') = Len(cache) - (IF k \in keys_to_be_deleted THEN 1 ELSE 0)
  BY DEF EntryReplaced
<1>2. /\ IsFiniteSet(LiveKeys) /\ Cardinality(LiveKeys) \in Nat
      /\ Cardinality(LiveKeys) = Len(cache) + NumStored
      /\ Len(cache) \in Nat /\ NumStored \in Int
  BY IndexFacts, FS_CardinalityType, ConstantsAssumption
     DEF CountInv, PlaceInv, RunInv, Counts, Balanced, NumStored, Countable
<1>3. Balanced'
  <2>1. IsFiniteSet(LiveKeys \ {k}) /\ Cardinality(LiveKeys \ {k}) = Cardinality(LiveKeys) - 1
    BY <1>1, <1>2, FS_RemoveElement
  <2> QED
    BY <1>1, <1>2, <2>1 DEF Balanced
<1>4. LiveKeys' \ keys_to_be_deleted' = LiveKeys \ keys_to_be_deleted
  BY <1>1
<1>5. \A item \in Items : BucketCount(item)' = BucketCount(item)
  BY <1>4 DEF BucketCount
<1> QED
  BY <1>3, <1>5 DEF CountInv, Counts, ItemsKeepBuckets

-----------------------------------------------------------------------------
(* The ids on the server                                                     *)

\* No key whose id is on the server or in the write batch loses it.
LEMMA AccountedKeep ==
  ASSUME PlaceInv, Accounted,
         \A j \in Objects : (j \in Objects' /\ Current'[j] = Current[j]) \/ Current[j] \notin Used,
         UNCHANGED <<storage_keys, keysNotUsed, server>>,
         \A id \in DOMAIN writeBatch' : id \in DOMAIN writeBatch
                                          \/ \E j \in Objects' : id = Current'[j]
  PROVE  Accounted'
<1>1. Discarded' = Discarded /\ IdSet(storage_keys)' = IdSet(storage_keys)
  BY DEF Discarded, IdSet
<1>2. ASSUME NEW id \in Used, NEW j \in Objects, id = Current[j]
      PROVE  id \in {Current'[n] : n \in Objects'}
  <2>1. j \in Objects' /\ Current'[j] = id
    BY <1>2
  <2> QED
    BY <2>1
<1>3. \A id \in DOMAIN server : id \in Used
  BY DEF Used
<1>4. \A id \in DOMAIN writeBatch : id \in Used
  BY DEF Used
<1>5. DOMAIN server \subseteq Discarded \cup IdSet(storage_keys) \cup {Current'[k] : k \in Objects'}
  BY <1>2, <1>3 DEF Accounted
<1>6. DOMAIN writeBatch' \subseteq {Current'[k] : k \in Objects'}
  BY <1>2, <1>4 DEF Accounted
<1> QED
  BY <1>1, <1>5, <1>6 DEF Accounted

\* A read: the id that is no longer current is one of the batch.
LEMMA ReadAccounted ==
  ASSUME PlaceInv, Accounted, NEW k \in Objects, IdRead(k)
  PROVE  Accounted'
<1>1. /\ pc = "read" /\ storage_keys' = Append(storage_keys, Current[k]) /\ LiveKeys' = LiveKeys
      /\ \A j \in Keys : Current'[j] = IF j = k THEN <<k, timeStamp>> ELSE Current[j]
      /\ UNCHANGED <<writeBatch, server, keysNotUsed>>
  BY DEF IdRead
<1>2. IdSet(storage_keys)' = IdSet(storage_keys) \cup {Current[k]}
  <2> DEFINE L == Len(storage_keys)
  <2>1. /\ L \in Nat /\ DOMAIN storage_keys = 1 .. L /\ DOMAIN storage_keys' = 1 .. (L + 1)
        /\ storage_keys'[L + 1] = Current[k]
        /\ \A n \in DOMAIN storage_keys : storage_keys'[n] = storage_keys[n]
    BY <1>1, IndexFacts, ObjectFacts DEF PlaceInv, RunInv
  <2> HIDE DEF L
  <2>2. DOMAIN storage_keys' = DOMAIN storage_keys \cup {L + 1}
    BY <2>1
  <2>3. IdSet(storage_keys)' = {storage_keys'[n] : n \in DOMAIN storage_keys'}
    BY DEF IdSet
  <2> QED
    BY <2>1, <2>2, <2>3 DEF IdSet
<1>3. Discarded' = Discarded /\ Objects' = Objects /\ Objects \subseteq Keys
  BY <1>1, ObjectFacts DEF PlaceInv, Discarded, IdSet, Objects
<1>4. DOMAIN writeBatch = {}
  BY <1>1 DEF PlaceInv, Place, Written
<1>5. \A j \in Objects : Current[j] = Current[k] \/ Current[j] = Current'[j]
  BY <1>1, <1>3
<1>6. {Current[j] : j \in Objects} \subseteq {Current[k]} \cup {Current'[j] : j \in Objects}
  BY <1>5
<1> QED
  BY <1>1, <1>2, <1>3, <1>4, <1>6 DEF Accounted

\* An evicted entry is written under its current id.
LEMMA ApplyRealAccounted ==
  ASSUME PlaceInv, Accounted, NEW x, NEW k, EntryReplaced(x, k), x \notin PendingKeys,
         k \in PendingKeys
  PROVE  Accounted'
<1>1. /\ x \in CacheKeys(cache) /\ k \in LiveKeys
      /\ DOMAIN writeBatch' = DOMAIN writeBatch \cup {Current[x]}
      /\ LiveKeys' = IF k \in keys_to_be_deleted THEN LiveKeys \ {k} ELSE LiveKeys
      /\ \A j \in Objects' : Current'[j] = Current[j]
      /\ UNCHANGED <<storage_keys, server, keysNotUsed>>
  BY DEF EntryReplaced
<1>2. CacheKeys(cache) \subseteq LiveKeys /\ k \in Objects
  BY <1>1, ObjectFacts DEF PlaceInv, Objects
<1>3. Current[k] \notin Used
  BY <1>2 DEF PlaceInv, Place, Placed
<1>4. \A j \in Objects : j # k => j \in Objects'
  BY <1>1 DEF Objects
<1>5. x \in Objects' /\ x # k
  BY <1>1, <1>2, <1>4 DEF Objects
<1>6. \A j \in Objects : (j \in Objects' /\ Current'[j] = Current[j]) \/ Current[j] \notin Used
  BY <1>1, <1>3, <1>4
<1>7. \A id \in DOMAIN writeBatch' : id \in DOMAIN writeBatch \/ \E j \in Objects' : id = Current'[j]
  BY <1>1, <1>5
<1> QED
  BY <1>1, <1>6, <1>7, AccountedKeep

\* Replacing the oldest bucket of an item.
LEMMA PopPutAccounted ==
  ASSUME PlaceInv, Accounted, RePut = FALSE, NEW k \in RealKeys, NEW version \in Versions,
         PopPut(k, version), StampsOf(realBst, k[1]) # {}
  PROVE  Accounted'
<1>0. PICK old : old = getOldestKey(realBst, k)
  OBVIOUS
<1>1. UNCHANGED <<storage_keys, keysNotUsed, server, writeBatch>>
  BY DEF PopPut
<1>2. /\ Objects' = (IF Held(old) THEN Objects \ {old} ELSE Objects) \cup {k}
      /\ \A j \in Objects : j # old \/ ~Held(old) => Current'[j] = Current[j]
  BY <1>0, PopPutCurrent DEF PlaceInv
<1>3. Held(old) => old \in CacheKeys(cache) /\ old \in Objects
  <2>1. old \in LiveKeys /\ (Held(old) <=> old \in CacheKeys(cache))
    BY <1>0, PopPutEffect DEF PlaceInv, RunInv
  <2> QED
    BY <2>1 DEF Objects
<1>4. Held(old) => Current[old] \notin Used
  BY <1>3 DEF PlaceInv, Place, Placed
<1>5. \A j \in Objects : (j \in Objects' /\ Current'[j] = Current[j]) \/ Current[j] \notin Used
  BY <1>2, <1>4
<1> QED
  BY <1>1, <1>5, AccountedKeep

\* The steps that fix no id: what is written becomes part of the server, and what was
\* read is left to the clear thread, which takes it away.
LEMMA StillAccounted ==
  ASSUME PlaceInv, Accounted, Objects' = Objects, Current' = Current,
         \/ ApplyFake \/ PutBatch \/ FinishBatch \/ ClearThread
         \/ UNCHANGED <<storage_keys, writeBatch, server, keysNotUsed>>
  PROVE  Accounted'
<1> DEFINE C == {Current[k] : k \in Objects}
<1>0. /\ DOMAIN server \subseteq Discarded \cup IdSet(storage_keys) \cup C
      /\ DOMAIN writeBatch \subseteq C
  BY DEF Accounted
<1>1. SUFFICES /\ DOMAIN server' \subseteq Discarded' \cup IdSet(storage_keys)' \cup C
               /\ DOMAIN writeBatch' \subseteq C
  BY DEF Accounted
<1>2. CASE UNCHANGED <<storage_keys, writeBatch, server, keysNotUsed>>
  BY <1>0, <1>2 DEF Discarded, IdSet
<1>3. CASE ApplyFake
  <2>1. PICK k : k = storage_keys[Cursor][1]
    OBVIOUS
  <2>2. /\ DOMAIN writeBatch' = DOMAIN writeBatch \cup {<<k, getFrequency(fakeBst, k)>>}
        /\ pc = "apply" /\ responses # <<>> /\ Cursor > NumReal
        /\ UNCHANGED <<storage_keys, server, keysNotUsed>>
    BY <1>3, <2>1 DEF ApplyFake, Assign
  <2>3. k \in FakeKeys
    <3>1. k \in IF Cursor <= NumReal THEN RealKeys ELSE FakeKeys
      BY <2>1, <2>2, CursorType DEF PlaceInv, RunInv, IndexInv
    <3>2. NumReal \in Nat /\ Cursor \in Int
      BY NumRealType DEF PlaceInv, RunInv, IndexInv, TypeInv, TypeOK, Cursor
    <3> QED
      BY <2>2, <3>1, <3>2
  <2>4. k \in Objects /\ Current[k] = <<k, getFrequency(fakeBst, k)>>
    BY <2>3, ObjectFacts DEF PlaceInv, Objects
  <2>5. Discarded' = Discarded /\ IdSet(storage_keys)' = IdSet(storage_keys)
    BY <2>2 DEF Discarded, IdSet
  <2> QED
    BY <1>0, <2>2, <2>4, <2>5
<1>4. CASE PutBatch
  <2>1. /\ DOMAIN server' = DOMAIN server \cup DOMAIN writeBatch
        /\ UNCHANGED <<storage_keys, writeBatch, keysNotUsed>>
    BY <1>4 DEF PutBatch, Merge, batchVars
  <2>2. Discarded' = Discarded /\ IdSet(storage_keys)' = IdSet(storage_keys)
    BY <2>1 DEF Discarded, IdSet
  <2> HIDE DEF C
  <2> QED
    BY <1>0, <2>1, <2>2
<1>5. CASE FinishBatch
  <2>1. DOMAIN writeBatch' = {} /\ server' = server
        /\ keysNotUsed' = Append(keysNotUsed, storage_keys)
    BY <1>5 DEF FinishBatch, EmptyMap
  <2>2. Discarded' = Discarded \cup IdSet(storage_keys)
    BY <2>1, DiscardedNext DEF PlaceInv
  <2> HIDE DEF C
  <2> QED
    BY <1>0, <2>1, <2>2
<1>6. CASE ClearThread
  <2>1. /\ DOMAIN server' = DOMAIN server \ IdSet(Head(keysNotUsed))
        /\ keysNotUsed # <<>> /\ keysNotUsed' = Tail(keysNotUsed)
        /\ UNCHANGED <<storage_keys, writeBatch>>
    BY <1>6 DEF ClearThread, EraseAll, batchVars
  <2>2. Discarded = Discarded' \cup IdSet(Head(keysNotUsed))
    BY <2>1, DiscardedNext DEF PlaceInv
  <2>3. IdSet(storage_keys)' = IdSet(storage_keys)
    BY <2>1 DEF IdSet
  <2> HIDE DEF C
  <2> QED
    BY <1>0, <2>1, <2>2, <2>3
<1> QED
  BY <1>2, <1>3, <1>4, <1>5, <1>6

\* init stores every object under its current id.
LEMMA InitAccounted ==
  ASSUME Init, PlaceInv, LiveKeys = InitKeys
  PROVE  Accounted
<1>1. DOMAIN writeBatch = {}
  BY DEF Init, EmptyMap
<1>2. realBst = Loaded(InitKeys, LoadedStamps) /\ fakeBst = Loaded(FakeKeys, EmptyMap)
  BY DEF Init
<1>3. \A k \in Keys : getFrequency(realBst, k) = 0 /\ getFrequency(fakeBst, k) = 0
  BY <1>2 DEF Loaded, getFrequency, At
<1>4. \A k \in Objects : Current[k] = <<k, 0>>
  BY <1>3, ObjectFacts DEF PlaceInv, Objects
<1>5. DOMAIN server \subseteq Objects \X {0}
  <2>1. PICK c \in Placements :
          server = [id \in ((InitKeys \ {c[n] : n \in 1 .. CacheSize}) \cup FakeKeys) \X {0}
                      |-> encryptNonDeterministic(<<id[1], InitVersion>>)]
    BY DEF Init
  <2> QED
    BY <2>1 DEF Objects
<1>6. \A id \in DOMAIN server : \E k \in Objects : id = Current[k]
  BY <1>4, <1>5
<1> QED
  BY <1>1, <1>6 DEF Accounted

-----------------------------------------------------------------------------
(* The ids of a batch                                                        *)

\* In size_t arithmetic the number of real keys is off by a multiple of SizeMax when the
\* operations need more than B - F of them.
LEMMA NumRealModulo ==
  ASSUME TypeInv
  PROVE  /\ Len(storage_batch) <= B - F => NumReal = B - F
         /\ NumReal < SizeMax => NumReal = B - F
<1> DEFINE L == Len(storage_batch)
           a == B - (L + F)
<1>1. /\ L \in Nat /\ a \in Int /\ SizeMax \in Nat \ {0} /\ B \in Nat /\ F \in Nat
      /\ F <= B /\ B < SizeMax
  BY ConstantsAssumption DEF TypeInv, TypeOK
<1>2. NumReal = L + (a % SizeMax)
  BY DEF NumReal, FakeReals
<1>3. a % SizeMax \in 0 .. (SizeMax - 1) /\ a = SizeMax * (a \div SizeMax) + (a % SizeMax)
      /\ a \div SizeMax \in Int
  BY <1>1, SMTT(30)
<1> DEFINE q == a \div SizeMax
           r == a % SizeMax
<1>4. q \in Int /\ r \in Nat /\ r < SizeMax /\ a = SizeMax * q + r
  BY <1>1, <1>3
<1>5. NumReal = L + r /\ a = B - (L + F)
  BY <1>2
<1> HIDE DEF a, L, q, r
<1>6. q >= 1 => SizeMax * q >= SizeMax
  BY <1>1, <1>4, SMTT(30)
<1>7. q <= -1 => SizeMax * q <= -SizeMax
  BY <1>1, <1>4, SMTT(30)
<1>8. q = 0 => NumReal = B - F
  BY <1>1, <1>4, <1>5
<1>9. ASSUME L <= B - F PROVE q = 0
  BY <1>1, <1>4, <1>5, <1>6, <1>7, <1>9
<1>10. ASSUME NumReal < SizeMax PROVE q = 0
  BY <1>1, <1>4, <1>5, <1>6, <1>7, <1>10
<1> QED
  BY <1>8, <1>9, <1>10 DEF L

\* A batch that was read to the end read B ids: it cannot have read more real keys than
\* there are on the server.
LEMMA BatchSize ==
  ASSUME PlaceInv, Balanced, Countable, pc = "read", Len(storage_keys) = NumReal + F
  PROVE  NumReal = B - F
<1> DEFINE S == LiveKeys \ CacheKeys(cache)
           f == [n \in 1 .. NumReal |-> storage_keys[n][1]]
<1>1. /\ NumReal \in Nat /\ F \in Nat /\ DOMAIN storage_keys = 1 .. (NumReal + F)
  BY NumRealType, IndexFacts, ConstantsAssumption DEF PlaceInv, RunInv, IndexInv
<1>2. \A n \in 1 .. NumReal : n \in DOMAIN storage_keys
  BY <1>1
<1>3. \A n \in 1 .. NumReal : storage_keys[n][1] \in S
  <2>1. \A n \in 1 .. NumReal : n \in Awaited
    BY <1>2 DEF Awaited
  <2>2. \A n \in 1 .. NumReal : storage_keys[n][1] \in LiveKeys
    BY <2>1 DEF PlaceInv, RunInv, IndexInv, BatchAccounts, AwaitedKnown
  <2>3. \A n \in 1 .. NumReal : storage_keys[n][1] \in PendingKeys
    BY <1>2 DEF Pending, PendingKeys
  <2> QED
    BY <2>2, <2>3 DEF PlaceInv, Place, Apart
<1>4. \A m, n \in 1 .. NumReal : f[m] = f[n] => m = n
  BY <1>2 DEF PlaceInv, RunInv, Rest, KeysDistinct
<1>5. f \in [1 .. NumReal -> S]
  BY <1>3
<1>6. Cardinality(1 .. NumReal) = NumReal
  BY <1>1, UpToCard
<1>7. IsFiniteSet(S) /\ Cardinality(S) = NumStored /\ NumStored \in Nat /\ NumStored < SizeMax
  BY StoredCard DEF PlaceInv
<1> HIDE DEF f, S
<1>8. NumReal <= NumStored
  <2>1. Cardinality(1 .. NumReal) <= Cardinality(S)
    BY <1>4, <1>5, <1>7, IntoCard
  <2> QED
    BY <1>6, <1>7, <2>1
<1>9. NumReal < SizeMax
  BY <1>1, <1>7, <1>8, ConstantsAssumption
<1> QED
  BY <1>9, NumRealModulo DEF PlaceInv, RunInv, IndexInv

\* The batch is read in full.
LEMMA GetBatchMetered ==
  ASSUME PlaceInv, Balanced, Countable, GetBatch
  PROVE  Metered'
<1>1. /\ pc = "read" /\ Len(storage_keys) = NumReal + F
      /\ UNCHANGED <<storage_batch, storage_keys, writeBatch>>
  BY DEF GetBatch
<1>2. NumReal = B - F /\ NumReal' = NumReal /\ NumReal \in Nat /\ B \in Nat /\ F \in Nat
  BY <1>1, BatchSize, NumRealType, ConstantsAssumption
     DEF PlaceInv, RunInv, IndexInv, NumReal, FakeReals
<1>3. SUFFICES ASSUME pc' = "apply"
               PROVE  Metered'
  BY DEF Metered
<1>4. Cursor' = 1
  <2>1. /\ Len(storage_keys) \in Nat /\ DOMAIN storage_keys = 1 .. Len(storage_keys)
        /\ responses' = [n \in DOMAIN storage_keys |-> server[storage_keys[n]]]
    BY <1>1, <1>3, IndexFacts DEF PlaceInv, RunInv, GetBatch
  <2>2. Len(responses') = Len(storage_keys)
    BY <2>1
  <2> QED
    BY <1>1, <2>1, <2>2 DEF Cursor
<1>5. DOMAIN writeBatch' = {} /\ FakeWritten' = {}
  BY <1>1 DEF PlaceInv, Place, Written, FakeWritten
<1> QED
  BY <1>1, <1>2, <1>4, <1>5, FS_EmptySet DEF Metered

\* A response is applied: one more id is in the write batch.
LEMMA ApplyMetered ==
  ASSUME CountInv, pc = "apply", pc' = "apply", responses # <<>>, responses' = Tail(responses),
         UNCHANGED <<storage_batch, storage_keys>>, NEW x \in Objects, Current[x] \notin Used,
         DOMAIN writeBatch' = DOMAIN writeBatch \cup {Current[x]},
         x \in FakeKeys <=> Cursor > NumReal
  PROVE  Metered'
<1>1. NumReal' = NumReal /\ NumReal \in Nat
  BY NumRealType DEF CountInv, PlaceInv, RunInv, IndexInv, NumReal, FakeReals
<1>2. Cursor' = Cursor + 1 /\ Cursor \in Int
  <2>1. /\ Len(storage_keys) \in Nat /\ Len(responses) \in Nat /\ Len(responses') = Len(responses) - 1
    BY DEF CountInv, PlaceInv, RunInv, IndexInv, TypeInv, TypeOK
  <2> QED
    BY <2>1 DEF Cursor
<1>3. /\ NumReal = B - F /\ Len(storage_keys) = B
      /\ IsFiniteSet(DOMAIN writeBatch) /\ Cardinality(DOMAIN writeBatch) = Cursor - 1
      /\ Cardinality(FakeWritten) = IF Cursor - 1 <= NumReal THEN 0 ELSE Cursor - 1 - NumReal
  BY DEF CountInv, Counts, Metered
<1>4. Current[x] \notin DOMAIN writeBatch /\ Current[x][1] = x
  BY ObjectFacts DEF CountInv, PlaceInv, Used
<1>5. IsFiniteSet(DOMAIN writeBatch') /\ Cardinality(DOMAIN writeBatch') = Cursor
  <2>1. /\ IsFiniteSet(DOMAIN writeBatch \cup {Current[x]})
        /\ Cardinality(DOMAIN writeBatch \cup {Current[x]}) = Cardinality(DOMAIN writeBatch) + 1
    BY <1>3, <1>4, FS_AddElement
  <2> QED
    BY <1>2, <1>3, <2>1
<1>6. FakeWritten \subseteq DOMAIN writeBatch
  BY DEF FakeWritten
<1>7. IsFiniteSet(FakeWritten) /\ Current[x] \notin FakeWritten
  BY <1>3, <1>4, <1>6, PartCard
<1>8. Cardinality(FakeWritten') = IF Cursor <= NumReal THEN 0 ELSE Cursor - NumReal
  <2>1. CASE x \in FakeKeys
    <3>1. FakeWritten' = FakeWritten \cup {Current[x]}
      BY <1>4, <2>1 DEF FakeWritten, IsFake
    <3>2. Cardinality(FakeWritten \cup {Current[x]}) = Cardinality(FakeWritten) + 1
      BY <1>7, FS_AddElement
    <3> QED
      BY <1>1, <1>2, <1>3, <2>1, <3>1, <3>2
  <2>2. CASE x \notin FakeKeys
    <3>1. FakeWritten' = FakeWritten
      BY <1>4, <2>2 DEF FakeWritten, IsFake
    <3> QED
      BY <1>1, <1>2, <1>3, <2>2, <3>1
  <2> QED
    BY <2>1, <2>2
<1> QED
  BY <1>1, <1>2, <1>3, <1>5, <1>8 DEF Metered

\* One object more is applied and one more evicted.
LEMMA ApplyRealMetered ==
  ASSUME CountInv, NEW x, NEW k, EntryReplaced(x, k)
  PROVE  Metered'
<1>1. /\ pc = "apply" /\ pc' = "apply" /\ responses # <<>> /\ responses' = Tail(responses)
      /\ Cursor <= NumReal /\ x \in CacheKeys(cache)
      /\ DOMAIN writeBatch' = DOMAIN writeBatch \cup {Current[x]}
      /\ UNCHANGED <<storage_batch, storage_keys>>
  BY DEF EntryReplaced
<1>2. x \in Objects /\ x \notin FakeKeys
  BY <1>1, ObjectFacts DEF CountInv, PlaceInv, Objects
<1>3. Current[x] \notin Used
  BY <1>1, <1>2 DEF CountInv, PlaceInv, Place, Placed
<1>4. ~(Cursor > NumReal)
  BY <1>1, NumRealType DEF CountInv, PlaceInv, RunInv, IndexInv, TypeInv, TypeOK, Cursor
<1> QED
  BY <1>1, <1>2, <1>3, <1>4, ApplyMetered

\* A fake object is written back as it is.
LEMMA ApplyFakeMetered ==
  ASSUME CountInv, ApplyFake
  PROVE  Metered'
<1>0. PICK k : k = storage_keys[Cursor][1]
  OBVIOUS
<1>1. /\ pc = "apply" /\ pc' = "apply" /\ responses # <<>> /\ responses' = Tail(responses)
      /\ Cursor > NumReal
      /\ DOMAIN writeBatch' = DOMAIN writeBatch \cup {<<k, getFrequency(fakeBst, k)>>}
      /\ UNCHANGED <<storage_batch, storage_keys>>
  BY <1>0 DEF ApplyFake, Assign
<1>2. k \in FakeKeys
  <2>1. k \in IF Cursor <= NumReal THEN RealKeys ELSE FakeKeys
    BY <1>0, <1>1, CursorType DEF CountInv, PlaceInv, RunInv, IndexInv
  <2>2. NumReal \in Nat /\ Cursor \in Int
    BY NumRealType DEF CountInv, PlaceInv, RunInv, IndexInv, TypeInv, TypeOK, Cursor
  <2> QED
    BY <1>1, <2>1, <2>2
<1>3. k \in Objects /\ Current[k] = <<k, getFrequency(fakeBst, k)>>
  BY <1>2, ObjectFacts DEF CountInv, PlaceInv, Objects
<1>4. k \in PendingKeys
  BY <1>0, <1>1, PendingNext DEF CountInv, PlaceInv
<1>5. Current[k] \notin Used
  BY <1>3, <1>4 DEF CountInv, PlaceInv, Place, Placed
<1> QED
  BY <1>1, <1>2, <1>3, <1>5, ApplyMetered

\* Every other step leaves the batch alone or is not in the response loop.
LEMMA StillMetered ==
  ASSUME Metered, pc' = "apply" => pc = "apply" /\ UNCHANGED <<storage_batch, storage_keys, responses,
                                                             writeBatch>>
  PROVE  Metered'
<1> SUFFICES ASSUME pc' = "apply"
             PROVE  Metered'
  BY DEF Metered
<1>1. NumReal' = NumReal /\ Cursor' = Cursor /\ FakeWritten' = FakeWritten
  BY DEF NumReal, FakeReals, Cursor, FakeWritten
<1> QED
  BY <1>1 DEF Metered

-----------------------------------------------------------------------------
(* Every step keeps the numbers                                              *)

\* An ApplyReal step replaces an entry of the cache.
LEMMA ApplyRealReplaces ==
  ASSUME PlaceInv, CacheSize > 0, ApplyReal
  PROVE  \E x, k : EntryReplaced(x, k) /\ x \notin PendingKeys /\ k \in PendingKeys
<1>0. PICK x, k : x = LREntry(cache, <<NoKey, NoValue>>)[1] /\ k = storage_keys[Cursor][1]
  OBVIOUS
<1>1. cache # <<>>
  BY IndexFacts, FS_CardinalityType, ConstantsAssumption DEF PlaceInv, RunInv, Place, Room
<1>2. k \in PendingKeys /\ k \notin CacheKeys(cache)
  <2>1. /\ pc = "apply" /\ pc' = "apply" /\ responses # <<>> /\ responses' = Tail(responses)
        /\ storage_keys' = storage_keys
    BY DEF ApplyReal
  <2>2. k \in PendingKeys
    BY <1>0, <2>1, PendingNext DEF PlaceInv
  <2> QED
    BY <2>2 DEF PlaceInv, Place, Apart
<1>3. EntryReplaced(x, k)
  BY <1>0, <1>1, <1>2, ApplyRealEffect DEF PlaceInv
<1>4. x \notin PendingKeys
  BY <1>3 DEF EntryReplaced, PlaceInv, Place, Apart
<1> QED
  BY <1>2, <1>3, <1>4

\* The counts are right at first,
LEMMA InitCount ==
  ASSUME Countable, Init
  PROVE  CountInv
<1>1. Metered
  BY DEF Init, Metered
<1> QED
  BY <1>1, InitBuckets, InitAccounted DEF CountInv, Counts

\* after every step,
LEMMA NextCount ==
  ASSUME Countable
  PROVE  CountInv /\ [Next]_vars => CountInv'
<1> SUFFICES ASSUME CountInv, [Next]_vars
             PROVE  CountInv'
  OBVIOUS
<1>0. RePut = FALSE /\ CacheSize > 0 /\ PlaceInv /\ Balanced /\ Accounted /\ Metered
      /\ ItemsKeepBuckets
  BY DEF Countable, CountInv, Counts
<1>1. PlaceInv' /\ RunInv'
  BY <1>0, NextPlace DEF PlaceInv
<1>2. SUFFICES Counts'
  BY <1>1 DEF CountInv
<1>3. CASE ApplyReal
  <2>1. PICK x, k : EntryReplaced(x, k) /\ x \notin PendingKeys /\ k \in PendingKeys
    BY <1>0, <1>3, ApplyRealReplaces
  <2> QED
    BY <1>0, <2>1, ApplyRealBuckets, ApplyRealAccounted, ApplyRealMetered DEF Counts
<1>4. CASE \E k \in Objects : IdRead(k)
  <2>1. PICK k \in Objects : IdRead(k)
    BY <1>4
  <2>2. pc' # "apply" /\ LiveKeys' = LiveKeys /\ UNCHANGED <<cache, keys_to_be_deleted>>
    BY <2>1 DEF IdRead
  <2> QED
    BY <1>0, <2>1, <2>2, SameBuckets, ReadAccounted, StillMetered DEF Counts
<1>5. ASSUME NEW k \in RealKeys, NEW version \in Versions, PopPut(k, version),
             StampsOf(realBst, k[1]) # {}
      PROVE  Counts'
  <2>1. pc' # "apply"
    BY <1>5 DEF PopPut, Collecting
  <2> QED
    BY <1>0, <1>5, <2>1, PopPutBuckets, PopPutAccounted, StillMetered DEF Counts
<1>6. CASE \/ SubGet \/ StartBatch \/ GetBatch \/ ApplyFake \/ PutBatch \/ FinishBatch \/ ClearThread
           \/ \E k \in Keys : ClearPromises(k)
           \/ UNCHANGED <<bstVars, storeVars, timeStamp, pc, batchVars, server, keysNotUsed, seen>>
           \/ \E item \in Items, r \in Ranges : PopGet(item, r[1], r[2])
           \/ \E k \in RealKeys, version \in Versions :
                PopPut(k, version) /\ StampsOf(realBst, k[1]) = {}
  <2>1. /\ LiveKeys' = LiveKeys /\ Objects' = Objects /\ Current' = Current
        /\ UNCHANGED <<cache, keys_to_be_deleted>>
    BY <1>0, <1>6, Still
  <2>2. Balanced' /\ ItemsKeepBuckets'
    BY <1>0, <2>1, SameBuckets
  <2>3. Accounted'
    <3>1. \/ ApplyFake \/ PutBatch \/ FinishBatch \/ ClearThread
          \/ UNCHANGED <<storage_keys, writeBatch, server, keysNotUsed>>
      BY <1>6 DEF SubGet, StartBatch, GetBatch, ClearPromises, PopGet, PopPut, batchVars
    <3> QED
      BY <1>0, <2>1, <3>1, StillAccounted
  <2>4. Metered'
    <3>1. CASE GetBatch
      BY <1>0, <3>1, GetBatchMetered
    <3>2. CASE ApplyFake
      BY <3>2, ApplyFakeMetered
    <3>3. CASE ~GetBatch /\ ~ApplyFake
      <4>1. pc' = "apply" => pc = "apply" /\ UNCHANGED <<storage_batch, storage_keys, responses,
                                                        writeBatch>>
        BY <1>6, <3>3 DEF SubGet, StartBatch, PutBatch, FinishBatch, ClearThread, ClearPromises,
                          PopGet, PopPut, Collecting, batchVars
      <4> QED
        BY <1>0, <4>1, StillMetered
    <3> QED
      BY <3>1, <3>2, <3>3
  <2> QED
    BY <2>2, <2>3, <2>4 DEF Counts
<1>7. CASE UNCHANGED vars \/ Poll
  BY <1>6, <1>7 DEF Poll, vars
<1>8. CASE Pop
  BY <1>5, <1>6, <1>8 DEF Pop
<1>9. CASE ReadOperation \/ ReadFakeReal \/ ReadFake
  BY <1>0, <1>1, <1>4, <1>6, <1>9, ReadOperationEffect, ReadFakeRealEffect, ReadFakeEffect
<1>10. CASE ExecuteBatch
  BY <1>3, <1>6, <1>9, <1>10 DEF ExecuteBatch
<1> QED
  BY <1>6, <1>7, <1>8, <1>10 DEF Next

\* and always.
LEMMA CountInvariant ==
  ASSUME Countable
  PROVE  Spec => []CountInv
<1>1. CountInv /\ [Next]_vars => CountInv'
  BY NextCount
<1>2. Init => CountInv
  BY InitCount
<1> QED
  BY <1>1, <1>2, PTL DEF Spec

\* With PUTs in time order, no sequence of PUTs leaves an item with fewer buckets than it
\* was loaded with, counting out those still to be deleted.
THEOREM BucketsNeverRunOut ==
  ASSUME Countable
  PROVE  Spec => []ItemsKeepBuckets
<1>1. CountInv => ItemsKeepBuckets
  BY DEF CountInv, Counts
<1> QED
  BY <1>1, CountInvariant, PTL

\* For every batch size and every mix of operations, even one that needs more buckets
\* than a batch has room for: a batch that gets as far as its write reads and writes B
\* ids, F of them fake.
THEOREM BandwidthConstant ==
  ASSUME Countable
  PROVE  Spec => []ConstantBandwidth
<1>1. CountInv => ConstantBandwidth
  <2> SUFFICES ASSUME CountInv, pc = "apply", responses = <<>>
               PROVE  /\ Len(storage_keys) = B
                      /\ Cardinality({n \in DOMAIN storage_keys : IsFake(storage_keys[n])}) = F
                      /\ Cardinality(DOMAIN writeBatch) = B
                      /\ Cardinality({id \in DOMAIN writeBatch : IsFake(id)}) = F
    BY DEF ConstantBandwidth
  <2>1. /\ NumReal = B - F /\ Len(storage_keys) = B /\ Cardinality(DOMAIN writeBatch) = Cursor - 1
        /\ Cardinality(FakeWritten) = IF Cursor - 1 <= NumReal THEN 0 ELSE Cursor - 1 - NumReal
    BY DEF CountInv, Counts, Metered
  <2>2. B \in Nat /\ F \in Nat /\ F <= B /\ Cursor = B + 1
    BY <2>1, ConstantsAssumption DEF Cursor
  <2>3. Cardinality({id \in DOMAIN writeBatch : IsFake(id)}) = F
    BY <2>1, <2>2 DEF FakeWritten
  <2>4. Cardinality({n \in DOMAIN storage_keys : IsFake(storage_keys[n])}) = F
    <3>1. DOMAIN storage_keys = 1 .. B
      BY <2>1, IndexFacts DEF CountInv, PlaceInv, RunInv
    <3>2. \A n \in DOMAIN storage_keys :
            storage_keys[n][1] \in IF n <= NumReal THEN RealKeys ELSE FakeKeys
      BY DEF CountInv, PlaceInv, RunInv, IndexInv, TypeInv, Shape
    <3>3. RealKeys \cap FakeKeys = {}
      BY ObjectFacts DEF CountInv, PlaceInv
    <3>4. \A n \in 1 .. B : IsFake(storage_keys[n]) <=> n >= B - F + 1
      BY <2>1, <2>2, <3>1, <3>2, <3>3 DEF IsFake
    <3>5. {n \in DOMAIN storage_keys : IsFake(storage_keys[n])} = (B - F + 1) .. B
      BY <2>2, <3>1, <3>4
    <3>6. Cardinality((B - F + 1) .. B) = IF B - F + 1 > B THEN 0 ELSE B - (B - F + 1) + 1
      BY <2>2, FS_Interval
    <3>7. Cardinality((B - F + 1) .. B) = F
      <4>1. (B - F + 1 > B => F = 0) /\ B - (B - F + 1) + 1 = F
        BY <2>2
      <4> QED
        BY <3>6, <4>1
    <3> QED
      BY <3>5, <3>7
  <2> QED
    BY <2>1, <2>2, <2>3, <2>4
<1> QED
  BY <1>1, CountInvariant, PTL

\* Between two batches the server holds, apart from what the clear thread has still to
\* delete, one object for each loaded bucket that did not fit into the cache and one for
\* each fake key, whatever was put since.
THEOREM StorageConstant ==
  ASSUME Countable
  PROVE  Spec => []ConstantStorage
<1>1. CountInv => ConstantStorage
  <2> SUFFICES ASSUME CountInv, pc = "collect"
               PROVE  Cardinality(DOMAIN server \ Discarded) = Cardinality(InitKeys) - CacheSize + D
    BY DEF ConstantStorage
  <2> DEFINE S == LiveKeys \ CacheKeys(cache)
             O == S \cup FakeKeys
             T == DOMAIN server \ Discarded
             f == [k \in O |-> Current[k]]
  <2>1. RunInv /\ Balanced /\ PlaceInv
    BY DEF CountInv, Counts, PlaceInv
  <2>2. /\ storage_keys = <<>> /\ PendingKeys = {} /\ DOMAIN writeBatch = {}
    BY <2>1, PendingFacts DEF RunInv, IndexInv, TypeInv, Shape, PlaceInv, Place, Written
  <2>3. /\ LiveKeys \cap FakeKeys = {} /\ CacheKeys(cache) \cap FakeKeys = {}
        /\ \A k \in Objects : Current[k][1] = k
    BY <2>1, ObjectFacts
  <2>4. \A k \in Objects : k \in O <=> k \notin CacheKeys(cache)
    BY <2>3 DEF Objects
  <2>5. \A k \in O : k \in Objects /\ Current[k] \in T
    <3>1. \A k \in O : k \in Objects
      BY DEF Objects
    <3>2. \A k \in O : Current[k] \in DOMAIN server \ seen
      BY <2>1, <2>2, <2>4, <3>1 DEF PlaceInv, Place, Placed
    <3>3. Discarded \subseteq seen
      BY <2>1 DEF PlaceInv, Place, ReadIds
    <3> QED
      BY <3>1, <3>2, <3>3
  <2>6. \A id \in T : \E k \in O : Current[k] = id
    <3>1. ASSUME NEW id \in T
          PROVE  \E k \in O : Current[k] = id
      <4>1. IdSet(storage_keys) = {}
        BY <2>2 DEF IdSet
      <4>2. PICK k \in Objects : id = Current[k]
        BY <3>1, <4>1 DEF CountInv, Counts, Accounted
      <4>3. k \notin CacheKeys(cache)
        BY <2>1, <3>1, <4>2 DEF PlaceInv, Place, Placed, Used
      <4> QED
        BY <2>4, <4>2, <4>3
    <3> QED
      BY <3>1
  <2>7. IsFiniteSet(S) /\ Cardinality(S) = NumStored /\ NumStored \in Nat
    BY <2>1, StoredCard
  <2>8. IsFiniteSet(FakeKeys) /\ Cardinality(FakeKeys) = D /\ D \in Nat
    BY FakesCard
  <2>9. IsFiniteSet(O) /\ Cardinality(O) = NumStored + D
    <3>1. S \cap FakeKeys = {}
      BY <2>3
    <3> HIDE DEF S
    <3>2. /\ IsFiniteSet(S \cup FakeKeys)
          /\ Cardinality(S \cup FakeKeys) =
               Cardinality(S) + Cardinality(FakeKeys) - Cardinality(S \cap FakeKeys)
      BY <2>7, <2>8, FS_Union
    <3> QED
      BY <2>7, <2>8, <3>1, <3>2, FS_EmptySet
  <2>10. f \in [O -> T] /\ \A a, b \in O : f[a] = f[b] => a = b
    BY <2>3, <2>5
  <2>11. \A t \in T : \E k \in O : f[k] = t
    BY <2>6
  <2> HIDE DEF f, T, O, S
  <2>12. Cardinality(T) = Cardinality(O)
    BY <2>9, <2>10, <2>11, OntoCard
  <2> QED
    BY <2>9, <2>12 DEF T, NumStored
<1> QED
  BY <1>1, CountInvariant, PTL

-----------------------------------------------------------------------------
(* Never stopping                                                            *)

\* What a deployment must provide: every item that clients name is loaded, the server
\* holds the buckets for a batch, and the operations of a batch do not need more, either
\* because there are not more or because the ranges of GETs are short enough.
InRange(r)       == {t \in Stamps : r[1] <= t /\ t <= r[2]}
FetchesWithin(w) == R <= w /\ \A r \in Ranges : R + Cardinality(InRange(r)) <= w
Deployable ==
  /\ \A item \in Items : \E k \in InitKeys : k[1] = item
  /\ B - F <= NumStored
  /\ NumStored = B - F \/ FetchesWithin(B - F)

\* A batch fetches at most one bucket per sub-operation, and so at most w.
Collected(w) ==
  /\ IsFiniteSet(split)
  /\ pc \in {"collect", "split"} => Len(storage_batch) <= i
  /\ FetchesWithin(w) /\ pc \in {"collect", "split"} => i + Cardinality(split) <= w
  /\ FetchesWithin(w) => Len(storage_batch) <= w
  /\ pc # "split" => split = {}

Running == NeverCrashes /\ Collected(B - F)
LiveInv == CountInv /\ Known /\ Running

-----------------------------------------------------------------------------
(* No step stops the proxy                                                   *)

\* The bucket index for an item names an existing bucket.
LEMMA ItemStocked ==
  ASSUME CountInv, Countable, Deployable, NEW item \in Items
  PROVE  StampsOf(realBst, item) # {}
<1> DEFINE X == {k \in LiveKeys \ keys_to_be_deleted : k[1] = item}
           Y == {k \in InitKeys : k[1] = item}
<1>1. IsFiniteSet(X) /\ Cardinality(X) \in Nat
  <2>1. IsFiniteSet(LiveKeys) /\ X \subseteq LiveKeys
    BY DEF CountInv, Counts, Balanced
  <2> HIDE DEF X
  <2> QED
    BY <2>1, PartCard
<1>2. IsFiniteSet(Y) /\ Cardinality(Y) \in Nat
  <2>1. IsFiniteSet(InitKeys) /\ Y \subseteq InitKeys
    BY DEF Countable
  <2> HIDE DEF Y
  <2> QED
    BY <2>1, PartCard
<1>3. Cardinality(X) >= Cardinality(Y)
  BY DEF CountInv, Counts, ItemsKeepBuckets, BucketCount, Loadeds
<1>4. Y # {}
  BY DEF Deployable
<1> HIDE DEF Y
<1>5. X # {}
  <2> HIDE DEF X
  <2>1. Cardinality(Y) # 0
    BY <1>2, <1>4, FS_EmptySet
  <2> QED
    BY <1>1, <1>2, <1>3, <2>1, FS_EmptySet
<1>6. PICK k \in LiveKeys : k[1] = item
  BY <1>5
<1> QED
  BY <1>6, IndexFacts, LiveMember DEF CountInv, PlaceInv, RunInv

\* A PUT finds an object to replace.
LEMMA PopPutUp ==
  ASSUME LiveInv, Countable, Deployable, NEW k \in RealKeys, NEW version \in Versions,
         PopPut(k, version)
  PROVE  status' = "up" /\ StampsOf(realBst, k[1]) # {}
<1>1. StampsOf(realBst, k[1]) # {}
  BY ItemStocked, KeyTypes DEF LiveInv
<1> QED
  BY <1>1 DEF PopPut, Collecting

\* What the operations of a batch fetch fits into the batch.
LEMMA BatchFits ==
  ASSUME LiveInv, Countable, Deployable, pc = "read"
  PROVE  Len(storage_batch) <= B - F
<1>1. CASE FetchesWithin(B - F)
  BY <1>1 DEF LiveInv, Running, Collected
<1>2. CASE NumStored = B - F
  <2> DEFINE L == Len(storage_batch)
             S == LiveKeys \ CacheKeys(cache)
             f == [n \in 1 .. L |-> storage_batch[n]]
  <2>1. L \in Nat /\ DOMAIN storage_batch = 1 .. L
    BY IndexFacts DEF LiveInv, CountInv, PlaceInv, RunInv
  <2>2. \A n \in 1 .. L : storage_batch[n] \in S
    BY <2>1 DEF LiveInv, CountInv, PlaceInv, RunInv, IndexInv, BatchAccounts, OperationsDistinct,
                Place, Apart, Fetched
  <2>3. f \in [1 .. L -> S]
    BY <2>2
  <2>4. \A m, n \in 1 .. L : f[m] = f[n] => m = n
    BY <2>1 DEF LiveInv, CountInv, PlaceInv, RunInv, IndexInv, BatchAccounts, OperationsDistinct
  <2>5. IsFiniteSet(S) /\ Cardinality(S) = NumStored
    BY StoredCard DEF LiveInv, CountInv, PlaceInv, Counts
  <2>6. Cardinality(1 .. L) = L
    BY <2>1, UpToCard
  <2> HIDE DEF f, S, L
  <2>7. Cardinality(1 .. L) <= Cardinality(S)
    BY <2>3, <2>4, <2>5, IntoCard
  <2> QED
    BY <1>2, <2>5, <2>6, <2>7 DEF L
<1> QED
  BY <1>1, <1>2 DEF Deployable

\* The operations' own keys are read first.
LEMMA FetchedRead ==
  ASSUME RunInv, pc = "read", Len(storage_keys) >= Len(storage_batch)
  PROVE  Fetched \subseteq ReadKeys
<1>1. /\ IndexInv
      /\ Len(storage_keys) \in Nat /\ DOMAIN storage_keys = 1 .. Len(storage_keys)
      /\ Len(storage_batch) \in Nat /\ DOMAIN storage_batch = 1 .. Len(storage_batch)
  BY IndexFacts DEF RunInv
<1>2. NumReal \in Nat /\ Len(storage_batch) <= NumReal
  BY <1>1, NumRealType DEF IndexInv
<1>3. \A n \in DOMAIN storage_batch :
        n \in DOMAIN storage_keys /\ n \in Awaited /\ n <= Len(storage_batch)
  BY <1>1, <1>2 DEF Awaited
<1>4. \A n \in DOMAIN storage_batch : storage_keys[n][1] = storage_batch[n]
  BY <1>1, <1>3 DEF IndexInv, BatchAccounts, AwaitedKnown
<1> QED
  BY <1>3, <1>4 DEF Fetched, ReadKeys

\* The iterator over accessTree finds a bucket: it would run off the tree only after all
\* the buckets on the server were read.
LEMMA ReadFakeRealUp ==
  ASSUME LiveInv, Countable, Deployable, ReadFakeReal
  PROVE  status' = "up"
<1> DEFINE free == {e \in OnServer : ~isPresent(runningKeys, e[1])}
           L == Len(storage_keys)
           S == LiveKeys \ CacheKeys(cache)
<1>1. /\ pc = "read" /\ L >= Len(storage_batch) /\ L < NumReal
      /\ status = "up" /\ (free # {} => status' = status)
  BY DEF ReadFakeReal
<1>2. /\ L \in Nat /\ DOMAIN storage_keys = 1 .. L /\ PlaceInv /\ IndexInv /\ RunInv
      /\ Len(storage_batch) \in Nat /\ DOMAIN storage_batch = 1 .. Len(storage_batch)
  BY IndexFacts DEF LiveInv, CountInv, PlaceInv, RunInv
<1>3. SUFFICES ASSUME free = {}
               PROVE  FALSE
  BY <1>1
<1>4. Fetched \subseteq ReadKeys
  BY <1>1, <1>2, FetchedRead
<1>5. S \subseteq ReadKeys
  <2>1. ASSUME NEW k \in S
        PROVE  k \in ReadKeys
    <3>1. \E e \in realBst.accessTree : e[1] = k
      <4>1. <<k, realBst.accessFreqs[k]>> \in realBst.accessTree
        BY <1>2 DEF IndexInv, IndexAgrees
      <4>2. <<k, realBst.accessFreqs[k]>>[1] = k
        OBVIOUS
      <4> QED
        BY <4>1, <4>2
    <3>2. DOMAIN EvictedItems = {}
      BY <1>1, <1>2 DEF IndexInv, BatchAccounts, EvictedWritten
    <3>3. \E e \in OnServer : e[1] = k
      BY <3>1, <3>2 DEF OnServer
    <3>4. isPresent(runningKeys, k)
      BY <1>3, <3>3
    <3>5. k \in Fetched \cup ReadKeys
      BY <1>1, <1>2, <3>4 DEF isPresent, RunInv, Rest, Whereabouts, Present
    <3> QED
      BY <1>4, <3>5
  <2> QED
    BY <2>1
<1> DEFINE g == [k \in S |-> CHOOSE n \in 1 .. L : storage_keys[n][1] = k]
<1>6. \A k \in S : g[k] \in 1 .. L /\ storage_keys[g[k]][1] = k
  BY <1>2, <1>5 DEF ReadKeys
<1>7. g \in [S -> 1 .. L] /\ \A a, b \in S : g[a] = g[b] => a = b
  BY <1>6
<1>8. IsFiniteSet(1 .. L) /\ Cardinality(1 .. L) = L
  BY <1>2, UpToCard
<1>9. Cardinality(S) = NumStored
  BY <1>2, StoredCard DEF LiveInv, CountInv, Counts
<1> HIDE DEF g, S
<1>10. Cardinality(S) <= Cardinality(1 .. L)
  BY <1>7, <1>8, IntoCard
<1>11. NumReal = B - F
  BY <1>1, <1>2, BatchFits, NumRealModulo DEF IndexInv
<1>12. NumStored <= L /\ B - F <= NumStored /\ L < B - F
  BY <1>1, <1>8, <1>9, <1>10, <1>11 DEF Deployable
<1>13. NumStored \in Int /\ B - F \in Int
  BY <1>2, StoredCard, ConstantsAssumption DEF LiveInv, CountInv, Counts
<1> QED
  BY <1>2, <1>12, <1>13

\* A GET is split into the buckets of its range and at most one before it.
LEMMA SplitCard ==
  ASSUME IndexInv, NEW item \in Items, NEW r \in Ranges, NEW S,
         S = get_split_keys(realBst, item, r[1], r[2])
  PROVE  /\ S \subseteq LiveKeys
         /\ IsFiniteSet(S) /\ Cardinality(S) \in Nat /\ Cardinality(InRange(r)) \in Nat
         /\ Cardinality(S) <= Cardinality(InRange(r)) + 1
<1> DEFINE T == StampsOf(realBst, item)
           U == {u \in T : u <= r[2] /\ \A b \in {t \in T : t < r[1]} : b <= u}
           I == InRange(r)
<1>1. T \subseteq Stamps /\ Stamps \subseteq Nat /\ r[1] \in Nat /\ r[2] \in Nat
  BY IndexFacts, SmootherParts, ConstantsAssumption DEF RealOK
<1>2. S = {<<item, t>> : t \in U}
  BY DEF get_split_keys
<1>a. \A t : t \in I <=> t \in Stamps /\ r[1] <= t /\ t <= r[2]
  BY DEF InRange
<1>b. \A u : u \in U <=> u \in T /\ u <= r[2] /\ \A b \in T : b < r[1] => b <= u
  OBVIOUS
<1>3. S \subseteq LiveKeys
  <2>1. ASSUME NEW t \in U
        PROVE  <<item, t>> \in LiveKeys
    <3>1. <<item, t>> \in RealKeys /\ <<item, t>>[2] \in StampsOf(realBst, <<item, t>>[1])
      BY <1>1, <2>1 DEF RealKeys
    <3> QED
      BY <3>1, IndexFacts, LiveMember
  <2> QED
    BY <1>2, <2>1
<1>4. \E l : U \subseteq I \cup {l}
  <2> HIDE DEF U, I, T
  <2>0. U \subseteq T /\ U \subseteq Nat
    BY <1>1, <1>b
  <2>1. CASE \E l \in U : l < r[1]
    <3>1. PICK l \in U : l < r[1]
      BY <2>1
    <3>2. ASSUME NEW u \in U, u < r[1]
          PROVE  u = l
      <4>1. u <= l /\ l <= u
        BY <1>b, <2>0, <3>1, <3>2
      <4> QED
        BY <2>0, <4>1
    <3>3. U \subseteq I \cup {l}
      BY <1>1, <1>a, <1>b, <2>0, <3>2
    <3> QED
      BY <3>3
  <2>2. CASE \A l \in U : ~(l < r[1])
    <3>1. U \subseteq I \cup {0}
      BY <1>1, <1>a, <1>b, <2>0, <2>2
    <3> QED
      BY <3>1
  <2> QED
    BY <2>1, <2>2
<1>5. PICK l : U \subseteq I \cup {l}
  BY <1>4
<1>6. IsFiniteSet(I) /\ Cardinality(I) \in Nat
  <2>1. IsFiniteSet(r[1] .. r[2])
    <3>1. \A x, y \in Int : IsFiniteSet(x .. y)
      BY FS_Interval
    <3>2. r[1] \in Int /\ r[2] \in Int
      BY <1>1
    <3> QED
      BY <3>1, <3>2
  <2>2. I \subseteq r[1] .. r[2]
    <3> HIDE DEF I
    <3>1. \A t \in I : t \in Nat /\ r[1] <= t /\ t <= r[2]
      BY <1>1, <1>a
    <3>2. \A t \in Nat : r[1] <= t /\ t <= r[2] => t \in r[1] .. r[2]
      BY <1>1
    <3> QED
      BY <3>1, <3>2
  <2> HIDE DEF I
  <2> QED
    BY <2>1, <2>2, PartCard
<1> DEFINE f == [s \in S |-> s[2]]
<1>7. f \in [S -> U] /\ \A a, b \in S : f[a] = f[b] => a = b
  BY <1>2
<1> HIDE DEF I, U, f
<1>8. /\ IsFiniteSet(I \cup {l})
      /\ Cardinality(I \cup {l}) = IF l \in I THEN Cardinality(I) ELSE Cardinality(I) + 1
  BY <1>6, FS_AddElement
<1>9. IsFiniteSet(U) /\ Cardinality(U) \in Nat /\ Cardinality(U) <= Cardinality(I \cup {l})
  BY <1>5, <1>8, PartCard
<1>10. IsFiniteSet(S) /\ Cardinality(S) <= Cardinality(U)
  BY <1>7, <1>9, IntoCard
<1>11. Cardinality(S) \in Nat
  BY <1>10, FS_CardinalityType
<1>12. Cardinality(S) <= Cardinality(I) + 1
  BY <1>6, <1>8, <1>9, <1>10, <1>11
<1> QED
  BY <1>3, <1>6, <1>10, <1>11, <1>12 DEF I

-----------------------------------------------------------------------------
(* What the operations of a batch fetch                                      *)

\* Nothing is collected at first.
LEMMA InitCollected ==
  ASSUME Init, NEW w \in Int
  PROVE  Collected(w)
<1>1. /\ pc = "collect" /\ split = {} /\ storage_batch = <<>> /\ i = 0
  BY DEF Init
<1>2. Len(storage_batch) = 0 /\ IsFiniteSet(split) /\ Cardinality(split) = 0
  BY <1>1, FS_EmptySet
<1>3. FetchesWithin(w) => 0 <= w
  BY ConstantsAssumption DEF FetchesWithin
<1> QED
  BY <1>1, <1>2, <1>3 DEF Collected

\* A step of a batch that is being executed.
LEMMA ExecuteCollected ==
  ASSUME NEW w \in Int, Collected(w), pc # "split", pc' \in {"read", "apply", "clear"},
         UNCHANGED <<split, storage_batch>>
  PROVE  Collected(w)'
BY DEF Collected

\* A step that leaves the collecting of a batch alone.
LEMMA IdleCollected ==
  ASSUME NEW w \in Int, Collected(w), UNCHANGED <<pc, i, split, storage_batch>>
  PROVE  Collected(w)'
BY DEF Collected

\* The end of a batch.
LEMMA FinishCollected ==
  ASSUME NEW w \in Int, Collected(w), FinishBatch
  PROVE  Collected(w)'
<1>1. pc = "clear" /\ pc' = "collect" /\ i' = 0 /\ storage_batch' = <<>> /\ split' = split
  BY DEF FinishBatch
<1>2. split = {}
  BY <1>1 DEF Collected
<1>3. Len(storage_batch') = 0 /\ IsFiniteSet(split') /\ Cardinality(split') = 0
  BY <1>1, <1>2, FS_EmptySet
<1>4. FetchesWithin(w) => 0 <= w
  BY ConstantsAssumption DEF FetchesWithin
<1> QED
  BY <1>1, <1>2, <1>3, <1>4 DEF Collected

\* A GET adds the buckets of its range and at most one before it.
LEMMA PopGetCollected ==
  ASSUME NEW w \in Int, Collected(w), IndexInv, NEW item \in Items, NEW r \in Ranges,
         PopGet(item, r[1], r[2])
  PROVE  Collected(w)'
<1>1. /\ pc = "collect" /\ i < R
      /\ split' = get_split_keys(realBst, item, r[1], r[2])
      /\ IF split' = {} THEN pc' = pc ELSE pc' = "split"
      /\ UNCHANGED <<i, storage_batch>>
  BY DEF PopGet, Collecting, batchVars
<1>2. /\ IsFiniteSet(split') /\ Cardinality(split') \in Nat
      /\ Cardinality(InRange(r)) \in Nat /\ Cardinality(split') <= Cardinality(InRange(r)) + 1
  BY <1>1, SplitCard
<1>3. i \in Nat /\ R \in Nat
  BY ConstantsAssumption DEF IndexInv, TypeInv, TypeOK
<1>4. FetchesWithin(w) => i + Cardinality(split') <= w
  <2>1. FetchesWithin(w) => R + Cardinality(InRange(r)) <= w
    BY DEF FetchesWithin
  <2> QED
    BY <1>1, <1>2, <1>3, <2>1
<1>5. Len(storage_batch) <= i /\ (FetchesWithin(w) => Len(storage_batch) <= w)
  BY <1>1 DEF Collected
<1> QED
  BY <1>1, <1>2, <1>4, <1>5 DEF Collected

\* The batch grows by one key at most.
LEMMA OneMoreKey ==
  ASSUME IndexInv, NEW k,
         \/ storage_batch' = storage_batch
         \/ storage_batch' = IF isPresent(runningKeys, k) THEN storage_batch
                             ELSE Append(storage_batch, k)
  PROVE  Len(storage_batch') <= Len(storage_batch) + 1 /\ Len(storage_batch') \in Nat
<1>1. storage_batch \in Seq(RealKeys) /\ Len(storage_batch) \in Nat
  BY IndexFacts
<1>2. Len(Append(storage_batch, k)) = Len(storage_batch) + 1
  BY <1>1
<1> QED
  BY <1>1, <1>2

\* One bucket of a GET.
LEMMA SubGetCollected ==
  ASSUME NEW w \in Int, Collected(w), KnownInv, SubGet
  PROVE  Collected(w)'
<1>0. PICK k : k = CHOOSE x \in split : \A j \in split : x[2] <= j[2]
  OBVIOUS
<1>1. IndexInv
  BY DEF KnownInv, PlaceInv, RunInv
<1>2. /\ pc = "split" /\ i' = i + 1 /\ split' = split \ {k} /\ k \in split
      /\ pc' = (IF split' = {} THEN "collect" ELSE "split")
  <2>1. i' = i + 1
    BY DEF SubGet
  <2> QED
    BY <1>0, <2>1, SubGetEffect
<1>3. \/ storage_batch' = storage_batch
      \/ storage_batch' = IF isPresent(runningKeys, k) THEN storage_batch
                          ELSE Append(storage_batch, k)
  BY <1>0 DEF SubGet
<1>4. /\ IsFiniteSet(split) /\ Len(storage_batch) <= i
      /\ FetchesWithin(w) => i + Cardinality(split) <= w
  BY <1>2 DEF Collected
<1>5. IsFiniteSet(split') /\ Cardinality(split') = Cardinality(split) - 1
      /\ Cardinality(split') \in Nat
  <2>1. /\ IsFiniteSet(split \ {k})
        /\ Cardinality(split \ {k}) = IF k \in split THEN Cardinality(split) - 1 ELSE Cardinality(split)
    BY <1>4, FS_RemoveElement
  <2> QED
    BY <1>2, <2>1, FS_CardinalityType
<1>6. i \in Nat /\ Cardinality(split) \in Nat /\ Len(storage_batch) \in Nat
  BY <1>1, <1>4, IndexFacts, FS_CardinalityType DEF IndexInv, TypeInv, TypeOK
<1>7. Len(storage_batch') <= Len(storage_batch) + 1 /\ Len(storage_batch') \in Nat
  BY <1>1, <1>3, OneMoreKey
<1>8. Len(storage_batch') <= i'
  BY <1>2, <1>4, <1>6, <1>7
<1>9. FetchesWithin(w) => i' + Cardinality(split') <= w
  BY <1>2, <1>4, <1>5, <1>6
<1>10. FetchesWithin(w) => Len(storage_batch') <= w
  BY <1>2, <1>5, <1>6, <1>7, <1>8, <1>9
<1> QED
  BY <1>2, <1>5, <1>8, <1>9, <1>10 DEF Collected

\* A PUT fetches at most the bucket it replaces.
LEMMA PopPutCollected ==
  ASSUME NEW w \in Int, Collected(w), IndexInv, NEW k \in RealKeys, NEW version \in Versions,
         PopPut(k, version)
  PROVE  Collected(w)'
<1>0. PICK old : old = getOldestKey(realBst, k)
  OBVIOUS
<1>1. pc = "collect" /\ pc' = "collect" /\ i' = i + 1 /\ i < R /\ split' = split
  BY DEF PopPut, Collecting, getVars
<1>2. \/ storage_batch' = storage_batch
      \/ storage_batch' = IF isPresent(runningKeys, old) THEN storage_batch
                          ELSE Append(storage_batch, old)
  BY <1>0 DEF PopPut, DropHeld, DropLater
<1>3. split = {} /\ IsFiniteSet(split) /\ Len(storage_batch) <= i
  BY <1>1 DEF Collected
<1>4. i \in Nat /\ R \in Nat /\ Len(storage_batch) \in Nat
  BY IndexFacts, ConstantsAssumption DEF IndexInv, TypeInv, TypeOK
<1>5. Len(storage_batch') <= Len(storage_batch) + 1 /\ Len(storage_batch') \in Nat
  BY <1>2, OneMoreKey
<1>6. Cardinality(split) = 0
  BY <1>3, FS_EmptySet
<1>7. Len(storage_batch') <= i'
  BY <1>1, <1>3, <1>4, <1>5
<1>8. FetchesWithin(w) => i' <= w /\ Len(storage_batch') <= w
  <2>1. FetchesWithin(w) => R <= w
    BY DEF FetchesWithin
  <2> QED
    BY <1>1, <1>4, <1>5, <1>7, <2>1
<1>9. FetchesWithin(w) => i' + Cardinality(split') <= w
  BY <1>1, <1>4, <1>6, <1>8
<1> QED
  BY <1>1, <1>3, <1>7, <1>8, <1>9 DEF Collected

\* Every step keeps to what a batch may fetch.
LEMMA NextCollected ==
  ASSUME NEW w \in Int, Collected(w), KnownInv, [Next]_vars
  PROVE  Collected(w)'
<1>1. IndexInv
  BY DEF KnownInv, PlaceInv, RunInv
<1>2. CASE UNCHANGED vars \/ Poll \/ ClearThread
  <2>1. UNCHANGED <<pc, i, split, storage_batch>>
    BY <1>2 DEF Poll, ClearThread, vars, getVars, batchVars
  <2> QED
    BY <2>1, IdleCollected
<1>3. CASE Pop
  BY <1>1, <1>3, PopGetCollected, PopPutCollected DEF Pop
<1>4. CASE SubGet
  BY <1>4, SubGetCollected
<1>5. CASE FinishBatch
  BY <1>5, FinishCollected
<1>6. CASE \/ StartBatch \/ ReadOperation \/ ReadFakeReal \/ ReadFake \/ GetBatch
           \/ ApplyReal \/ ApplyFake \/ PutBatch \/ \E k \in Keys : ClearPromises(k)
  <2>1. /\ pc # "split" /\ pc' \in {"read", "apply", "clear"}
        /\ UNCHANGED <<split, storage_batch>>
    BY <1>6 DEF StartBatch, ReadOperation, ReadFakeReal, ReadFake, GetBatch, ApplyReal, ApplyFake,
                PutBatch, ClearPromises, getVars, batchVars
  <2> QED
    BY <2>1, ExecuteCollected
<1>7. CASE ExecuteBatch
  BY <1>5, <1>6, <1>7 DEF ExecuteBatch
<1> QED
  BY <1>2, <1>3, <1>4, <1>7 DEF Next

-----------------------------------------------------------------------------
(* Running is kept                                                           *)

\* The proxy runs after init.
LEMMA InitRunning ==
  ASSUME Countable, Deployable, Init
  PROVE  LiveInv
<1>1. NeverCrashes
  BY DEF Init, NeverCrashes
<1>2. Known
  BY InitKnown DEF KnownInv
<1>3. B - F \in Int
  BY ConstantsAssumption
<1> QED
  BY <1>1, <1>2, <1>3, InitCollected, InitCount DEF LiveInv, Running

\* No step of a deployable configuration stops the proxy.
LEMMA NextRunning ==
  ASSUME Countable, Deployable
  PROVE  LiveInv /\ [Next]_vars => LiveInv'
<1> SUFFICES ASSUME LiveInv, [Next]_vars
             PROVE  LiveInv'
  OBVIOUS
<1>1. CountInv' /\ Known' /\ PlaceInv /\ RunInv /\ KnownInv
  <2>1. CountInv' /\ CountInv /\ KnownInv
    BY NextCount DEF LiveInv, CountInv, KnownInv
  <2>2. KnownInv'
    BY <2>1, NextKnown DEF Countable
  <2> QED
    BY <2>1, <2>2 DEF KnownInv, CountInv, PlaceInv
<1>2. Collected(B - F)'
  <2>1. B - F \in Int /\ Collected(B - F)
    BY ConstantsAssumption DEF LiveInv, Running
  <2> QED
    BY <1>1, <2>1, NextCollected
<1>3. SUFFICES status' = "up"
  BY <1>1, <1>2 DEF LiveInv, Running, NeverCrashes
<1>4. status = "up"
  BY DEF LiveInv, Running, NeverCrashes
<1>5. CASE Pop
  <2>1. \/ status' = status
        \/ \E k \in RealKeys, version \in Versions : PopPut(k, version)
    BY <1>5 DEF Pop, PopGet
  <2> QED
    BY <1>4, <2>1, PopPutUp
<1>6. CASE SubGet
  BY <1>1, <1>6, SubGetEffect
<1>7. CASE ReadFakeReal
  BY <1>7, ReadFakeRealUp
<1>8. CASE GetBatch
  BY <1>1, <1>8, GetBatchPlace
<1>9. CASE \E k \in Keys : ClearPromises(k)
  BY <1>1, <1>9, ClearPromisesUp
<1>10. CASE \/ StartBatch \/ ReadOperation \/ ReadFake \/ ApplyReal \/ ApplyFake \/ PutBatch
            \/ FinishBatch \/ ClearThread \/ Poll \/ UNCHANGED vars
  BY <1>4, <1>10 DEF StartBatch, ReadOperation, ReadFake, ApplyReal, ApplyFake, PutBatch,
                     FinishBatch, ClearThread, Poll, vars
<1>11. CASE ExecuteBatch
  BY <1>7, <1>8, <1>9, <1>10, <1>11 DEF ExecuteBatch
<1> QED
  BY <1>5, <1>6, <1>10, <1>11 DEF Next

\* In a deployment that has every item loaded, B - F buckets on the server and GETs that
\* fit into a batch, the proxy meets none of the errors that end it: no absent id in
\* redis::get_batch, no end of accessTree in execute_batch, no item without buckets in
\* getOldestKey, no exit(1) in insert_cache, and no answered request in clearPromises.
THEOREM ProxyNeverStops ==
  ASSUME Countable, Deployable
  PROVE  Spec => []NeverCrashes
<1>1. LiveInv /\ [Next]_vars => LiveInv'
  BY NextRunning
<1>2. Init => LiveInv
  BY InitRunning
<1>3. LiveInv => NeverCrashes
  BY DEF LiveInv, Running
<1> QED
  BY <1>1, <1>2, <1>3, PTL DEF Spec

-----------------------------------------------------------------------------
(* How long an object waits to be read                                       *)

\* The age of a key counts the batches since its current id was fixed.  An id waits in
\* the cache first: each batch evicts B - F entries from its tail, so the age bounds how
\* many entries can still be behind one (Queued).  Hence an entry that leaves the cache is
\* at most CacheTime batches old, and from that age on no bucket that is not newer joins
\* those on the server, while each batch takes the B - F - w oldest of them (Waited).
\* Fake keys are never cached, and each batch takes the F oldest (FakesWaited).
Uncached       == LiveKeys \ CacheKeys(cache)
Age(k)         == timeStamp - Current[k][2]
NotNewer(S, k) == {j \in S : Current[j][2] <= Current[k][2]}

\* The largest cache the PUTs of a batch can make, and the batches that empty it.
CacheBound == Cardinality(LiveKeys \ keys_to_be_deleted) - NumStored + R
CacheTime  == CeilDiv(CacheBound, B - F)

\* What the current batch has done: evictions, reads nobody asked for, and fake reads.
Evictions ==
  CASE pc = "read"  -> 0
    [] pc = "apply" -> IF Cursor <= NumReal THEN Cursor - 1 ELSE NumReal
    [] OTHER        -> B - F
Fillers(w) ==
  IF pc # "read" THEN B - F - w
  ELSE IF Len(storage_keys) <= Len(storage_batch) THEN 0
  ELSE IF Len(storage_keys) <= NumReal THEN Len(storage_keys) - Len(storage_batch)
  ELSE NumReal - Len(storage_batch)
FakesRead ==
  IF pc # "read" THEN F
  ELSE IF Len(storage_keys) <= NumReal THEN 0 ELSE Len(storage_keys) - NumReal

\* Each PUT dooms one bucket at most.
FewDoomed ==
  /\ Cardinality(keys_to_be_deleted) <= R
  /\ pc \in {"collect", "split"} => Cardinality(keys_to_be_deleted) <= i

Queued ==
  \A n \in DOMAIN cache :
    Len(cache) - n + 1 + (B - F) * (Age(cache[n][1]) - 1) + Evictions <= CacheBound

Waited(w) ==
  \A k \in Uncached : Age(k) > CacheTime =>
    Cardinality(NotNewer(Uncached, k)) + (B - F - w) * (Age(k) - CacheTime - 1) + Fillers(w)
      <= NumStored

\* The index of the fake keys agrees with their frequencies.
FakesIndexed ==
  fakeBst.accessTree = {<<k, getFrequency(fakeBst, k)>> : k \in FakeKeys}

FakesWaited ==
  \A k \in FakeKeys :
    Cardinality(NotNewer(FakeKeys, k)) + F * (Age(k) - 1) + FakesRead <= D

\* Reading an id fixes the next one, which is still to be written.
ReadNow == \A k \in PendingKeys \cap Objects : Current[k][2] = timeStamp

Ages(w)   == FewDoomed /\ Queued /\ Waited(w) /\ FakesIndexed /\ FakesWaited /\ ReadNow
AgeInv(w) == CountInv /\ Known /\ Collected(w) /\ Ages(w) /\ AlphaWithin(w)

\* What the bound needs: fake reads, and room in a batch for more than its operations
\* fetch.
Turnover(w) == Countable /\ F > 0 /\ FetchesWithin(w) /\ w < B - F

\* A product with one more, and products of a larger factor.
LEMMA Products ==
  ASSUME NEW a \in Nat
  PROVE  /\ \A x \in Int : a * x \in Int /\ a * (x + 1) = a * x + a
         /\ \A x, y \in Int : x <= y => a * x <= a * y
         /\ a * 0 = 0
<1>1. \A x \in Int : a * x \in Int /\ a * (x + 1) = a * x + a
  OBVIOUS
<1>2. ASSUME NEW x \in Int, NEW y \in Int, x <= y
      PROVE  a * x <= a * y
  <2>1. a * (y - x) >= 0 /\ a * (y - x) = a * y - a * x
    BY <1>2, SMTT(30)
  <2> QED
    BY <1>1, <2>1
<1> QED
  BY <1>1, <1>2

\* What CeilDiv computes: the least number of groups of a that hold n.
LEMMA CeilDivFacts ==
  ASSUME NEW a \in Nat \ {0}, NEW n \in Nat
  PROVE  /\ CeilDiv(n, a) \in Nat
         /\ \A x \in Int : a * (x - 1) < n => x <= CeilDiv(n, a)
<1> DEFINE q == (n + a - 1) \div a
           r == (n + a - 1) % a
<1>1. q \in Int /\ r \in Int /\ r < a /\ 0 <= r /\ n + a - 1 = a * q + r
  BY SMTT(30)
<1>2. CeilDiv(n, a) = q
  BY DEF CeilDiv
<1> HIDE DEF q, r
<1>3. q >= 0
  <2>1. q <= -1 => a * q <= a * (-1)
    BY <1>1, Products
  <2>2. a * (-1) = -a
    OBVIOUS
  <2> QED
    BY <1>1, <2>1, <2>2
<1>4. ASSUME NEW x \in Int, a * (x - 1) < n
      PROVE  x <= q
  <2>1. q <= x - 1 => a * q <= a * (x - 1)
    BY <1>1, Products
  <2>2. a * q \in Int /\ a * (x - 1) \in Int
    BY <1>1, Products
  <2> QED
    BY <1>1, <1>4, <2>1, <2>2
<1> QED
  BY <1>1, <1>2, <1>3, <1>4

\* More to hold never takes fewer groups.
LEMMA CeilDivMono ==
  ASSUME NEW a \in Nat \ {0}, NEW m \in Nat, NEW n \in Nat, m <= n
  PROVE  CeilDiv(m, a) <= CeilDiv(n, a)
<1> DEFINE q == CeilDiv(m, a)
<1>1. q \in Nat
  BY CeilDivFacts
<1>2. a * (q - 1) < m
  <2> DEFINE d == (m + a - 1) \div a
             r == (m + a - 1) % a
  <2>1. d \in Int /\ r \in Int /\ r < a /\ 0 <= r /\ m + a - 1 = a * d + r
    BY SMTT(30)
  <2>2. q = d
    BY DEF CeilDiv
  <2> HIDE DEF d, r, q
  <2>3. a * (d - 1) = a * d - a
    BY <2>1
  <2> QED
    BY <2>1, <2>2, <2>3
<1>3. a * (q - 1) < n
  BY <1>1, <1>2, Products
<1> HIDE DEF q
<1> QED
  BY <1>1, <1>3, CeilDivFacts DEF q

\* The numbers the ages are compared with.
AgeTyped(w) ==
  /\ B - F \in Nat \ {0} /\ B - F - w \in Nat \ {0} /\ F \in Nat \ {0} /\ D \in Nat
  /\ timeStamp \in Nat /\ \A k \in Objects : Current[k][2] \in Nat /\ Age(k) \in Nat
  /\ Len(cache) \in Nat /\ DOMAIN cache = 1 .. Len(cache)
  /\ \A n \in DOMAIN cache : cache[n][1] \in Objects
  /\ CacheBound \in Nat /\ Len(cache) <= CacheBound /\ CacheTime \in Nat
  /\ Len(storage_batch) \in Nat /\ Len(storage_batch) <= w /\ NumReal = B - F
  /\ Len(storage_keys) \in Nat /\ DOMAIN storage_keys = 1 .. Len(storage_keys)
  /\ Evictions \in Int /\ Evictions <= B - F /\ Fillers(w) \in Nat /\ FakesRead \in Nat

LEMMA AgeTypes ==
  ASSUME NEW w \in Nat, Turnover(w)
  PROVE  CountInv /\ Collected(w) /\ FewDoomed => AgeTyped(w)
<1> SUFFICES ASSUME CountInv, Collected(w), FewDoomed
             PROVE  AgeTyped(w)
  OBVIOUS
<1>1. B - F \in Nat \ {0} /\ B - F - w \in Nat \ {0} /\ F \in Nat \ {0} /\ D \in Nat
  BY ConstantsAssumption DEF Turnover
<1>2. PlaceInv /\ RunInv /\ IndexInv /\ TypeInv /\ Balanced
  BY DEF CountInv, Counts, PlaceInv, RunInv, IndexInv
<1>3. timeStamp \in Nat /\ \A k \in Objects : Current[k][2] \in Nat /\ Age(k) \in Nat
  BY <1>2, ObjectFacts DEF PlaceInv, Place, Bounded, Age
<1>4. /\ Len(cache) \in Nat /\ DOMAIN cache = 1 .. Len(cache)
      /\ Len(storage_batch) \in Nat
      /\ Len(storage_keys) \in Nat /\ DOMAIN storage_keys = 1 .. Len(storage_keys)
      /\ \A n \in DOMAIN cache : cache[n][1] \in Objects
  BY <1>2, IndexFacts, ObjectFacts DEF CacheKeys, Objects
<1>5. Len(storage_batch) <= w /\ NumReal = B - F
  <2>1. Len(storage_batch) <= w
    BY DEF Collected, Turnover
  <2> QED
    BY <1>1, <1>2, <1>4, <2>1, NumRealModulo
<1>6. CacheBound \in Nat /\ Len(cache) <= CacheBound
  <2> DEFINE G == LiveKeys \ keys_to_be_deleted
  <2>1. keys_to_be_deleted \subseteq LiveKeys
    BY <1>2 DEF IndexInv, BatchAccounts, DoomedRunning
  <2>2. /\ IsFiniteSet(G)
        /\ Cardinality(G) = Cardinality(LiveKeys) - Cardinality(LiveKeys \cap keys_to_be_deleted)
    BY <1>2, FS_Difference DEF Balanced
  <2>3. Cardinality(LiveKeys \cap keys_to_be_deleted) = Cardinality(keys_to_be_deleted)
    <3>1. LiveKeys \cap keys_to_be_deleted = keys_to_be_deleted
      BY <2>1
    <3> QED
      BY <3>1, Zenon
  <2>4. Cardinality(LiveKeys) = Len(cache) + NumStored /\ Cardinality(G) \in Nat
        /\ Cardinality(keys_to_be_deleted) \in Nat
    BY <1>2, <2>2, FS_CardinalityType DEF Balanced, PlaceInv, Place, Room
  <2>5. NumStored \in Nat /\ R \in Nat /\ Cardinality(keys_to_be_deleted) <= R
    BY <1>2, StoredCard, ConstantsAssumption DEF Turnover, FewDoomed
  <2> HIDE DEF G
  <2>6. CacheBound = Cardinality(G) - NumStored + R
    BY DEF CacheBound, G
  <2>7. Cardinality(G) = Len(cache) + NumStored - Cardinality(keys_to_be_deleted)
    BY <1>4, <2>2, <2>3, <2>4, <2>5
  <2> QED
    BY <1>4, <2>4, <2>5, <2>6, <2>7
<1>7. CacheTime \in Nat
  BY <1>1, <1>6, CeilDivFacts DEF CacheTime
<1>8. Evictions \in Int /\ Evictions <= B - F
  <2>1. Cursor \in Int
    BY <1>2, <1>4 DEF TypeInv, TypeOK, Cursor
  <2>2. CASE pc = "apply"
    BY <1>1, <1>5, <2>1, <2>2 DEF Evictions
  <2>3. CASE pc # "apply"
    BY <1>1, <2>3 DEF Evictions
  <2> QED
    BY <2>2, <2>3
<1>9. Fillers(w) \in Nat /\ FakesRead \in Nat
  BY <1>1, <1>4, <1>5 DEF Fillers, FakesRead
<1> QED
  BY <1>1, <1>3, <1>4, <1>5, <1>6, <1>7, <1>8, <1>9 DEF AgeTyped

\* The number of buckets outside the cache and the number of fake keys are fixed.
Numbered ==
  /\ NumStored \in Nat
  /\ \A k : /\ IsFiniteSet(NotNewer(Uncached, k))
            /\ Cardinality(NotNewer(Uncached, k)) \in Nat
            /\ Cardinality(NotNewer(Uncached, k)) <= NumStored
  /\ \A k : /\ IsFiniteSet(NotNewer(FakeKeys, k))
            /\ Cardinality(NotNewer(FakeKeys, k)) \in Nat
            /\ Cardinality(NotNewer(FakeKeys, k)) <= D

LEMMA NotNewerCard ==
  ASSUME Countable
  PROVE  CountInv => Numbered
<1> SUFFICES ASSUME CountInv
             PROVE  Numbered
  OBVIOUS
<1>1. NumStored \in Nat /\ IsFiniteSet(Uncached) /\ Cardinality(Uncached) = NumStored
  BY StoredCard DEF CountInv, Counts, PlaceInv, Uncached
<1>2. \A S, k : NotNewer(S, k) \subseteq S
  BY DEF NotNewer
<1>3. \A k : /\ IsFiniteSet(NotNewer(Uncached, k))
             /\ Cardinality(NotNewer(Uncached, k)) \in Nat
             /\ Cardinality(NotNewer(Uncached, k)) <= NumStored
  BY <1>1, <1>2, PartCard
<1>4. IsFiniteSet(FakeKeys) /\ Cardinality(FakeKeys) = D
  BY FakesCard
<1>5. \A k : /\ IsFiniteSet(NotNewer(FakeKeys, k))
             /\ Cardinality(NotNewer(FakeKeys, k)) \in Nat
             /\ Cardinality(NotNewer(FakeKeys, k)) <= D
  BY <1>2, <1>4, PartCard
<1> QED
  BY <1>1, <1>3, <1>5 DEF Numbered

\* Of what has not been read, only the current ids of keys that are neither cached nor in
\* the batch are on the server, and their ages are within the bound.
LEMMA AgesBound ==
  ASSUME NEW w \in Nat, Turnover(w)
  PROVE  CountInv /\ Collected(w) /\ Ages(w) /\ (pc # "read" \/ storage_keys = <<>>)
           => AlphaWithin(w)
<1> SUFFICES ASSUME CountInv, Collected(w), Ages(w), pc # "read" \/ storage_keys = <<>>,
                    NEW id \in DOMAIN server \ seen
             PROVE  timeStamp - id[2] <= IF IsFake(id) THEN AlphaFake ELSE AlphaReal(w)
  BY DEF AlphaWithin
<1>1. PlaceInv /\ RunInv /\ Place /\ Countable /\ FewDoomed
  BY DEF CountInv, PlaceInv, Turnover, Ages
<1>2. id \notin Discarded /\ id \notin IdSet(storage_keys)
  <2>1. storage_keys = <<>> => IdSet(storage_keys) = {}
    BY DEF IdSet
  <2>2. pc \in {"collect", "split"} => storage_keys = <<>>
    BY <1>1 DEF RunInv, IndexInv, TypeInv, Shape
  <2>3. pc \in {"collect", "split", "read", "apply", "clear"}
    BY <1>1 DEF RunInv, IndexInv, TypeInv, TypeOK
  <2> QED
    BY <1>1, <2>1, <2>2, <2>3 DEF Place, ReadIds
<1>3. PICK k \in Objects : id = Current[k]
  BY <1>2 DEF CountInv, Counts, Accounted
<1>4. /\ id[1] = k /\ timeStamp - id[2] = Age(k) /\ (IsFake(id) <=> k \in FakeKeys)
      /\ k \in LiveKeys \/ k \in FakeKeys
  BY <1>1, <1>3, ObjectFacts DEF Age, IsFake, Objects
<1>5. /\ B - F \in Nat \ {0} /\ B - F - w \in Nat \ {0} /\ F \in Nat \ {0} /\ D \in Nat
      /\ Age(k) \in Nat /\ CacheTime \in Nat /\ NumReal = B - F /\ Len(storage_keys) \in Nat
      /\ Len(storage_batch) \in Nat /\ Len(storage_batch) <= w
  BY <1>1, AgeTypes DEF AgeTyped
<1>6. \A S : k \in S /\ IsFiniteSet(NotNewer(S, k)) => Cardinality(NotNewer(S, k)) # 0
  <2>1. Current[k][2] <= Current[k][2]
    BY <1>1, ObjectFacts
  <2>2. \A S : k \in S => k \in NotNewer(S, k)
    BY <2>1 DEF NotNewer
  <2> QED
    BY <2>2, FS_EmptySet
<1>7. CASE k \in FakeKeys
  <2> DEFINE c == Cardinality(NotNewer(FakeKeys, k))
             p == F * (Age(k) - 1)
  <2>1. c \in Nat /\ c # 0
    BY <1>1, <1>6, <1>7, NotNewerCard DEF Numbered
  <2>2. c + p + FakesRead <= D
    BY <1>7 DEF Ages, FakesWaited
  <2>3. FakesRead \in Nat
    BY <1>5 DEF FakesRead
  <2>4. p \in Int
    BY <1>5, Products
  <2> HIDE DEF c, p
  <2>5. p < D
    BY <1>5, <2>1, <2>2, <2>3, <2>4
  <2>6. Age(k) <= AlphaFake
    BY <1>5, <2>5, CeilDivFacts DEF p, AlphaFake
  <2> QED
    BY <1>4, <1>7, <2>6
<1>8. CASE k \notin FakeKeys
  <2>1. k \in Uncached
    <3>1. k \in LiveKeys /\ id \in Used
      BY <1>4, <1>8 DEF Used
    <3>2. k \notin CacheKeys(cache)
      BY <1>1, <1>3, <3>1 DEF Place, Placed
    <3> QED
      BY <3>1, <3>2 DEF Uncached
  <2>2. /\ AlphaReal(w) = CacheTime + CeilDiv(NumStored, B - F - w)
        /\ NumStored \in Nat /\ CeilDiv(NumStored, B - F - w) \in Nat
    BY <1>1, <1>5, NotNewerCard, CeilDivFacts DEF Numbered, AlphaReal, CacheTime, CacheBound
  <2>3. CASE Age(k) <= CacheTime
    BY <1>4, <1>5, <1>8, <2>2, <2>3
  <2>4. CASE Age(k) > CacheTime
    <3> DEFINE c == Cardinality(NotNewer(Uncached, k))
               x == Age(k) - CacheTime
               p == (B - F - w) * (x - 1)
    <3>1. c \in Nat /\ c # 0
      BY <1>1, <1>6, <2>1, NotNewerCard DEF Numbered
    <3>2. c + p + Fillers(w) <= NumStored
      BY <2>1, <2>4 DEF Ages, Waited
    <3>3. Fillers(w) \in Nat
      BY <1>5 DEF Fillers
    <3>4. x \in Int /\ p \in Int
      BY <1>5, Products
    <3> HIDE DEF c, p
    <3>5. p < NumStored
      BY <2>2, <3>1, <3>2, <3>3, <3>4
    <3>6. x <= CeilDiv(NumStored, B - F - w)
      <4> HIDE DEF x
      <4> QED
        BY <1>5, <2>2, <3>4, <3>5, CeilDivFacts DEF p
    <3> QED
      BY <1>4, <1>5, <1>8, <2>2, <3>6
  <2> QED
    BY <1>5, <2>3, <2>4
<1> QED
  BY <1>7, <1>8

\* Within a batch: an entry of the cache is new, or has no more behind it, counting the
\* evictions, than before.
LEMMA QueuedKeep ==
  ASSUME NEW w \in Nat, AgeTyped(w), AgeTyped(w)', Queued, timeStamp' = timeStamp,
         CacheBound <= CacheBound',
         \A n \in DOMAIN cache' :
           \/ Current'[cache'[n][1]][2] = timeStamp
           \/ \E m \in DOMAIN cache :
                /\ Current'[cache'[n][1]][2] = Current[cache[m][1]][2]
                /\ Len(cache') - n + Evictions' <= Len(cache) - m + Evictions
  PROVE  Queued'
<1> SUFFICES ASSUME NEW n \in DOMAIN cache'
             PROVE  Len(cache') - n + 1 + (B - F) * (Age(cache[n][1])' - 1) + Evictions' <= CacheBound'
  BY DEF Queued
<1>1. /\ Len(cache') \in Nat /\ n \in 1 .. Len(cache') /\ Len(cache') <= CacheBound'
      /\ CacheBound' \in Nat /\ B - F \in Nat /\ timeStamp \in Nat
      /\ Evictions \in Int /\ Evictions' \in Int /\ Evictions' <= B - F
      /\ Age(cache[n][1])' = timeStamp - Current'[cache'[n][1]][2]
  BY DEF AgeTyped, Age
<1> HIDE DEF Age
<1>2. CASE Current'[cache'[n][1]][2] = timeStamp
  <2>1. Age(cache[n][1])' - 1 = -1
    BY <1>1, <1>2
  <2>2. (B - F) * (-1) = -(B - F)
    BY <1>1
  <2> HIDE DEF Evictions
  <2>3. (B - F) * (Age(cache[n][1])' - 1) = -(B - F)
    BY <2>1, <2>2
  <2> QED
    BY <1>1, <2>3
<1>3. CASE \E m \in DOMAIN cache :
             /\ Current'[cache'[n][1]][2] = Current[cache[m][1]][2]
             /\ Len(cache') - n + Evictions' <= Len(cache) - m + Evictions
  <2>1. PICK m \in DOMAIN cache :
             /\ Current'[cache'[n][1]][2] = Current[cache[m][1]][2]
             /\ Len(cache') - n + Evictions' <= Len(cache) - m + Evictions
    BY <1>3
  <2>2. Len(cache) \in Nat /\ m \in 1 .. Len(cache) /\ CacheBound \in Nat
        /\ Age(cache[m][1]) = timeStamp - Current[cache[m][1]][2]
        /\ Age(cache[m][1]) \in Nat
    BY DEF AgeTyped, Age
  <2> DEFINE p == (B - F) * (Age(cache[m][1]) - 1)
  <2>3. (B - F) * (Age(cache[n][1])' - 1) = p
    BY <1>1, <2>1, <2>2
  <2>4. Len(cache) - m + 1 + p + Evictions <= CacheBound
    BY DEF Queued
  <2>5. p \in Int
    BY <1>1, <2>2, Products
  <2> DEFINE a == Len(cache') - n + Evictions'
             b == Len(cache) - m + Evictions
  <2>6. a \in Int /\ b \in Int /\ a <= b
    <3>1. a <= b
      BY <2>1
    <3>2. a \in Int
      BY <1>1
    <3>3. b \in Int
      BY <1>1, <2>2
    <3> QED
      BY <3>1, <3>2, <3>3
  <2> HIDE DEF p
  <2>7. b + 1 + p <= CacheBound
    BY <1>1, <2>2, <2>4, <2>5
  <2>8. a + 1 + p <= CacheBound'
    <3> HIDE DEF a, b
    <3> QED
      BY <1>1, <2>2, <2>5, <2>6, <2>7
  <2>9. Len(cache') - n + 1 + p + Evictions' <= CacheBound'
    BY <1>1, <2>5, <2>8
  <2> QED
    BY <2>3, <2>9
<1> QED
  BY <1>2, <1>3

\* Within a batch: for a bucket old enough to be due, those not newer than it decrease with
\* every filler read.
LEMMA WaitedKeep ==
  ASSUME NEW w \in Nat, AgeTyped(w), AgeTyped(w)', Numbered, Numbered', Waited(w),
         timeStamp' = timeStamp, CacheTime <= CacheTime',
         \A k \in Uncached' : Age(k)' > CacheTime' =>
           /\ k \in Uncached /\ Current'[k] = Current[k]
           /\ Cardinality(NotNewer(Uncached, k)') + Fillers(w)'
                <= Cardinality(NotNewer(Uncached, k)) + Fillers(w)
  PROVE  Waited(w)'
<1> SUFFICES ASSUME NEW k \in Uncached', Age(k)' > CacheTime'
             PROVE  Cardinality(NotNewer(Uncached, k)') + (B - F - w) * (Age(k)' - CacheTime' - 1)
                      + Fillers(w)' <= NumStored
  BY DEF Waited, NumStored
<1>1. /\ k \in Uncached /\ Current'[k] = Current[k]
      /\ Cardinality(NotNewer(Uncached, k)') + Fillers(w)'
           <= Cardinality(NotNewer(Uncached, k)) + Fillers(w)
  OBVIOUS
<1>2. Age(k)' = Age(k) /\ Age(k) \in Nat /\ CacheTime \in Nat /\ CacheTime' \in Nat
      /\ B - F - w \in Nat /\ Fillers(w) \in Nat /\ Fillers(w)' \in Nat
  <2>1. k \in Objects
    BY <1>1 DEF Uncached, Objects
  <2> QED
    BY <1>1, <2>1 DEF AgeTyped, Age
<1> DEFINE p == (B - F - w) * (Age(k) - CacheTime - 1)
           q == (B - F - w) * (Age(k) - CacheTime' - 1)
<1>3. p \in Int /\ q \in Int /\ q <= p
  BY <1>2, Products
<1>4. Cardinality(NotNewer(Uncached, k)) + p + Fillers(w) <= NumStored
  BY <1>1, <1>2 DEF Waited
<1>5. /\ Cardinality(NotNewer(Uncached, k)) \in Nat /\ NumStored \in Nat
      /\ Cardinality(NotNewer(Uncached, k)') \in Nat
  BY DEF Numbered
<1>6. (B - F - w) * (Age(k)' - CacheTime' - 1) = q
  BY <1>2
<1> HIDE DEF p, q
<1> QED
  BY <1>1, <1>2, <1>3, <1>4, <1>5, <1>6

\* Within a batch: the same for a fake key, unless it was just read.
LEMMA FakesKeep ==
  ASSUME NEW w \in Nat, AgeTyped(w), AgeTyped(w)', Numbered, Numbered', FakesWaited,
         timeStamp' = timeStamp,
         \A k \in FakeKeys :
           \/ Current'[k][2] = timeStamp /\ FakesRead' <= F
           \/ /\ Current'[k] = Current[k]
              /\ Cardinality(NotNewer(FakeKeys, k)') + FakesRead'
                   <= Cardinality(NotNewer(FakeKeys, k)) + FakesRead
  PROVE  FakesWaited'
<1> SUFFICES ASSUME NEW k \in FakeKeys
             PROVE  Cardinality(NotNewer(FakeKeys, k)') + F * (Age(k)' - 1) + FakesRead' <= D
  BY DEF FakesWaited, FakeKeys
<1>1. /\ Cardinality(NotNewer(FakeKeys, k)) \in Nat /\ Cardinality(NotNewer(FakeKeys, k)') \in Nat
      /\ Cardinality(NotNewer(FakeKeys, k)') <= D
  BY DEF Numbered
<1>2. F \in Nat /\ D \in Nat /\ timeStamp \in Nat /\ Age(k) \in Nat
      /\ Age(k)' = timeStamp - Current'[k][2] /\ FakesRead \in Nat /\ FakesRead' \in Nat
  BY DEF AgeTyped, Objects, Age
<1>3. CASE Current'[k][2] = timeStamp /\ FakesRead' <= F
  <2>1. F * (Age(k)' - 1) = -F
    <3>1. Age(k)' - 1 = -1 /\ F * (-1) = -F
      BY <1>2, <1>3
    <3> QED
      BY <3>1
  <2> QED
    BY <1>1, <1>2, <1>3, <2>1
<1>4. CASE /\ Current'[k] = Current[k]
           /\ Cardinality(NotNewer(FakeKeys, k)') + FakesRead'
                <= Cardinality(NotNewer(FakeKeys, k)) + FakesRead
  <2> DEFINE p == F * (Age(k) - 1)
  <2>1. F * (Age(k)' - 1) = p
    BY <1>4 DEF Age
  <2>2. p \in Int
    BY <1>2, Products
  <2>3. Cardinality(NotNewer(FakeKeys, k)) + p + FakesRead <= D
    BY DEF FakesWaited
  <2> HIDE DEF p
  <2> QED
    BY <1>1, <1>2, <1>4, <2>1, <2>2, <2>3
<1> QED
  BY <1>3, <1>4

\* Steps that move nothing and fix no id.
LEMMA QuietAges ==
  ASSUME NEW w \in Nat, AgeTyped(w), AgeTyped(w)', Numbered, Numbered', Ages(w),
         LiveKeys' = LiveKeys, Current' = Current,
         UNCHANGED <<cache, keys_to_be_deleted, timeStamp, fakeBst>>,
         Evictions' <= Evictions, Fillers(w)' <= Fillers(w), FakesRead' <= FakesRead
  PROVE  Queued' /\ Waited(w)' /\ FakesIndexed' /\ FakesWaited'
<1>1. CacheBound' = CacheBound /\ CacheTime' = CacheTime
  BY DEF CacheTime, CacheBound, CeilDiv, NumStored
<1>2. Uncached' = Uncached
  BY DEF Uncached, CacheKeys
<1>3. \A k : NotNewer(Uncached, k)' = NotNewer(Uncached, k)
  BY <1>2 DEF NotNewer
<1>4. \A k : NotNewer(FakeKeys, k)' = NotNewer(FakeKeys, k)
  BY DEF NotNewer, FakeKeys
<1>5. /\ CacheBound \in Nat /\ CacheTime \in Nat /\ Len(cache) \in Nat
      /\ DOMAIN cache = 1 .. Len(cache) /\ Evictions \in Int /\ Evictions' \in Int
      /\ Fillers(w) \in Nat /\ Fillers(w)' \in Nat /\ FakesRead \in Nat /\ FakesRead' \in Nat
  BY DEF AgeTyped
<1>6. \A k : Cardinality(NotNewer(Uncached, k)) \in Nat /\ Cardinality(NotNewer(FakeKeys, k)) \in Nat
  BY DEF Numbered
<1>7. Queued'
  <2>1. \A n \in DOMAIN cache' :
           \E m \in DOMAIN cache :
                /\ Current'[cache'[n][1]][2] = Current[cache[m][1]][2]
                /\ Len(cache') - n + Evictions' <= Len(cache) - m + Evictions
    BY <1>5
  <2>2. CacheBound <= CacheBound' /\ Queued
    BY <1>1, <1>5 DEF Ages
  <2> QED
    BY <2>1, <2>2, QueuedKeep
<1>8. Waited(w)'
  <2>1. \A k \in Uncached' :
           /\ k \in Uncached /\ Current'[k] = Current[k]
           /\ Cardinality(NotNewer(Uncached, k)') + Fillers(w)'
                <= Cardinality(NotNewer(Uncached, k)) + Fillers(w)
    BY <1>2, <1>3, <1>5, <1>6
  <2>2. CacheTime <= CacheTime' /\ Waited(w)
    BY <1>1, <1>5 DEF Ages
  <2> QED
    BY <2>1, <2>2, WaitedKeep
<1>9. FakesWaited'
  <2>1. \A k \in FakeKeys :
           /\ Current'[k] = Current[k]
           /\ Cardinality(NotNewer(FakeKeys, k)') + FakesRead'
                <= Cardinality(NotNewer(FakeKeys, k)) + FakesRead
    BY <1>4, <1>5, <1>6
  <2>2. FakesWaited
    BY DEF Ages
  <2> QED
    BY <2>1, <2>2, FakesKeep
<1>10. FakesIndexed'
  BY DEF Ages, FakesIndexed, FakeKeys, getFrequency
<1> QED
  BY <1>7, <1>8, <1>9, <1>10

\* Applying a response moves the cursor by one.
LEMMA CursorStep ==
  ASSUME TypeInv, responses # <<>>, responses' = Tail(responses), storage_keys' = storage_keys
  PROVE  Cursor \in Int /\ Cursor' = Cursor + 1
<1>1. responses \in Seq(Ciphertexts) /\ Len(responses) \in Nat /\ Len(storage_keys) \in Nat
  BY DEF TypeInv, TypeOK
<1>2. Len(responses') = Len(responses) - 1
  BY <1>1
<1> QED
  BY <1>1, <1>2 DEF Cursor

\* What those steps have done of the batch: a batch that is read in full has read enough,
\* and one whose responses are all applied has evicted enough.
LEMMA QuietProgress ==
  ASSUME NEW w \in Nat, AgeTyped(w), AgeTyped(w)', TypeInv, Metered,
         \/ GetBatch \/ ApplyFake \/ PutBatch
         \/ pc = "read" /\ pc' = "read" /\ UNCHANGED <<storage_batch, storage_keys>>
         \/ pc = "apply" /\ pc' = "apply" /\ UNCHANGED <<storage_batch, storage_keys, responses>>
         \/ pc \notin {"read", "apply"} /\ pc' \notin {"read", "apply"}
  PROVE  /\ Evictions' <= Evictions /\ Fillers(w)' <= Fillers(w) /\ FakesRead' <= FakesRead
<1>1. /\ B - F \in Nat \ {0} /\ F \in Nat \ {0} /\ NumReal = B - F /\ NumReal' = B - F
      /\ Len(storage_batch) \in Nat /\ Len(storage_batch) <= w /\ Len(storage_keys) \in Nat
      /\ Evictions \in Int /\ Fillers(w) \in Nat /\ FakesRead \in Nat /\ B - F - w \in Nat \ {0}
  BY DEF AgeTyped
<1>2. CASE GetBatch
  <2>1. /\ pc = "read" /\ Len(storage_keys) = NumReal + F
        /\ UNCHANGED <<storage_batch, storage_keys>>
        /\ \/ pc' = "read"
           \/ pc' = "apply" /\ responses' = [n \in DOMAIN storage_keys |-> server[storage_keys[n]]]
    BY <1>2 DEF GetBatch
  <2>2. Fillers(w) = B - F - Len(storage_batch) /\ FakesRead = F /\ Evictions = 0
    BY <1>1, <2>1 DEF Fillers, FakesRead, Evictions
  <2>3. CASE pc' = "read"
    BY <1>1, <2>1, <2>2, <2>3 DEF Fillers, FakesRead, Evictions
  <2>4. CASE pc' = "apply"
    <3>1. Cursor' = 1
      <4>1. DOMAIN storage_keys = 1 .. Len(storage_keys)
        BY DEF AgeTyped
      <4>2. Len(responses') = Len(storage_keys)
        BY <1>1, <2>1, <2>4, <4>1
      <4> QED
        BY <1>1, <2>1, <4>2 DEF Cursor
    <3>2. Evictions' = 0 /\ Fillers(w)' = B - F - w /\ FakesRead' = F
      BY <1>1, <2>4, <3>1 DEF Evictions, Fillers, FakesRead
    <3> QED
      BY <1>1, <2>2, <3>2
  <2> QED
    BY <2>1, <2>3, <2>4
<1>3. CASE ApplyFake
  <2>1. pc = "apply" /\ pc' = "apply" /\ Cursor > NumReal /\ storage_keys' = storage_keys
        /\ responses # <<>> /\ responses' = Tail(responses)
    BY <1>3 DEF ApplyFake
  <2>2. Cursor \in Int /\ Cursor' = Cursor + 1
    BY <2>1, CursorStep
  <2>3. Evictions' = B - F /\ Evictions = B - F
    BY <1>1, <2>1, <2>2 DEF Evictions
  <2> QED
    BY <1>1, <2>1, <2>3 DEF Fillers, FakesRead
<1>4. CASE PutBatch
  <2>1. pc = "apply" /\ pc' = "clear" /\ responses = <<>>
    BY <1>4 DEF PutBatch
  <2>2. Cursor = B + 1 /\ B \in Nat
    BY <1>1, <2>1, ConstantsAssumption DEF Metered, Cursor
  <2>3. Evictions' = B - F /\ Evictions = B - F
    BY <1>1, <2>1, <2>2, ConstantsAssumption DEF Evictions
  <2> QED
    BY <1>1, <2>1, <2>3 DEF Fillers, FakesRead
<1>5. CASE pc = "read" /\ pc' = "read" /\ UNCHANGED <<storage_batch, storage_keys>>
  BY <1>1, <1>5 DEF Evictions, Fillers, FakesRead
<1>6. CASE pc = "apply" /\ pc' = "apply" /\ UNCHANGED <<storage_batch, storage_keys, responses>>
  <2>1. Cursor' = Cursor
    BY <1>6 DEF Cursor
  <2>2. Evictions' = Evictions
    BY <1>1, <1>6, <2>1 DEF Evictions
  <2> QED
    BY <1>1, <1>6, <2>2 DEF Fillers, FakesRead
<1>7. CASE pc \notin {"read", "apply"} /\ pc' \notin {"read", "apply"}
  BY <1>1, <1>7 DEF Evictions, Fillers, FakesRead
<1> QED
  BY <1>2, <1>3, <1>4, <1>5, <1>6, <1>7

\* The next batch begins: everything is one batch older, and the batch has done nothing.
LEMMA StartBatchAges ==
  ASSUME NEW w \in Nat, AgeTyped(w), AgeTyped(w)', Numbered, Ages(w), TypeInv, StartBatch,
         LiveKeys' = LiveKeys, Current' = Current, UNCHANGED <<cache, keys_to_be_deleted>>
  PROVE  Queued' /\ Waited(w)' /\ FakesIndexed' /\ FakesWaited' /\ ReadNow'
<1>1. /\ pc = "collect" /\ pc' = "read" /\ timeStamp' = timeStamp + 1
      /\ UNCHANGED <<storage_keys, storage_batch, fakeBst>>
  BY DEF StartBatch, batchVars, bstVars
<1>2. storage_keys = <<>>
  BY <1>1 DEF TypeInv, Shape
<1>3. /\ B - F \in Nat /\ B - F - w \in Nat /\ F \in Nat /\ timeStamp \in Nat /\ CacheTime \in Nat
      /\ CacheBound \in Nat /\ NumReal' = B - F /\ Len(storage_batch) \in Nat
      /\ Len(cache) \in Nat /\ DOMAIN cache = 1 .. Len(cache)
      /\ \A k \in Objects : Age(k) \in Nat
      /\ \A n \in DOMAIN cache : cache[n][1] \in Objects
  BY DEF AgeTyped
<1>4. Len(storage_keys) = 0
  BY <1>2
<1>5. /\ Evictions = B - F /\ Fillers(w) = B - F - w /\ FakesRead = F
      /\ Evictions' = 0 /\ Fillers(w)' = 0 /\ FakesRead' = 0
  BY <1>1, <1>3, <1>4 DEF Evictions, Fillers, FakesRead
<1>6. CacheBound' = CacheBound /\ CacheTime' = CacheTime
  BY DEF CacheTime, CacheBound, CeilDiv, NumStored
<1>7. Uncached' = Uncached
  BY DEF Uncached, CacheKeys
<1>8. /\ \A k : NotNewer(Uncached, k)' = NotNewer(Uncached, k)
      /\ \A k : NotNewer(FakeKeys, k)' = NotNewer(FakeKeys, k)
  BY <1>7 DEF NotNewer, FakeKeys
<1>9. \A k \in Objects : Age(k)' = Age(k) + 1 /\ Age(k) \in Nat
  <2> SUFFICES ASSUME NEW k \in Objects
               PROVE  Age(k)' = Age(k) + 1 /\ Age(k) \in Nat
    OBVIOUS
  <2>1. Current[k][2] \in Nat /\ timeStamp \in Nat
    BY DEF AgeTyped
  <2>2. Age(k)' = timeStamp' - Current[k][2] /\ Age(k) = timeStamp - Current[k][2]
    BY DEF Age
  <2>3. Age(k) \in Nat
    BY DEF AgeTyped
  <2> QED
    BY <1>1, <2>1, <2>2, <2>3
<1>10. Queued'
  <2> SUFFICES ASSUME NEW n \in DOMAIN cache
               PROVE  Len(cache) - n + 1 + (B - F) * (Age(cache[n][1])' - 1) + 0 <= CacheBound
    BY <1>5, <1>6 DEF Queued
  <2> DEFINE x == Age(cache[n][1])
             p == (B - F) * (x - 1)
  <2>1. Age(cache[n][1])' = x + 1 /\ x \in Nat
    <3>1. cache[n][1] \in Objects /\ Age(cache[n][1])' = timeStamp' - Current'[cache'[n][1]][2]
      BY <1>3 DEF Age
    <3> QED
      BY <1>3, <1>9, <3>1 DEF Age
  <2>2. Len(cache) - n + 1 + p + (B - F) <= CacheBound
    BY <1>5 DEF Ages, Queued
  <2> HIDE DEF x
  <2>3. p \in Int /\ (B - F) * (x - 1 + 1) = p + (B - F)
    BY <1>3, <2>1, Products
  <2>4. Age(cache[n][1])' - 1 = x - 1 + 1
    BY <2>1
  <2> HIDE DEF p
  <2>5. Len(cache) - n + 1 + (p + (B - F)) + 0 <= CacheBound
    BY <1>3, <2>2, <2>3
  <2> QED
    BY <2>3, <2>4, <2>5
<1>11. Waited(w)'
  <2> SUFFICES ASSUME NEW k \in Uncached, Age(k)' > CacheTime
               PROVE  Cardinality(NotNewer(Uncached, k)) + (B - F - w) * (Age(k)' - CacheTime - 1)
                        + 0 <= NumStored
    BY <1>5, <1>6, <1>7, <1>8 DEF Waited, NumStored
  <2>1. k \in Objects /\ Age(k) \in Nat /\ Age(k)' = Age(k) + 1
    BY <1>3, <1>9 DEF Uncached, Objects
  <2>2. /\ Cardinality(NotNewer(Uncached, k)) \in Nat /\ NumStored \in Nat
        /\ Cardinality(NotNewer(Uncached, k)) <= NumStored
    BY DEF Numbered
  <2>3. CASE Age(k) <= CacheTime
    <3>1. Age(k)' - CacheTime - 1 = 0 /\ (B - F - w) * 0 = 0
      BY <1>3, <2>1, <2>3
    <3> QED
      BY <2>2, <3>1
  <2>4. CASE Age(k) > CacheTime
    <3> DEFINE x == Age(k) - CacheTime - 1
               p == (B - F - w) * x
    <3>1. Cardinality(NotNewer(Uncached, k)) + p + (B - F - w) <= NumStored
      BY <1>5, <2>4 DEF Ages, Waited
    <3>2. x \in Int /\ Age(k)' - CacheTime - 1 = x + 1
      BY <1>3, <2>1
    <3> HIDE DEF x
    <3>3. p \in Int /\ (B - F - w) * (x + 1) = p + (B - F - w)
      BY <1>3, <3>2, Products
    <3> HIDE DEF p
    <3>4. Cardinality(NotNewer(Uncached, k)) + (p + (B - F - w)) + 0 <= NumStored
      BY <1>3, <2>2, <3>1, <3>3
    <3> QED
      BY <3>2, <3>3, <3>4
  <2> QED
    BY <1>3, <2>1, <2>3, <2>4
<1>12. FakesWaited'
  <2> SUFFICES ASSUME NEW k \in FakeKeys
               PROVE  Cardinality(NotNewer(FakeKeys, k)) + F * (Age(k)' - 1) + 0 <= D
    BY <1>5, <1>8 DEF FakesWaited, FakeKeys
  <2>1. Age(k) \in Nat /\ Age(k)' - 1 = Age(k) - 1 + 1 /\ D \in Nat
    <3>1. k \in Objects /\ D \in Nat
      BY DEF Objects, AgeTyped
    <3>2. Age(k)' = Age(k) + 1 /\ Age(k) \in Nat
      BY <1>9, <3>1
    <3> QED
      BY <3>1, <3>2
  <2>2. Cardinality(NotNewer(FakeKeys, k)) \in Nat
    BY DEF Numbered
  <2> DEFINE p == F * (Age(k) - 1)
  <2>3. Cardinality(NotNewer(FakeKeys, k)) + p + F <= D
    BY <1>5 DEF Ages, FakesWaited
  <2>4. p \in Int /\ F * (Age(k) - 1 + 1) = p + F
    <3>1. Age(k) - 1 \in Int /\ F \in Nat
      BY <1>3, <2>1
    <3> QED
      BY <3>1, Products
  <2> HIDE DEF p
  <2>5. Cardinality(NotNewer(FakeKeys, k)) + (p + F) + 0 <= D
    BY <1>3, <2>1, <2>2, <2>3, <2>4
  <2> QED
    BY <2>1, <2>4, <2>5
<1>13. FakesIndexed'
  BY <1>1 DEF Ages, FakesIndexed, FakeKeys, getFrequency
<1>14. ReadNow'
  <2>1. PendingKeys' = {}
    BY <1>1, <1>2 DEF PendingKeys, Pending
  <2> QED
    BY <2>1 DEF ReadNow
<1> QED
  BY <1>10, <1>11, <1>12, <1>13, <1>14

\* A read makes its key the newest: for every older key there is one fewer that is not
\* newer, if the key read was not.
LEMMA ReadOlder ==
  ASSUME NEW w \in Nat, AgeTyped(w), NEW S \in SUBSET Objects, NEW k, Objects \subseteq Keys,
         \A j \in Keys : Current'[j] = IF j = k THEN <<k, timeStamp>> ELSE Current[j],
         NEW j \in Objects, Current'[j][2] < timeStamp, IsFiniteSet(NotNewer(S, j))
  PROVE  LET T == {x \in S : Current'[x][2] <= Current'[j][2]}
         IN  /\ Current'[j] = Current[j]
             /\ Cardinality(T) \in Nat /\ Cardinality(T) <= Cardinality(NotNewer(S, j))
             /\ k \in S /\ Current[k][2] <= Current[j][2]
                  => Cardinality(T) + 1 = Cardinality(NotNewer(S, j))
<1> DEFINE T == {x \in S : Current'[x][2] <= Current'[j][2]}
           N == NotNewer(S, j)
<1>1. timeStamp \in Nat /\ \A x \in Objects : Current[x][2] \in Nat
  BY DEF AgeTyped
<1>2. j # k /\ Current'[j] = Current[j]
  <2>1. j = k => Current'[j][2] = timeStamp
    OBVIOUS
  <2> QED
    BY <1>1, <2>1
<1>3. k \notin T
  <2>1. k \in Objects => Current'[k][2] = timeStamp
    OBVIOUS
  <2> QED
    BY <1>1, <1>2, <2>1
<1>4. T = N \ {k}
  <2>1. \A x \in S : x # k => Current'[x] = Current[x]
    OBVIOUS
  <2> QED
    BY <1>2, <1>3, <2>1 DEF NotNewer
<1>5. Cardinality(N) \in Nat
  BY FS_CardinalityType
<1>6. k \in S /\ Current[k][2] <= Current[j][2] => k \in N
  BY DEF NotNewer
<1> HIDE DEF N, T
<1>7. /\ Cardinality(T) \in Nat /\ Cardinality(T) <= Cardinality(N)
      /\ k \in N => Cardinality(T) + 1 = Cardinality(N)
  <2>1. IsFiniteSet(N)
    BY DEF N
  <2>2. CASE k \in N
    <3>1. IsFiniteSet(N \ {k}) /\ Cardinality(N \ {k}) = Cardinality(N) - 1
      BY <2>1, <2>2, FS_RemoveElement
    <3>2. Cardinality(N \ {k}) \in Nat
      BY <3>1, FS_CardinalityType
    <3> QED
      BY <1>4, <1>5, <3>1, <3>2
  <2>3. CASE k \notin N
    <3>1. T = N
      BY <1>4, <2>3
    <3> QED
      BY <1>5, <2>3, <3>1
  <2> QED
    BY <2>2, <2>3
<1> QED
  BY <1>2, <1>6, <1>7 DEF N, T

\* A read keeps the ages: one that counts as a filler took the oldest bucket that the
\* batch had not read, and one that counts as a fake read the oldest fake key.
LEMMA ReadAges ==
  ASSUME NEW w \in Nat, AgeTyped(w), AgeTyped(w)', Numbered, Numbered', Ages(w), PlaceInv,
         NEW k \in Objects, IdRead(k), FakesRead' <= F,
         \/ Fillers(w)' <= Fillers(w)
         \/ /\ Fillers(w)' = Fillers(w) + 1 /\ k \in Uncached
            /\ \A j \in Uncached : Current[j][2] = timeStamp \/ Current[k][2] <= Current[j][2],
         \/ FakesRead' <= FakesRead
         \/ /\ FakesRead' = FakesRead + 1 /\ k \in FakeKeys
            /\ \A j \in FakeKeys : Current[k][2] <= Current[j][2]
  PROVE  Queued' /\ Waited(w)' /\ FakesWaited' /\ ReadNow'
<1>1. /\ pc = "read" /\ pc' = "read" /\ k \notin CacheKeys(cache)
      /\ storage_keys' = Append(storage_keys, Current[k]) /\ LiveKeys' = LiveKeys
      /\ \A j \in Keys : Current'[j] = IF j = k THEN <<k, timeStamp>> ELSE Current[j]
      /\ UNCHANGED <<cache, keys_to_be_deleted, timeStamp, storage_batch>>
  BY DEF IdRead
<1>2. /\ Objects \subseteq Keys /\ timeStamp \in Nat /\ \A j \in Objects : Current[j][2] \in Nat
      /\ \A j \in Objects : Current[j][1] = j
  BY ObjectFacts DEF PlaceInv
<1>3. CacheBound' = CacheBound /\ CacheTime' = CacheTime
  BY <1>1 DEF CacheTime, CacheBound, CeilDiv, NumStored
<1>4. Uncached' = Uncached /\ Uncached \subseteq Objects /\ FakeKeys \subseteq Objects
  BY <1>1 DEF Uncached, CacheKeys, Objects
<1>5. /\ CacheBound \in Nat /\ CacheTime \in Nat /\ Len(cache) \in Nat /\ F \in Nat
      /\ DOMAIN cache = 1 .. Len(cache) /\ Evictions \in Int
      /\ \A n \in DOMAIN cache : cache[n][1] \in Objects
      /\ Fillers(w) \in Nat /\ Fillers(w)' \in Nat /\ FakesRead \in Nat /\ FakesRead' \in Nat
      /\ Len(storage_keys) \in Nat /\ DOMAIN storage_keys = 1 .. Len(storage_keys)
  BY DEF AgeTyped
<1>6. Queued'
  <2>1. Evictions' = Evictions
    BY <1>1 DEF Evictions
  <2>2. ASSUME NEW n \in DOMAIN cache
        PROVE  Current'[cache[n][1]] = Current[cache[n][1]]
    BY <1>1, <1>2, <1>5, <2>2 DEF CacheKeys
  <2>3. \A n \in DOMAIN cache' : \E m \in DOMAIN cache :
                /\ Current'[cache'[n][1]][2] = Current[cache[m][1]][2]
                /\ Len(cache') - n + Evictions' <= Len(cache) - m + Evictions
    BY <1>1, <1>5, <2>1, <2>2
  <2>4. CacheBound <= CacheBound' /\ Queued /\ timeStamp' = timeStamp
    BY <1>1, <1>3, <1>5 DEF Ages
  <2> QED
    BY <2>3, <2>4, QueuedKeep
<1>7. Waited(w)'
  <2>1. ASSUME NEW j \in Uncached', Age(j)' > CacheTime'
        PROVE  /\ j \in Uncached /\ Current'[j] = Current[j]
               /\ Cardinality(NotNewer(Uncached, j)') + Fillers(w)'
                    <= Cardinality(NotNewer(Uncached, j)) + Fillers(w)
    <3>1. j \in Uncached /\ j \in Objects
      BY <1>4
    <3>2. Current'[j][2] < timeStamp
      <4>1. Current'[j][2] \in Nat
        BY <1>1, <1>2, <3>1
      <4>2. Age(j)' = timeStamp - Current'[j][2]
        BY <1>1 DEF Age
      <4> QED
        BY <1>2, <1>3, <1>5, <2>1, <4>1, <4>2
    <3>3. NotNewer(Uncached, j)' = {x \in Uncached : Current'[x][2] <= Current'[j][2]}
      BY <1>4 DEF NotNewer
    <3>4. IsFiniteSet(NotNewer(Uncached, j)) /\ Cardinality(NotNewer(Uncached, j)) \in Nat
      BY DEF Numbered
    <3>5. /\ Current'[j] = Current[j] /\ Cardinality(NotNewer(Uncached, j)') \in Nat
          /\ Cardinality(NotNewer(Uncached, j)') <= Cardinality(NotNewer(Uncached, j))
          /\ k \in Uncached /\ Current[k][2] <= Current[j][2] =>
               Cardinality(NotNewer(Uncached, j)') + 1 = Cardinality(NotNewer(Uncached, j))
      BY <1>1, <1>2, <1>4, <3>1, <3>2, <3>3, <3>4, ReadOlder
    <3>6. Current[j][2] # timeStamp
      BY <1>2, <3>1, <3>2, <3>5
    <3> QED
      BY <1>5, <3>1, <3>4, <3>5, <3>6
  <2>2. CacheTime <= CacheTime' /\ Waited(w) /\ timeStamp' = timeStamp
    BY <1>1, <1>3, <1>5 DEF Ages
  <2> QED
    BY <2>1, <2>2, WaitedKeep
<1>8. FakesWaited'
  <2>1. ASSUME NEW j \in FakeKeys, Current'[j][2] # timeStamp
        PROVE  /\ Current'[j] = Current[j]
               /\ Cardinality(NotNewer(FakeKeys, j)') + FakesRead'
                    <= Cardinality(NotNewer(FakeKeys, j)) + FakesRead
    <3>1. j \in Objects
      BY <1>4
    <3>2. Current'[j][2] < timeStamp
      <4>1. Current'[j] = Current[j]
        BY <1>1, <1>2, <2>1, <3>1
      <4>2. Current[j][2] <= timeStamp
        BY <3>1 DEF PlaceInv, Place, Bounded
      <4> QED
        BY <1>2, <2>1, <3>1, <4>1, <4>2
    <3>3. NotNewer(FakeKeys, j)' = {x \in FakeKeys : Current'[x][2] <= Current'[j][2]}
      BY DEF NotNewer, FakeKeys
    <3>4. IsFiniteSet(NotNewer(FakeKeys, j)) /\ Cardinality(NotNewer(FakeKeys, j)) \in Nat
      BY DEF Numbered
    <3>5. /\ Current'[j] = Current[j] /\ Cardinality(NotNewer(FakeKeys, j)') \in Nat
          /\ Cardinality(NotNewer(FakeKeys, j)') <= Cardinality(NotNewer(FakeKeys, j))
          /\ k \in FakeKeys /\ Current[k][2] <= Current[j][2] =>
               Cardinality(NotNewer(FakeKeys, j)') + 1 = Cardinality(NotNewer(FakeKeys, j))
      BY <1>1, <1>2, <1>4, <3>1, <3>2, <3>3, <3>4, ReadOlder
    <3> QED
      BY <1>5, <3>4, <3>5
  <2>2. FakesWaited /\ timeStamp' = timeStamp
    BY <1>1 DEF Ages
  <2> QED
    BY <2>1, <2>2, FakesKeep
<1>9. ReadNow'
  <2>1. PendingKeys' = PendingKeys \cup {k}
    <3>1. /\ Pending = DOMAIN storage_keys /\ Pending' = DOMAIN storage_keys'
          /\ PendingKeys' = {storage_keys'[n][1] : n \in Pending'}
      BY <1>1 DEF Pending, PendingKeys
    <3> DEFINE L == Len(storage_keys)
    <3>2. /\ DOMAIN storage_keys' = DOMAIN storage_keys \cup {L + 1}
          /\ storage_keys'[L + 1] = Current[k]
          /\ \A n \in DOMAIN storage_keys : storage_keys'[n] = storage_keys[n]
      BY <1>1, IndexFacts DEF PlaceInv, RunInv
    <3> HIDE DEF L
    <3> QED
      BY <1>2, <3>1, <3>2 DEF PendingKeys
  <2>2. Objects' = Objects
    BY <1>1 DEF Objects, FakeKeys
  <2>3. \A j \in PendingKeys \cap Objects : Current[j][2] = timeStamp /\ j \in Keys
    BY <1>2 DEF Ages, ReadNow
  <2>4. \A j \in PendingKeys' \cap Objects : Current'[j][2] = timeStamp
    BY <1>1, <1>2, <2>1, <2>3
  <2> QED
    BY <1>1, <2>2, <2>4 DEF ReadNow
<1> QED
  BY <1>6, <1>7, <1>8, <1>9

\* A bucket outside the cache that the batch has not read is one the iterator stops at.
LEMMA UnreadFree ==
  ASSUME PlaceInv, ReadNow, pc = "read", Len(storage_keys) >= Len(storage_batch),
         NEW j \in Uncached, Current[j][2] # timeStamp
  PROVE  Current[j] \in OnServer /\ ~isPresent(runningKeys, j)
<1>1. j \in LiveKeys /\ j \notin CacheKeys(cache)
  BY DEF Uncached
<1>2. Current[j] \in realBst.accessTree /\ Current[j][1] = j
  <2>1. j \in DOMAIN realBst.accessFreqs /\ <<j, realBst.accessFreqs[j]>> \in realBst.accessTree
    BY <1>1 DEF PlaceInv, RunInv, IndexInv, IndexAgrees
  <2>2. Current[j] = <<j, getFrequency(realBst, j)>>
    BY <1>1, ObjectFacts DEF PlaceInv
  <2> QED
    BY <2>1, <2>2 DEF getFrequency, At
<1>3. DOMAIN EvictedItems = {}
  BY DEF PlaceInv, RunInv, IndexInv, BatchAccounts, EvictedWritten
<1>4. Current[j] \in OnServer
  BY <1>1, <1>2, <1>3 DEF OnServer
<1>5. j \notin ReadKeys
  <2>1. PendingKeys = ReadKeys /\ j \in Objects
    BY <1>1, PendingFacts DEF PlaceInv, Objects
  <2> QED
    BY <2>1 DEF ReadNow
<1>6. j \notin Fetched
  BY <1>5, FetchedRead DEF PlaceInv
<1>7. Present(runningKeys) = Fetched \cup ReadKeys
  BY DEF PlaceInv, RunInv, Rest, Whereabouts
<1> QED
  BY <1>4, <1>5, <1>6, <1>7 DEF isPresent, Present

\* The id a read appends tells which key it was of.
LEMMA ReadOf ==
  ASSUME PlaceInv, NEW k \in Objects, IdRead(k), NEW id, storage_keys' = Append(storage_keys, id)
  PROVE  Current[k] = id /\ id[1] = k
<1>1. storage_keys' = Append(storage_keys, Current[k]) /\ storage_keys \in Seq(StorageIds)
  BY IndexFacts DEF PlaceInv, RunInv, IdRead
<1> DEFINE L == Len(storage_keys)
<1>2. storage_keys'[L + 1] = Current[k] /\ storage_keys'[L + 1] = id
  <2>1. \A x : Append(storage_keys, x)[L + 1] = x
    BY <1>1
  <2> QED
    BY <1>1, <2>1
<1>3. Current[k][1] = k
  BY ObjectFacts DEF PlaceInv
<1> QED
  BY <1>1, <1>2, <1>3

\* An operation's own read counts as nothing.
LEMMA ReadOperationAges ==
  ASSUME NEW w \in Nat, AgeTyped(w), AgeTyped(w)', Numbered, Numbered', Ages(w), PlaceInv,
         ReadOperation
  PROVE  Queued' /\ Waited(w)' /\ FakesIndexed' /\ FakesWaited' /\ ReadNow'
<1>1. PICK k \in Objects : IdRead(k)
  BY ReadOperationEffect
<1>2. /\ pc = "read" /\ pc' = "read" /\ Len(storage_keys) < Len(storage_batch)
      /\ storage_keys' = Append(storage_keys, Current[k]) /\ UNCHANGED <<storage_batch, fakeBst>>
  BY <1>1 DEF ReadOperation, IdRead
<1>3. /\ B - F \in Nat /\ B - F - w \in Nat /\ F \in Nat /\ NumReal = B - F /\ NumReal' = B - F
      /\ Len(storage_batch) \in Nat /\ Len(storage_batch) <= w /\ Len(storage_keys) \in Nat
  BY DEF AgeTyped
<1>4. Len(storage_keys') = Len(storage_keys) + 1
  BY <1>2, IndexFacts DEF PlaceInv, RunInv
<1>5. Fillers(w) = 0 /\ Fillers(w)' = 0 /\ FakesRead = 0 /\ FakesRead' = 0
  BY <1>2, <1>3, <1>4 DEF Fillers, FakesRead
<1>6. FakesRead' <= F /\ Fillers(w)' <= Fillers(w) /\ FakesRead' <= FakesRead
  BY <1>3, <1>5
<1>7. Queued' /\ Waited(w)' /\ FakesWaited' /\ ReadNow'
  BY <1>1, <1>6, ReadAges
<1>8. FakesIndexed'
  BY <1>2 DEF Ages, FakesIndexed, FakeKeys, getFrequency
<1> QED
  BY <1>7, <1>8

\* A filler is the first bucket in accessTree that the batch has not read: the oldest.
LEMMA ReadFakeRealAges ==
  ASSUME NEW w \in Nat, AgeTyped(w), AgeTyped(w)', Numbered, Numbered', Ages(w), PlaceInv,
         ReadFakeReal, NEW k \in Objects, IdRead(k)
  PROVE  Queued' /\ Waited(w)' /\ FakesIndexed' /\ FakesWaited' /\ ReadNow'
<1> DEFINE free == {e \in OnServer : ~isPresent(runningKeys, e[1])}
           e    == FirstEntry(free)
           L    == Len(storage_keys)
<1>1. /\ pc = "read" /\ pc' = "read" /\ L >= Len(storage_batch) /\ L < NumReal
      /\ storage_keys' = Append(storage_keys, Current[k]) /\ UNCHANGED <<storage_batch, fakeBst>>
  BY DEF ReadFakeReal, IdRead
<1>2. /\ B - F \in Nat /\ B - F - w \in Nat /\ F \in Nat /\ NumReal = B - F /\ NumReal' = B - F
      /\ Len(storage_batch) \in Nat /\ Len(storage_batch) <= w /\ L \in Nat
  BY DEF AgeTyped
<1>3. Len(storage_keys') = L + 1
  BY <1>1, IndexFacts DEF PlaceInv, RunInv
<1>4. free # {}
  <2>1. free = {} => storage_keys' = storage_keys
    BY DEF ReadFakeReal
  <2> QED
    BY <1>2, <1>3, <2>1
<1>5. Fillers(w)' = Fillers(w) + 1 /\ FakesRead = 0 /\ FakesRead' = 0
  BY <1>1, <1>2, <1>3 DEF Fillers, FakesRead
<1>6. free \subseteq (Nat \X Nat) \X Nat
  <2>1. OnServer \subseteq realBst.accessTree /\ realBst.accessTree \subseteq RealKeys \X Nat
    BY IndexFacts, SmootherParts DEF PlaceInv, RunInv, OnServer, RealOK
  <2> QED
    BY <2>1, KeyTypes
<1>7. /\ e \in free /\ \A g \in free \ {e} : freqCmp(e, g)
  <2> HIDE DEF free
  <2> QED
    BY <1>4, <1>6, FirstEntryIn
<1>8. storage_keys' = Append(storage_keys, <<e[1], getFrequency(realBst, e[1])>>)
  BY <1>4 DEF ReadFakeReal
<1>9. e \in OnServer /\ \A g \in free : e[2] <= g[2] /\ e[2] \in Nat /\ g[2] \in Nat
  <2>1. e \in OnServer
    BY <1>7
  <2>2. ASSUME NEW g \in free
        PROVE  e[2] <= g[2] /\ e[2] \in Nat /\ g[2] \in Nat
    <3>1. e[2] \in Nat /\ g[2] \in Nat
      BY <1>6, <1>7
    <3>2. g # e => freqCmp(e, g)
      BY <1>7
    <3> HIDE DEF e, free
    <3>3. freqCmp(e, g) => e[2] <= g[2]
      BY <3>1 DEF freqCmp
    <3> QED
      BY <3>1, <3>2, <3>3
  <2> QED
    BY <2>1, <2>2
<1>10. \A j \in Uncached : Current[j][2] = timeStamp \/ Current[j] \in free
  <2>1. \A j \in Uncached : Current[j][1] = j
    BY ObjectFacts DEF PlaceInv, Uncached, Objects
  <2> QED
    BY <1>1, <2>1, UnreadFree DEF Ages
<1> HIDE DEF free, e
<1>11. k = e[1] /\ Current[k] = <<e[1], getFrequency(realBst, e[1])>>
  BY <1>8, ReadOf
<1>12. k \in Uncached /\ e[2] = Current[k][2]
  <2>1. e \in realBst.accessTree /\ e[1] \notin CacheKeys(cache)
    BY <1>9 DEF OnServer
  <2>2. PICK x \in LiveKeys : e = <<x, realBst.accessFreqs[x]>> /\ x \in DOMAIN realBst.accessFreqs
    BY <2>1 DEF PlaceInv, RunInv, IndexInv, IndexAgrees
  <2>3. e[1] = x /\ e[2] = getFrequency(realBst, x)
    BY <2>2 DEF getFrequency, At
  <2> QED
    BY <1>11, <2>1, <2>2, <2>3 DEF Uncached
<1>13. \A j \in Uncached : Current[j][2] = timeStamp \/ Current[k][2] <= Current[j][2]
  BY <1>9, <1>10, <1>12
<1>14. FakesRead' <= F /\ FakesRead' <= FakesRead
  BY <1>2, <1>5
<1>15. Queued' /\ Waited(w)' /\ FakesWaited' /\ ReadNow'
  BY <1>5, <1>12, <1>13, <1>14, ReadAges
<1>16. FakesIndexed'
  BY <1>1 DEF Ages, FakesIndexed, FakeKeys, getFrequency
<1> QED
  BY <1>15, <1>16

\* A fake read takes the first key of the fake keys' index: the oldest.
LEMMA ReadFakeAges ==
  ASSUME NEW w \in Nat, AgeTyped(w), AgeTyped(w)', Numbered, Numbered', Ages(w), PlaceInv,
         RunInv', ReadFake
  PROVE  Queued' /\ Waited(w)' /\ FakesIndexed' /\ FakesWaited' /\ ReadNow'
<1> DEFINE tree == fakeBst.accessTree
           e    == FirstEntry(tree)
           L    == Len(storage_keys)
<1>1. PICK k \in Objects : IdRead(k)
  BY ReadFakeEffect
<1>2. /\ pc = "read" /\ pc' = "read" /\ L >= NumReal /\ L < NumReal + F
      /\ storage_keys' = Append(storage_keys, <<e[1], getFrequency(fakeBst, e[1])>>)
      /\ fakeBst' = setFrequency(fakeBst, e[1], timeStamp) /\ UNCHANGED storage_batch
  BY DEF ReadFake, getKeyWithMinFrequency
<1>3. /\ B - F \in Nat \ {0} /\ B - F - w \in Nat \ {0} /\ F \in Nat /\ NumReal = B - F
      /\ NumReal' = B - F
      /\ Len(storage_batch) \in Nat /\ Len(storage_batch) <= w /\ L \in Nat
  BY DEF AgeTyped
<1>4. Len(storage_keys') = L + 1
  BY <1>2, IndexFacts DEF PlaceInv, RunInv
<1>5. Fillers(w)' = Fillers(w) /\ FakesRead' = FakesRead + 1 /\ FakesRead' <= F
  BY <1>2, <1>3, <1>4 DEF Fillers, FakesRead
<1>6. Fillers(w)' <= Fillers(w)
  BY <1>5 DEF AgeTyped
<1>7. tree = {<<j, getFrequency(fakeBst, j)>> : j \in FakeKeys}
  BY DEF Ages, FakesIndexed
<1>8. tree \subseteq (Nat \X Nat) \X Nat
  <2>1. tree \subseteq FakeKeys \X Nat
    BY SmootherParts DEF PlaceInv, RunInv, IndexInv, TypeInv, TypeOK
  <2> QED
    BY <2>1, KeyTypes
<1>9. tree # {}
  <2>1. F <= D /\ D \in Nat /\ F \in Nat
    BY ConstantsAssumption
  <2>2. <<0, 1>> \in FakeKeys
    BY <1>2, <1>3, <2>1 DEF FakeKeys
  <2> QED
    BY <1>7, <2>2
<1>10. /\ e \in tree /\ \A g \in tree \ {e} : freqCmp(e, g)
  <2> HIDE DEF tree
  <2> QED
    BY <1>8, <1>9, FirstEntryIn
<1>11. \A g \in tree : e[2] <= g[2]
  <2>1. ASSUME NEW g \in tree
        PROVE  e[2] <= g[2]
    <3>1. e[2] \in Nat /\ g[2] \in Nat
      BY <1>8, <1>10
    <3>2. g # e => freqCmp(e, g)
      BY <1>10
    <3> HIDE DEF e, tree
    <3>3. freqCmp(e, g) => e[2] <= g[2]
      BY <3>1 DEF freqCmp
    <3> QED
      BY <3>1, <3>2, <3>3
  <2> QED
    BY <2>1
<1> HIDE DEF tree, e
<1>12. k = e[1] /\ Current[k] = <<e[1], getFrequency(fakeBst, e[1])>>
  BY <1>1, <1>2, ReadOf
<1>13. k \in FakeKeys /\ e = Current[k]
  BY <1>7, <1>10, <1>12
<1>14. \A j \in FakeKeys : Current[j] \in tree
  BY <1>7, ObjectFacts DEF PlaceInv
<1>15. \A j \in FakeKeys : Current[k][2] <= Current[j][2]
  BY <1>11, <1>13, <1>14
<1>16. Queued' /\ Waited(w)' /\ FakesWaited' /\ ReadNow'
  BY <1>1, <1>5, <1>6, <1>13, <1>15, ReadAges
<1>17. FakesIndexed'
  <2>1. \A j : getFrequency(fakeBst', j) = IF j = k THEN timeStamp ELSE getFrequency(fakeBst, j)
    BY <1>2, <1>12, FrequencySet
  <2>2. fakeBst'.accessTree = (tree \ {<<k, getFrequency(fakeBst, k)>>}) \cup {<<k, timeStamp>>}
    BY <1>2, <1>12 DEF setFrequency, tree
  <2>3. fakeBst'.accessTree = {<<j, getFrequency(fakeBst', j)>> : j \in FakeKeys}
    <3> DEFINE fr(j) == getFrequency(fakeBst, j)
               fn(j) == getFrequency(fakeBst', j)
    <3>1. \A j : fn(j) = IF j = k THEN timeStamp ELSE fr(j)
      BY <2>1
    <3>2. tree = {<<j, fr(j)>> : j \in FakeKeys}
      BY <1>7
    <3>3. fakeBst'.accessTree = (tree \ {<<k, fr(k)>>}) \cup {<<k, timeStamp>>}
      BY <2>2
    <3> HIDE DEF fr, fn
    <3>4. fakeBst'.accessTree = {<<j, fn(j)>> : j \in FakeKeys}
      BY <1>13, <3>1, <3>2, <3>3
    <3> QED
      BY <3>4 DEF fn
  <2> QED
    BY <2>3 DEF FakesIndexed, FakeKeys, getFrequency
<1> QED
  BY <1>16, <1>17

\* What insertIntoCache and removeKey leave of a list has no more entries behind it than
\* before, and the entry that goes in is the first.
Behind(d, c, k) ==
  \A n \in DOMAIN d :
    d[n][1] = k \/ \E m \in DOMAIN c : d[n] = c[m] /\ Len(d) - n <= Len(c) - m

LEMMA RemoveBehind ==
  ASSUME NEW P, NEW c \in Seq(P), NEW k, NEW x
  PROVE  /\ Behind(removeFromCache(c, k), c, x)
         /\ removeFromCache(c, k) \in Seq(P)
<1>0. Len(c) \in Nat /\ DOMAIN c = 1 .. Len(c)
  OBVIOUS
<1>1. CASE k \notin CacheKeys(c)
  <2>1. removeFromCache(c, k) = c
    BY <1>1 DEF removeFromCache
  <2>2. \A n \in DOMAIN c : Len(c) - n <= Len(c) - n
    BY <1>0
  <2> QED
    BY <2>1, <2>2 DEF Behind
<1>2. CASE k \in CacheKeys(c)
  <2> DEFINE q == CachePos(c, k)
             d == EraseAt(c, q)
  <2>1. q \in DOMAIN c
    BY <1>2 DEF CacheKeys, CachePos
  <2>2. removeFromCache(c, k) = d
    BY <1>2 DEF removeFromCache
  <2>3. /\ d \in Seq(P) /\ Len(d) = Len(c) - 1
        /\ \A j \in 1 .. (Len(c) - 1) : d[j] = IF j < q THEN c[j] ELSE c[j + 1]
    BY <2>1, EraseAtEntries
  <2>4. DOMAIN d = 1 .. (Len(c) - 1)
    BY <2>3
  <2> HIDE DEF q, d
  <2>5. ASSUME NEW n \in DOMAIN d
        PROVE  \E m \in DOMAIN c : d[n] = c[m] /\ Len(d) - n <= Len(c) - m
    <3>1. CASE n < q
      <4>1. n \in DOMAIN c /\ d[n] = c[n] /\ Len(d) - n <= Len(c) - n
        BY <1>0, <2>1, <2>3, <2>4, <3>1
      <4> QED
        BY <4>1
    <3>2. CASE ~(n < q)
      <4>1. n + 1 \in DOMAIN c /\ d[n] = c[n + 1] /\ Len(d) - n <= Len(c) - (n + 1)
        BY <1>0, <2>1, <2>3, <2>4, <3>2
      <4> QED
        BY <4>1
    <3> QED
      BY <3>1, <3>2
  <2> QED
    BY <2>2, <2>3, <2>5 DEF Behind
<1> QED
  BY <1>1, <1>2

LEMMA InsertBehind ==
  ASSUME NEW P, NEW c \in Seq(P), NEW k, NEW v, <<k, v>> \in P
  PROVE  Behind(insertIntoCache(c, k, v), c, k)
<1> DEFINE d == removeFromCache(c, k)
           e == <<<<k, v>>>> \o d
<1>1. d \in Seq(P) /\ Behind(d, c, k) /\ insertIntoCache(c, k, v) = e
  BY RemoveBehind DEF insertIntoCache
<1> HIDE DEF d
<1>2. /\ Len(e) = Len(d) + 1 /\ e[1] = <<k, v>> /\ e \in Seq(P)
      /\ \A j \in 1 .. Len(d) : e[j + 1] = d[j]
  BY <1>1
<1> HIDE DEF e
<1>3. DOMAIN e = 1 .. (Len(d) + 1) /\ DOMAIN d = 1 .. Len(d) /\ Len(d) \in Nat
      /\ Len(c) \in Nat /\ DOMAIN c = 1 .. Len(c)
  BY <1>1, <1>2
<1>4. ASSUME NEW n \in DOMAIN e, e[n][1] # k
      PROVE  \E m \in DOMAIN c : e[n] = c[m] /\ Len(e) - n <= Len(c) - m
  <2>1. n # 1
    BY <1>2, <1>4
  <2>2. n - 1 \in DOMAIN d /\ e[n] = d[n - 1]
    <3>1. n - 1 \in 1 .. Len(d) /\ n = (n - 1) + 1
      BY <1>3, <2>1
    <3> QED
      BY <1>2, <1>3, <3>1
  <2>3. PICK m \in DOMAIN c : d[n - 1] = c[m] /\ Len(d) - (n - 1) <= Len(c) - m
    BY <1>1, <1>4, <2>2 DEF Behind
  <2>4. Len(e) - n = Len(d) - (n - 1)
    BY <1>2, <1>3
  <2> QED
    BY <2>2, <2>3, <2>4
<1> QED
  BY <1>1, <1>4 DEF Behind

\* Evicting takes the last entry, so that every other has one fewer behind it.
LEMMA EvictBehind ==
  ASSUME NEW P, NEW c \in Seq(P), c # <<>>, NEW none
  PROVE  /\ evictLRElement(c) \in Seq(P)
         /\ Len(c) \in DOMAIN c /\ LREntry(c, none) = c[Len(c)]
         /\ \A n \in DOMAIN evictLRElement(c) :
              /\ n \in DOMAIN c /\ evictLRElement(c)[n] = c[n]
              /\ Len(evictLRElement(c)) = Len(c) - 1
<1> DEFINE d == SubSeq(c, 1, Len(c) - 1)
<1>1. evictLRElement(c) = d /\ LREntry(c, none) = c[Len(c)]
  BY DEF evictLRElement, LREntry
<1>2. Len(c) \in Nat \ {0} /\ DOMAIN c = 1 .. Len(c)
  OBVIOUS
<1>3. /\ d \in Seq(P) /\ Len(d) = Len(c) - 1 /\ DOMAIN d = 1 .. (Len(c) - 1)
      /\ \A n \in 1 .. (Len(c) - 1) : d[n] = c[n]
  BY <1>2
<1> HIDE DEF d
<1> QED
  BY <1>1, <1>2, <1>3

\* The fake keys are left alone.
LEMMA FakesStill ==
  ASSUME NEW w \in Nat, AgeTyped(w), AgeTyped(w)', Numbered, Numbered', Ages(w),
         UNCHANGED <<timeStamp, fakeBst>>, FakesRead' <= FakesRead
  PROVE  FakesIndexed' /\ FakesWaited'
<1>1. \A k \in FakeKeys : Current'[k] = Current[k]
  BY DEF Current, getFrequency, Keys
<1>2. \A k \in FakeKeys : NotNewer(FakeKeys, k)' = NotNewer(FakeKeys, k)
  BY <1>1 DEF NotNewer, FakeKeys
<1>3. FakesRead \in Nat /\ FakesRead' \in Nat /\ \A k : Cardinality(NotNewer(FakeKeys, k)) \in Nat
  BY DEF AgeTyped, Numbered
<1>4. \A k \in FakeKeys :
           /\ Current'[k] = Current[k]
           /\ Cardinality(NotNewer(FakeKeys, k)') + FakesRead'
                <= Cardinality(NotNewer(FakeKeys, k)) + FakesRead
  BY <1>1, <1>2, <1>3
<1>5. FakesWaited /\ timeStamp' = timeStamp
  BY DEF Ages
<1>6. FakesWaited'
  BY <1>4, <1>5, FakesKeep
<1>7. FakesIndexed'
  BY DEF Ages, FakesIndexed, FakeKeys, getFrequency
<1> QED
  BY <1>6, <1>7

\* The entry evicted was the last one, so it is at most CacheTime batches old: an older
\* bucket on the server gets no other before it.  The key that goes in is new.
LEMMA ApplyRealAges ==
  ASSUME NEW w \in Nat, AgeTyped(w), AgeTyped(w)', Numbered, Numbered', Ages(w), PlaceInv,
         CacheSize > 0, ApplyReal
  PROVE  Queued' /\ Waited(w)' /\ FakesIndexed' /\ FakesWaited' /\ ReadNow'
<1>0. PICK x, k : x = LREntry(cache, <<NoKey, NoValue>>)[1] /\ k = storage_keys[Cursor][1]
  OBVIOUS
<1> DEFINE left == evictLRElement(cache)
<1>1. /\ pc = "apply" /\ pc' = "apply" /\ responses # <<>> /\ responses' = Tail(responses)
      /\ Cursor <= NumReal /\ UNCHANGED <<storage_keys, storage_batch, timeStamp, fakeBst>>
      /\ k \in keys_to_be_deleted => cache' = left
      /\ k \notin keys_to_be_deleted => \E v : cache' = insertIntoCache(left, k, v)
  BY <1>0 DEF ApplyReal
<1>2. cache # <<>> /\ cache \in Seq(RealKeys \X Payloads)
  BY IndexFacts, FS_CardinalityType, ConstantsAssumption DEF PlaceInv, RunInv, Place, Room
<1>3. /\ k \in PendingKeys /\ k \notin CacheKeys(cache) /\ PendingKeys' = PendingKeys \ {k}
      /\ Cursor \in DOMAIN storage_keys
  <2>1. k \in PendingKeys /\ PendingKeys' = PendingKeys \ {k} /\ Cursor \in Pending
    BY <1>0, <1>1, PendingNext DEF PlaceInv
  <2> QED
    BY <2>1 DEF PlaceInv, Place, Apart, Pending
<1>4. EntryReplaced(x, k)
  BY <1>0, <1>2, <1>3, ApplyRealEffect DEF PlaceInv
<1>5. /\ x \in CacheKeys(cache) /\ k \in LiveKeys
      /\ keys_to_be_deleted' = keys_to_be_deleted \ {k}
      /\ LiveKeys' = IF k \in keys_to_be_deleted THEN LiveKeys \ {k} ELSE LiveKeys
      /\ CacheKeys(cache') = (CacheKeys(cache) \ {x})
                                \cup (IF k \in keys_to_be_deleted THEN {} ELSE {k})
      /\ \A j \in Objects' : Current'[j] = Current[j]
  BY <1>4 DEF EntryReplaced
<1>6. /\ B - F \in Nat \ {0} /\ timeStamp \in Nat /\ \A j \in Objects : Current[j][2] \in Nat
      /\ CacheBound \in Nat /\ CacheTime \in Nat /\ Len(cache) \in Nat /\ Len(cache') \in Nat
      /\ DOMAIN cache = 1 .. Len(cache) /\ DOMAIN cache' = 1 .. Len(cache') /\ NumReal = B - F
      /\ NumReal' = B - F /\ \A n \in DOMAIN cache' : cache'[n][1] \in Objects'
      /\ DOMAIN storage_keys = 1 .. Len(storage_keys) /\ Evictions \in Int
      /\ \A n \in DOMAIN cache : cache[n][1] \in Objects /\ Age(cache[n][1]) \in Nat
  BY DEF AgeTyped
<1>7. CacheBound' = CacheBound /\ CacheTime' = CacheTime
  <2>1. LiveKeys' \ keys_to_be_deleted' = LiveKeys \ keys_to_be_deleted
    BY <1>5
  <2> QED
    BY <2>1 DEF CacheTime, CacheBound, CeilDiv, NumStored
<1>8. Evictions' = Evictions + 1 /\ Evictions >= 0
  <2>1. Cursor \in Int /\ Cursor' = Cursor + 1 /\ Cursor >= 1
    BY <1>1, <1>3, <1>6, CursorStep DEF PlaceInv, RunInv, IndexInv
  <2> QED
    BY <1>1, <1>6, <2>1 DEF Evictions
<1>9. Objects' \subseteq Objects
  BY <1>5 DEF Objects, FakeKeys
<1>10. /\ left \in Seq(RealKeys \X Payloads) /\ Len(cache) \in DOMAIN cache
       /\ cache[Len(cache)][1] = x
       /\ \A n \in DOMAIN left : /\ n \in DOMAIN cache /\ left[n] = cache[n]
                                 /\ Len(left) = Len(cache) - 1
  BY <1>0, <1>2, EvictBehind
<1> HIDE DEF left
<1>11. Behind(cache', left, k)
  <2>1. CASE k \in keys_to_be_deleted
    <3>1. cache' = left /\ \A n \in DOMAIN left : Len(left) - n <= Len(left) - n
      BY <1>1, <1>10, <2>1
    <3> QED
      BY <3>1 DEF Behind
  <2>2. CASE k \notin keys_to_be_deleted
    <3>1. PICK v : cache' = insertIntoCache(left, k, v)
      BY <1>1, <2>2
    <3> DEFINE P == (RealKeys \X Payloads) \cup {<<k, v>>}
    <3>2. left \in Seq(P) /\ <<k, v>> \in P
      BY <1>10
    <3> HIDE DEF P
    <3> QED
      BY <3>1, <3>2, InsertBehind
  <2> QED
    BY <2>1, <2>2
<1>12. Queued'
  <2>1. ASSUME NEW n \in DOMAIN cache'
        PROVE  \/ Current'[cache'[n][1]][2] = timeStamp
               \/ \E m \in DOMAIN cache :
                    /\ Current'[cache'[n][1]][2] = Current[cache[m][1]][2]
                    /\ Len(cache') - n + Evictions' <= Len(cache) - m + Evictions
    <3>1. Current'[cache'[n][1]] = Current[cache'[n][1]]
      BY <1>5, <1>6
    <3>2. CASE cache'[n][1] = k
      <4>1. Current[k][2] = timeStamp
        BY <1>3, <1>5 DEF Ages, ReadNow, Objects
      <4> QED
        BY <3>1, <3>2, <4>1
    <3>3. CASE cache'[n][1] # k
      <4>1. PICK m \in DOMAIN left : cache'[n] = left[m] /\ Len(cache') - n <= Len(left) - m
        BY <1>11, <3>3 DEF Behind
      <4>2. m \in DOMAIN cache /\ left[m] = cache[m] /\ Len(left) = Len(cache) - 1
        BY <1>10
      <4>3. Len(cache') - n + Evictions' <= Len(cache) - m + Evictions
        BY <1>6, <1>8, <4>1, <4>2
      <4> QED
        BY <3>1, <4>1, <4>2, <4>3
    <3> QED
      BY <3>2, <3>3
  <2>2. CacheBound <= CacheBound' /\ Queued /\ timeStamp' = timeStamp
    BY <1>1, <1>6, <1>7 DEF Ages
  <2> QED
    BY <2>1, <2>2, QueuedKeep
<1>13. Age(x) <= CacheTime /\ x \in Objects
  <2> DEFINE p == (B - F) * (Age(x) - 1)
  <2>1. Len(cache) - Len(cache) + 1 + p + Evictions <= CacheBound
    BY <1>10 DEF Ages, Queued
  <2>2. x \in Objects /\ Age(x) \in Nat /\ p \in Int
    <3>1. x \in Objects
      BY <1>6, <1>10
    <3>2. Age(x) \in Nat
      BY <3>1 DEF AgeTyped
    <3>3. p \in Int
      BY <1>6, <3>2, Products
    <3> QED
      BY <3>1, <3>2, <3>3
  <2>3. p < CacheBound
    <3> HIDE DEF p
    <3> QED
      BY <1>6, <1>8, <2>1, <2>2
  <2>4. Age(x) <= CeilDiv(CacheBound, B - F)
    <3>1. \A y \in Int : (B - F) * (y - 1) < CacheBound => y <= CeilDiv(CacheBound, B - F)
      BY <1>6, CeilDivFacts
    <3>2. Age(x) \in Int
      BY <2>2
    <3> QED
      BY <2>3, <3>1, <3>2, Zenon
  <2> QED
    BY <2>2, <2>4 DEF CacheTime
<1>14. Waited(w)'
  <2>1. Uncached' = LiveKeys' \ CacheKeys(cache')
    BY DEF Uncached, CacheKeys
  <2>2. \A j \in Uncached' : j = x \/ (j \in Uncached /\ j \in Objects')
    BY <1>5, <2>1 DEF Uncached, Objects
  <2>3. ASSUME NEW j \in Uncached', Age(j)' > CacheTime'
        PROVE  /\ j \in Uncached /\ Current'[j] = Current[j]
               /\ Cardinality(NotNewer(Uncached, j)') + Fillers(w)'
                    <= Cardinality(NotNewer(Uncached, j)) + Fillers(w)
    <3>1. j \in Objects' /\ j \in Objects /\ Current'[j] = Current[j]
      BY <1>5, <1>9, <2>1 DEF Objects
    <3>2. Age(j)' = Age(j)
      BY <1>1, <3>1 DEF Age
    <3>3. j # x /\ j \in Uncached /\ Current[j][2] < Current[x][2]
      <4>1. Age(j) = timeStamp - Current[j][2] /\ Age(x) = timeStamp - Current[x][2]
        BY DEF Age
      <4>2. Current[j][2] < Current[x][2]
        BY <1>6, <1>7, <1>13, <2>3, <3>1, <3>2, <4>1
      <4> QED
        BY <1>6, <1>13, <2>2, <4>2
    <3>4. NotNewer(Uncached, j)' \subseteq NotNewer(Uncached, j)
      <4>1. ASSUME NEW y \in NotNewer(Uncached, j)'
            PROVE  y \in NotNewer(Uncached, j)
        <5>1. y \in Uncached' /\ Current'[y][2] <= Current'[j][2]
          BY DEF NotNewer
        <5>2. y \in Objects' /\ Current'[y] = Current[y]
          BY <1>5, <2>1, <5>1 DEF Objects
        <5>3. y # x
          BY <1>6, <1>13, <3>1, <3>3, <5>1, <5>2
        <5> QED
          BY <2>2, <3>1, <5>1, <5>2, <5>3 DEF NotNewer
      <4> QED
        BY <4>1
    <3>5. Cardinality(NotNewer(Uncached, j)') <= Cardinality(NotNewer(Uncached, j))
          /\ Cardinality(NotNewer(Uncached, j)') \in Nat /\ Cardinality(NotNewer(Uncached, j)) \in Nat
      BY <3>4, PartCard DEF Numbered
    <3>6. Fillers(w)' = Fillers(w) /\ Fillers(w) \in Nat
      BY <1>1 DEF Fillers, AgeTyped
    <3> QED
      BY <3>1, <3>3, <3>5, <3>6
  <2>4. CacheTime <= CacheTime' /\ Waited(w) /\ timeStamp' = timeStamp
    BY <1>1, <1>6, <1>7 DEF Ages
  <2> QED
    BY <2>3, <2>4, WaitedKeep
<1>15. FakesIndexed' /\ FakesWaited'
  <2>1. FakesRead' = FakesRead /\ FakesRead \in Nat
    BY <1>1 DEF FakesRead, AgeTyped
  <2>2. FakesRead' <= FakesRead
    BY <2>1
  <2> QED
    BY <1>1, <2>2, FakesStill
<1>16. ReadNow'
  <2>1. ASSUME NEW j \in PendingKeys' \cap Objects'
        PROVE  Current'[j][2] = timeStamp
    BY <1>3, <1>5, <1>9 DEF Ages, ReadNow
  <2> QED
    BY <1>1, <2>1 DEF ReadNow
<1> QED
  BY <1>12, <1>14, <1>15, <1>16

\* A PUT takes nothing from the server and adds nothing to it, and its bucket goes to the
\* front of the cache; the bound on the cache follows the buckets that stay.
LEMMA PopPutAges ==
  ASSUME NEW w \in Nat, AgeTyped(w), AgeTyped(w)', Numbered, Numbered', Ages(w), CountInv,
         Countable, NEW k \in RealKeys, NEW version \in Versions, PopPut(k, version),
         StampsOf(realBst, k[1]) # {}
  PROVE  Queued' /\ Waited(w)' /\ FakesIndexed' /\ FakesWaited' /\ ReadNow'
<1>0. PICK old : old = getOldestKey(realBst, k)
  OBVIOUS
<1> DEFINE drop == Held(old)
           left == IF drop /\ old \notin DOMAIN EvictedItems
                     THEN removeFromCache(cache, old) ELSE cache
<1>1. /\ pc = "collect" /\ pc' = "collect" /\ UNCHANGED <<fakeBst, timeStamp, storage_keys>>
      /\ cache' = insertIntoCache(left, k, <<k, version>>)
  BY <1>0 DEF PopPut, Collecting
<1>2. PlaceInv /\ RunInv /\ IndexInv /\ RePut = FALSE
  BY DEF CountInv, PlaceInv, RunInv, Countable
<1>3. /\ IF drop THEN DropHeld(old) ELSE DropLater(old)
      /\ k \notin LiveKeys /\ old \in LiveKeys /\ (drop <=> old \in CacheKeys(cache))
      /\ LiveKeys' = (IF drop THEN LiveKeys \ {old} ELSE LiveKeys) \cup {k}
      /\ CacheKeys(cache') =
           (IF drop THEN CacheKeys(cache) \ {old} ELSE CacheKeys(cache)) \cup {k}
  BY <1>0, <1>2, PopPutEffect
<1>4. /\ Current'[k] = <<k, timeStamp>> /\ k \notin Objects
      /\ \A j \in Objects : j # old \/ ~drop => Current'[j] = Current[j]
  BY <1>0, <1>2, PopPutCurrent
<1>5. keys_to_be_deleted' = keys_to_be_deleted \cup (IF drop THEN {} ELSE {old})
  BY <1>3 DEF DropHeld, DropLater
<1>6. /\ B - F \in Nat \ {0} /\ CacheBound \in Nat /\ CacheBound' \in Nat
      /\ Len(cache) \in Nat /\ Len(cache') \in Nat /\ Evictions \in Int
      /\ DOMAIN cache = 1 .. Len(cache) /\ DOMAIN cache' = 1 .. Len(cache')
      /\ \A n \in DOMAIN cache : cache[n][1] \in Objects
      /\ Fillers(w) \in Nat /\ FakesRead \in Nat
  BY DEF AgeTyped
<1>7. Evictions' = Evictions /\ Fillers(w)' = Fillers(w) /\ FakesRead' = FakesRead
  BY <1>1 DEF Evictions, Fillers, FakesRead
<1>8. Behind(cache', cache, k)
  <2>1. cache \in Seq(RealKeys \X Payloads) /\ <<k, <<k, version>>>> \in RealKeys \X Payloads
    BY <1>2, IndexFacts, KeyTypes DEF Payloads
  <2>2. Behind(left, cache, k) /\ left \in Seq(RealKeys \X Payloads)
    <3>1. \A n \in DOMAIN cache : Len(cache) - n <= Len(cache) - n
      BY <1>6
    <3>2. Behind(cache, cache, k)
      BY <3>1 DEF Behind
    <3>3. /\ Behind(removeFromCache(cache, old), cache, k)
          /\ removeFromCache(cache, old) \in Seq(RealKeys \X Payloads)
      BY <2>1, RemoveBehind
    <3> QED
      BY <2>1, <3>2, <3>3
  <2> HIDE DEF left
  <2>3. Behind(cache', left, k)
    BY <1>1, <2>1, <2>2, InsertBehind
  <2>4. ASSUME NEW n \in DOMAIN cache', cache'[n][1] # k
        PROVE  \E m \in DOMAIN cache : cache'[n] = cache[m] /\ Len(cache') - n <= Len(cache) - m
    <3>1. PICK q \in DOMAIN left : cache'[n] = left[q] /\ Len(cache') - n <= Len(left) - q
      BY <2>3, <2>4 DEF Behind
    <3>2. PICK m \in DOMAIN cache : left[q] = cache[m] /\ Len(left) - q <= Len(cache) - m
      BY <2>2, <2>4, <3>1 DEF Behind
    <3>3. Len(left) \in Nat /\ q \in Int /\ n \in Int /\ m \in Int
      BY <1>6, <2>2
    <3>4. Len(cache') - n <= Len(cache) - m
      BY <1>6, <3>1, <3>2, <3>3
    <3> QED
      BY <3>1, <3>2, <3>4
  <2> QED
    BY <2>4 DEF Behind
<1> HIDE DEF left
<1>9. CacheBound <= CacheBound' /\ CacheTime <= CacheTime'
  <2> DEFINE G == LiveKeys \ keys_to_be_deleted
             H == LiveKeys' \ keys_to_be_deleted'
  <2>1. H = (G \ {old}) \cup {k} /\ k \notin G \ {old}
    <3>1. /\ keys_to_be_deleted \subseteq LiveKeys
          /\ old \in CacheKeys(cache) => old \notin keys_to_be_deleted
      BY <1>2 DEF IndexInv, BatchAccounts, DoomedRunning
    <3> HIDE DEF drop
    <3>2. CASE drop
      BY <1>3, <1>5, <3>1, <3>2
    <3>3. CASE ~drop
      BY <1>3, <1>5, <3>1, <3>3
    <3> QED
      BY <3>2, <3>3
  <2>2. IsFiniteSet(G) /\ Cardinality(G) \in Nat
    BY PartCard DEF CountInv, Counts, Balanced
  <2>3. CacheBound = Cardinality(G) - NumStored + R /\ CacheBound' = Cardinality(H) - NumStored + R
    BY DEF CacheBound, NumStored
  <2> HIDE DEF G, H
  <2>4. /\ IsFiniteSet(G \ {old})
        /\ Cardinality(G \ {old}) = IF old \in G THEN Cardinality(G) - 1 ELSE Cardinality(G)
    BY <2>2, FS_RemoveElement
  <2>5. Cardinality(H) = Cardinality(G \ {old}) + 1
    BY <2>1, <2>4, FS_AddElement
  <2>6. NumStored \in Nat /\ R \in Nat
    BY ConstantsAssumption DEF Numbered
  <2>7. CacheBound <= CacheBound'
    BY <2>2, <2>3, <2>4, <2>5, <2>6
  <2>8. CacheTime' = CeilDiv(CacheBound', B - F) /\ CacheTime = CeilDiv(CacheBound, B - F)
    BY DEF CacheTime, CeilDiv
  <2> QED
    BY <1>6, <2>7, <2>8, CeilDivMono
<1>10. Queued'
  <2>1. ASSUME NEW n \in DOMAIN cache'
        PROVE  \/ Current'[cache'[n][1]][2] = timeStamp
               \/ \E m \in DOMAIN cache :
                    /\ Current'[cache'[n][1]][2] = Current[cache[m][1]][2]
                    /\ Len(cache') - n + Evictions' <= Len(cache) - m + Evictions
    <3>1. CASE cache'[n][1] = k
      BY <1>4, <3>1
    <3>2. CASE cache'[n][1] # k
      <4>1. PICK m \in DOMAIN cache : cache'[n] = cache[m] /\ Len(cache') - n <= Len(cache) - m
        BY <1>8, <3>2 DEF Behind
      <4>2. cache'[n][1] \in CacheKeys(cache')
        BY DEF CacheKeys
      <4>3. cache[m][1] \in Objects /\ (cache[m][1] # old \/ ~drop)
        BY <1>3, <1>6, <3>2, <4>1, <4>2
      <4>4. Current'[cache[m][1]] = Current[cache[m][1]]
        BY <1>4, <4>3
      <4>5. Len(cache') - n + Evictions' <= Len(cache) - m + Evictions
        BY <1>6, <1>7, <4>1
      <4> QED
        BY <4>1, <4>4, <4>5
    <3> QED
      BY <3>1, <3>2
  <2>2. Queued /\ timeStamp' = timeStamp
    BY <1>1 DEF Ages
  <2> QED
    BY <1>9, <2>1, <2>2, QueuedKeep
<1>11. Waited(w)'
  <2>1. Uncached' = Uncached
    <3>1. Uncached' = LiveKeys' \ CacheKeys(cache')
      BY DEF Uncached, CacheKeys
    <3>2. CacheKeys(cache) \subseteq LiveKeys
      BY <1>2 DEF IndexInv, BatchAccounts, CacheIndexed
    <3> HIDE DEF drop
    <3>3. CASE drop
      BY <1>3, <3>1, <3>2, <3>3 DEF Uncached
    <3>4. CASE ~drop
      BY <1>3, <3>1, <3>2, <3>4 DEF Uncached
    <3> QED
      BY <3>3, <3>4
  <2>2. \A j \in Uncached : Current'[j] = Current[j]
    <3> HIDE DEF drop
    <3> QED
      BY <1>3, <1>4 DEF Uncached, Objects
  <2>3. \A j \in Uncached : NotNewer(Uncached, j)' = NotNewer(Uncached, j)
    BY <2>1, <2>2 DEF NotNewer
  <2>4. \A j \in Uncached' :
           /\ j \in Uncached /\ Current'[j] = Current[j]
           /\ Cardinality(NotNewer(Uncached, j)') + Fillers(w)'
                <= Cardinality(NotNewer(Uncached, j)) + Fillers(w)
    <3>1. \A j : Cardinality(NotNewer(Uncached, j)) \in Nat
      BY DEF Numbered
    <3> QED
      BY <1>6, <1>7, <2>1, <2>2, <2>3, <3>1
  <2>5. Waited(w) /\ timeStamp' = timeStamp
    BY <1>1 DEF Ages
  <2> QED
    BY <1>9, <2>4, <2>5, WaitedKeep
<1>12. FakesIndexed' /\ FakesWaited'
  <2>1. FakesRead' <= FakesRead
    BY <1>6, <1>7
  <2> QED
    BY <1>1, <2>1, FakesStill
<1>13. ReadNow'
  <2>1. PendingKeys' = {}
    BY <1>1 DEF PendingKeys, Pending
  <2> QED
    BY <2>1 DEF ReadNow
<1> QED
  BY <1>10, <1>11, <1>12, <1>13

\* Steps in which nothing is moved and no id is fixed.
Idle ==
  \/ SubGet \/ GetBatch \/ ApplyFake \/ PutBatch \/ FinishBatch \/ ClearThread
  \/ \E k \in Keys : ClearPromises(k)
  \/ UNCHANGED <<bstVars, storeVars, timeStamp, pc, batchVars, server, keysNotUsed, seen>>
  \/ \E item \in Items, r \in Ranges : PopGet(item, r[1], r[2])
  \/ \E k \in RealKeys, version \in Versions : PopPut(k, version) /\ StampsOf(realBst, k[1]) = {}

LEMMA IdleAges ==
  ASSUME NEW w \in Nat, AgeTyped(w), AgeTyped(w)', Numbered, Numbered', Ages(w), CountInv, Idle
  PROVE  Queued' /\ Waited(w)' /\ FakesIndexed' /\ FakesWaited' /\ ReadNow'
<1>1. /\ LiveKeys' = LiveKeys /\ Objects' = Objects /\ Current' = Current
      /\ UNCHANGED <<cache, keys_to_be_deleted>>
  BY Still DEF Idle, CountInv
<1>2. UNCHANGED <<timeStamp, fakeBst>>
  BY DEF Idle, SubGet, GetBatch, ApplyFake, PutBatch, FinishBatch, ClearThread, ClearPromises,
         PopGet, PopPut, bstVars
<1>3. PlaceInv /\ RunInv /\ TypeInv /\ Metered
  BY DEF CountInv, Counts, PlaceInv, RunInv, IndexInv
<1>4. \/ GetBatch \/ ApplyFake \/ PutBatch
      \/ pc' = pc /\ UNCHANGED <<storage_batch, storage_keys, responses>>
      \/ pc \notin {"read", "apply"} /\ pc' \notin {"read", "apply"}
  BY DEF Idle, SubGet, FinishBatch, ClearThread, ClearPromises, PopGet, PopPut, Collecting, batchVars
<1>5. \/ GetBatch \/ ApplyFake \/ PutBatch
      \/ pc = "read" /\ pc' = "read" /\ UNCHANGED <<storage_batch, storage_keys>>
      \/ pc = "apply" /\ pc' = "apply" /\ UNCHANGED <<storage_batch, storage_keys, responses>>
      \/ pc \notin {"read", "apply"} /\ pc' \notin {"read", "apply"}
  BY <1>4
<1>6. Evictions' <= Evictions /\ Fillers(w)' <= Fillers(w) /\ FakesRead' <= FakesRead
  BY <1>3, <1>5, QuietProgress
<1>7. Queued' /\ Waited(w)' /\ FakesIndexed' /\ FakesWaited'
  BY <1>1, <1>2, <1>6, QuietAges
<1>8. PendingKeys' \subseteq PendingKeys
  <2>1. CASE GetBatch
    <3>1. pc = "read" /\ storage_keys' = storage_keys
      BY <2>1 DEF GetBatch
    <3>2. Pending = DOMAIN storage_keys /\ Pending' \subseteq DOMAIN storage_keys
      BY <3>1 DEF Pending
    <3> QED
      BY <3>1, <3>2 DEF PendingKeys
  <2>2. CASE ApplyFake
    <3>1. /\ pc = "apply" /\ pc' = "apply" /\ responses # <<>> /\ responses' = Tail(responses)
          /\ storage_keys' = storage_keys
      BY <2>2 DEF ApplyFake
    <3>2. PendingKeys' = PendingKeys \ {storage_keys[Cursor][1]}
      BY <1>3, <3>1, PendingNext
    <3> QED
      BY <3>2
  <2>3. CASE pc' \notin {"read", "apply"}
    BY <2>3 DEF PendingKeys, Pending
  <2>4. CASE pc' = pc /\ UNCHANGED <<storage_batch, storage_keys, responses>>
    BY <2>4 DEF PendingKeys, Pending, Cursor
  <2>5. PutBatch => pc' \notin {"read", "apply"}
    BY DEF PutBatch
  <2> QED
    BY <1>4, <2>1, <2>2, <2>3, <2>4, <2>5
<1>9. ReadNow'
  BY <1>1, <1>2, <1>8 DEF Ages, ReadNow
<1> QED
  BY <1>7, <1>9

\* The buckets doomed in a batch are not more than its operations.
LEMMA DoomedKeep ==
  ASSUME PlaceInv, FewDoomed, keys_to_be_deleted' \subseteq keys_to_be_deleted,
         pc' \in {"collect", "split"} => pc \in {"collect", "split"} /\ i <= i', i \in Nat, i' \in Nat
  PROVE  FewDoomed'
<1>1. IsFiniteSet(keys_to_be_deleted) /\ R \in Nat
  BY ConstantsAssumption DEF PlaceInv, Place, Room
<1>2. /\ Cardinality(keys_to_be_deleted) \in Nat /\ Cardinality(keys_to_be_deleted') \in Nat
      /\ Cardinality(keys_to_be_deleted') <= Cardinality(keys_to_be_deleted)
  BY <1>1, PartCard
<1> QED
  BY <1>1, <1>2 DEF FewDoomed

LEMMA PopPutDoomed ==
  ASSUME PlaceInv, RePut = FALSE, FewDoomed, NEW k \in RealKeys, NEW version \in Versions,
         PopPut(k, version), StampsOf(realBst, k[1]) # {}, i \in Nat
  PROVE  FewDoomed'
<1>0. PICK old : old = getOldestKey(realBst, k)
  OBVIOUS
<1>1. IF Held(old) THEN DropHeld(old) ELSE DropLater(old)
  BY <1>0, PopPutEffect DEF PlaceInv, RunInv
<1>2. keys_to_be_deleted' \subseteq keys_to_be_deleted \cup {old}
  BY <1>1 DEF DropHeld, DropLater
<1>3. pc = "collect" /\ i < R /\ i' = i + 1
  BY DEF PopPut, Collecting
<1>4. IsFiniteSet(keys_to_be_deleted) /\ R \in Nat
  BY ConstantsAssumption DEF PlaceInv, Place, Room
<1> DEFINE S == keys_to_be_deleted \cup {old}
<1>5. /\ IsFiniteSet(S) /\ Cardinality(keys_to_be_deleted) \in Nat
      /\ Cardinality(S) \in Nat /\ Cardinality(S) <= Cardinality(keys_to_be_deleted) + 1
  <2>1. /\ IsFiniteSet(S)
        /\ Cardinality(S) = IF old \in keys_to_be_deleted THEN Cardinality(keys_to_be_deleted)
                            ELSE Cardinality(keys_to_be_deleted) + 1
    BY <1>4, FS_AddElement
  <2>2. Cardinality(keys_to_be_deleted) \in Nat
    BY <1>4, FS_CardinalityType
  <2> QED
    BY <2>1, <2>2
<1> HIDE DEF S
<1>6. Cardinality(keys_to_be_deleted') \in Nat /\ Cardinality(keys_to_be_deleted') <= Cardinality(S)
  BY <1>2, <1>5, PartCard DEF S
<1>7. Cardinality(keys_to_be_deleted) <= i
  BY <1>3 DEF FewDoomed
<1> QED
  BY <1>3, <1>4, <1>5, <1>6, <1>7 DEF FewDoomed

LEMMA NextDoomed ==
  ASSUME Countable, CountInv, CountInv', FewDoomed, [Next]_vars
  PROVE  FewDoomed'
<1>1. PlaceInv /\ RunInv' /\ RePut = FALSE /\ CacheSize > 0 /\ i \in Nat /\ i' \in Nat
  BY DEF CountInv, Countable, PlaceInv, RunInv, IndexInv, TypeInv, TypeOK
<1>2. CASE FinishBatch
  <2>1. pc' = "collect" /\ i' = 0
    BY <1>2 DEF FinishBatch
  <2>2. keys_to_be_deleted' = {}
    BY <1>1, <2>1 DEF RunInv, Rest, Quiet
  <2>3. Cardinality(keys_to_be_deleted') = 0 /\ R \in Nat
    BY <2>2, FS_EmptySet, ConstantsAssumption
  <2> QED
    BY <2>1, <2>3 DEF FewDoomed
<1>3. CASE ApplyReal
  <2>1. keys_to_be_deleted' \subseteq keys_to_be_deleted /\ pc' = "apply"
    BY <1>3 DEF ApplyReal
  <2> QED
    BY <1>1, <2>1, DoomedKeep
<1>4. ASSUME NEW k \in RealKeys, NEW version \in Versions, PopPut(k, version)
      PROVE  FewDoomed'
  <2>1. CASE StampsOf(realBst, k[1]) = {}
    <3>1. keys_to_be_deleted' = keys_to_be_deleted /\ pc' = pc /\ i' = i + 1
      BY <1>4, <2>1 DEF PopPut, storeVars
    <3> QED
      BY <1>1, <3>1, DoomedKeep DEF PopPut, Collecting
  <2> QED
    BY <1>1, <1>4, <2>1, PopPutDoomed
<1>5. ASSUME NEW item \in Items, NEW r \in Ranges, PopGet(item, r[1], r[2])
      PROVE  FewDoomed'
  <2>1. keys_to_be_deleted' = keys_to_be_deleted /\ pc = "collect" /\ i' = i
    BY <1>5 DEF PopGet, Collecting, storeVars
  <2> QED
    BY <1>1, <2>1, DoomedKeep
<1>6. CASE SubGet
  <2>1. keys_to_be_deleted' = keys_to_be_deleted /\ pc = "split" /\ i' = i + 1
    BY <1>6 DEF SubGet, storeVars
  <2> QED
    BY <1>1, <2>1, DoomedKeep
<1>7. CASE \/ StartBatch \/ ReadOperation \/ ReadFakeReal \/ ReadFake \/ GetBatch \/ ApplyFake
           \/ PutBatch \/ \E k \in Keys : ClearPromises(k)
  <2>1. keys_to_be_deleted' = keys_to_be_deleted /\ pc' \notin {"collect", "split"}
    BY <1>7 DEF StartBatch, ReadOperation, ReadFakeReal, ReadFake, GetBatch, ApplyFake, PutBatch,
                ClearPromises, storeVars
  <2> QED
    BY <1>1, <2>1, DoomedKeep
<1>8. CASE ClearThread \/ Poll \/ UNCHANGED vars
  <2>1. UNCHANGED <<keys_to_be_deleted, pc, i>>
    BY <1>8 DEF ClearThread, Poll, vars, storeVars
  <2> QED
    BY <1>1, <2>1, DoomedKeep
<1>9. CASE ExecuteBatch
  BY <1>2, <1>3, <1>7, <1>9 DEF ExecuteBatch
<1> QED
  BY <1>4, <1>5, <1>6, <1>8, <1>9 DEF Next, Pop

\* The types and the numbers after a step.
LEMMA AgeTypesNext ==
  ASSUME NEW w \in Nat, Turnover(w)
  PROVE  /\ (CountInv /\ Collected(w) /\ FewDoomed)' => AgeTyped(w)'
         /\ CountInv' => Numbered'
         /\ (CountInv /\ Collected(w) /\ Ages(w) /\ (pc # "read" \/ storage_keys = <<>>))'
              => AlphaWithin(w)'
<1>1. CountInv /\ Collected(w) /\ FewDoomed => AgeTyped(w)
  BY AgeTypes
<1>2. CountInv => Numbered
  BY NotNewerCard DEF Turnover
<1>3. CountInv /\ Collected(w) /\ Ages(w) /\ (pc # "read" \/ storage_keys = <<>>) => AlphaWithin(w)
  BY AgesBound
<1> QED
  BY <1>1, <1>2, <1>3, PTL

\* At first nothing is old.
LEMMA InitAge ==
  ASSUME NEW w \in Nat, Turnover(w), Init
  PROVE  AgeInv(w)
<1>1. CountInv /\ Known /\ Collected(w)
  BY InitCount, InitKnown, InitCollected DEF Turnover, KnownInv
<1>2. /\ timeStamp = 0 /\ pc = "collect" /\ i = 0 /\ keys_to_be_deleted = {} /\ storage_keys = <<>>
      /\ fakeBst = Loaded(FakeKeys, EmptyMap)
  BY DEF Init
<1>3. FewDoomed
  BY <1>2, FS_EmptySet, ConstantsAssumption DEF FewDoomed
<1>4. AgeTyped(w) /\ Numbered
  BY <1>1, <1>3, AgeTypes, NotNewerCard DEF Turnover
<1>5. /\ B - F \in Nat \ {0} /\ F \in Nat \ {0} /\ Len(cache) \in Nat /\ D \in Nat
      /\ DOMAIN cache = 1 .. Len(cache)
      /\ \A n \in DOMAIN cache : cache[n][1] \in Objects
      /\ CacheBound \in Nat /\ Len(cache) <= CacheBound /\ CacheTime \in Nat
  BY <1>4 DEF AgeTyped
<1>6. Evictions = B - F /\ FakesRead = F
  BY <1>2 DEF Evictions, FakesRead
<1>7. \A k \in Objects : Age(k) = 0
  <2>1. \A k \in Objects : Current[k][2] <= timeStamp /\ Age(k) \in Nat /\ Current[k][2] \in Nat
    BY <1>1, <1>4 DEF AgeTyped, CountInv, PlaceInv, Place, Bounded
  <2> QED
    BY <1>2, <2>1 DEF Age
<1>8. Queued
  <2> SUFFICES ASSUME NEW n \in DOMAIN cache
               PROVE  Len(cache) - n + 1 + (B - F) * (Age(cache[n][1]) - 1) + Evictions <= CacheBound
    BY DEF Queued
  <2>1. (B - F) * (Age(cache[n][1]) - 1) = -(B - F)
    <3>1. Age(cache[n][1]) - 1 = -1 /\ (B - F) * (-1) = -(B - F)
      BY <1>5, <1>7
    <3> QED
      BY <3>1
  <2> QED
    BY <1>5, <1>6, <2>1
<1>9. Waited(w)
  BY <1>5, <1>7 DEF Waited, Uncached, Objects
<1>10. FakesIndexed
  <2>1. /\ fakeBst.accessFreqs = [k \in FakeKeys |-> 0]
        /\ fakeBst.accessTree = FakeKeys \X {0}
    BY <1>2 DEF Loaded
  <2>2. \A k \in FakeKeys : getFrequency(fakeBst, k) = 0
    BY <2>1 DEF getFrequency, At
  <2> QED
    BY <2>1, <2>2 DEF FakesIndexed
<1>11. FakesWaited
  <2> SUFFICES ASSUME NEW k \in FakeKeys
               PROVE  Cardinality(NotNewer(FakeKeys, k)) + F * (Age(k) - 1) + FakesRead <= D
    BY DEF FakesWaited
  <2>1. F * (Age(k) - 1) = -F
    <3>1. Age(k) - 1 = -1 /\ F * (-1) = -F
      BY <1>5, <1>7 DEF Objects
    <3> QED
      BY <3>1
  <2>2. Cardinality(NotNewer(FakeKeys, k)) \in Nat /\ Cardinality(NotNewer(FakeKeys, k)) <= D
    BY <1>4 DEF Numbered
  <2> QED
    BY <1>5, <1>6, <2>1, <2>2
<1>12. ReadNow
  BY <1>2 DEF ReadNow, PendingKeys, Pending
<1>13. Ages(w)
  BY <1>3, <1>8, <1>9, <1>10, <1>11, <1>12 DEF Ages
<1>14. AlphaWithin(w)
  BY <1>1, <1>2, <1>13, AgesBound
<1> QED
  BY <1>1, <1>13, <1>14 DEF AgeInv

\* Every step keeps the ages.
LEMMA NextAges ==
  ASSUME NEW w \in Nat, Turnover(w), AgeTyped(w), AgeTyped(w)', Numbered, Numbered', Ages(w),
         CountInv, CountInv', [Next]_vars
  PROVE  Queued' /\ Waited(w)' /\ FakesIndexed' /\ FakesWaited' /\ ReadNow'
<1>0. Countable /\ CacheSize > 0 /\ PlaceInv /\ RunInv' /\ TypeInv
  BY DEF Turnover, Countable, CountInv, PlaceInv, RunInv, IndexInv
<1>1. CASE Idle
  BY <1>1, IdleAges
<1>2. CASE StartBatch
  <2>1. LiveKeys' = LiveKeys /\ Current' = Current /\ UNCHANGED <<cache, keys_to_be_deleted>>
    BY <1>0, <1>2, Still
  <2> QED
    BY <1>0, <1>2, <2>1, StartBatchAges
<1>3. CASE ReadOperation
  BY <1>0, <1>3, ReadOperationAges
<1>4. CASE ReadFakeReal
  <2>1. \/ \E k \in Objects : IdRead(k)
        \/ UNCHANGED <<bstVars, storeVars, timeStamp, pc, batchVars, server, keysNotUsed, seen>>
    BY <1>0, <1>4, ReadFakeRealEffect
  <2>2. CASE \E k \in Objects : IdRead(k)
    BY <1>0, <1>4, <2>2, ReadFakeRealAges
  <2> QED
    BY <1>1, <2>1, <2>2 DEF Idle
<1>5. CASE ReadFake
  BY <1>0, <1>5, ReadFakeAges
<1>6. CASE ApplyReal
  BY <1>0, <1>6, ApplyRealAges
<1>7. ASSUME NEW k \in RealKeys, NEW version \in Versions, PopPut(k, version)
      PROVE  Queued' /\ Waited(w)' /\ FakesIndexed' /\ FakesWaited' /\ ReadNow'
  <2>1. CASE StampsOf(realBst, k[1]) = {}
    BY <1>1, <1>7, <2>1 DEF Idle
  <2>2. CASE StampsOf(realBst, k[1]) # {}
    BY <1>0, <1>7, <2>2, PopPutAges
  <2> QED
    BY <2>1, <2>2
<1>8. CASE Poll \/ UNCHANGED vars
  BY <1>1, <1>8 DEF Poll, Idle, vars
<1>9. CASE Pop
  BY <1>1, <1>7, <1>9 DEF Pop, Idle
<1>10. CASE ExecuteBatch
  BY <1>1, <1>2, <1>3, <1>4, <1>5, <1>6, <1>10 DEF ExecuteBatch, Idle
<1>11. CASE SubGet \/ ClearThread
  BY <1>1, <1>11 DEF Idle
<1> QED
  BY <1>8, <1>9, <1>10, <1>11 DEF Next

\* While a batch reads, nothing is added to what is still to be read.
LEMMA ReadingKeepsAlpha ==
  ASSUME PlaceInv, [Next]_vars, NEW w \in Nat, AlphaWithin(w), pc' = "read", storage_keys' # <<>>
  PROVE  AlphaWithin(w)'
<1>1. RunInv /\ TypeInv
  BY DEF PlaceInv, RunInv, IndexInv
<1>2. /\ pc = "read" \/ StartBatch
  BY DEF Next, Poll, Pop, PopGet, PopPut, SubGet, Collecting, ExecuteBatch, StartBatch, ReadOperation,
         ReadFakeReal, ReadFake, GetBatch, ApplyReal, ApplyFake, PutBatch, FinishBatch, ClearPromises,
         ClearThread, vars
<1>3. StartBatch => storage_keys' = <<>>
  BY <1>1 DEF StartBatch, TypeInv, Shape, batchVars
<1>4. pc = "read"
  BY <1>2, <1>3
<1>5. \/ ReadOperation \/ ReadFakeReal \/ ReadFake \/ GetBatch \/ ClearThread \/ Poll
      \/ UNCHANGED vars
  BY <1>4 DEF Next, Pop, PopGet, PopPut, SubGet, Collecting, ExecuteBatch, StartBatch,
         ApplyReal, ApplyFake, PutBatch, FinishBatch, ClearPromises
<1>6. /\ DOMAIN server' \subseteq DOMAIN server /\ seen \subseteq seen'
      /\ UNCHANGED <<timeStamp, keys_to_be_deleted>>
  BY <1>5 DEF ReadOperation, ReadFakeReal, ReadFake, GetBatch, ClearThread, Poll, vars, EraseAll,
              storeVars
<1>7. LiveKeys' = LiveKeys
  <2>1. CASE ReadOperation \/ ReadFakeReal
    <3>1. \/ \E k \in Objects : IdRead(k)
          \/ UNCHANGED <<bstVars, storeVars, timeStamp, pc, batchVars, server, keysNotUsed, seen>>
      BY <2>1, ReadOperationEffect, ReadFakeRealEffect
    <3> QED
      BY <3>1, Still DEF IdRead
  <2>2. CASE ReadFake \/ GetBatch \/ ClearThread \/ Poll \/ UNCHANGED vars
    <3>1. realBst' = realBst
      BY <2>2 DEF ReadFake, GetBatch, ClearThread, Poll, vars, bstVars
    <3> QED
      BY <1>1, <3>1, LiveSame DEF RunInv
  <2> QED
    BY <1>5, <2>1, <2>2
<1>8. AlphaReal(w)' = AlphaReal(w)
  BY <1>6, <1>7 DEF AlphaReal, CeilDiv, NumStored
<1> QED
  BY <1>6, <1>8 DEF AlphaWithin, AlphaFake, IsFake, FakeKeys, CeilDiv

LEMMA NextAge ==
  ASSUME NEW w \in Nat, Turnover(w)
  PROVE  AgeInv(w) /\ [Next]_vars => AgeInv(w)'
<1>0. /\ (CountInv /\ Collected(w) /\ FewDoomed)' => AgeTyped(w)'
      /\ CountInv' => Numbered'
      /\ (CountInv /\ Collected(w) /\ Ages(w) /\ (pc # "read" \/ storage_keys = <<>>))'
           => AlphaWithin(w)'
  BY AgeTypesNext
<1> SUFFICES ASSUME AgeInv(w), [Next]_vars
             PROVE  AgeInv(w)'
  OBVIOUS
<1>1. /\ CountInv /\ Known /\ Collected(w) /\ Ages(w) /\ AlphaWithin(w) /\ FewDoomed
      /\ Countable /\ RePut = FALSE /\ CacheSize > 0 /\ PlaceInv
  BY DEF AgeInv, Ages, Turnover, Countable, CountInv
<1>2. CountInv' /\ Known' /\ Collected(w)'
  <2>1. CountInv'
    BY <1>1, NextCount
  <2>2. KnownInv /\ w \in Int
    BY <1>1 DEF KnownInv
  <2>3. KnownInv'
    BY <1>1, <2>2, NextKnown
  <2>4. Collected(w)'
    BY <1>1, <2>2, NextCollected
  <2> QED
    BY <2>1, <2>3, <2>4 DEF KnownInv
<1>3. FewDoomed'
  BY <1>1, <1>2, NextDoomed
<1>4. AgeTyped(w) /\ Numbered /\ AgeTyped(w)' /\ Numbered'
  BY <1>0, <1>1, <1>2, <1>3, AgeTypes, NotNewerCard
<1>5. Ages(w)'
  BY <1>1, <1>2, <1>3, <1>4, NextAges DEF Ages
<1>6. AlphaWithin(w)'
  <2>1. CASE pc' # "read" \/ storage_keys' = <<>>
    BY <1>0, <1>2, <1>5, <2>1
  <2>2. CASE pc' = "read" /\ storage_keys' # <<>>
    BY <1>1, <2>2, ReadingKeepsAlpha
  <2> QED
    BY <2>1, <2>2
<1> QED
  BY <1>2, <1>5, <1>6 DEF AgeInv

\* However the operations are skewed, an object that is still to be read is at most
\* AlphaReal(w) batches old, a fake one AlphaFake, if the operations of a batch never fetch
\* more than w < B - F buckets: no storage id stays unread on the server for longer
\* (the selection by least frequency in execute_batch, and the cache in front of it).
THEOREM ReadWithin ==
  ASSUME NEW w \in Nat, Turnover(w)
  PROVE  Spec => []AlphaWithin(w)
<1>1. AgeInv(w) /\ [Next]_vars => AgeInv(w)'
  BY NextAge
<1>2. Init => AgeInv(w)
  BY InitAge
<1>3. AgeInv(w) => AlphaWithin(w)
  BY DEF AgeInv
<1> QED
  BY <1>1, <1>2, <1>3, PTL DEF Spec

\* When no range holds a bucket's timestamp, so that a GET reads the one bucket before its
\* range, every operation fetches at most one bucket, and R of them bound the age of an
\* unread object.
THEOREM AlphaHolds ==
  ASSUME Countable, F > 0, R < B - F, \A r \in Ranges : InRange(r) = {}
  PROVE  Spec => []AlphaBounded
<1>1. R \in Nat
  BY ConstantsAssumption
<1>2. Turnover(R)
  <2>1. \A r \in Ranges : Cardinality(InRange(r)) = 0
    BY FS_EmptySet
  <2> QED
    BY <1>1, <2>1 DEF Turnover, FetchesWithin
<1>3. AgeInv(R) /\ [Next]_vars => AgeInv(R)'
  BY <1>1, <1>2, NextAge
<1>4. Init => AgeInv(R)
  BY <1>1, <1>2, InitAge
<1>5. AgeInv(R) => AlphaBounded
  BY DEF AgeInv, AlphaBounded
<1> QED
  BY <1>3, <1>4, <1>5, PTL DEF Spec
=============================================================================
