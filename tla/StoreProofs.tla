----------------------------- MODULE StoreProofs -----------------------------
(***************************************************************************)
(* What the buckets hold, when clients put in time order and no payload    *)
(* holds a NUL byte: a payload is the same wherever its bucket is moved,   *)
(* each GET is answered with the payloads its buckets had when it was      *)
(* taken, and so the proxy implements TimeSeriesStore.                     *)
(*                                                                         *)
(* Sealed says that what is on its way between cache and server is the     *)
(* payload itself; Asked which buckets of a GET the table of running keys  *)
(* still has to collect; Owed where each of their payloads is until then.  *)
(***************************************************************************)
EXTENDS PlaceProofs

-----------------------------------------------------------------------------
(* The collected values agree with the cache                                 *)

\* The buckets of the GET being split are known, and it has no answer yet.
SplitKnown == pc = "split" => split \subseteq LiveKeys

\* What get_cache holds for a bucket in the cache is what the cache holds, and it names no
\* bucket that is still to be put.
CacheAgrees ==
  pc \in {"collect", "split"} =>
    \A k \in DOMAIN runningKeys.get_cache :
      /\ k \in LiveKeys => runningKeys.get_cache[k] = CachedValue(cache, k)
      /\ \E j \in LiveKeys \ keys_to_be_deleted : j[1] = k[1] /\ k[2] <= j[2]

Known    == SplitKnown /\ CacheAgrees
KnownInv == PlaceInv /\ Known

\* The steps that neither move a bucket nor fix an id.
LEMMA Still ==
  ASSUME PlaceInv,
         \/ SubGet \/ StartBatch \/ GetBatch \/ ApplyFake \/ PutBatch \/ FinishBatch \/ ClearThread
         \/ \E k \in Keys : ClearPromises(k)
         \/ UNCHANGED <<bstVars, storeVars, timeStamp, pc, batchVars, server, keysNotUsed, seen>>
         \/ \E item \in Items, r \in Ranges : PopGet(item, r[1], r[2])
         \/ \E k \in RealKeys, version \in Versions :
              PopPut(k, version) /\ StampsOf(realBst, k[1]) = {}
  PROVE  /\ LiveKeys' = LiveKeys /\ Objects' = Objects /\ Current' = Current
         /\ UNCHANGED <<cache, keys_to_be_deleted>>
<1>1. CASE \E item \in Items, r \in Ranges : PopGet(item, r[1], r[2])
  <2>1. PICK item \in Items, r \in Ranges : PopGet(item, r[1], r[2])
    BY <1>1
  <2>2. UNCHANGED <<fakeBst, cache, keys_to_be_deleted>> /\ realBst' = TouchStamps(realBst, item)
    BY <2>1 DEF PopGet, storeVars
  <2>3. LiveKeys' = LiveKeys
    <3>1. Agrees(realBst') /\ Live(realBst') = Live(realBst)
      BY <2>2, IndexFacts, TouchStampsAgrees, LiveAfter DEF PlaceInv, RunInv
    <3> QED
      BY <3>1, IndexNext, IndexFacts DEF PlaceInv, RunInv
  <2>4. Current' = Current
    BY <2>2 DEF Current, TouchStamps, getFrequency
  <2> QED
    BY <2>2, <2>3, <2>4 DEF Objects
<1>2. CASE ~ \E item \in Items, r \in Ranges : PopGet(item, r[1], r[2])
  <2>1. UNCHANGED <<realBst, fakeBst, cache, keys_to_be_deleted>>
    BY <1>2 DEF SubGet, StartBatch, GetBatch, ApplyFake, PutBatch, FinishBatch, ClearThread,
                ClearPromises, PopPut, bstVars, storeVars
  <2>2. LiveKeys' = LiveKeys
    BY <2>1, LiveSame DEF PlaceInv, RunInv
  <2> QED
    BY <2>1, <2>2 DEF Objects, Current
<1> QED
  BY <1>1, <1>2

\* A PUT changes the value of no cached bucket but the new one.
LEMMA PopPutValues ==
  ASSUME IndexInv, RePut = FALSE, NEW k \in RealKeys, NEW version \in Versions,
         PopPut(k, version), StampsOf(realBst, k[1]) # {},
         NEW j \in CacheKeys(cache), j \in CacheKeys(cache'), j # k
  PROVE  CachedValue(cache', j) = CachedValue(cache, j)
<1>0. PICK old : old = getOldestKey(realBst, k)
  OBVIOUS
<1> DEFINE drop == Held(old)
           left == IF drop /\ old \notin DOMAIN EvictedItems
                      THEN removeFromCache(cache, old) ELSE cache
           v    == <<k, version>>
<1>1. cache' = insertIntoCache(left, k, v) /\ pc = "collect"
  BY <1>0 DEF PopPut, Collecting
<1>2. /\ old # k /\ (Held(old) <=> old \in CacheKeys(cache))
      /\ CacheKeys(cache') =
           (IF Held(old) THEN CacheKeys(cache) \ {old} ELSE CacheKeys(cache)) \cup {k}
  BY <1>0, PopPutEffect
<1>3. Held(old) => j # old
  BY <1>2
<1>4. DOMAIN EvictedItems = {}
  BY <1>1 DEF IndexInv, BatchAccounts, EvictedWritten
<1>5. v \in Payloads
  BY KeyTypes DEF Payloads
<1>6. cache \in Seq(RealKeys \X Payloads) /\ CacheDistinct(cache)
  BY IndexFacts
<1>7. /\ left \in Seq(RealKeys \X Payloads) /\ CacheDistinct(left) /\ j \in CacheKeys(left)
      /\ CachedValue(left, j) = CachedValue(cache, j)
  <2>1. CASE drop
    <3> DEFINE d == removeFromCache(cache, old)
    <3>1. left = d
      BY <1>4, <2>1
    <3>2. d \in Seq(RealKeys \X Payloads)
      BY <1>6, RemoveFromCache
    <3>3. CacheDistinct(cache) => CacheDistinct(d)
      BY <1>6, RemoveFromCache, Zenon
    <3>4. CacheDistinct(cache) => SameBut(d, cache, old)
      BY <1>6, RemoveKeepsValues, Zenon
    <3> HIDE DEF d, left
    <3> QED
      BY <1>3, <1>6, <2>1, <3>1, <3>2, <3>3, <3>4 DEF SameBut
  <2>2. CASE ~drop
    BY <1>6, <2>2
  <2> QED
    BY <2>1, <2>2
<1> HIDE DEF left, v
<1>8. CacheDistinct(left) => SameBut(insertIntoCache(left, k, v), left, k)
  BY <1>5, <1>7, InsertKeepsValues, Zenon
<1> QED
  BY <1>1, <1>7, <1>8 DEF SameBut

\* get_split_keys: the buckets of the range and, of the earlier ones, the latest.
LEMMA SplitCovers ==
  ASSUME IndexInv, NEW item \in Items, NEW r \in Ranges, NEW S,
         S = get_split_keys(realBst, item, r[1], r[2])
  PROVE  /\ S \subseteq LiveKeys
         /\ \A k \in S : k[1] = item /\ k[2] <= r[2]
         /\ \A k \in LiveKeys : k[1] = item /\ r[1] <= k[2] /\ k[2] <= r[2] => k \in S
         /\ \A k \in S : k[2] < r[1] =>
              \A j \in LiveKeys : j[1] = item /\ j[2] < r[1] => j[2] <= k[2]
<1> DEFINE T == StampsOf(realBst, item)
<1>1. T \subseteq Stamps /\ Stamps \subseteq Nat /\ r[1] \in Nat /\ r[2] \in Nat
  BY IndexFacts, SmootherParts, ConstantsAssumption DEF RealOK
<1>2. \A k : k \in LiveKeys /\ k[1] = item <=> k \in {item} \X T
  <2>1. \A k : k \in LiveKeys <=> k \in RealKeys /\ k[2] \in StampsOf(realBst, k[1])
    BY IndexFacts, LiveMember
  <2>2. \A k : k \in LiveKeys /\ k[1] = item => k \in {item} \X T
    BY <2>1, KeyTypes
  <2>3. \A t \in T : <<item, t>> \in RealKeys
    BY <1>1 DEF RealKeys
  <2>4. \A t \in T : <<item, t>> \in LiveKeys
    BY <2>1, <2>3
  <2> HIDE DEF T
  <2>5. \A k \in {item} \X T : k = <<item, k[2]>> /\ k[2] \in T /\ k[1] = item
    OBVIOUS
  <2> QED
    BY <2>2, <2>4, <2>5
<1>3. \A k : k \in S <=> k \in {item} \X T /\ k[2] <= r[2]
                         /\ \A b \in T : b < r[1] => b <= k[2]
  BY DEF get_split_keys
<1> HIDE DEF T
<1>4. \A k \in S : k \in LiveKeys /\ k[1] = item /\ k[2] <= r[2]
  BY <1>2, <1>3
<1>5. ASSUME NEW k \in LiveKeys, k[1] = item, r[1] <= k[2], k[2] <= r[2]
      PROVE  k \in S
  <2>1. k \in {item} \X T /\ k[2] \in T
    BY <1>2, <1>5
  <2>2. ASSUME NEW b \in T, b < r[1]
        PROVE  b <= k[2]
    <3>1. b \in Nat /\ k[2] \in Nat /\ r[1] \in Nat
      BY <1>1, <2>1
    <3> QED
      BY <1>5, <2>2, <3>1
  <2> QED
    BY <1>3, <1>5, <2>1, <2>2
<1>6. ASSUME NEW k \in S, NEW j \in LiveKeys, j[1] = item, j[2] < r[1]
      PROVE  j[2] <= k[2]
  BY <1>2, <1>3, <1>6
<1> QED
  BY <1>4, <1>5, <1>6

\* The next bucket of a GET is known, and if it is held then in the cache, with the value
\* already collected for it, so that insert_cache does not call exit(1).
LEMMA SubGetEffect ==
  ASSUME KnownInv, SubGet, NEW k, k = CHOOSE x \in split : \A j \in split : x[2] <= j[2]
  PROVE  /\ pc = "split" /\ status' = "up" /\ split' = split \ {k}
         /\ pc' = (IF split' = {} THEN "collect" ELSE "split")
         /\ request_id' = (IF split' = {} THEN request_id + 1 ELSE request_id)
         /\ UNCHANGED <<bstVars, storeVars, timeStamp, asked, answers, broken, storage_keys,
                        responses, writeBatch, promiseSatisfy, server, keysNotUsed, seen>>
         /\ k \in split /\ k \in LiveKeys
         /\ \/ /\ k \in CacheKeys(cache) /\ Held(k) /\ HeldValue(k) = CachedValue(cache, k)
               /\ runningKeys' = insert_cache(runningKeys, request_id, k, HeldValue(k))
               /\ k \in DOMAIN runningKeys.get_cache => runningKeys.get_cache[k] = HeldValue(k)
            \/ ~Held(k) /\ runningKeys' = insertGet(runningKeys, k, request_id)
<1>1. pc = "split" /\ status = "up" /\ IndexInv
  BY DEF SubGet, KnownInv, PlaceInv, RunInv
<1>2. k \in split
  BY <1>1, SplitChoice DEF IndexInv
<1>3. k \in LiveKeys
  BY <1>1, <1>2 DEF KnownInv, Known, SplitKnown
<1>4. KeyExists(realBst, k)
  BY <1>1, <1>3, IndexFacts DEF KeyExists
<1>5. ASSUME Held(k)
      PROVE  /\ k \in CacheKeys(cache) /\ HeldValue(k) = CachedValue(cache, k)
             /\ k \in DOMAIN runningKeys.get_cache => runningKeys.get_cache[k] = HeldValue(k)
  <2>1. k \in CacheKeys(cache)
    BY <1>1, <1>5 DEF IndexInv, BatchAccounts, EvictedWritten, Held
  <2>2. HeldValue(k) = CachedValue(cache, k)
    BY <2>1 DEF HeldValue
  <2> QED
    BY <1>1, <1>3, <2>1, <2>2 DEF KnownInv, Known, CacheAgrees
<1>6. ~(Held(k) /\ cacheConflict(runningKeys, k, HeldValue(k)))
  BY <1>5 DEF cacheConflict
<1>7. \/ Held(k) /\ runningKeys' = insert_cache(runningKeys, request_id, k, HeldValue(k))
      \/ ~Held(k) /\ runningKeys' = insertGet(runningKeys, k, request_id)
  BY <1>4 DEF SubGet
<1>8. status' = "up" /\ answers' = answers
  BY <1>1, <1>4, <1>6 DEF SubGet
<1>9. /\ split' = split \ {k}
      /\ pc' = (IF split' = {} THEN "collect" ELSE "split")
      /\ request_id' = (IF split' = {} THEN request_id + 1 ELSE request_id)
      /\ UNCHANGED <<bstVars, storeVars, timeStamp, asked, broken, storage_keys,
                     responses, writeBatch, promiseSatisfy, server, keysNotUsed, seen>>
  BY <1>1 DEF SubGet
<1> QED
  BY <1>1, <1>2, <1>3, <1>5, <1>7, <1>8, <1>9

\* The loop over get_map[key] meets only requests that still wait.
LEMMA ClearPromisesUp ==
  ASSUME RunInv, NEW k, ClearPromises(k)
  PROVE  status' = "up" /\ ~staleRequest(runningKeys, k, promiseSatisfy[k])
<1>1. pc = "clear" /\ k \in DOMAIN promiseSatisfy /\ status = "up"
  BY DEF ClearPromises
<1>2. At(runningKeys.get_map, k, {}) \subseteq DOMAIN runningKeys.request_map
  <2>1. /\ Linked(runningKeys)
        /\ k \notin DOMAIN runningKeys.get_map \cap DOMAIN runningKeys.get_cache
    BY <1>1 DEF RunInv, Rest, Tables
  <2> QED
    BY <2>1 DEF Linked, At
<1>3. ~staleRequest(runningKeys, k, promiseSatisfy[k])
  BY <1>2 DEF staleRequest
<1> QED
  BY <1>1, <1>3 DEF ClearPromises

\* One bucket of a GET, answered from the cache or left to wait.
LEMMA SubGetKnown ==
  ASSUME KnownInv, SubGet
  PROVE  Known'
<1>0. PICK k : k = CHOOSE x \in split : \A j \in split : x[2] <= j[2]
  OBVIOUS
<1>1. /\ pc = "split" /\ split' = split \ {k} /\ pc' \in {"collect", "split"}
      /\ UNCHANGED <<realBst, cache, keys_to_be_deleted>>
      /\ k \in LiveKeys
      /\ \/ /\ k \in CacheKeys(cache) /\ HeldValue(k) = CachedValue(cache, k)
            /\ runningKeys' = insert_cache(runningKeys, request_id, k, HeldValue(k))
         \/ runningKeys' = insertGet(runningKeys, k, request_id)
  BY <1>0, SubGetEffect DEF bstVars, storeVars
<1>2. LiveKeys' = LiveKeys /\ IndexInv
  BY <1>1, LiveSame DEF KnownInv, PlaceInv, RunInv
<1>3. SplitKnown'
  BY <1>1, <1>2 DEF KnownInv, Known, SplitKnown
<1>4. \A j \in DOMAIN runningKeys.get_cache :
        /\ j \in LiveKeys => runningKeys.get_cache[j] = CachedValue(cache, j)
        /\ \E l \in LiveKeys \ keys_to_be_deleted : l[1] = j[1] /\ j[2] <= l[2]
  BY <1>1 DEF KnownInv, Known, CacheAgrees
<1>5. CASE runningKeys' = insertGet(runningKeys, k, request_id)
  <2>1. runningKeys'.get_cache = runningKeys.get_cache
    BY <1>5 DEF insertGet
  <2> QED
    BY <1>1, <1>2, <1>3, <1>4, <2>1 DEF Known, CacheAgrees
<1>6. CASE /\ k \in CacheKeys(cache) /\ HeldValue(k) = CachedValue(cache, k)
           /\ runningKeys' = insert_cache(runningKeys, request_id, k, HeldValue(k))
  <2>1. /\ DOMAIN runningKeys'.get_cache = DOMAIN runningKeys.get_cache \cup {k}
        /\ \A j \in DOMAIN runningKeys'.get_cache : runningKeys'.get_cache[j] =
             IF j = k THEN CachedValue(cache, k) ELSE runningKeys.get_cache[j]
    BY <1>6 DEF insert_cache, Assign
  <2>2. k \in LiveKeys \ keys_to_be_deleted
    BY <1>1, <1>2, <1>6 DEF IndexInv, BatchAccounts, DoomedRunning
  <2>3. k[2] <= k[2]
    BY <1>1, <1>2, IndexFacts, KeyTypes, ConstantsAssumption
  <2> QED
    BY <1>1, <1>2, <1>3, <1>4, <2>1, <2>2, <2>3 DEF Known, CacheAgrees
<1> QED
  BY <1>1, <1>5, <1>6

\* A PUT of a new bucket.
LEMMA PopPutKnown ==
  ASSUME KnownInv, RePut = FALSE, NEW k \in RealKeys, NEW version \in Versions,
         PopPut(k, version), StampsOf(realBst, k[1]) # {}
  PROVE  Known'
<1>0. PICK old : old = getOldestKey(realBst, k)
  OBVIOUS
<1>1. /\ pc = "collect" /\ pc' = "collect" /\ IndexInv
      /\ \A t \in StampsOf(realBst, k[1]) : t < k[2]
  BY DEF PopPut, Collecting, Puttable, KnownInv, PlaceInv, RunInv
<1>2. SplitKnown'
  BY <1>1 DEF SplitKnown
<1>4. /\ IF Held(old) THEN DropHeld(old) ELSE DropLater(old)
      /\ k \notin LiveKeys /\ old \in LiveKeys /\ old[1] = k[1] /\ old # k
      /\ LiveKeys' = (IF Held(old) THEN LiveKeys \ {old} ELSE LiveKeys) \cup {k}
      /\ CacheKeys(cache') =
           (IF Held(old) THEN CacheKeys(cache) \ {old} ELSE CacheKeys(cache)) \cup {k}
  BY <1>0, <1>1, PopPutEffect
<1>5. /\ runningKeys'.get_cache = runningKeys.get_cache
      /\ keys_to_be_deleted' = IF Held(old) THEN keys_to_be_deleted
                                            ELSE keys_to_be_deleted \cup {old}
  BY <1>4 DEF DropHeld, DropLater, insertIfNotPresent
<1>6. keys_to_be_deleted \subseteq LiveKeys
  BY <1>1 DEF IndexInv, BatchAccounts, DoomedRunning
<1>7. ASSUME NEW q \in DOMAIN runningKeys.get_cache
      PROVE  /\ q \in LiveKeys' => runningKeys.get_cache[q] = CachedValue(cache', q)
             /\ \E j \in LiveKeys' \ keys_to_be_deleted' : j[1] = q[1] /\ q[2] <= j[2]
  <2>1. PICK j \in LiveKeys \ keys_to_be_deleted : j[1] = q[1] /\ q[2] <= j[2]
    BY <1>1 DEF KnownInv, Known, CacheAgrees
  <2>2. q \in LiveKeys => runningKeys.get_cache[q] = CachedValue(cache, q)
    BY <1>1 DEF KnownInv, Known, CacheAgrees
  <2>3. j[2] \in StampsOf(realBst, j[1]) /\ j \in RealKeys
    BY <1>1, <2>1, IndexFacts, LiveMember
  <2>4. q \in RealKeys
    BY <1>1 DEF IndexInv, TypeInv, TypeOK, RunningOK, IsMap
  <2>5. j[2] \in Nat /\ q[2] \in Nat /\ k[2] \in Nat
    BY <2>3, <2>4, KeyTypes, ConstantsAssumption
  <2>6. q # k
    <3>1. ASSUME q = k PROVE FALSE
      <4>1. j[2] < k[2] /\ k[2] <= j[2]
        BY <1>1, <2>1, <2>3, <3>1
      <4> QED
        BY <2>5, <4>1
    <3> QED
      BY <3>1
  <2>7. ASSUME q \in LiveKeys'
        PROVE  runningKeys.get_cache[q] = CachedValue(cache', q)
    <3>1. q \in LiveKeys /\ (Held(old) => q # old)
      BY <1>4, <2>6, <2>7
    <3>2. q \in CacheKeys(cache)
      BY <1>1, <3>1 DEF KnownInv, PlaceInv, RunInv, Rest, Tables
    <3>3. q \in CacheKeys(cache')
      BY <1>4, <3>1, <3>2
    <3> QED
      BY <1>1, <2>2, <2>6, <3>1, <3>2, <3>3, PopPutValues
  <2>8. CASE q[1] = k[1]
    <3>1. k \in LiveKeys' \ keys_to_be_deleted'
      BY <1>4, <1>5, <1>6
    <3>2. j[2] < k[2]
      BY <1>1, <2>1, <2>3, <2>8
    <3>3. k[1] = q[1] /\ q[2] <= k[2]
      BY <2>1, <2>5, <2>8, <3>2
    <3> QED
      BY <2>7, <3>1, <3>3
  <2>9. CASE q[1] # k[1]
    <3>1. j # old
      BY <1>4, <2>1, <2>9
    <3>2. j \in LiveKeys' \ keys_to_be_deleted'
      BY <1>4, <1>5, <2>1, <3>1
    <3> QED
      BY <2>1, <2>7, <3>2
  <2> QED
    BY <2>8, <2>9
<1>8. CacheAgrees'
  BY <1>5, <1>7 DEF CacheAgrees
<1> QED
  BY <1>2, <1>8 DEF Known

\* A step that leaves the collecting of a batch alone.
LEMMA IdleKnown ==
  ASSUME KnownInv, LiveKeys' = LiveKeys,
         UNCHANGED <<cache, keys_to_be_deleted, runningKeys, pc, split>>
  PROVE  Known'
BY DEF KnownInv, Known, SplitKnown, CacheAgrees

\* No GET has been split at first.
LEMMA InitKnown == Init => KnownInv
<1> SUFFICES ASSUME Init
             PROVE  KnownInv
  OBVIOUS
<1>1. pc = "collect" /\ runningKeys = EmptyRunning
  BY DEF Init
<1>2. SplitKnown
  BY <1>1 DEF SplitKnown
<1>3. CacheAgrees
  BY <1>1 DEF CacheAgrees, EmptyRunning, EmptyMap
<1> QED
  BY <1>2, <1>3, InitPlace DEF KnownInv, Known

\* Every step keeps what the table knows in agreement with the cache.
LEMMA NextKnown ==
  ASSUME RePut = FALSE, CacheSize > 0
  PROVE  KnownInv /\ [Next]_vars => KnownInv'
<1> SUFFICES ASSUME KnownInv, [Next]_vars
             PROVE  KnownInv'
  OBVIOUS
<1>1. PlaceInv /\ PlaceInv' /\ RunInv' /\ IndexInv
  BY NextPlace DEF KnownInv, PlaceInv, RunInv
<1>2. SUFFICES Known'
  BY <1>1 DEF KnownInv
<1>3. CASE UNCHANGED vars \/ Poll \/ ClearThread
  <2>1. UNCHANGED <<realBst, cache, keys_to_be_deleted, runningKeys, pc, split>>
    BY <1>3 DEF Poll, ClearThread, vars, bstVars, storeVars, getVars
  <2> QED
    BY <1>1, <2>1, LiveSame, IdleKnown
<1>4. ASSUME NEW item \in Items, NEW r \in Ranges, PopGet(item, r[1], r[2])
      PROVE  Known'
  <2>1. /\ pc = "collect" /\ split' = get_split_keys(realBst, item, r[1], r[2])
        /\ UNCHANGED <<cache, keys_to_be_deleted, runningKeys>>
    BY <1>4 DEF PopGet, Collecting, storeVars
  <2>2. LiveKeys' = LiveKeys
    BY <1>1, <1>4, Still
  <2>3. split' \subseteq LiveKeys
    BY <1>1, <2>1, SplitCovers
  <2> QED
    BY <2>1, <2>2, <2>3 DEF KnownInv, Known, SplitKnown, CacheAgrees
<1>5. ASSUME NEW k \in RealKeys, NEW version \in Versions, PopPut(k, version)
      PROVE  Known'
  <2>1. CASE StampsOf(realBst, k[1]) = {}
    <3>1. UNCHANGED <<realBst, cache, keys_to_be_deleted, runningKeys, pc, split>>
      BY <1>5, <2>1 DEF PopPut, storeVars, getVars
    <3> QED
      BY <1>1, <3>1, LiveSame, IdleKnown
  <2> QED
    BY <1>5, <2>1, PopPutKnown
<1>6. CASE SubGet
  BY <1>6, SubGetKnown
<1>7. CASE FinishBatch
  <2>1. pc' = "collect" /\ i' = 0
    BY <1>7 DEF FinishBatch
  <2>2. runningKeys' = EmptyRunning
    BY <1>1, <2>1 DEF RunInv, Rest, Quiet
  <2> QED
    BY <2>1, <2>2 DEF Known, SplitKnown, CacheAgrees, EmptyRunning, EmptyMap
<1>8. CASE ExecuteBatch
  <2>1. CASE ~FinishBatch
    <3>1. pc' \in {"read", "apply", "clear"}
      BY <1>8, <2>1 DEF ExecuteBatch, StartBatch, ReadOperation, ReadFakeReal, ReadFake, GetBatch,
                        ApplyReal, ApplyFake, PutBatch, ClearPromises
    <3> QED
      BY <3>1 DEF Known, SplitKnown, CacheAgrees
  <2> QED
    BY <1>7, <2>1
<1> QED
  BY <1>3, <1>4, <1>5, <1>6, <1>8 DEF Next, Pop

-----------------------------------------------------------------------------
(* Where the payload of a bucket is                                          *)

\* No payload that clients put or init() loads holds a NUL byte.
NoNul == (Versions \cup {InitVersion}) \cap HasNul = {}

\* What is encrypted comes back.
LEMMA Unsealed ==
  ASSUME NoNul
  PROVE  \A v \in Payloads : decryptNonDeterministic(encryptNonDeterministic(v)) = v
<1>1. Cut \notin HasNul
  BY ConstantsAssumption DEF Cut
<1>2. \A v \in Payloads : v[2] \notin HasNul
  BY <1>1 DEF NoNul, Payloads
<1> QED
  BY <1>2 DEF decryptNonDeterministic, encryptNonDeterministic

\* Content, place by place.
Located ==
  \A k \in LiveKeys :
    /\ Content(k) \in Payloads
    /\ k \in CacheKeys(cache) => Content(k) = CachedValue(cache, k)
    /\ k \in DOMAIN EvictedItems => Content(k) = EvictedItems[k] /\ k \notin CacheKeys(cache)
    /\ \A n \in Pending : storage_keys[n][1] = k =>
         /\ storage_keys[n] \in DOMAIN server \ Discarded
         /\ Content(k) = decryptNonDeterministic(server[storage_keys[n]])
         /\ k \notin CacheKeys(cache) \cup DOMAIN EvictedItems
    /\ k \notin CacheKeys(cache) \cup DOMAIN EvictedItems \cup PendingKeys =>
         /\ Current[k] \in DOMAIN server \ Discarded
         /\ Content(k) = decryptNonDeterministic(server[Current[k]])

\* The content of a live bucket is a payload, and its place tells which.
LEMMA ContentLocated == PlaceInv => Located
<1> SUFFICES ASSUME PlaceInv, NEW k \in LiveKeys
             PROVE  /\ Content(k) \in Payloads
                    /\ k \in CacheKeys(cache) => Content(k) = CachedValue(cache, k)
                    /\ k \in DOMAIN EvictedItems =>
                         Content(k) = EvictedItems[k] /\ k \notin CacheKeys(cache)
                    /\ \A n \in Pending : storage_keys[n][1] = k =>
                         /\ storage_keys[n] \in DOMAIN server \ Discarded
                         /\ Content(k) = decryptNonDeterministic(server[storage_keys[n]])
                         /\ k \notin CacheKeys(cache) \cup DOMAIN EvictedItems
                    /\ k \notin CacheKeys(cache) \cup DOMAIN EvictedItems \cup PendingKeys =>
                         /\ Current[k] \in DOMAIN server \ Discarded
                         /\ Content(k) = decryptNonDeterministic(server[Current[k]])
  BY DEF Located
<1>1. TypeInv /\ RunInv /\ k \in RealKeys /\ k \in Objects
  BY ObjectFacts DEF PlaceInv, RunInv, IndexInv, Objects
<1>2. Held(k) <=> k \in CacheKeys(cache) \cup DOMAIN EvictedItems
  BY DEF Held
<1>3. k \in DOMAIN EvictedItems => k \notin CacheKeys(cache) \cup PendingKeys
  BY DEF PlaceInv, Place, Apart
<1>4. CASE Held(k)
  <2>1. Content(k) = HeldValue(k)
    BY <1>4 DEF Content
  <2>2. HeldValue(k) \in Payloads
    BY <1>1, <1>4, HeldValueType
  <2>3. k \notin PendingKeys
    BY <1>2, <1>3, <1>4 DEF PlaceInv, Place, Apart
  <2>4. \A n \in Pending : storage_keys[n][1] # k
    BY <2>3 DEF PendingKeys
  <2> QED
    BY <1>2, <1>3, <1>4, <2>1, <2>2, <2>4 DEF HeldValue
<1>5. CASE ~Held(k)
  <2>1. Content(k) = decryptNonDeterministic(server[IdOf(k)])
    BY <1>5 DEF Content
  <2>2. \A n \in Pending : storage_keys[n][1] = k =>
          IdOf(k) = storage_keys[n] /\ storage_keys[n] \in DOMAIN server \ Discarded
    <3>1. ASSUME NEW n \in Pending, storage_keys[n][1] = k
          PROVE  IdOf(k) = storage_keys[n]
      <4>1. storage_keys[n] \in InFlight
        BY <1>1, <3>1, InFlightPending
      <4>2. \A id \in InFlight : id[1] = k => id = storage_keys[n]
        <5>1. \A m \in Pending : storage_keys[m][1] = k => m = n
          BY <1>1, <3>1, PendingFacts DEF RunInv, Rest, KeysDistinct
        <5> QED
          BY <1>1, <5>1, InFlightPending
      <4> QED
        BY <3>1, <4>1, <4>2 DEF IdOf
    <3> QED
      BY <3>1 DEF PlaceInv, Place, ReadIds
  <2>3. k \notin PendingKeys => IdOf(k) = Current[k] /\ Current[k] \in DOMAIN server \ Discarded
    <3>1. SUFFICES ASSUME k \notin PendingKeys
                   PROVE  IdOf(k) = Current[k] /\ Current[k] \in DOMAIN server \ Discarded
      OBVIOUS
    <3>2. IdOf(k) = Current[k]
      BY <3>1, IdOfPlace
    <3>3. Current[k] \in (DOMAIN server \cup DOMAIN writeBatch) \ seen /\ Current[k][1] = k
      BY <1>1, <1>2, <1>5, <3>1, ObjectFacts DEF PlaceInv, Place, Placed
    <3>4. pc \in {"collect", "split", "read", "apply", "clear"}
      BY <1>1 DEF TypeInv, TypeOK
    <3>5. Current[k] \in DOMAIN writeBatch => Current[k] \in DOMAIN server
      BY <1>1, <1>2, <1>5, <3>3, <3>4 DEF PlaceInv, Place, Written
    <3>6. Discarded \subseteq seen
      BY DEF PlaceInv, Place, ReadIds
    <3> QED
      BY <3>2, <3>3, <3>5, <3>6
  <2>4. Content(k) \in Payloads
    <3>1. IdOf(k) \in DOMAIN server
      BY <2>2, <2>3 DEF PendingKeys
    <3>2. server[IdOf(k)] \in Ciphertexts
      BY <1>1, <3>1 DEF TypeInv, TypeOK, IsMap
    <3> QED
      BY <2>1, <3>2, CryptTypes
  <2> QED
    BY <1>2, <1>5, <2>1, <2>2, <2>3, <2>4
<1> QED
  BY <1>4, <1>5

\* The same after a step.
LEMMA LocatedStep == PlaceInv' => Located'
BY ContentLocated, PTL

\* The same after a step.
LEMMA LocatedNext ==
  ASSUME PlaceInv'
  PROVE  \A k \in LiveKeys' :
    /\ Content(k)' \in Payloads
    /\ k \in CacheKeys(cache') => Content(k)' = CachedValue(cache', k)
    /\ k \in DOMAIN EvictedItems' => Content(k)' = EvictedItems'[k] /\ k \notin CacheKeys(cache')
    /\ \A n \in Pending' : storage_keys'[n][1] = k =>
         /\ storage_keys'[n] \in DOMAIN server' \ Discarded'
         /\ Content(k)' = decryptNonDeterministic(server'[storage_keys'[n]])
         /\ k \notin CacheKeys(cache') \cup DOMAIN EvictedItems'
    /\ k \notin CacheKeys(cache') \cup DOMAIN EvictedItems' \cup PendingKeys' =>
         /\ Current'[k] \in DOMAIN server' \ Discarded'
         /\ Content(k)' = decryptNonDeterministic(server'[Current'[k]])
<1>1. CacheKeys(cache)' = CacheKeys(cache')
  BY DEF CacheKeys
<1>2. \A k : CachedValue(cache, k)' = CachedValue(cache', k)
  BY DEF CachedValue, CachePos
<1> QED
  BY <1>1, <1>2, LocatedStep DEF Located, decryptNonDeterministic

\* A step keeps the payloads of the buckets it keeps.
Kept == \A k \in LiveKeys \cap LiveKeys' : Content(k)' = Content(k)

\* A step that moves no bucket, and leaves alone the ids that are in use.
LEMMA KeptQuiet ==
  ASSUME PlaceInv, PlaceInv', LiveKeys' = LiveKeys, \A k \in LiveKeys : Current'[k] = Current[k],
         UNCHANGED <<cache, EvictedItems, storage_keys>>,
         \A n \in Pending : storage_keys[n][1] \in LiveKeys => n \in Pending',
         \A n \in Pending' : storage_keys[n][1] \in LiveKeys => n \in Pending,
         \A id \in DOMAIN server \ Discarded : server'[id] = server[id]
  PROVE  Kept
<1> SUFFICES ASSUME NEW k \in LiveKeys
             PROVE  Content(k)' = Content(k)
  BY DEF Kept
<1>1. Located
  BY ContentLocated
<1>2. CASE k \in CacheKeys(cache) \cup DOMAIN EvictedItems
  BY <1>1, <1>2, LocatedNext DEF Located
<1>3. CASE k \in PendingKeys
  <2>1. PICK n \in Pending : storage_keys[n][1] = k
    BY <1>3 DEF PendingKeys
  <2>2. Content(k)' = decryptNonDeterministic(server'[storage_keys'[n]])
    BY <2>1, LocatedNext
  <2>3. /\ storage_keys[n] \in DOMAIN server \ Discarded
        /\ Content(k) = decryptNonDeterministic(server[storage_keys[n]])
    BY <1>1, <2>1 DEF Located
  <2> QED
    BY <2>2, <2>3
<1>4. CASE k \notin CacheKeys(cache) \cup DOMAIN EvictedItems \cup PendingKeys
  <2>1. k \notin PendingKeys'
    BY <1>4 DEF PendingKeys
  <2>2. Content(k)' = decryptNonDeterministic(server'[Current'[k]])
    BY <1>4, <2>1, LocatedNext
  <2>3. /\ Current[k] \in DOMAIN server \ Discarded
        /\ Content(k) = decryptNonDeterministic(server[Current[k]])
    BY <1>1, <1>4 DEF Located
  <2> QED
    BY <2>2, <2>3
<1> QED
  BY <1>2, <1>3, <1>4

\* The read of a key: the id under which the key is looked for moves into the batch.
LEMMA KeptRead ==
  ASSUME PlaceInv, PlaceInv', NEW k \in Objects, IdRead(k)
  PROVE  Kept
<1>0. /\ pc = "read" /\ pc' = "read" /\ k \notin CacheKeys(cache)
      /\ storage_keys' = Append(storage_keys, Current[k]) /\ LiveKeys' = LiveKeys
      /\ \A j \in Keys : Current'[j] = IF j = k THEN <<k, timeStamp>> ELSE Current[j]
      /\ UNCHANGED <<cache, EvictedItems, server>>
  BY DEF IdRead
<1> SUFFICES ASSUME NEW j \in LiveKeys
             PROVE  Content(j)' = Content(j)
  BY <1>0 DEF Kept
<1> DEFINE L == Len(storage_keys)
<1>1. Located /\ j \in Keys /\ Current[k][1] = k
  BY ContentLocated, ObjectFacts DEF PlaceInv, Objects
<1>2. storage_keys \in Seq(StorageIds) /\ L \in Nat
  BY IndexFacts DEF PlaceInv, RunInv
<1>3. /\ Pending = 1 .. L /\ Pending' = 1 .. (L + 1) /\ storage_keys'[L + 1] = Current[k]
      /\ \A n \in 1 .. L : storage_keys'[n] = storage_keys[n]
  BY <1>0, <1>2 DEF Pending
<1>4. k \notin PendingKeys /\ DOMAIN EvictedItems = {}
  <2>1. k \notin ReadKeys
    BY <1>0, <1>1, NewlyRead DEF PlaceInv, RunInv, Rest
  <2> QED
    BY <1>0, <2>1, PendingFacts DEF PlaceInv, RunInv, IndexInv, BatchAccounts, EvictedWritten
<1>5. L + 1 \in Pending' /\ \A n \in Pending : n \in Pending' /\ storage_keys'[n] = storage_keys[n]
  BY <1>2, <1>3
<1>6. \A n \in Pending' : n \in Pending \/ n = L + 1
  BY <1>2, <1>3
<1>a. j \in LiveKeys'
  BY <1>0
<1> HIDE DEF L
<1>7. CASE j \in CacheKeys(cache)
  BY <1>0, <1>1, <1>7, LocatedNext DEF Located
<1>8. CASE j \in PendingKeys
  <2>1. PICK n \in Pending : storage_keys[n][1] = j
    BY <1>8 DEF PendingKeys
  <2>2. n \in Pending' /\ storage_keys'[n] = storage_keys[n] /\ storage_keys'[n][1] = j
    BY <1>5, <2>1
  <2>3. Content(j)' = decryptNonDeterministic(server'[storage_keys'[n]])
    BY <1>a, <2>2, LocatedNext
  <2>4. Content(j) = decryptNonDeterministic(server[storage_keys[n]])
    BY <1>1, <2>1 DEF Located
  <2> QED
    BY <1>0, <2>2, <2>3, <2>4
<1>9. CASE j = k
  <2>1. storage_keys'[L + 1][1] = j /\ L + 1 \in Pending'
    BY <1>1, <1>3, <1>5, <1>9
  <2>2. Content(j)' = decryptNonDeterministic(server'[storage_keys'[L + 1]])
    BY <1>a, <2>1, LocatedNext
  <2>3. Content(j) = decryptNonDeterministic(server[Current[j]])
    BY <1>0, <1>1, <1>4, <1>9 DEF Located
  <2> QED
    BY <1>0, <1>3, <1>9, <2>2, <2>3
<1>10. CASE j \notin CacheKeys(cache) \cup PendingKeys /\ j # k
  <2>1. j \notin PendingKeys'
    BY <1>1, <1>3, <1>5, <1>6, <1>10 DEF PendingKeys
  <2>2. Current'[j] = Current[j]
    BY <1>0, <1>1, <1>10
  <2>3. Content(j)' = decryptNonDeterministic(server'[Current'[j]])
    BY <1>0, <1>4, <1>10, <2>1, LocatedNext
  <2>4. Content(j) = decryptNonDeterministic(server[Current[j]])
    BY <1>1, <1>4, <1>10 DEF Located
  <2> QED
    BY <1>0, <2>2, <2>3, <2>4
<1> QED
  BY <1>7, <1>8, <1>9, <1>10

\* What is on its way between cache and server is the payload: an evicted entry is written
\* under the bucket's next id, and the responses are those of the ids still pending.
Sealed ==
  /\ \A k \in DOMAIN EvictedItems :
       writeBatch[Current[k]] = encryptNonDeterministic(EvictedItems[k])
  /\ pc = "apply" => \A n \in Pending : responses[n - Cursor + 1] = server[storage_keys[n]]

\* ApplyReal, as PlaceProofs has it, and what it does to the values.
EntryMoved(x, k) ==
  /\ EntryReplaced(x, k)
  /\ k \in PendingKeys /\ PendingKeys' = PendingKeys \ {k} /\ Pending' \subseteq Pending
  /\ Cursor \in Pending /\ storage_keys[Cursor][1] = k
  /\ x # k /\ k \notin CacheKeys(cache) /\ x \in Objects'
  /\ EvictedItems' = Assign(EvictedItems, x, CachedValue(cache, x))
  /\ writeBatch' = Assign(writeBatch, Current[x], encryptNonDeterministic(CachedValue(cache, x)))
  /\ promiseSatisfy' = Assign(promiseSatisfy, k, decryptNonDeterministic(Head(responses)))
  /\ \A j \in CacheKeys(cache) : j # x => CachedValue(cache', j) = CachedValue(cache, j)
  /\ k \notin keys_to_be_deleted =>
       CachedValue(cache', k) = decryptNonDeterministic(Head(responses))

\* Applying a read of a real key moves one entry into the cache and one out.
LEMMA ApplyRealMoves ==
  ASSUME PlaceInv, CacheSize > 0, ApplyReal
  PROVE  \E x, k : EntryMoved(x, k)
<1>0. PICK x, k : x = LREntry(cache, <<NoKey, NoValue>>)[1] /\ k = storage_keys[Cursor][1]
  OBVIOUS
<1> DEFINE lr   == LREntry(cache, <<NoKey, NoValue>>)
           left == evictLRElement(cache)
           v    == decryptNonDeterministic(Head(responses))
<1>1. cache # <<>> /\ cache \in Seq(RealKeys \X Payloads) /\ CacheDistinct(cache) /\ TypeInv
  <2>1. /\ Cardinality(keys_to_be_deleted) \in Nat /\ CacheSize \in Nat
        /\ CacheSize + Cardinality(keys_to_be_deleted) <= Len(cache)
    BY FS_CardinalityType, ConstantsAssumption DEF PlaceInv, Place, Room
  <2> QED
    BY <2>1, IndexFacts DEF PlaceInv, RunInv, IndexInv
<1>2. /\ pc = "apply" /\ pc' = "apply" /\ responses # <<>> /\ responses' = Tail(responses)
      /\ storage_keys' = storage_keys /\ Cursor <= NumReal
      /\ EvictedItems' = Assign(EvictedItems, lr[1], lr[2])
      /\ writeBatch' = Assign(writeBatch, <<lr[1], getFrequency(realBst, lr[1])>>,
                              encryptNonDeterministic(lr[2]))
      /\ promiseSatisfy' = Assign(promiseSatisfy, k, v)
      /\ IF k \in keys_to_be_deleted THEN cache' = left
         ELSE cache' = insertIntoCache(left, k, IF k \in CacheKeys(left)
                                                  THEN CachedValue(left, k) ELSE v)
  BY <1>0 DEF ApplyReal
<1>3. /\ k \in PendingKeys /\ PendingKeys' = PendingKeys \ {k} /\ Pending' \subseteq Pending
      /\ Cursor \in Pending
  BY <1>0, <1>2, PendingNext DEF PlaceInv
<1>4. k \notin CacheKeys(cache)
  BY <1>3 DEF PlaceInv, Place, Apart
<1>5. EntryReplaced(x, k)
  BY <1>0, <1>1, <1>4, ApplyRealEffect DEF PlaceInv
<1>6. /\ x \in CacheKeys(cache) /\ k \in LiveKeys
      /\ LiveKeys' = IF k \in keys_to_be_deleted THEN LiveKeys \ {k} ELSE LiveKeys
  BY <1>5 DEF EntryReplaced
<1>7. x \in LiveKeys /\ x # k /\ x \in Objects' /\ Current[x] = <<x, getFrequency(realBst, x)>>
  BY <1>4, <1>6, ObjectFacts DEF PlaceInv, Objects
<1>8. v \in Payloads /\ k \in RealKeys
  BY <1>1, <1>2, <1>6, CursorType, ObjectFacts DEF PlaceInv
<1>9. left \in Seq(RealKeys \X Payloads) /\ CacheDistinct(left)
      /\ CacheKeys(left) \subseteq CacheKeys(cache)
  <2>1. /\ left \in Seq(RealKeys \X Payloads) /\ (CacheDistinct(cache) => CacheDistinct(left))
        /\ CacheKeys(left) \subseteq CacheKeys(cache)
    BY <1>1, EvictLR, Zenon
  <2> HIDE DEF left
  <2> QED
    BY <1>1, <2>1
<1>10. lr[2] = CachedValue(cache, lr[1]) /\ SameBut(left, cache, lr[1])
  <2>1. CacheDistinct(cache) => lr[2] = CachedValue(cache, lr[1]) /\ SameBut(left, cache, lr[1])
    BY <1>1, EvictKeepsValues, Zenon
  <2> HIDE DEF left, lr
  <2> QED
    BY <1>1, <2>1
<1>11. lr[1] = x
  BY <1>0
<1> HIDE DEF lr, left, v
<1>12. \A j \in CacheKeys(cache) : j # x =>
         j \in CacheKeys(left) /\ CachedValue(left, j) = CachedValue(cache, j)
  BY <1>10, <1>11 DEF SameBut
<1>13. k \notin keys_to_be_deleted => cache' = insertIntoCache(left, k, v)
  BY <1>2, <1>4, <1>9
<1>14. k \notin keys_to_be_deleted => CachedValue(cache', k) = v
  <2>1. CacheDistinct(left) => CachedValue(insertIntoCache(left, k, v), k) = v
    BY <1>8, <1>9, InsertedValue, Zenon
  <2> QED
    BY <1>9, <1>13, <2>1
<1>15. \A j \in CacheKeys(cache) : j # x => CachedValue(cache', j) = CachedValue(cache, j)
  <2>1. CASE k \in keys_to_be_deleted
    BY <1>2, <1>12, <2>1
  <2>2. CASE k \notin keys_to_be_deleted
    <3>1. CacheDistinct(left) => SameBut(insertIntoCache(left, k, v), left, k)
      BY <1>8, <1>9, InsertKeepsValues, Zenon
    <3> QED
      BY <1>4, <1>9, <1>12, <1>13, <2>2, <3>1 DEF SameBut
  <2> QED
    BY <2>1, <2>2
<1>16. EntryMoved(x, k)
  BY <1>0, <1>2, <1>3, <1>4, <1>5, <1>7, <1>10, <1>11, <1>14, <1>15 DEF EntryMoved, v
<1> QED
  BY <1>16

\* The next response is the payload of the bucket it was asked for.
LEMMA HeadContent ==
  ASSUME PlaceInv, Sealed, pc = "apply", responses # <<>>, Cursor \in Pending,
         NEW k \in LiveKeys, storage_keys[Cursor][1] = k
  PROVE  decryptNonDeterministic(Head(responses)) = Content(k)
<1>1. responses \in Seq(Ciphertexts) /\ Cursor \in Int
  BY IndexFacts DEF PlaceInv, RunInv, IndexInv, TypeInv, TypeOK, Cursor
<1>2. Head(responses) = responses[1] /\ Cursor - Cursor + 1 = 1
  BY <1>1
<1>3. responses[Cursor - Cursor + 1] = server[storage_keys[Cursor]]
  BY DEF Sealed
<1>4. Head(responses) = server[storage_keys[Cursor]]
  BY <1>2, <1>3
<1>5. Located
  BY ContentLocated
<1> QED
  BY <1>4, <1>5 DEF Located

\* A response is applied: the payloads move from cache to write-back buffer and from the
\* response to the cache.
LEMMA KeptApplyReal ==
  ASSUME PlaceInv, PlaceInv', Sealed, NEW x, NEW k, EntryMoved(x, k)
  PROVE  Kept
<1>1. /\ EntryReplaced(x, k)
      /\ k \in PendingKeys /\ PendingKeys' = PendingKeys \ {k} /\ Pending' \subseteq Pending
      /\ Cursor \in Pending /\ storage_keys[Cursor][1] = k
      /\ x # k /\ k \notin CacheKeys(cache)
      /\ EvictedItems' = Assign(EvictedItems, x, CachedValue(cache, x))
      /\ \A j \in CacheKeys(cache) : j # x => CachedValue(cache', j) = CachedValue(cache, j)
      /\ k \notin keys_to_be_deleted =>
           CachedValue(cache', k) = decryptNonDeterministic(Head(responses))
  BY DEF EntryMoved
<1>2. /\ pc = "apply" /\ pc' = "apply" /\ responses # <<>>
      /\ x \in CacheKeys(cache) /\ k \in LiveKeys
      /\ LiveKeys' = IF k \in keys_to_be_deleted THEN LiveKeys \ {k} ELSE LiveKeys
      /\ CacheKeys(cache') = (CacheKeys(cache) \ {x})
                                \cup (IF k \in keys_to_be_deleted THEN {} ELSE {k})
      /\ \A j \in Objects' : Current'[j] = Current[j]
      /\ storage_keys' = storage_keys /\ server' = server
  BY <1>1 DEF EntryReplaced
<1>3. /\ DOMAIN EvictedItems' = DOMAIN EvictedItems \cup {x}
      /\ EvictedItems'[x] = CachedValue(cache, x)
      /\ \A j \in DOMAIN EvictedItems : j # x => EvictedItems'[j] = EvictedItems[j]
  BY <1>1 DEF Assign
<1> SUFFICES ASSUME NEW j \in LiveKeys, j \in LiveKeys'
             PROVE  Content(j)' = Content(j)
  BY DEF Kept
<1>4. Located /\ j \in Objects'
  BY ContentLocated DEF Objects
<1>5. CASE j = x
  <2>1. Content(j) = CachedValue(cache, x)
    BY <1>2, <1>4, <1>5 DEF Located
  <2>2. Content(j)' = EvictedItems'[x]
    BY <1>3, <1>5, LocatedNext
  <2> QED
    BY <1>3, <2>1, <2>2
<1>6. CASE j = k
  <2>1. k \in CacheKeys(cache') /\ k \notin keys_to_be_deleted
    BY <1>2, <1>6
  <2>2. Content(j)' = CachedValue(cache', k)
    BY <1>6, <2>1, LocatedNext
  <2>3. decryptNonDeterministic(Head(responses)) = Content(k)
    BY <1>1, <1>2, HeadContent
  <2> QED
    BY <1>1, <1>6, <2>1, <2>2, <2>3
<1>7. CASE j \in CacheKeys(cache) /\ j # x
  <2>1. Content(j) = CachedValue(cache, j)
    BY <1>4, <1>7 DEF Located
  <2>2. j \in CacheKeys(cache')
    BY <1>2, <1>7
  <2>3. Content(j)' = CachedValue(cache', j)
    BY <2>2, LocatedNext
  <2> QED
    BY <1>1, <1>7, <2>1, <2>3
<1>8. CASE j \in DOMAIN EvictedItems /\ j # x
  <2>1. Content(j) = EvictedItems[j]
    BY <1>4, <1>8 DEF Located
  <2>2. Content(j)' = EvictedItems'[j]
    BY <1>3, <1>8, LocatedNext
  <2> QED
    BY <1>3, <1>8, <2>1, <2>2
<1>9. CASE j \in PendingKeys /\ j # k /\ j # x
  <2>1. PICK n \in Pending' : storage_keys'[n][1] = j
    BY <1>1, <1>9 DEF PendingKeys
  <2>2. Content(j)' = decryptNonDeterministic(server'[storage_keys'[n]])
    BY <2>1, LocatedNext
  <2>3. n \in Pending /\ storage_keys[n][1] = j
    BY <1>1, <1>2, <2>1
  <2>4. Content(j) = decryptNonDeterministic(server[storage_keys[n]])
    BY <1>4, <2>3 DEF Located
  <2> QED
    BY <1>2, <2>2, <2>4
<1>10. CASE /\ j \notin CacheKeys(cache) \cup DOMAIN EvictedItems \cup PendingKeys
            /\ j # x /\ j # k
  <2>1. Content(j) = decryptNonDeterministic(server[Current[j]])
    BY <1>4, <1>10 DEF Located
  <2>2. j \notin CacheKeys(cache') \cup DOMAIN EvictedItems' \cup PendingKeys'
    BY <1>1, <1>2, <1>3, <1>10
  <2>3. Content(j)' = decryptNonDeterministic(server'[Current'[j]])
    BY <2>2, LocatedNext
  <2> QED
    BY <1>2, <1>4, <2>1, <2>3
<1> QED
  BY <1>5, <1>6, <1>7, <1>8, <1>9, <1>10

\* put_batch: what was evicted is found on the server again.
LEMMA KeptPutBatch ==
  ASSUME PlaceInv, PlaceInv', Sealed, NoNul, PutBatch
  PROVE  Kept
<1>1. /\ pc = "apply" /\ pc' = "clear" /\ responses = <<>>
      /\ server' = Merge(server, writeBatch)
      /\ UNCHANGED <<realBst, fakeBst, cache, keys_to_be_deleted, storage_keys>>
  BY DEF PutBatch, bstVars, batchVars
<1>2. Pending' = {} /\ PendingKeys' = {} /\ PendingKeys = {}
  <2>1. Len(storage_keys) \in Nat /\ DOMAIN storage_keys = 1 .. Len(storage_keys)
        /\ Cursor = Len(storage_keys) + 1
    BY <1>1, IndexFacts DEF PlaceInv, RunInv, Cursor
  <2>2. Pending = {}
    BY <1>1, <2>1 DEF Pending
  <2>3. Pending' = {}
    BY <1>1 DEF Pending
  <2> QED
    BY <2>2, <2>3 DEF PendingKeys
<1>3. LiveKeys' = LiveKeys /\ Current' = Current
  BY Still
<1>4. DOMAIN EvictedItems' = {}
  BY <1>1 DEF PlaceInv, RunInv, IndexInv, BatchAccounts, EvictedWritten
<1>5. \A id : id \in DOMAIN writeBatch => server'[id] = writeBatch[id]
  BY <1>1 DEF Merge
<1>6. \A id \in DOMAIN server : id \notin DOMAIN writeBatch => server'[id] = server[id]
  BY <1>1 DEF Merge
<1> SUFFICES ASSUME NEW k \in LiveKeys
             PROVE  Content(k)' = Content(k)
  BY DEF Kept
<1>7. Located /\ k \in LiveKeys'
  BY <1>3, ContentLocated
<1>8. CASE k \in CacheKeys(cache)
  BY <1>1, <1>7, <1>8, LocatedNext DEF Located
<1>9. CASE k \notin CacheKeys(cache)
  <2>1. Content(k)' = decryptNonDeterministic(server'[Current[k]])
    <3>1. k \notin CacheKeys(cache') \cup DOMAIN EvictedItems' \cup PendingKeys'
      BY <1>1, <1>2, <1>4, <1>9
    <3> QED
      BY <1>3, <1>7, <3>1, LocatedNext
  <2>2. CASE k \in DOMAIN EvictedItems
    <3>1. Content(k) = EvictedItems[k] /\ Content(k) \in Payloads
      BY <1>7, <2>2 DEF Located
    <3>2. Current[k] \in DOMAIN writeBatch
      BY <2>2 DEF PlaceInv, Place, Apart
    <3>3. server'[Current[k]] = encryptNonDeterministic(EvictedItems[k])
      BY <1>5, <2>2, <3>2 DEF Sealed
    <3> QED
      BY <2>1, <3>1, <3>3, Unsealed
  <2>3. CASE k \notin DOMAIN EvictedItems
    <3>1. /\ Content(k) = decryptNonDeterministic(server[Current[k]])
          /\ Current[k] \in DOMAIN server
      BY <1>2, <1>7, <1>9, <2>3 DEF Located
    <3>2. Current[k] \notin DOMAIN writeBatch
      BY <1>1, <3>1 DEF PlaceInv, Place, Written
    <3> QED
      BY <1>6, <2>1, <3>1, <3>2
  <2> QED
    BY <2>2, <2>3
<1> QED
  BY <1>8, <1>9

\* A PUT changes no bucket but the new one.
LEMMA KeptPopPut ==
  ASSUME PlaceInv, PlaceInv', RePut = FALSE, NEW k \in RealKeys, NEW version \in Versions,
         PopPut(k, version), StampsOf(realBst, k[1]) # {}
  PROVE  Kept
<1>0. PICK old : old = getOldestKey(realBst, k)
  OBVIOUS
<1>1. /\ pc = "collect" /\ pc' = "collect" /\ IndexInv /\ RunInv
      /\ UNCHANGED <<storage_keys, server>>
  BY DEF PopPut, Collecting, PlaceInv, RunInv
<1>2. /\ k \notin LiveKeys /\ (Held(old) <=> old \in CacheKeys(cache))
      /\ LiveKeys' = (IF Held(old) THEN LiveKeys \ {old} ELSE LiveKeys) \cup {k}
      /\ CacheKeys(cache') =
           (IF Held(old) THEN CacheKeys(cache) \ {old} ELSE CacheKeys(cache)) \cup {k}
  BY <1>0, <1>1, PopPutEffect
<1>3. \A j \in Objects : j # old \/ ~Held(old) => Current'[j] = Current[j]
  BY <1>0, <1>1, PopPutCurrent
<1>4. /\ Pending = {} /\ PendingKeys = {} /\ PendingKeys' = {}
      /\ DOMAIN EvictedItems = {} /\ DOMAIN EvictedItems' = {}
  BY <1>1 DEF Pending, PendingKeys, PlaceInv, RunInv, IndexInv, BatchAccounts, EvictedWritten
<1> SUFFICES ASSUME NEW j \in LiveKeys, j \in LiveKeys'
             PROVE  Content(j)' = Content(j)
  BY DEF Kept
<1>5. Located /\ j # k /\ j \in Objects /\ (Held(old) => j # old)
  BY <1>2, ContentLocated DEF Objects
<1>6. CASE j \in CacheKeys(cache)
  <2>1. Content(j) = CachedValue(cache, j)
    BY <1>5, <1>6 DEF Located
  <2>2. j \in CacheKeys(cache')
    BY <1>2, <1>5, <1>6
  <2>3. Content(j)' = CachedValue(cache', j)
    BY <2>2, LocatedNext
  <2>4. CachedValue(cache', j) = CachedValue(cache, j)
    BY <1>1, <1>5, <1>6, <2>2, PopPutValues
  <2> QED
    BY <2>1, <2>3, <2>4
<1>7. CASE j \notin CacheKeys(cache)
  <2>1. Content(j) = decryptNonDeterministic(server[Current[j]])
    BY <1>4, <1>5, <1>7 DEF Located
  <2>2. j \notin CacheKeys(cache') \cup DOMAIN EvictedItems' \cup PendingKeys'
    BY <1>2, <1>4, <1>5, <1>7
  <2>3. Content(j)' = decryptNonDeterministic(server'[Current'[j]])
    BY <2>2, LocatedNext
  <2> QED
    BY <1>1, <1>3, <1>5, <2>1, <2>3
<1> QED
  BY <1>6, <1>7

-----------------------------------------------------------------------------
(* Payloads stay what they are                                               *)

\* Outside the response loop nothing is on its way.
LEMMA SealedIdle ==
  ASSUME PlaceInv', pc' # "apply"
  PROVE  Sealed'
<1>1. DOMAIN EvictedItems' = {}
  BY DEF PlaceInv, RunInv, IndexInv, BatchAccounts, EvictedWritten
<1> QED
  BY <1>1 DEF Sealed

\* The responses move up by one.
LEMMA ResponsesShift ==
  ASSUME PlaceInv, Sealed, pc = "apply", pc' = "apply", responses # <<>>,
         responses' = Tail(responses), storage_keys' = storage_keys, server' = server
  PROVE  \A n \in Pending' : responses'[n - Cursor' + 1] = server'[storage_keys'[n]]
<1> DEFINE L == Len(storage_keys)
           M == Len(responses)
<1>1. /\ L \in Nat /\ DOMAIN storage_keys = 1 .. L
      /\ responses \in Seq(Ciphertexts) /\ M \in Nat \ {0} /\ M <= L
  <2>1. responses \in Seq(Ciphertexts)
    BY DEF PlaceInv, RunInv, IndexInv, TypeInv, TypeOK
  <2>2. Len(responses) <= Len(storage_keys)
    BY DEF PlaceInv, RunInv, IndexInv, TypeInv, Shape
  <2> QED
    BY <2>1, <2>2, IndexFacts DEF PlaceInv, RunInv
<1>2. Len(responses') = M - 1 /\ \A m \in 1 .. (M - 1) : responses'[m] = responses[m + 1]
  BY <1>1
<1>3. Cursor = L - M + 1 /\ Cursor' = L - M + 2
  BY <1>1, <1>2 DEF Cursor
<1> HIDE DEF L, M
<1>4. Pending = {n \in 1 .. L : n >= Cursor} /\ Pending' = {n \in 1 .. L : n >= Cursor'}
  BY <1>1 DEF Pending
<1> SUFFICES ASSUME NEW n \in Pending'
             PROVE  responses'[n - Cursor' + 1] = server[storage_keys[n]]
  OBVIOUS
<1>5. n \in Pending /\ n \in Int
  BY <1>1, <1>3, <1>4
<1>6. responses[n - Cursor + 1] = server[storage_keys[n]]
  BY <1>5 DEF Sealed
<1>7. /\ n - Cursor' + 1 \in 1 .. (M - 1)
      /\ (n - Cursor' + 1) + 1 = n - Cursor + 1
  BY <1>1, <1>3, <1>4, <1>5
<1> QED
  BY <1>2, <1>6, <1>7

\* The evicted entry is encrypted for its next id.
LEMMA SealedApplyReal ==
  ASSUME PlaceInv, PlaceInv', Sealed, NEW x, NEW k, EntryMoved(x, k)
  PROVE  Sealed'
<1>1. /\ EntryReplaced(x, k) /\ x \in Objects'
      /\ EvictedItems' = Assign(EvictedItems, x, CachedValue(cache, x))
      /\ writeBatch' = Assign(writeBatch, Current[x],
                              encryptNonDeterministic(CachedValue(cache, x)))
  BY DEF EntryMoved
<1>2. /\ pc = "apply" /\ pc' = "apply" /\ responses # <<>> /\ responses' = Tail(responses)
      /\ x \in CacheKeys(cache) /\ \A j \in Objects' : Current'[j] = Current[j]
      /\ storage_keys' = storage_keys /\ server' = server
  BY <1>1 DEF EntryReplaced
<1>3. \A n \in Pending' : responses'[n - Cursor' + 1] = server'[storage_keys'[n]]
  BY <1>2, ResponsesShift
<1>4. ASSUME NEW j \in DOMAIN EvictedItems'
      PROVE  writeBatch'[Current'[j]] = encryptNonDeterministic(EvictedItems'[j])
  <2>1. j \in Objects' /\ Current'[j] = Current[j]
    <3>1. j \in LiveKeys'
      BY <1>4 DEF PlaceInv, Place, Apart
    <3> QED
      BY <1>2, <3>1 DEF Objects
  <2>2. CASE j = x
    BY <1>1, <2>1, <2>2 DEF Assign
  <2>3. CASE j # x
    <3>1. j \in DOMAIN EvictedItems /\ EvictedItems'[j] = EvictedItems[j]
      BY <1>1, <1>4, <2>3 DEF Assign
    <3>2. Current[j] \in DOMAIN writeBatch /\ j \in LiveKeys
      BY <3>1 DEF PlaceInv, Place, Apart
    <3>3. Current[j][1] = j /\ Current[x][1] = x
      BY <1>2, <3>2, ObjectFacts DEF PlaceInv, Objects
    <3>4. writeBatch'[Current[j]] = writeBatch[Current[j]]
      BY <1>1, <2>3, <3>2, <3>3 DEF Assign
    <3> QED
      BY <2>1, <3>1, <3>4 DEF Sealed
  <2> QED
    BY <2>2, <2>3
<1> QED
  BY <1>3, <1>4 DEF Sealed, encryptNonDeterministic

\* The write of a fake object touches no evicted entry.
LEMMA SealedApplyFake ==
  ASSUME PlaceInv, Sealed, ApplyFake
  PROVE  Sealed'
<1>0. PICK k : k = storage_keys[Cursor][1]
  OBVIOUS
<1>1. /\ pc = "apply" /\ pc' = "apply" /\ responses # <<>> /\ responses' = Tail(responses)
      /\ Cursor > NumReal
      /\ writeBatch' = Assign(writeBatch, <<k, getFrequency(fakeBst, k)>>,
                              encryptNonDeterministic(<<k, InitVersion>>))
      /\ UNCHANGED <<EvictedItems, storage_keys, server>>
  BY <1>0 DEF ApplyFake, storeVars
<1>2. k \in FakeKeys
  <2>1. k \in IF Cursor <= NumReal THEN RealKeys ELSE FakeKeys
    BY <1>0, <1>1, CursorType DEF PlaceInv, RunInv, IndexInv
  <2>2. NumReal \in Nat /\ Cursor \in Int
    BY <1>1, NumRealType DEF PlaceInv, RunInv, IndexInv, TypeInv, TypeOK, Cursor
  <2> QED
    BY <1>1, <2>1, <2>2
<1>3. Current' = Current
  BY Still
<1>4. \A n \in Pending' : responses'[n - Cursor' + 1] = server'[storage_keys'[n]]
  BY <1>1, ResponsesShift
<1>5. ASSUME NEW j \in DOMAIN EvictedItems
      PROVE  writeBatch'[Current[j]] = writeBatch[Current[j]]
  <2>1. Current[j] \in DOMAIN writeBatch /\ j \in LiveKeys
    BY DEF PlaceInv, Place, Apart
  <2>2. Current[j][1] = j /\ j # k
    BY <1>2, <2>1, ObjectFacts DEF PlaceInv, Objects
  <2> QED
    BY <1>1, <2>1, <2>2 DEF Assign
<1> QED
  BY <1>1, <1>3, <1>4, <1>5 DEF Sealed, encryptNonDeterministic

\* The responses are those of the ids just read.
LEMMA SealedGetBatch ==
  ASSUME PlaceInv, PlaceInv', GetBatch
  PROVE  Sealed'
<1>1. /\ pc = "read" /\ UNCHANGED <<EvictedItems, storage_keys, server>>
  BY DEF GetBatch, storeVars
<1>2. DOMAIN EvictedItems' = {}
  BY <1>1 DEF PlaceInv, RunInv, IndexInv, BatchAccounts, EvictedWritten
<1>3. responses' = [n \in DOMAIN storage_keys |-> server[storage_keys[n]]]
  BY GetBatchPlace DEF GetBatch
<1>4. Len(storage_keys) \in Nat /\ DOMAIN storage_keys = 1 .. Len(storage_keys)
  BY IndexFacts DEF PlaceInv, RunInv
<1>5. Len(responses') = Len(storage_keys)
  BY <1>3, <1>4
<1>6. Cursor' = 1
  BY <1>1, <1>4, <1>5 DEF Cursor
<1>7. \A n \in Pending' : n \in DOMAIN storage_keys
  BY <1>1 DEF Pending
<1>8. \A n \in Pending' : n - Cursor' + 1 = n
  BY <1>4, <1>6, <1>7
<1>9. \A n \in Pending' : responses'[n - Cursor' + 1] = server'[storage_keys'[n]]
  BY <1>1, <1>3, <1>7, <1>8
<1> QED
  BY <1>2, <1>9 DEF Sealed

\* clearThread: the ids that are pending or current stay.
LEMMA ClearThreadServer ==
  ASSUME PlaceInv, ClearThread
  PROVE  \A id \in DOMAIN server \ Discarded : server'[id] = server[id]
<1>1. /\ keysNotUsed # <<>> /\ keysNotUsed' = Tail(keysNotUsed)
      /\ server' = EraseAll(server, IdSet(Head(keysNotUsed)))
  BY DEF ClearThread
<1>2. IdSet(Head(keysNotUsed)) \subseteq Discarded
  BY <1>1, DiscardedNext DEF PlaceInv
<1> QED
  BY <1>1, <1>2 DEF EraseAll

\* The clearing thread touches neither.
LEMMA SealedStill ==
  ASSUME PlaceInv, Sealed, UNCHANGED vars \/ ClearThread
  PROVE  Sealed'
<1>1. UNCHANGED <<realBst, fakeBst, EvictedItems, writeBatch, pc, storage_keys, responses>>
  BY DEF ClearThread, vars, bstVars, storeVars, batchVars
<1>2. Current' = Current /\ Cursor' = Cursor /\ Pending' = Pending
  BY <1>1 DEF Current, Cursor, Pending
<1>3. \A id \in DOMAIN server \ Discarded : server'[id] = server[id]
  BY ClearThreadServer DEF vars
<1>4. \A n \in Pending : storage_keys[n] \in DOMAIN server \ Discarded
  BY DEF PlaceInv, Place, ReadIds
<1> QED
  BY <1>1, <1>2, <1>3, <1>4 DEF Sealed, encryptNonDeterministic

\* Every step keeps it.
LEMMA NextSealed ==
  ASSUME PlaceInv, PlaceInv', Sealed, CacheSize > 0, [Next]_vars
  PROVE  Sealed'
<1>1. CASE UNCHANGED vars \/ ClearThread
  BY <1>1, SealedStill
<1>2. CASE ApplyReal
  <2>1. PICK x, k : EntryMoved(x, k)
    BY <1>2, ApplyRealMoves
  <2> QED
    BY <2>1, SealedApplyReal
<1>3. CASE ApplyFake
  BY <1>3, SealedApplyFake
<1>4. CASE GetBatch
  BY <1>4, SealedGetBatch
<1>5. CASE Poll \/ Pop \/ SubGet
  <2>1. pc' # "apply" \/ UNCHANGED vars
    BY <1>5 DEF Poll, Pop, PopGet, PopPut, SubGet, Collecting
  <2> QED
    BY <1>1, <2>1, SealedIdle
<1>6. CASE \/ StartBatch \/ ReadOperation \/ ReadFakeReal \/ ReadFake \/ PutBatch \/ FinishBatch
           \/ \E k \in Keys : ClearPromises(k)
  <2>1. pc' # "apply"
    BY <1>6 DEF StartBatch, ReadOperation, ReadFakeReal, ReadFake, PutBatch, FinishBatch,
                ClearPromises
  <2> QED
    BY <2>1, SealedIdle
<1> QED
  BY <1>1, <1>2, <1>3, <1>4, <1>5, <1>6 DEF Next, ExecuteBatch

\* While nobody puts a bucket again, no step changes what it holds.
LEMMA NextKept ==
  ASSUME PlaceInv, PlaceInv', Sealed, NoNul, RePut = FALSE, CacheSize > 0, [Next]_vars
  PROVE  Kept
<1>1. CASE \/ SubGet \/ StartBatch \/ GetBatch \/ FinishBatch
           \/ \E k \in Keys : ClearPromises(k)
           \/ UNCHANGED <<bstVars, storeVars, timeStamp, pc, batchVars, server, keysNotUsed, seen>>
           \/ \E item \in Items, r \in Ranges : PopGet(item, r[1], r[2])
           \/ \E k \in RealKeys, version \in Versions :
                PopPut(k, version) /\ StampsOf(realBst, k[1]) = {}
  <2>1. LiveKeys' = LiveKeys /\ Current' = Current
    BY <1>1, Still
  <2>2. UNCHANGED <<cache, EvictedItems, server>>
    BY <1>1 DEF SubGet, StartBatch, GetBatch, FinishBatch, ClearPromises, PopGet, PopPut,
                storeVars, batchVars
  <2>3. CASE GetBatch
    <3>1. pc = "read" /\ pc' = "apply" /\ storage_keys' = storage_keys
      BY <2>3, GetBatchPlace DEF GetBatch
    <3>2. responses' = [n \in DOMAIN storage_keys |-> server[storage_keys[n]]]
      BY <2>3, GetBatchPlace DEF GetBatch
    <3>3. Len(storage_keys) \in Nat /\ DOMAIN storage_keys = 1 .. Len(storage_keys)
      BY IndexFacts DEF PlaceInv, RunInv
    <3>4. Len(responses') = Len(storage_keys)
      BY <3>2, <3>3
    <3>5. Cursor' = 1
      BY <3>1, <3>3, <3>4 DEF Cursor
    <3>6. Pending' = Pending
      BY <3>1, <3>3, <3>5 DEF Pending
    <3> QED
      BY <2>1, <2>2, <3>1, <3>6, KeptQuiet
  <2>4. CASE ~GetBatch /\ ~FinishBatch
    <3>1. /\ UNCHANGED <<storage_keys, responses>>
          /\ pc' = pc \/ pc \in {"collect", "split"}
      BY <1>1, <2>4 DEF SubGet, StartBatch, ClearPromises, PopGet, PopPut, Collecting, batchVars
    <3>2. pc \in {"collect", "split"} => storage_keys = <<>>
      BY DEF PlaceInv, RunInv, IndexInv, TypeInv, Shape
    <3>3. Pending' = Pending
      BY <3>1, <3>2 DEF Pending, Cursor
    <3> QED
      BY <2>1, <2>2, <3>1, <3>3, KeptQuiet
  <2>5. CASE FinishBatch
    <3>1. pc = "clear" /\ pc' = "collect"
      BY <2>5 DEF FinishBatch
    <3>2. /\ Pending = {} /\ Pending' = {} /\ PendingKeys = {} /\ PendingKeys' = {}
      BY <3>1 DEF Pending, PendingKeys
    <3>3. ASSUME NEW k \in LiveKeys
          PROVE  Content(k)' = Content(k)
      <4>1. Located /\ k \in LiveKeys'
        BY <2>1, ContentLocated
      <4>2. CASE k \in CacheKeys(cache) \cup DOMAIN EvictedItems
        BY <2>2, <4>1, <4>2, LocatedNext DEF Located
      <4>3. CASE k \notin CacheKeys(cache) \cup DOMAIN EvictedItems
        <5>1. Content(k) = decryptNonDeterministic(server[Current[k]])
          BY <3>2, <4>1, <4>3 DEF Located
        <5>2. Content(k)' = decryptNonDeterministic(server'[Current'[k]])
          BY <2>2, <3>2, <4>1, <4>3, LocatedNext
        <5> QED
          BY <2>1, <2>2, <5>1, <5>2
      <4> QED
        BY <4>2, <4>3
    <3> QED
      BY <3>3 DEF Kept
  <2> QED
    BY <2>3, <2>4, <2>5
<1>2. CASE ClearThread
  <2>1. LiveKeys' = LiveKeys /\ Current' = Current
    BY <1>2, Still
  <2>2. UNCHANGED <<cache, EvictedItems, pc, storage_keys, responses>>
    BY <1>2 DEF ClearThread, storeVars, batchVars
  <2>3. Pending' = Pending
    BY <2>2 DEF Pending, Cursor
  <2> QED
    BY <1>2, <2>1, <2>2, <2>3, ClearThreadServer, KeptQuiet
<1>3. CASE ReadOperation \/ ReadFakeReal \/ ReadFake
  BY <1>1, <1>3, KeptRead, ReadOperationEffect, ReadFakeRealEffect, ReadFakeEffect DEF PlaceInv
<1>4. CASE ApplyReal
  <2>1. PICK x, k : EntryMoved(x, k)
    BY <1>4, ApplyRealMoves
  <2> QED
    BY <2>1, KeptApplyReal
<1>5. CASE ApplyFake
  <2>0. PICK k : k = storage_keys[Cursor][1]
    OBVIOUS
  <2>1. /\ pc = "apply" /\ pc' = "apply" /\ responses # <<>> /\ responses' = Tail(responses)
        /\ Cursor > NumReal /\ UNCHANGED <<cache, EvictedItems, storage_keys, server>>
    BY <1>5 DEF ApplyFake, storeVars
  <2>2. LiveKeys' = LiveKeys /\ Current' = Current
    BY <1>5, Still
  <2>3. k \notin LiveKeys
    <3>1. k \in IF Cursor <= NumReal THEN RealKeys ELSE FakeKeys
      BY <2>0, <2>1, CursorType DEF PlaceInv, RunInv, IndexInv
    <3>2. NumReal \in Nat /\ Cursor \in Int
      BY <2>1, NumRealType DEF PlaceInv, RunInv, IndexInv, TypeInv, TypeOK, Cursor
    <3> QED
      BY <2>1, <3>1, <3>2, ObjectFacts DEF PlaceInv
  <2>4. Pending' \subseteq Pending /\ PendingKeys' = PendingKeys \ {k}
    BY <2>0, <2>1, PendingNext DEF PlaceInv
  <2>5. ASSUME NEW n \in Pending, storage_keys[n][1] \in LiveKeys
        PROVE  n \in Pending'
    <3>1. storage_keys[n][1] \in PendingKeys'
      BY <2>3, <2>4, <2>5 DEF PendingKeys
    <3>2. PICK m \in Pending' : storage_keys[m][1] = storage_keys[n][1]
      BY <2>1, <3>1 DEF PendingKeys
    <3>3. m \in DOMAIN storage_keys /\ n \in DOMAIN storage_keys
      BY <2>4, <2>5, <3>2, PendingFacts DEF PlaceInv
    <3>4. m = n
      BY <3>2, <3>3 DEF PlaceInv, RunInv, Rest, KeysDistinct
    <3> QED
      BY <3>2, <3>4
  <2> QED
    BY <2>1, <2>2, <2>4, <2>5, KeptQuiet
<1>6. CASE PutBatch
  BY <1>6, KeptPutBatch
<1>7. ASSUME NEW k \in RealKeys, NEW version \in Versions, PopPut(k, version)
      PROVE  Kept
  BY <1>1, <1>7, KeptPopPut
<1>8. CASE UNCHANGED vars \/ Poll
  <2>1. UNCHANGED <<bstVars, storeVars, timeStamp, pc, batchVars, server, keysNotUsed, seen>>
    BY <1>8 DEF Poll, vars
  <2> QED
    BY <1>1, <2>1
<1> QED
  BY <1>1, <1>2, <1>3, <1>4, <1>5, <1>6, <1>7, <1>8 DEF Next, Pop, ExecuteBatch

-----------------------------------------------------------------------------
(* What each GET is owed                                                     *)

\* The buckets of a GET that create_security_batch has not reached.
Unsplit(r) == IF pc = "split" /\ r = request_id THEN split ELSE {}

\* The table holds, for each GET not yet answered, the buckets it was split into, and the
\* ids of GETs are new.
Asked ==
  /\ \A r \in DOMAIN asked : r < request_id \/ (pc = "split" /\ r = request_id)
  /\ DOMAIN answers \subseteq DOMAIN asked
  /\ DOMAIN runningKeys.request_map \subseteq DOMAIN asked \ DOMAIN answers
  /\ \A r \in DOMAIN asked : asked[r] = [k \in DOMAIN asked[r] |-> asked[r][k]]
  /\ \A r \in DOMAIN runningKeys.request_map :
       runningKeys.request_map[r] = DOMAIN asked[r] \ Unsplit(r)
  /\ pc = "split" =>
       /\ request_id \in DOMAIN asked \ DOMAIN answers
       /\ split \subseteq DOMAIN asked[request_id]
       /\ request_id \notin DOMAIN runningKeys.request_map => split = DOMAIN asked[request_id]
       /\ \A k \in split : asked[request_id][k] = Content(k)

\* Where the payload v that a GET waits for is: in its bucket until the response has been
\* applied, then among the promises still to be tried.
Supplied(k, v) ==
  IF pc \in {"collect", "split", "read"} \/ k \in PendingKeys
    THEN k \in LiveKeys /\ Content(k) = v
    ELSE k \in DOMAIN promiseSatisfy /\ promiseSatisfy[k] = v

\* Every payload that a GET in the table is owed has been collected or will be.
Owed ==
  \A r \in DOMAIN runningKeys.request_map : \A k \in runningKeys.request_map[r] :
    IF k \in DOMAIN runningKeys.get_cache
      THEN runningKeys.get_cache[k] = asked[r][k] ELSE Supplied(k, asked[r][k])

StoreInv == KnownInv /\ Sealed /\ Asked /\ Owed

\* The buckets that GETs are waiting for.
Waiting == (UNION {runningKeys.request_map[r] : r \in DOMAIN runningKeys.request_map})
             \ DOMAIN runningKeys.get_cache

\* They are being fetched: until then the table has them, and no cache does.
LEMMA WaitingFacts ==
  ASSUME RunInv, NEW k \in Waiting
  PROVE  /\ k \in DOMAIN runningKeys.get_map /\ k \in RealKeys
         /\ pc \in {"collect", "split"} => ~Held(k)
<1>1. PICK r \in DOMAIN runningKeys.request_map :
        k \in runningKeys.request_map[r] \ DOMAIN runningKeys.get_cache
  BY DEF Waiting
<1>2. k \in DOMAIN runningKeys.get_map
  BY <1>1 DEF RunInv, Rest, Tables, Linked
<1>3. k \in RealKeys
  BY <1>2 DEF RunInv, IndexInv, TypeInv, TypeOK, RunningOK, IsMap
<1>4. ASSUME pc \in {"collect", "split"} PROVE ~Held(k)
  <2>1. k \in Fetched
    BY <1>2, <1>4 DEF RunInv, Rest, Whereabouts, Present
  <2>2. k \notin CacheKeys(cache)
    BY <1>4, <2>1 DEF RunInv, IndexInv, BatchAccounts, OperationsDistinct, Fetched
  <2>3. DOMAIN EvictedItems = {}
    BY <1>4 DEF RunInv, IndexInv, BatchAccounts, EvictedWritten
  <2> QED
    BY <2>2, <2>3 DEF Held
<1> QED
  BY <1>2, <1>3, <1>4

\* A step that leaves the requests alone.
LEMMA AskedSame ==
  ASSUME KnownInv, Asked, Kept, UNCHANGED <<asked, answers, request_id, split>>,
         runningKeys'.request_map = runningKeys.request_map,
         pc' = "split" <=> pc = "split", pc = "split" => LiveKeys' = LiveKeys
  PROVE  Asked'
<1>1. \A r : Unsplit(r)' = Unsplit(r)
  BY DEF Unsplit
<1>2. pc = "split" => \A k \in split : Content(k)' = Content(k)
  BY DEF Kept, KnownInv, Known, SplitKnown
<1> QED
  BY <1>1, <1>2 DEF Asked

\* A step that answers nobody keeps what is owed if each value can still be supplied.
LEMMA OwedSame ==
  ASSUME Owed, asked' = asked,
         runningKeys'.request_map = runningKeys.request_map,
         runningKeys'.get_cache = runningKeys.get_cache,
         \A k \in Waiting : \A v : Supplied(k, v) => Supplied(k, v)'
  PROVE  Owed'
<1> SUFFICES ASSUME NEW r \in DOMAIN runningKeys.request_map,
                    NEW k \in runningKeys.request_map[r]
             PROVE  IF k \in DOMAIN runningKeys.get_cache
                      THEN runningKeys.get_cache[k] = asked[r][k] ELSE Supplied(k, asked[r][k])'
  BY DEF Owed
<1>1. IF k \in DOMAIN runningKeys.get_cache
        THEN runningKeys.get_cache[k] = asked[r][k] ELSE Supplied(k, asked[r][k])
  BY DEF Owed
<1>2. k \notin DOMAIN runningKeys.get_cache => k \in Waiting
  BY DEF Waiting
<1>3. k \in Waiting => (Supplied(k, asked[r][k]) => Supplied(k, asked[r][k])')
  OBVIOUS
<1> QED
  BY <1>1, <1>2, <1>3

\* A payload that a GET waits for stays where it is, or arrives.
LEMMA SuppliedStill ==
  ASSUME Kept, LiveKeys' = LiveKeys, PendingKeys' = PendingKeys, pc' = pc,
         promiseSatisfy' = promiseSatisfy
  PROVE  \A k, v : Supplied(k, v) => Supplied(k, v)'
BY DEF Supplied, Kept

\* A PUT does not take away what a waiting GET asked for.
LEMMA SuppliedPopPut ==
  ASSUME PlaceInv, RePut = FALSE, Kept, NEW k \in RealKeys, NEW version \in Versions,
         PopPut(k, version)
  PROVE  \A j \in Waiting : \A v : Supplied(j, v) => Supplied(j, v)'
<1>1. /\ pc = "collect" /\ pc' = "collect" /\ RunInv /\ IndexInv
      /\ UNCHANGED <<storage_keys, responses, promiseSatisfy>>
  BY DEF PopPut, Collecting, PlaceInv, RunInv
<1>2. CASE StampsOf(realBst, k[1]) = {}
  <2>1. LiveKeys' = LiveKeys
    BY <1>2, Still
  <2> QED
    BY <1>1, <2>1 DEF Supplied, Kept
<1>3. CASE StampsOf(realBst, k[1]) # {}
  <2>0. PICK old : old = getOldestKey(realBst, k)
    OBVIOUS
  <2>1. LiveKeys' = (IF Held(old) THEN LiveKeys \ {old} ELSE LiveKeys) \cup {k}
    BY <1>1, <1>3, <2>0, PopPutEffect
  <2>2. \A j \in Waiting : ~Held(j)
    BY <1>1, WaitingFacts
  <2>3. \A j \in Waiting : j \in LiveKeys => j \in LiveKeys'
    BY <2>1, <2>2
  <2> QED
    BY <1>1, <2>3 DEF Supplied, Kept
<1> QED
  BY <1>2, <1>3

\* Nor does reading the batch from the server,
LEMMA SuppliedGetBatch ==
  ASSUME PlaceInv, PlaceInv', Kept, GetBatch
  PROVE  \A j \in Waiting : \A v : Supplied(j, v) => Supplied(j, v)'
<1>1. /\ pc = "read" /\ pc' = "apply" /\ RunInv /\ UNCHANGED <<runningKeys, promiseSatisfy>>
  BY GetBatchPlace DEF GetBatch, PlaceInv
<1>2. LiveKeys' = LiveKeys
  BY Still
<1>3. DOMAIN promiseSatisfy' = {}
  BY <1>1 DEF RunInv, IndexInv, BatchAccounts, DoomedRunning
<1>4. Present(runningKeys') \subseteq Due'
  BY <1>1, <1>3, PresentNext DEF PlaceInv, RunInv, Rest, Whereabouts
<1>5. Due' \subseteq PendingKeys'
  BY <1>1 DEF Due, PendingKeys, Pending
<1>6. \A j \in Waiting : j \in PendingKeys'
  BY <1>1, <1>4, <1>5, WaitingFacts DEF Present
<1> QED
  BY <1>1, <1>2, <1>6 DEF Supplied, Kept

\* applying a real object,
LEMMA SuppliedApplyReal ==
  ASSUME PlaceInv, Sealed, Kept, NEW x, NEW k, EntryMoved(x, k)
  PROVE  \A j \in Waiting : \A v : Supplied(j, v) => Supplied(j, v)'
<1>1. /\ pc = "apply" /\ pc' = "apply" /\ responses # <<>> /\ k \in LiveKeys
      /\ LiveKeys' = IF k \in keys_to_be_deleted THEN LiveKeys \ {k} ELSE LiveKeys
      /\ k \in PendingKeys /\ PendingKeys' = PendingKeys \ {k}
      /\ Cursor \in Pending /\ storage_keys[Cursor][1] = k
      /\ promiseSatisfy' = Assign(promiseSatisfy, k, decryptNonDeterministic(Head(responses)))
  BY DEF EntryMoved, EntryReplaced
<1>2. decryptNonDeterministic(Head(responses)) = Content(k)
  BY <1>1, HeadContent
<1>3. promiseSatisfy' = Assign(promiseSatisfy, k, Content(k))
  BY <1>1, <1>2
<1>4. /\ DOMAIN promiseSatisfy' = DOMAIN promiseSatisfy \cup {k} /\ promiseSatisfy'[k] = Content(k)
      /\ \A j \in DOMAIN promiseSatisfy : j # k => promiseSatisfy'[j] = promiseSatisfy[j]
  BY <1>3 DEF Assign
<1> SUFFICES ASSUME NEW j \in Waiting, NEW v, Supplied(j, v)
             PROVE  Supplied(j, v)'
  OBVIOUS
<1>5. CASE j = k
  <2>1. Content(k) = v
    BY <1>1, <1>5 DEF Supplied
  <2> QED
    BY <1>1, <1>4, <1>5, <2>1 DEF Supplied
<1>6. CASE j # k /\ j \in PendingKeys
  <2>1. j \in LiveKeys /\ Content(j) = v
    BY <1>6 DEF Supplied
  <2>2. j \in LiveKeys' /\ Content(j)' = v
    BY <1>1, <1>6, <2>1 DEF Kept
  <2> QED
    BY <1>1, <1>6, <2>2 DEF Supplied
<1>7. CASE j # k /\ j \notin PendingKeys
  <2>1. j \in DOMAIN promiseSatisfy /\ promiseSatisfy[j] = v
    BY <1>1, <1>7 DEF Supplied
  <2> QED
    BY <1>1, <1>4, <1>7, <2>1 DEF Supplied
<1> QED
  BY <1>5, <1>6, <1>7

\* applying a fake one,
LEMMA SuppliedApplyFake ==
  ASSUME PlaceInv, Kept, ApplyFake
  PROVE  \A j \in Waiting : \A v : Supplied(j, v) => Supplied(j, v)'
<1>0. PICK k : k = storage_keys[Cursor][1]
  OBVIOUS
<1>1. /\ pc = "apply" /\ pc' = "apply" /\ responses # <<>> /\ responses' = Tail(responses)
      /\ Cursor > NumReal /\ storage_keys' = storage_keys
      /\ promiseSatisfy' = Assign(promiseSatisfy, k, decryptNonDeterministic(Head(responses)))
  BY <1>0 DEF ApplyFake
<1>2. k \in FakeKeys
  <2>1. k \in IF Cursor <= NumReal THEN RealKeys ELSE FakeKeys
    BY <1>0, <1>1, CursorType DEF PlaceInv, RunInv, IndexInv
  <2>2. NumReal \in Nat /\ Cursor \in Int
    BY <1>1, NumRealType DEF PlaceInv, RunInv, IndexInv, TypeInv, TypeOK, Cursor
  <2> QED
    BY <1>1, <2>1, <2>2
<1>3. PendingKeys' = PendingKeys \ {k}
  BY <1>0, <1>1, PendingNext DEF PlaceInv
<1>4. LiveKeys' = LiveKeys
  BY Still
<1>5. \A j \in DOMAIN promiseSatisfy : j # k =>
        j \in DOMAIN promiseSatisfy' /\ promiseSatisfy'[j] = promiseSatisfy[j]
  BY <1>1 DEF Assign
<1>6. \A j \in Waiting : j # k
  BY <1>2, WaitingFacts, ObjectFacts DEF PlaceInv
<1> QED
  BY <1>1, <1>3, <1>4, <1>5, <1>6 DEF Supplied, Kept

\* or writing the batch back.
LEMMA SuppliedPutBatch ==
  ASSUME PlaceInv, PutBatch
  PROVE  \A j \in Waiting : \A v : Supplied(j, v) => Supplied(j, v)'
<1>1. /\ pc = "apply" /\ pc' = "clear" /\ responses = <<>>
      /\ UNCHANGED <<storage_keys, promiseSatisfy>>
  BY DEF PutBatch, batchVars
<1>2. PendingKeys = {} /\ PendingKeys' = {}
  <2>1. Len(storage_keys) \in Nat /\ DOMAIN storage_keys = 1 .. Len(storage_keys)
    BY IndexFacts DEF PlaceInv, RunInv
  <2>2. Cursor = Len(storage_keys) + 1
    BY <1>1, <2>1 DEF Cursor
  <2>3. Pending = {} /\ Pending' = {}
    BY <1>1, <2>1, <2>2 DEF Pending
  <2> QED
    BY <2>3 DEF PendingKeys
<1> QED
  BY <1>1, <1>2 DEF Supplied

\* The steps that neither register nor answer a GET.
LEMMA StoreQuiet ==
  ASSUME StoreInv, KnownInv', Kept, RePut = FALSE, CacheSize > 0,
         \/ UNCHANGED vars \/ ClearThread
         \/ ReadOperation \/ ReadFakeReal \/ ReadFake \/ GetBatch
         \/ ApplyReal \/ ApplyFake \/ PutBatch
         \/ \E k \in RealKeys, version \in Versions : PopPut(k, version)
  PROVE  Asked' /\ Owed' /\ UNCHANGED <<asked, answers>>
<1>0. KnownInv /\ PlaceInv /\ PlaceInv' /\ Sealed /\ Asked /\ Owed
  BY DEF StoreInv, KnownInv
<1>1. UNCHANGED <<asked, answers, request_id, split>>
  BY DEF vars, getVars, ClearThread, ReadOperation, ReadFakeReal, ReadFake, GetBatch, ApplyReal,
         ApplyFake, PutBatch, PopPut
<1>2. /\ runningKeys'.request_map = runningKeys.request_map
      /\ runningKeys'.get_cache = runningKeys.get_cache
  <2>1. CASE ~ \E k \in RealKeys, version \in Versions : PopPut(k, version)
    BY <2>1 DEF vars, ClearThread, ReadOperation, ReadFakeReal, ReadFake, GetBatch, ApplyReal,
                ApplyFake, PutBatch, insertIfNotPresent, insertAllIfNotPresent
  <2>2. CASE \E k \in RealKeys, version \in Versions : PopPut(k, version)
    BY <2>2 DEF PopPut, DropHeld, DropLater, insertIfNotPresent
  <2> QED
    BY <2>1, <2>2
<1>3. pc' = "split" <=> pc = "split"
  BY DEF vars, ClearThread, ReadOperation, ReadFakeReal, ReadFake, GetBatch, ApplyReal,
         ApplyFake, PutBatch, PopPut, Collecting
<1>4. CASE UNCHANGED vars \/ ClearThread
  <2>1. UNCHANGED <<pc, storage_keys, responses, promiseSatisfy>>
    BY <1>4 DEF vars, batchVars, ClearThread
  <2>2. LiveKeys' = LiveKeys
    BY <1>0, <1>4, Still DEF vars
  <2>3. PendingKeys' = PendingKeys
    BY <2>1 DEF PendingKeys, Pending, Cursor
  <2>4. Owed'
    BY <1>0, <1>1, <1>2, <2>1, <2>2, <2>3, SuppliedStill, OwedSame
  <2> QED
    BY <1>0, <1>1, <1>2, <1>3, <2>2, <2>4, AskedSame
<1>5. CASE ~(UNCHANGED vars \/ ClearThread)
  <2>1. pc # "split"
    BY <1>5 DEF ReadOperation, ReadFakeReal, ReadFake, GetBatch, ApplyReal, ApplyFake, PutBatch,
                PopPut, Collecting
  <2>2. Asked'
    BY <1>0, <1>1, <1>2, <1>3, <2>1, AskedSame
  <2>3. \A k \in Waiting : \A v : Supplied(k, v) => Supplied(k, v)'
    <3>1. CASE ReadOperation \/ ReadFakeReal \/ ReadFake
      <4>1. pc = "read" /\ pc' = "read"
        BY <3>1 DEF ReadOperation, ReadFakeReal, ReadFake
      <4>2. LiveKeys' = LiveKeys
        <5>1. \/ \E k \in Objects : IdRead(k)
              \/ UNCHANGED <<bstVars, storeVars, timeStamp, pc, batchVars, server, keysNotUsed, seen>>
          BY <1>0, <3>1, ReadOperationEffect, ReadFakeRealEffect, ReadFakeEffect DEF PlaceInv
        <5>2. CASE \E k \in Objects : IdRead(k)
          BY <5>2 DEF IdRead
        <5> QED
          BY <1>0, <5>1, <5>2, Still
      <4> QED
        BY <4>1, <4>2 DEF Supplied, Kept
    <3>2. CASE GetBatch
      BY <1>0, <3>2, SuppliedGetBatch
    <3>3. CASE ApplyReal
      BY <1>0, <3>3, ApplyRealMoves, SuppliedApplyReal
    <3>4. CASE ApplyFake
      BY <1>0, <3>4, SuppliedApplyFake
    <3>5. CASE PutBatch
      BY <1>0, <3>5, SuppliedPutBatch
    <3>6. ASSUME NEW k \in RealKeys, NEW version \in Versions, PopPut(k, version)
          PROVE  \A j \in Waiting : \A v : Supplied(j, v) => Supplied(j, v)'
      BY <1>0, <3>6, SuppliedPopPut
    <3> QED
      BY <1>5, <3>1, <3>2, <3>3, <3>4, <3>5, <3>6
  <2> QED
    BY <1>0, <1>1, <1>2, <2>2, <2>3, OwedSame
<1> QED
  BY <1>1, <1>4, <1>5

\* A GET is popped: it is owed what its buckets hold now.
LEMMA StorePopGet ==
  ASSUME StoreInv, KnownInv', Kept, NEW item \in Items, NEW r \in Ranges, PopGet(item, r[1], r[2])
  PROVE  /\ Asked' /\ Owed' /\ request_id \notin DOMAIN asked
         /\ split' = get_split_keys(realBst, item, r[1], r[2])
         /\ UNCHANGED answers
         /\ asked' = IF split' = {} THEN asked
                     ELSE Assign(asked, request_id, [k \in split' |-> Content(k)])
<1>0. KnownInv /\ PlaceInv /\ RunInv /\ IndexInv /\ Asked /\ Owed
  BY DEF StoreInv, KnownInv, PlaceInv, RunInv
<1>1. /\ pc = "collect" /\ split' = get_split_keys(realBst, item, r[1], r[2])
      /\ UNCHANGED <<runningKeys, storage_keys, responses, promiseSatisfy, answers>>
      /\ IF split' = {}
           THEN request_id' = request_id + 1 /\ UNCHANGED <<pc, asked>>
           ELSE /\ pc' = "split" /\ UNCHANGED request_id
                /\ asked' = Assign(asked, request_id, [k \in split' |-> Content(k)])
  BY DEF PopGet, Collecting, batchVars
<1>2. LiveKeys' = LiveKeys
  BY <1>0, Still
<1>3. split' \subseteq LiveKeys
  BY <1>0, <1>1, SplitCovers
<1>4. request_id \in Nat /\ DOMAIN asked \subseteq Nat
  BY <1>0 DEF IndexInv, TypeInv, TypeOK
<1>5. request_id \notin DOMAIN asked
  BY <1>0, <1>1, <1>4 DEF Asked
<1>6. DOMAIN runningKeys.request_map \subseteq DOMAIN asked /\ DOMAIN answers \subseteq DOMAIN asked
  BY <1>0 DEF Asked
<1>7. \A q : Unsplit(q) = {}
  BY <1>1 DEF Unsplit
<1>8. /\ DOMAIN asked' = DOMAIN asked \cup (IF split' = {} THEN {} ELSE {request_id})
      /\ \A q \in DOMAIN asked : asked'[q] = asked[q]
  BY <1>1, <1>5 DEF Assign
<1>9. Asked'
  <2>1. CASE split' = {}
    <3>1. \A q : Unsplit(q)' = {}
      BY <1>1, <2>1 DEF Unsplit
    <3>2. \A q \in DOMAIN asked' : q < request_id'
      BY <1>0, <1>1, <1>4, <2>1 DEF Asked
    <3> QED
      BY <1>0, <1>1, <1>7, <2>1, <3>1, <3>2 DEF Asked
  <2>2. CASE split' # {}
    <3> DEFINE g == [k \in split' |-> Content(k)]
    <3>1. /\ pc' = "split" /\ request_id' = request_id /\ asked'[request_id] = g
      BY <1>1, <2>2 DEF Assign
    <3>2. DOMAIN g = split' /\ \A k \in split' : g[k] = Content(k)
      OBVIOUS
    <3>3. g = [k \in DOMAIN g |-> g[k]]
      OBVIOUS
    <3> HIDE DEF g
    <3>4. \A q \in DOMAIN asked : Unsplit(q)' = {}
      BY <1>5, <3>1 DEF Unsplit
    <3>5. \A k \in split' : g[k] = Content(k)'
      BY <1>2, <1>3, <3>2 DEF Kept
    <3>6. \A q \in DOMAIN asked' : q < request_id' \/ q = request_id'
      BY <1>0, <1>1, <1>8, <2>2, <3>1 DEF Asked
    <3>7. DOMAIN runningKeys'.request_map \subseteq DOMAIN asked' \ DOMAIN answers'
      BY <1>0, <1>1, <1>8 DEF Asked
    <3>8. \A q \in DOMAIN asked' : asked'[q] = [k \in DOMAIN asked'[q] |-> asked'[q][k]]
      BY <1>0, <1>8, <2>2, <3>1, <3>3 DEF Asked
    <3>9. \A q \in DOMAIN runningKeys'.request_map :
            runningKeys'.request_map[q] = DOMAIN asked'[q] \ Unsplit(q)'
      BY <1>0, <1>1, <1>6, <1>7, <1>8, <3>4 DEF Asked
    <3>10. /\ request_id' \in DOMAIN asked' \ DOMAIN answers'
           /\ split' = DOMAIN asked'[request_id']
           /\ \A k \in split' : asked'[request_id'][k] = Content(k)'
      BY <1>1, <1>5, <1>6, <1>8, <2>2, <3>1, <3>2, <3>5
    <3>11. DOMAIN answers' \subseteq DOMAIN asked'
      BY <1>1, <1>6, <1>8
    <3> QED
      BY <3>1, <3>6, <3>7, <3>8, <3>9, <3>10, <3>11 DEF Asked
  <2> QED
    BY <2>1, <2>2
<1>10. \A k, v : Supplied(k, v) => Supplied(k, v)'
  <2>1. pc' \in {"collect", "split"}
    BY <1>1
  <2> QED
    BY <1>1, <1>2, <2>1 DEF Supplied, Kept
<1>11. Owed'
  <2>1. ASSUME NEW q \in DOMAIN runningKeys.request_map, NEW k \in runningKeys.request_map[q],
               NEW v, v = asked[q][k]
        PROVE  IF k \in DOMAIN runningKeys.get_cache
                 THEN runningKeys.get_cache[k] = v ELSE Supplied(k, v)'
    BY <1>0, <1>10, <2>1 DEF Owed
  <2> QED
    BY <1>1, <1>6, <1>8, <2>1 DEF Owed, Supplied
<1> QED
  BY <1>1, <1>5, <1>9, <1>11

\* The next bucket of a GET joins the table, with its payload if the cache has it.
LEMMA StoreSubGet ==
  ASSUME StoreInv, KnownInv', Kept, SubGet
  PROVE  Asked' /\ Owed' /\ UNCHANGED <<asked, answers>>
<1>0. KnownInv /\ PlaceInv /\ RunInv /\ IndexInv /\ Asked /\ Owed
  BY DEF StoreInv, KnownInv, PlaceInv, RunInv
<1>1. PICK k : k = CHOOSE x \in split : \A j \in split : x[2] <= j[2]
  OBVIOUS
<1>2. /\ pc = "split" /\ split' = split \ {k} /\ k \in split /\ k \in LiveKeys
      /\ pc' = (IF split' = {} THEN "collect" ELSE "split")
      /\ request_id' = (IF split' = {} THEN request_id + 1 ELSE request_id)
      /\ UNCHANGED <<asked, answers>>
      /\ \/ /\ Held(k)
            /\ k \in DOMAIN runningKeys.get_cache => runningKeys.get_cache[k] = HeldValue(k)
            /\ runningKeys' = insert_cache(runningKeys, request_id, k, HeldValue(k))
         \/ ~Held(k) /\ runningKeys' = insertGet(runningKeys, k, request_id)
  BY <1>0, <1>1, SubGetEffect
<1>3. LiveKeys' = LiveKeys /\ \A j \in LiveKeys : Content(j)' = Content(j)
  BY <1>0, Still DEF Kept
<1>4. split \subseteq LiveKeys
  BY <1>0, <1>2 DEF KnownInv, Known, SplitKnown
<1>5. request_id \in Nat /\ DOMAIN asked \subseteq Nat
  BY <1>0 DEF IndexInv, TypeInv, TypeOK
<1>6. /\ DOMAIN runningKeys'.request_map = DOMAIN runningKeys.request_map \cup {request_id}
      /\ \A q \in DOMAIN runningKeys'.request_map : runningKeys'.request_map[q] =
           IF q = request_id THEN At(runningKeys.request_map, request_id, {}) \cup {k}
                             ELSE runningKeys.request_map[q]
  <2>1. runningKeys'.request_map = Pushed(runningKeys.request_map, request_id, k)
    BY <1>2 DEF insert_cache, insertGet
  <2> QED
    BY <2>1 DEF Pushed, Assign
<1>7. /\ request_id \in DOMAIN asked \ DOMAIN answers /\ split \subseteq DOMAIN asked[request_id]
      /\ \A j \in split : asked[request_id][j] = Content(j)
      /\ At(runningKeys.request_map, request_id, {}) = DOMAIN asked[request_id] \ split
  <2>1. \A q \in DOMAIN runningKeys.request_map :
          runningKeys.request_map[q] = DOMAIN asked[q] \ Unsplit(q)
    BY <1>0 DEF Asked
  <2>2. Unsplit(request_id) = split
    BY <1>2 DEF Unsplit
  <2>3. request_id \notin DOMAIN runningKeys.request_map => split = DOMAIN asked[request_id]
    BY <1>0, <1>2 DEF Asked
  <2>4. At(runningKeys.request_map, request_id, {}) = DOMAIN asked[request_id] \ split
    BY <2>1, <2>2, <2>3 DEF At
  <2> QED
    BY <1>0, <1>2, <2>4 DEF Asked
<1>8. Asked'
  <2>1. \A q \in DOMAIN runningKeys'.request_map :
          runningKeys'.request_map[q] = DOMAIN asked'[q] \ Unsplit(q)'
    <3>1. CASE split' = {}
      <4>1. \A q : Unsplit(q)' = {}
        BY <1>2, <3>1 DEF Unsplit
      <4>2. \A q : q # request_id => Unsplit(q) = {}
        BY DEF Unsplit
      <4>3. \A q \in DOMAIN runningKeys.request_map :
              runningKeys.request_map[q] = DOMAIN asked[q] \ Unsplit(q)
        BY <1>0 DEF Asked
      <4> QED
        BY <1>2, <1>6, <1>7, <3>1, <4>1, <4>2, <4>3
    <3>2. CASE split' # {}
      <4>1. \A q : q = request_id => Unsplit(q)' = split'
        BY <1>2, <3>2 DEF Unsplit
      <4>2. \A q : q # request_id => Unsplit(q) = {} /\ Unsplit(q)' = {}
        BY <1>2, <3>2 DEF Unsplit
      <4>3. \A q \in DOMAIN runningKeys.request_map :
              runningKeys.request_map[q] = DOMAIN asked[q] \ Unsplit(q)
        BY <1>0 DEF Asked
      <4> QED
        BY <1>2, <1>6, <1>7, <4>1, <4>2, <4>3
    <3> QED
      BY <3>1, <3>2
  <2>2. \A q \in DOMAIN asked' : q < request_id' \/ (pc' = "split" /\ q = request_id')
    <3>1. \A q \in DOMAIN asked : q < request_id \/ q = request_id
      BY <1>0 DEF Asked
    <3>2. \A q \in DOMAIN asked : q < request_id + 1
      BY <1>5, <3>1
    <3> QED
      BY <1>2, <3>1, <3>2
  <2>3. /\ DOMAIN answers' \subseteq DOMAIN asked'
        /\ DOMAIN runningKeys'.request_map \subseteq DOMAIN asked' \ DOMAIN answers'
        /\ \A q \in DOMAIN asked' : asked'[q] = [j \in DOMAIN asked'[q] |-> asked'[q][j]]
    BY <1>0, <1>2, <1>6, <1>7 DEF Asked
  <2>4. pc' = "split" =>
          /\ request_id' \in DOMAIN asked' \ DOMAIN answers'
          /\ split' \subseteq DOMAIN asked'[request_id']
          /\ request_id' \in DOMAIN runningKeys'.request_map
          /\ \A j \in split' : asked'[request_id'][j] = Content(j)'
    BY <1>2, <1>3, <1>4, <1>6, <1>7
  <2> QED
    BY <2>1, <2>2, <2>3, <2>4 DEF Asked
<1>9. ASSUME NEW q \in DOMAIN runningKeys'.request_map, NEW j \in runningKeys'.request_map[q],
             NEW v, v = asked[q][j]
      PROVE  IF j \in DOMAIN runningKeys'.get_cache
               THEN runningKeys'.get_cache[j] = v ELSE Supplied(j, v)'
  <2>1. pc' \in {"collect", "split"} /\ pc \in {"collect", "split"}
    BY <1>2
  <2>2. runningKeys' = insert_cache(runningKeys, request_id, k, HeldValue(k)) =>
          /\ DOMAIN runningKeys'.get_cache = DOMAIN runningKeys.get_cache \cup {k}
          /\ \A l \in DOMAIN runningKeys'.get_cache : runningKeys'.get_cache[l] =
               IF l = k THEN HeldValue(k) ELSE runningKeys.get_cache[l]
    BY DEF insert_cache, Assign
  <2>3. runningKeys' = insertGet(runningKeys, k, request_id) =>
          runningKeys'.get_cache = runningKeys.get_cache
    BY DEF insertGet
  <2>4. CASE q = request_id /\ j = k
    <3>1. v = Content(k)
      BY <1>2, <1>7, <1>9, <2>4
    <3>2. CASE Held(k)
      <4>1. Content(k) = HeldValue(k)
        BY <3>2 DEF Content
      <4> QED
        BY <1>2, <2>2, <2>4, <3>1, <3>2, <4>1
    <3>3. CASE ~Held(k)
      <4>1. k \notin DOMAIN runningKeys.get_cache
        BY <1>0, <1>2, <3>3 DEF RunInv, Rest, Tables, Held
      <4>2. Supplied(k, v)'
        BY <1>2, <1>3, <2>1, <3>1 DEF Supplied
      <4> QED
        BY <1>2, <2>3, <2>4, <3>3, <4>1, <4>2
    <3> QED
      BY <3>2, <3>3
  <2>5. CASE ~(q = request_id /\ j = k)
    <3>1. q \in DOMAIN runningKeys.request_map /\ j \in runningKeys.request_map[q]
      BY <1>6, <1>9, <2>5 DEF At
    <3>2. IF j \in DOMAIN runningKeys.get_cache
            THEN runningKeys.get_cache[j] = v ELSE Supplied(j, v)
      BY <1>0, <1>9, <3>1 DEF Owed
    <3>3. CASE j \in DOMAIN runningKeys.get_cache
      BY <1>2, <2>2, <2>3, <3>2, <3>3
    <3>4. CASE j \notin DOMAIN runningKeys.get_cache
      <4>1. ~Held(j)
        <5>1. j \in Waiting
          BY <3>1, <3>4 DEF Waiting
        <5> QED
          BY <1>0, <2>1, <5>1, WaitingFacts
      <4>2. j \notin DOMAIN runningKeys'.get_cache
        BY <1>2, <2>2, <2>3, <3>4, <4>1
      <4>3. Supplied(j, v)'
        BY <1>3, <2>1, <3>2, <3>4 DEF Supplied
      <4> QED
        BY <4>2, <4>3
    <3> QED
      BY <3>3, <3>4
  <2> QED
    BY <2>4, <2>5
<1>10. Owed'
  BY <1>2, <1>9 DEF Owed, Supplied
<1> QED
  BY <1>2, <1>8, <1>10

\* What a step answers is what the GET was owed.
Replied ==
  /\ DOMAIN answers \subseteq DOMAIN answers' /\ DOMAIN answers' \subseteq DOMAIN asked
  /\ \A r \in DOMAIN answers' :
       answers'[r] = IF r \in DOMAIN answers THEN answers[r] ELSE asked[r]

\* clearPromises for the requests in `done', all of whose buckets are collected.
LEMMA AnswersOwed ==
  ASSUME Asked, pc # "split", pc' # "split", UNCHANGED <<asked, request_id>>,
         NEW rk, rk.request_map = runningKeys.request_map,
         NEW done, done \subseteq DOMAIN rk.request_map, \A r \in done : isFulfilled(rk, r),
         \A r \in DOMAIN rk.request_map : \A k \in rk.request_map[r] :
           k \in DOMAIN rk.get_cache => rk.get_cache[k] = asked[r][k],
         answers' = Answered(rk, done),
         DOMAIN runningKeys'.request_map = DOMAIN rk.request_map \ done,
         \A r \in DOMAIN runningKeys'.request_map : runningKeys'.request_map[r] = rk.request_map[r]
  PROVE  Asked' /\ Replied
<1>1. (\A r : Unsplit(r) = {}) /\ (\A r : Unsplit(r)' = {})
  BY DEF Unsplit
<1>2. /\ DOMAIN answers' = DOMAIN answers \cup done
      /\ \A r \in DOMAIN answers' : answers'[r] = IF r \in done THEN Answer(rk, r) ELSE answers[r]
  BY DEF Answered
<1>3. /\ DOMAIN rk.request_map \subseteq DOMAIN asked \ DOMAIN answers
      /\ DOMAIN answers \subseteq DOMAIN asked
      /\ \A r \in DOMAIN rk.request_map : rk.request_map[r] = DOMAIN asked[r]
      /\ \A r \in DOMAIN asked : asked[r] = [k \in DOMAIN asked[r] |-> asked[r][k]]
      /\ \A r \in DOMAIN asked : r < request_id
  BY <1>1 DEF Asked
<1>4. ASSUME NEW r \in done
      PROVE  Answer(rk, r) = asked[r]
  <2>1. r \in DOMAIN rk.request_map /\ rk.request_map[r] \subseteq DOMAIN rk.get_cache
    BY DEF isFulfilled, At
  <2>2. \A k \in DOMAIN asked[r] : rk.get_cache[k] = asked[r][k]
    BY <1>3, <2>1
  <2>3. Answer(rk, r) = [k \in DOMAIN asked[r] |-> rk.get_cache[k]]
    BY <1>3, <2>1 DEF Answer
  <2>4. Answer(rk, r) = [k \in DOMAIN asked[r] |-> asked[r][k]]
    BY <2>2, <2>3
  <2> QED
    BY <1>3, <2>1, <2>4
<1>5. Replied
  BY <1>2, <1>3, <1>4 DEF Replied
<1>6. Asked'
  <2>1. /\ \A r \in DOMAIN asked' : r < request_id'
        /\ DOMAIN answers' \subseteq DOMAIN asked'
        /\ DOMAIN runningKeys'.request_map \subseteq DOMAIN asked' \ DOMAIN answers'
        /\ \A r \in DOMAIN asked' : asked'[r] = [k \in DOMAIN asked'[r] |-> asked'[r][k]]
    BY <1>2, <1>3
  <2>2. \A r \in DOMAIN runningKeys'.request_map :
          runningKeys'.request_map[r] = DOMAIN asked'[r] \ Unsplit(r)'
    BY <1>1, <1>3
  <2> QED
    BY <2>1, <2>2 DEF Asked
<1> QED
  BY <1>5, <1>6

\* The requests that are left keep their buckets and what was collected for them.
LEMMA ForgetKeeps ==
  ASSUME NEW rk, NEW done, NEW n, n = Forget(rk, done)
  PROVE  /\ DOMAIN n.request_map = DOMAIN rk.request_map \ done
         /\ \A r \in DOMAIN n.request_map : n.request_map[r] = rk.request_map[r]
         /\ DOMAIN n.request_map # {} => n.get_cache = rk.get_cache
<1>1. n.request_map = EraseAll(rk.request_map, done)
  BY DEF Forget
<1>2. DOMAIN n.request_map # {} => n.get_cache = rk.get_cache
  BY DEF Forget
<1> QED
  BY <1>1, <1>2 DEF EraseAll

\* StartBatch answers the GETs that the cache alone satisfies.
LEMMA StoreStartBatch ==
  ASSUME StoreInv, Kept, StartBatch
  PROVE  Asked' /\ Owed' /\ Replied /\ asked' = asked
<1> DEFINE done == FulfilledAll(runningKeys)
<1>0. PlaceInv /\ Asked /\ Owed
  BY DEF StoreInv, KnownInv
<1>1. /\ pc = "collect" /\ pc' = "read" /\ runningKeys' = Forget(runningKeys, done)
      /\ answers' = Answered(runningKeys, done) /\ UNCHANGED <<asked, request_id>>
  BY DEF StartBatch, tryClearAllPromises, getVars
<1>2. done \subseteq DOMAIN runningKeys.request_map /\ \A r \in done : isFulfilled(runningKeys, r)
  BY DEF FulfilledAll
<1> HIDE DEF done
<1>3. /\ DOMAIN runningKeys'.request_map = DOMAIN runningKeys.request_map \ done
      /\ \A r \in DOMAIN runningKeys'.request_map :
           runningKeys'.request_map[r] = runningKeys.request_map[r]
      /\ DOMAIN runningKeys'.request_map # {} => runningKeys'.get_cache = runningKeys.get_cache
  BY <1>1, ForgetKeeps
<1>4. \A r \in DOMAIN runningKeys.request_map : \A k \in runningKeys.request_map[r] :
        k \in DOMAIN runningKeys.get_cache => runningKeys.get_cache[k] = asked[r][k]
  BY <1>0 DEF Owed
<1>5. Asked' /\ Replied
  BY <1>0, <1>1, <1>2, <1>3, <1>4, AnswersOwed
<1>6. LiveKeys' = LiveKeys
  BY <1>0, Still
<1>7. ASSUME NEW r \in DOMAIN runningKeys'.request_map, NEW k \in runningKeys'.request_map[r],
             NEW v, v = asked[r][k]
      PROVE  IF k \in DOMAIN runningKeys'.get_cache
               THEN runningKeys'.get_cache[k] = v ELSE Supplied(k, v)'
  <2>1. /\ r \in DOMAIN runningKeys.request_map /\ k \in runningKeys.request_map[r]
        /\ runningKeys'.get_cache = runningKeys.get_cache
    BY <1>3, <1>7
  <2>2. IF k \in DOMAIN runningKeys.get_cache
          THEN runningKeys.get_cache[k] = v ELSE Supplied(k, v)
    BY <1>0, <1>7, <2>1 DEF Owed
  <2>3. Supplied(k, v) => Supplied(k, v)'
    BY <1>1, <1>6 DEF Supplied, Kept
  <2> QED
    BY <2>1, <2>2, <2>3
<1>8. Owed'
  BY <1>1, <1>7 DEF Owed, Supplied
<1> QED
  BY <1>1, <1>5, <1>8

\* A payload reaches the GETs that wait for it; those with nothing left to wait for are
\* answered.
LEMMA StoreClearPromises ==
  ASSUME StoreInv, NEW k, ClearPromises(k)
  PROVE  Asked' /\ Owed' /\ Replied /\ asked' = asked
<1> DEFINE v    == promiseSatisfy[k]
           n    == Arrived(runningKeys, k, v)
           done == FulfilledBy(runningKeys, k, v)
<1>0. PlaceInv /\ RunInv /\ Asked /\ Owed
  BY DEF StoreInv, KnownInv, PlaceInv
<1>1. ~staleRequest(runningKeys, k, v)
  BY <1>0, ClearPromisesUp
<1>2. /\ pc = "clear" /\ pc' = "clear" /\ k \in DOMAIN promiseSatisfy
      /\ promiseSatisfy' = Erase(promiseSatisfy, k) /\ UNCHANGED <<asked, request_id>>
  BY DEF ClearPromises, getVars
<1>3. /\ runningKeys' = IF done = {} THEN n ELSE Forget(n, done)
      /\ answers' = Answered(n, done)
  BY <1>1 DEF ClearPromises, tryClearPromises
<1>4. /\ n.request_map = runningKeys.request_map
      /\ n.get_cache = IF k \in DOMAIN runningKeys.get_map
                         THEN Assign(runningKeys.get_cache, k, v) ELSE runningKeys.get_cache
  BY DEF Arrived
<1>5. done \subseteq DOMAIN n.request_map /\ \A r \in done : isFulfilled(n, r)
  BY <1>4 DEF FulfilledBy
<1>6. /\ Linked(runningKeys)
      /\ k \notin DOMAIN runningKeys.get_map \cap DOMAIN runningKeys.get_cache
  BY <1>0, <1>2 DEF RunInv, Rest, Tables
<1>7. v = promiseSatisfy[k]
  OBVIOUS
<1> HIDE DEF v, n, done
<1>8. /\ DOMAIN runningKeys'.request_map = DOMAIN n.request_map \ done
      /\ \A r \in DOMAIN runningKeys'.request_map : runningKeys'.request_map[r] = n.request_map[r]
      /\ DOMAIN runningKeys'.request_map # {} => runningKeys'.get_cache = n.get_cache
  <2>1. CASE done = {}
    BY <1>3, <2>1
  <2>2. CASE done # {}
    <3>1. runningKeys' = Forget(n, done)
      BY <1>3, <2>2
    <3> QED
      BY <3>1, ForgetKeeps
  <2> QED
    BY <2>1, <2>2
<1>9. PendingKeys = {} /\ PendingKeys' = {}
  BY <1>2 DEF PendingKeys, Pending
<1>10. ASSUME NEW r \in DOMAIN n.request_map, NEW j \in n.request_map[r],
              NEW w, w = asked[r][j]
       PROVE  IF j \in DOMAIN n.get_cache THEN n.get_cache[j] = w ELSE Supplied(j, w)'
  <2>1. IF j \in DOMAIN runningKeys.get_cache
          THEN runningKeys.get_cache[j] = w ELSE Supplied(j, w)
    BY <1>0, <1>4, <1>10 DEF Owed
  <2>2. CASE j = k
    <3>1. CASE j \in DOMAIN runningKeys.get_cache
      <4>1. n.get_cache = runningKeys.get_cache
        BY <1>4, <1>6, <2>2, <3>1
      <4> QED
        BY <2>1, <3>1, <4>1
    <3>2. CASE j \notin DOMAIN runningKeys.get_cache
      <4>1. j \in DOMAIN runningKeys.get_map
        BY <1>4, <1>6, <1>10, <3>2 DEF Linked
      <4>2. k \in DOMAIN n.get_cache /\ n.get_cache[k] = v
        BY <1>4, <2>2, <4>1 DEF Assign
      <4>3. promiseSatisfy[k] = w
        BY <1>2, <1>9, <2>1, <2>2, <3>2 DEF Supplied
      <4> QED
        BY <1>7, <2>2, <4>2, <4>3
    <3> QED
      BY <3>1, <3>2
  <2>3. CASE j # k
    <3>1. /\ j \in DOMAIN n.get_cache <=> j \in DOMAIN runningKeys.get_cache
          /\ j \in DOMAIN n.get_cache => n.get_cache[j] = runningKeys.get_cache[j]
      BY <1>4, <2>3 DEF Assign
    <3>2. \A l \in DOMAIN promiseSatisfy : l # k =>
            l \in DOMAIN promiseSatisfy' /\ promiseSatisfy'[l] = promiseSatisfy[l]
      BY <1>2 DEF Erase
    <3>3. Supplied(j, w) => Supplied(j, w)'
      BY <1>2, <1>9, <2>3, <3>2 DEF Supplied
    <3> QED
      BY <2>1, <3>1, <3>3
  <2> QED
    BY <2>2, <2>3
<1>11. \A r \in DOMAIN n.request_map : \A j \in n.request_map[r] :
         j \in DOMAIN n.get_cache => n.get_cache[j] = asked[r][j]
  BY <1>10
<1>12. Asked' /\ Replied
  BY <1>0, <1>2, <1>3, <1>4, <1>5, <1>8, <1>11, AnswersOwed
<1>13. ASSUME NEW r \in DOMAIN runningKeys'.request_map, NEW j \in runningKeys'.request_map[r],
              NEW w, w = asked[r][j]
       PROVE  IF j \in DOMAIN runningKeys'.get_cache
                THEN runningKeys'.get_cache[j] = w ELSE Supplied(j, w)'
  BY <1>8, <1>10, <1>13
<1>14. Owed'
  BY <1>2, <1>13 DEF Owed, Supplied
<1> QED
  BY <1>2, <1>12, <1>14

\* The batch is over: nothing is owed any more.
LEMMA StoreFinishBatch ==
  ASSUME StoreInv, KnownInv', FinishBatch
  PROVE  Asked' /\ Owed'
<1>1. pc' = "collect" /\ i' = 0 /\ DOMAIN answers' = {}
  BY DEF FinishBatch, EmptyMap
<1>2. runningKeys' = EmptyRunning /\ asked' = EmptyMap
  BY <1>1 DEF KnownInv, PlaceInv, RunInv, Rest, Quiet
<1>3. DOMAIN runningKeys'.request_map = {} /\ DOMAIN asked' = {}
  BY <1>2 DEF EmptyRunning, EmptyMap
<1> QED
  BY <1>1, <1>3 DEF Asked, Owed

-----------------------------------------------------------------------------
(* The refinement                                                            *)

\* Nothing is owed at first.
LEMMA InitStore == Init => StoreInv
<1> SUFFICES ASSUME Init PROVE StoreInv
  OBVIOUS
<1>1. KnownInv
  BY InitKnown
<1>2. /\ pc = "collect" /\ DOMAIN EvictedItems = {} /\ DOMAIN asked = {} /\ DOMAIN answers = {}
      /\ DOMAIN runningKeys.request_map = {}
  BY DEF Init, EmptyMap, EmptyRunning
<1>3. Sealed
  BY <1>2 DEF Sealed
<1>4. Asked
  BY <1>2 DEF Asked
<1>5. Owed
  BY <1>2 DEF Owed
<1> QED
  BY <1>1, <1>3, <1>4, <1>5 DEF StoreInv

\* Every step keeps the invariant, and the content of every bucket that stays.
LEMMA NextStore ==
  ASSUME StoreInv, NoNul, RePut = FALSE, CacheSize > 0, [Next]_vars
  PROVE  StoreInv' /\ Kept
<1>0. KnownInv /\ PlaceInv /\ Sealed
  BY DEF StoreInv, KnownInv
<1>1. KnownInv' /\ PlaceInv'
  <2>1. KnownInv'
    BY <1>0, NextKnown
  <2> QED
    BY <2>1 DEF KnownInv
<1>2. Sealed' /\ Kept
  BY <1>0, <1>1, NextSealed, NextKept
<1>3. Asked' /\ Owed'
  <2>1. CASE \/ UNCHANGED vars \/ ClearThread
             \/ ReadOperation \/ ReadFakeReal \/ ReadFake \/ GetBatch
             \/ ApplyReal \/ ApplyFake \/ PutBatch
             \/ \E k \in RealKeys, version \in Versions : PopPut(k, version)
    BY <1>1, <1>2, <2>1, StoreQuiet
  <2>2. CASE \E item \in Items, r \in Ranges : PopGet(item, r[1], r[2])
    BY <1>1, <1>2, <2>2, StorePopGet
  <2>3. CASE SubGet
    BY <1>1, <1>2, <2>3, StoreSubGet
  <2>4. CASE StartBatch
    BY <1>2, <2>4, StoreStartBatch
  <2>5. CASE \E k \in Keys : ClearPromises(k)
    BY <2>5, StoreClearPromises
  <2>6. CASE FinishBatch
    BY <1>1, <2>6, StoreFinishBatch
  <2>7. CASE Poll
    BY <2>1, <2>7 DEF Poll
  <2> QED
    BY <2>1, <2>2, <2>3, <2>4, <2>5, <2>6, <2>7 DEF Next, Pop, ExecuteBatch
<1> QED
  BY <1>1, <1>2, <1>3 DEF StoreInv

\* The store's buckets, as the refinement mapping has them.
Buckets == [k \in LiveKeys |-> Content(k)]

\* A step that keeps the buckets.
LEMMA BucketsKept ==
  ASSUME Kept, LiveKeys' = LiveKeys
  PROVE  Buckets' = Buckets
BY DEF Buckets, Kept

\* A step that keeps the buckets and answers nobody is no step of the store.
LEMMA StoreStutters ==
  ASSUME Kept, LiveKeys' = LiveKeys, UNCHANGED <<keys_to_be_deleted, asked, answers>>
  PROVE  UNCHANGED Store!storeVars
BY BucketsKept DEF Buckets, Store!storeVars

\* A doomed bucket goes with the response that brings it.
LEMMA ApplyRealExpires ==
  ASSUME PlaceInv, Kept, NEW x, NEW k, EntryMoved(x, k), UNCHANGED <<asked, answers>>
  PROVE  [Store!Next]_(Store!storeVars)
<1>1. /\ k \in LiveKeys /\ keys_to_be_deleted' = keys_to_be_deleted \ {k}
      /\ LiveKeys' = IF k \in keys_to_be_deleted THEN LiveKeys \ {k} ELSE LiveKeys
  BY DEF EntryMoved, EntryReplaced
<1>2. CASE k \notin keys_to_be_deleted
  BY <1>1, <1>2, StoreStutters
<1>3. CASE k \in keys_to_be_deleted
  <2>1. k \in RealKeys
    BY <1>1, ObjectFacts DEF PlaceInv
  <2>2. DOMAIN Buckets = LiveKeys /\ \A j \in LiveKeys : Buckets[j] = Content(j)
    BY DEF Buckets
  <2>3. Buckets' = [j \in LiveKeys' |-> Content(j)']
    BY DEF Buckets
  <2>4. Buckets' = [j \in LiveKeys \ {k} |-> Buckets[j]]
    BY <1>1, <1>3, <2>2, <2>3 DEF Kept
  <2>5. Store!Expire(k)
    BY <1>1, <1>3, <2>2, <2>4 DEF Store!Expire, Buckets, Store!Stored
  <2> QED
    BY <2>1, <2>5 DEF Store!Next
<1> QED
  BY <1>2, <1>3

\* A GET is taken: it is owed the buckets that get_split_keys finds.
LEMMA PopGetGets ==
  ASSUME StoreInv, KnownInv', Kept, NEW item \in Items, NEW r \in Ranges,
         PopGet(item, r[1], r[2])
  PROVE  [Store!Next]_(Store!storeVars)
<1>0. PlaceInv /\ IndexInv
  BY DEF StoreInv, KnownInv, PlaceInv, RunInv
<1>1. LiveKeys' = LiveKeys /\ keys_to_be_deleted' = keys_to_be_deleted
  BY <1>0, Still
<1>2. /\ request_id \notin DOMAIN asked /\ UNCHANGED answers
      /\ asked' = IF split' = {} THEN asked
                  ELSE Assign(asked, request_id, [k \in split' |-> Content(k)])
  BY StorePopGet
<1>3. CASE split' = {}
  BY <1>1, <1>2, <1>3, StoreStutters
<1>4. CASE split' # {}
  <2> DEFINE g == [k \in split' |-> Content(k)]
  <2>1. /\ split' \subseteq LiveKeys /\ \A k \in split' : k[1] = item /\ k[2] <= r[2]
        /\ \A k \in LiveKeys : k[1] = item /\ r[1] <= k[2] /\ k[2] <= r[2] => k \in split'
        /\ \A k \in split' : k[2] < r[1] =>
             \A j \in LiveKeys : j[1] = item /\ j[2] < r[1] => j[2] <= k[2]
    BY <1>0, StorePopGet, SplitCovers
  <2>2. Buckets' = Buckets /\ DOMAIN Buckets = LiveKeys
        /\ \A k \in LiveKeys : Buckets[k] = Content(k)
    BY <1>1, BucketsKept DEF Buckets
  <2>3. /\ DOMAIN asked' = DOMAIN asked \cup {request_id} /\ asked'[request_id] = g
        /\ \A q \in DOMAIN asked : asked'[q] = asked[q]
    BY <1>2, <1>4 DEF Assign
  <2>4. DOMAIN g = split' /\ g = [k \in DOMAIN g |-> Buckets[k]]
    BY <2>1, <2>2
  <2> HIDE DEF g
  <2>5. Store!Covers(split', item, r[1], r[2])
    BY <1>4, <2>1, <2>2 DEF Store!Covers, Store!OfItem, Store!Stored, Buckets
  <2>6. Store!Get(request_id, item, r[1], r[2])
    BY <1>1, <1>2, <2>2, <2>3, <2>4, <2>5 DEF Store!Get, Buckets
  <2>7. request_id \in 0 .. MaxRequests
    <3>1. request_id < MaxRequests
      BY DEF PopGet
    <3> QED
      BY <1>0, <3>1, ConstantsAssumption DEF IndexInv, TypeInv, TypeOK
  <2>8. item \in {k[1] : k \in RealKeys}
    BY <1>0, <1>4, <2>1, ObjectFacts DEF PlaceInv
  <2> QED
    BY <2>6, <2>7, <2>8 DEF Store!Next
<1> QED
  BY <1>3, <1>4

\* A PUT replaces the oldest bucket of its item, at once or when it arrives.
LEMMA PopPutPuts ==
  ASSUME PlaceInv, PlaceInv', Kept, RePut = FALSE, NEW k \in RealKeys, NEW version \in Versions,
         PopPut(k, version), UNCHANGED <<asked, answers>>
  PROVE  [Store!Next]_(Store!storeVars)
<1>1. CASE StampsOf(realBst, k[1]) = {}
  BY <1>1, Still, StoreStutters
<1>2. CASE StampsOf(realBst, k[1]) # {}
  <2>0. PICK old : old = getOldestKey(realBst, k)
    OBVIOUS
  <2>1. IndexInv
    BY DEF PlaceInv, RunInv
  <2>2. /\ IF Held(old) THEN DropHeld(old) ELSE DropLater(old)
        /\ k \notin LiveKeys /\ old \in LiveKeys /\ old[1] = k[1] /\ old # k
        /\ LiveKeys' = (IF Held(old) THEN LiveKeys \ {old} ELSE LiveKeys) \cup {k}
    BY <1>2, <2>0, <2>1, PopPutEffect
  <2>3. keys_to_be_deleted' = IF Held(old) THEN keys_to_be_deleted
                                           ELSE keys_to_be_deleted \cup {old}
    BY <2>2 DEF DropHeld, DropLater
  <2>4. \A j \in LiveKeys : j[1] = k[1] => old[2] <= j[2]
    <3>1. \A j \in LiveKeys : j[2] \in StampsOf(realBst, j[1])
      BY <2>1, IndexFacts, LiveMember
    <3>2. StampsOf(realBst, k[1]) \subseteq Nat
      BY <2>1, IndexFacts, SmootherParts, ConstantsAssumption DEF RealOK
    <3>3. \A u \in StampsOf(realBst, k[1]) : old[2] <= u
      BY <1>2, <2>0, <3>2, OldestKey
    <3> QED
      BY <3>1, <3>3
  <2>5. /\ DOMAIN Buckets = LiveKeys /\ DOMAIN Buckets' = LiveKeys'
        /\ \A j \in LiveKeys : Buckets[j] = Content(j)
        /\ \A j \in LiveKeys' : Buckets'[j] = Content(j)'
    BY DEF Buckets
  <2>6. k \in LiveKeys' /\ Buckets'[k] \in Payloads
    BY <2>2, <2>5, LocatedNext
  <2>7. \A j \in LiveKeys' \ {k} : j \in LiveKeys /\ Buckets'[j] = Buckets[j]
    BY <2>2, <2>5 DEF Kept
  <2>8. \/ LiveKeys' = (LiveKeys \ {old}) \cup {k} /\ UNCHANGED keys_to_be_deleted
        \/ LiveKeys' = LiveKeys \cup {k} /\ keys_to_be_deleted' = keys_to_be_deleted \cup {old}
    BY <2>2, <2>3
  <2>9. Store!Put(k)
    BY <2>2, <2>4, <2>5, <2>6, <2>7, <2>8 DEF Store!Put, Buckets, Store!Stored, Store!OfItem
  <2> QED
    BY <2>9 DEF Store!Next
<1> QED
  BY <1>1, <1>2

\* Some GETs are answered.
LEMMA StoreReplies ==
  ASSUME Kept, LiveKeys' = LiveKeys, UNCHANGED <<keys_to_be_deleted, asked>>, Replied
  PROVE  [Store!Next]_(Store!storeVars)
<1>1. Store!Reply
  BY BucketsKept DEF Store!Reply, Replied, Buckets
<1> QED
  BY <1>1 DEF Store!Next

\* The end of a batch removes replaced buckets.
LEMMA FinishBatchForgets ==
  ASSUME PlaceInv, Kept, FinishBatch
  PROVE  [Store!Next]_(Store!storeVars)
<1>1. LiveKeys' = LiveKeys /\ keys_to_be_deleted' = keys_to_be_deleted
  BY Still
<1>2. asked' = [r \in DOMAIN asked \ DOMAIN answers |-> asked[r]] /\ DOMAIN answers' = {}
  BY DEF FinishBatch, EraseAll, EmptyMap
<1>3. Store!Forget
  BY <1>1, <1>2, BucketsKept DEF Store!Forget, Buckets
<1> QED
  BY <1>3 DEF Store!Next

\* Every step of the proxy is a step of the store, or no step.
LEMMA StepRefines ==
  ASSUME StoreInv, NoNul, RePut = FALSE, CacheSize > 0, [Next]_vars
  PROVE  [Store!Next]_(Store!storeVars)
<1>0. PlaceInv /\ PlaceInv' /\ KnownInv' /\ Kept
  <2>1. StoreInv' /\ Kept
    BY NextStore
  <2> QED
    BY <2>1 DEF StoreInv, KnownInv
<1>1. CASE \/ UNCHANGED vars \/ ClearThread \/ GetBatch \/ ApplyFake \/ PutBatch
  <2>1. UNCHANGED <<asked, answers>>
    BY <1>0, <1>1, StoreQuiet
  <2>2. LiveKeys' = LiveKeys /\ keys_to_be_deleted' = keys_to_be_deleted
    BY <1>0, <1>1, Still DEF vars
  <2> QED
    BY <1>0, <2>1, <2>2, StoreStutters
<1>2. CASE ReadOperation \/ ReadFakeReal \/ ReadFake
  <2>1. UNCHANGED <<asked, answers>>
    BY <1>0, <1>2, StoreQuiet
  <2>2. \/ \E k \in Objects : IdRead(k)
        \/ UNCHANGED <<bstVars, storeVars, timeStamp, pc, batchVars, server, keysNotUsed, seen>>
    BY <1>0, <1>2, ReadOperationEffect, ReadFakeRealEffect, ReadFakeEffect DEF PlaceInv
  <2>3. CASE \E k \in Objects : IdRead(k)
    <3>1. LiveKeys' = LiveKeys /\ keys_to_be_deleted' = keys_to_be_deleted
      BY <2>3 DEF IdRead
    <3> QED
      BY <1>0, <2>1, <3>1, StoreStutters
  <2>4. CASE UNCHANGED <<bstVars, storeVars, timeStamp, pc, batchVars, server, keysNotUsed, seen>>
    <3>1. LiveKeys' = LiveKeys /\ keys_to_be_deleted' = keys_to_be_deleted
      BY <1>0, <2>4, Still
    <3> QED
      BY <1>0, <2>1, <3>1, StoreStutters
  <2> QED
    BY <2>2, <2>3, <2>4
<1>3. CASE ApplyReal
  <2>1. UNCHANGED <<asked, answers>>
    BY <1>0, <1>3, StoreQuiet
  <2> QED
    BY <1>0, <1>3, <2>1, ApplyRealMoves, ApplyRealExpires
<1>4. ASSUME NEW k \in RealKeys, NEW version \in Versions, PopPut(k, version)
      PROVE  [Store!Next]_(Store!storeVars)
  <2>1. UNCHANGED <<asked, answers>>
    BY <1>0, <1>4, StoreQuiet
  <2> QED
    BY <1>0, <1>4, <2>1, PopPutPuts
<1>5. CASE \E item \in Items, r \in Ranges : PopGet(item, r[1], r[2])
  BY <1>0, <1>5, PopGetGets
<1>6. CASE SubGet
  <2>1. LiveKeys' = LiveKeys /\ keys_to_be_deleted' = keys_to_be_deleted
    BY <1>0, <1>6, Still
  <2> QED
    BY <1>0, <1>6, <2>1, StoreSubGet, StoreStutters
<1>7. CASE StartBatch
  <2>1. LiveKeys' = LiveKeys /\ keys_to_be_deleted' = keys_to_be_deleted
    BY <1>0, <1>7, Still
  <2> QED
    BY <1>0, <1>7, <2>1, StoreStartBatch, StoreReplies
<1>8. CASE \E k \in Keys : ClearPromises(k)
  <2>1. LiveKeys' = LiveKeys /\ keys_to_be_deleted' = keys_to_be_deleted
    BY <1>0, <1>8, Still
  <2> QED
    BY <1>0, <1>8, <2>1, StoreClearPromises, StoreReplies
<1>9. CASE FinishBatch
  BY <1>0, <1>9, FinishBatchForgets
<1>10. CASE Poll
  BY <1>1, <1>10 DEF Poll
<1> QED
  BY <1>1, <1>2, <1>3, <1>4, <1>5, <1>6, <1>7, <1>8, <1>9, <1>10 DEF Next, Pop, ExecuteBatch

\* The store starts with the buckets that init puts.
LEMMA InitRefines == Init => Store!Init
<1> SUFFICES ASSUME Init PROVE Store!Init
  OBVIOUS
<1>1. PlaceInv
  BY InitPlace
<1>2. Located /\ LiveKeys \subseteq RealKeys
  BY <1>1, ContentLocated, ObjectFacts DEF PlaceInv
<1>3. DOMAIN Buckets = LiveKeys /\ Buckets \in [LiveKeys -> Payloads]
  BY <1>2 DEF Buckets, Located
<1>4. keys_to_be_deleted = {} /\ DOMAIN asked = {} /\ DOMAIN answers = {}
  BY DEF Init, EmptyMap
<1> QED
  BY <1>2, <1>3, <1>4 DEF Store!Init, Store!Stored, Buckets

\* The invariant of the refinement.
LEMMA StoreInvariant ==
  ASSUME RePut = FALSE, CacheSize > 0, NoNul
  PROVE  Spec => []StoreInv
<1>1. Init => StoreInv
  BY InitStore
<1>2. StoreInv /\ [Next]_vars => StoreInv'
  BY NextStore
<1> QED
  BY <1>1, <1>2, PTL DEF Spec

\* The proxy implements TimeSeriesStore for every set of items, ranges and payloads, every
\* batch and cache size: each step of consumer_thread, execute_batch and clearThread is a
\* PUT that replaces the item's oldest bucket, a GET that is owed the buckets of its range
\* as they are now, a reply with exactly what was owed, the removal of a replaced bucket, or
\* no step of the store.  It needs PUTs in time order, a cache, and payloads without a NUL
\* byte, of which WaffleProxyNul shows what happens without.
THEOREM ProxyImplementsStore ==
  ASSUME RePut = FALSE, CacheSize > 0, NoNul
  PROVE  Spec => Implements
<1>1. Init => Store!Init /\ StoreInv
  BY InitRefines, InitStore
<1>2. StoreInv /\ [Next]_vars => StoreInv' /\ [Store!Next]_(Store!storeVars)
  BY NextStore, StepRefines
<1> QED
  BY <1>1, <1>2, PTL DEF Spec, Implements, Store!Spec

\* PayloadsKept for every instance: eviction, write-back, re-read and decryption never
\* change what a bucket holds (execute_batch lines 393-538, encryption_engine).
THEOREM PayloadsUnchanged ==
  ASSUME RePut = FALSE, CacheSize > 0, NoNul
  PROVE  Spec => PayloadsKept
<1>1. StoreInv /\ [Next]_vars =>
        [\A k \in LiveKeys \cap LiveKeys' : Content(k)' = Content(k)]_vars
  BY NextStore DEF Kept
<1> QED
  BY <1>1, StoreInvariant, PTL DEF Spec, PayloadsKept
=============================================================================
