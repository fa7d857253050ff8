----------------------------- MODULE IndexProofs -----------------------------
(***************************************************************************)
(* When clients put buckets in time order, FrequencySmoother's three       *)
(* structures stay in agreement, and the table of running keys is empty    *)
(* after each batch.                                                       *)
(***************************************************************************)
EXTENDS WaffleProxyProofs

\* The buckets of a smoother, and the agreement of its parts.
Live(s) == UNION {{item} \X s.stamps[item] : item \in DOMAIN s.stamps}
Agrees(s) ==
  /\ Live(s) = DOMAIN s.accessFreqs \ {NoKey}
  /\ s.accessTree = {<<k, s.accessFreqs[k]>> : k \in Live(s)}

RealOK(s) == SmootherOK(s, RealKeys, Items)

-----------------------------------------------------------------------------
(* The buckets each method leaves                                            *)

\* A bucket is live exactly if its timestamp is filed under its item.
LEMMA LiveMember ==
  ASSUME NEW s, RealOK(s)
  PROVE  \A x : x \in Live(s) <=> x \in RealKeys /\ x[2] \in StampsOf(s, x[1])
<1>1. s.stamps \in [DOMAIN s.stamps -> SUBSET Stamps] /\ DOMAIN s.stamps \subseteq Items
  BY SmootherParts DEF RealOK, IsMap
<1>2. ASSUME NEW x, x \in Live(s)
      PROVE  x \in RealKeys /\ x[2] \in StampsOf(s, x[1])
  <2>1. PICK item \in DOMAIN s.stamps : x \in {item} \X s.stamps[item]
    BY <1>2 DEF Live
  <2>2. x[1] = item /\ x[2] \in s.stamps[item] /\ x = <<x[1], x[2]>>
    BY <2>1
  <2> QED
    BY <2>2, <1>1 DEF StampsOf, At, RealKeys
<1>3. ASSUME NEW x \in RealKeys, x[2] \in StampsOf(s, x[1])
      PROVE  x \in Live(s)
  <2>1. x[1] \in DOMAIN s.stamps /\ x[2] \in s.stamps[x[1]]
    BY <1>3 DEF StampsOf, At
  <2>2. x \in {x[1]} \X s.stamps[x[1]]
    BY <2>1, KeyTypes
  <2> QED
    BY <2>1, <2>2 DEF Live
<1> QED
  BY <1>2, <1>3

\* A map's entries after an assignment and after an erasure.
LEMMA MapEntries ==
  ASSUME NEW m, NEW k, NEW v, NEW d
  PROVE  /\ \A j : At(Assign(m, k, v), j, d) = IF j = k THEN v ELSE At(m, j, d)
         /\ \A j : At(Erase(m, k), j, d) = IF j = k THEN d ELSE At(m, j, d)
BY DEF At, Assign, Erase

\* What insert, removeKey and get_timestamp_for_key do to the timestamps.
LEMMA StampsAfter ==
  ASSUME NEW s, NEW k, NEW it
  PROVE  /\ StampsOf(insert(s, k), it) =
              IF it = k[1] THEN StampsOf(s, it) \cup {k[2]} ELSE StampsOf(s, it)
         /\ StampsOf(removeKey(s, k), it) =
              IF it = k[1] THEN StampsOf(s, it) \ {k[2]} ELSE StampsOf(s, it)
         /\ StampsOf(TouchStamps(s, k), it) = StampsOf(s, it)
<1>1. StampsOf(insert(s, k), it) =
        IF it = k[1] THEN StampsOf(s, it) \cup {k[2]} ELSE StampsOf(s, it)
  BY MapEntries DEF insert, StampsOf
<1>2. StampsOf(TouchStamps(s, k), it) = StampsOf(s, it)
  BY MapEntries DEF TouchStamps, StampsOf
<1>3. StampsOf(removeKey(s, k), it) =
        IF it = k[1] THEN StampsOf(s, it) \ {k[2]} ELSE StampsOf(s, it)
  <2> DEFINE left == StampsOf(s, k[1]) \ {k[2]}
  <2>1. CASE left = {}
    <3>1. removeKey(s, k).stamps = Erase(s.stamps, k[1])
      BY <2>1 DEF removeKey
    <3> QED
      BY <2>1, <3>1, MapEntries DEF StampsOf
  <2>2. CASE left # {}
    <3>1. removeKey(s, k).stamps = Assign(s.stamps, k[1], left)
      BY <2>2 DEF removeKey
    <3> QED
      BY <3>1, MapEntries DEF StampsOf
  <2> QED
    BY <2>1, <2>2
<1> QED
  BY <1>1, <1>2, <1>3

\* insert adds its bucket, removeKey removes its bucket, the others keep them all.
LEMMA LiveAfter ==
  ASSUME NEW s, RealOK(s)
  PROVE  /\ \A k \in RealKeys : Live(insert(s, k)) = Live(s) \cup {k}
         /\ \A k \in RealKeys : Live(removeKey(s, k)) = Live(s) \ {k}
         /\ \A it \in Items : Live(TouchStamps(s, it)) = Live(s)
         /\ \A k, v : Live(setFrequency(s, k, v)) = Live(s)
         /\ \A k : Live(Touch(s, k)) = Live(s)
<1>1. ASSUME NEW k \in RealKeys
      PROVE  Live(insert(s, k)) = Live(s) \cup {k}
  <2>1. RealOK(insert(s, k))
    BY InsertType, KeyTypes DEF RealOK
  <2>2. \A x : x \in Live(insert(s, k)) <=> x \in Live(s) \cup {k}
    BY <2>1, LiveMember, StampsAfter, KeyTypes
  <2> QED
    BY <2>2
<1>2. ASSUME NEW k \in RealKeys
      PROVE  Live(removeKey(s, k)) = Live(s) \ {k}
  <2>1. RealOK(removeKey(s, k))
    BY RemoveKeyType, KeyTypes DEF RealOK
  <2>2. \A x : x \in Live(removeKey(s, k)) <=> x \in Live(s) \ {k}
    BY <2>1, LiveMember, StampsAfter, KeyTypes
  <2> QED
    BY <2>2
<1>3. ASSUME NEW it \in Items
      PROVE  Live(TouchStamps(s, it)) = Live(s)
  <2>1. RealOK(TouchStamps(s, it))
    BY TouchStampsType DEF RealOK
  <2>2. \A x : x \in Live(TouchStamps(s, it)) <=> x \in Live(s)
    BY <2>1, LiveMember, StampsAfter
  <2> QED
    BY <2>2
<1>4. \A k, v : Live(setFrequency(s, k, v)) = Live(s)
  BY DEF setFrequency, Live
<1>5. \A k : Live(Touch(s, k)) = Live(s)
  BY DEF Touch, Live
<1> QED
  BY <1>1, <1>2, <1>3, <1>4, <1>5

-----------------------------------------------------------------------------
(* The agreement each method keeps                                           *)

\* Reading the frequency of a live bucket, or of the empty key, keeps the agreement.
LEMMA TouchAgrees ==
  ASSUME NEW s, RealOK(s), Agrees(s), NEW k \in Live(s) \cup {NoKey}
  PROVE  Agrees(Touch(s, k))
<1>1. Live(Touch(s, k)) = Live(s) /\ NoKey \notin Live(s)
  BY LiveAfter, LiveMember, KeyTypes
<1>2. /\ Touch(s, k).accessTree = s.accessTree
      /\ DOMAIN Touch(s, k).accessFreqs = DOMAIN s.accessFreqs \cup {k}
      /\ \A j \in DOMAIN s.accessFreqs : Touch(s, k).accessFreqs[j] = s.accessFreqs[j]
  BY DEF Touch, Assign, getFrequency, At
<1> QED
  BY <1>1, <1>2 DEF Agrees

\* Looking up an item's timestamps keeps the agreement.
LEMMA TouchStampsAgrees ==
  ASSUME NEW s, RealOK(s), Agrees(s), NEW it \in Items
  PROVE  Agrees(TouchStamps(s, it))
<1>1. Live(TouchStamps(s, it)) = Live(s)
  BY LiveAfter
<1> QED
  BY <1>1 DEF Agrees, TouchStamps

\* Moving a live bucket to another frequency keeps the agreement.
LEMMA SetFrequencyAgrees ==
  ASSUME NEW s, RealOK(s), Agrees(s), NEW k \in Live(s), NEW v
  PROVE  Agrees(setFrequency(s, k, v))
<1> DEFINE t == setFrequency(s, k, v)
<1>1. Live(t) = Live(s)
  BY LiveAfter
<1>2. k \in DOMAIN s.accessFreqs /\ k # NoKey
  BY DEF Agrees
<1>3. /\ t.accessTree = (s.accessTree \ {<<k, s.accessFreqs[k]>>}) \cup {<<k, v>>}
      /\ DOMAIN t.accessFreqs = DOMAIN s.accessFreqs
      /\ \A j \in DOMAIN s.accessFreqs : t.accessFreqs[j] = IF j = k THEN v ELSE s.accessFreqs[j]
  BY <1>2 DEF setFrequency, Assign, getFrequency, At
<1> HIDE DEF t
<1>4. t.accessTree = {<<j, t.accessFreqs[j]>> : j \in Live(s)}
  BY <1>2, <1>3 DEF Agrees
<1> QED
  BY <1>1, <1>3, <1>4 DEF Agrees, t

\* Entering a new bucket at a frequency, in two steps, keeps the agreement.
LEMMA InsertAgrees ==
  ASSUME NEW s, RealOK(s), Agrees(s), NEW k \in RealKeys, k \notin Live(s), NEW v
  PROVE  Agrees(setFrequency(insert(s, k), k, v))
<1> DEFINE t == insert(s, k)
<1>1. Live(t) = Live(s) \cup {k} /\ RealOK(t)
  BY LiveAfter, InsertType, KeyTypes DEF RealOK
<1>2. k \notin DOMAIN s.accessFreqs /\ k # NoKey
  BY KeyTypes DEF Agrees
<1>3. /\ t.accessTree = s.accessTree \cup {<<k, 0>>}
      /\ DOMAIN t.accessFreqs = DOMAIN s.accessFreqs \cup {k}
      /\ t.accessFreqs[k] = 0
      /\ \A j \in DOMAIN s.accessFreqs : t.accessFreqs[j] = s.accessFreqs[j]
  BY <1>2 DEF insert, Assign
<1> HIDE DEF t
<1>4. Agrees(t)
  <2>1. Live(t) = DOMAIN t.accessFreqs \ {NoKey}
    BY <1>1, <1>2, <1>3 DEF Agrees
  <2>2. t.accessTree = {<<j, t.accessFreqs[j]>> : j \in Live(t)}
    BY <1>1, <1>3 DEF Agrees
  <2> QED
    BY <2>1, <2>2 DEF Agrees
<1>5. Agrees(setFrequency(t, k, v))
  BY <1>1, <1>4, SetFrequencyAgrees
<1> QED
  BY <1>5 DEF t

\* Removing a bucket keeps the agreement, whether it was live or not.
LEMMA RemoveKeyAgrees ==
  ASSUME NEW s, RealOK(s), Agrees(s), NEW k \in RealKeys
  PROVE  Agrees(removeKey(s, k))
<1> DEFINE t == removeKey(s, k)
<1>1. Live(t) = Live(s) \ {k} /\ k # NoKey
  BY LiveAfter, KeyTypes
<1>2. /\ t.accessTree = s.accessTree \ {<<k, getFrequency(s, k)>>}
      /\ DOMAIN t.accessFreqs = DOMAIN s.accessFreqs \ {k}
      /\ \A j \in DOMAIN t.accessFreqs : t.accessFreqs[j] = s.accessFreqs[j]
  BY DEF removeKey, Erase
<1>3. k \in Live(s) => getFrequency(s, k) = s.accessFreqs[k]
  BY DEF Agrees, getFrequency, At
<1> HIDE DEF t
<1>4. Live(t) = DOMAIN t.accessFreqs \ {NoKey}
  BY <1>1, <1>2 DEF Agrees
<1>5. t.accessTree = {<<j, s.accessFreqs[j]>> : j \in Live(t)}
  <2>1. s.accessTree = {<<j, s.accessFreqs[j]>> : j \in Live(s)}
    BY DEF Agrees
  <2>2. CASE k \in Live(s)
    BY <2>1, <2>2, <1>1, <1>2, <1>3
  <2>3. CASE k \notin Live(s)
    BY <2>1, <2>3, <1>1, <1>2
  <2> QED
    BY <2>2, <2>3
<1>6. \A j \in Live(t) : t.accessFreqs[j] = s.accessFreqs[j]
  BY <1>2, <1>4
<1>7. t.accessTree = {<<j, t.accessFreqs[j]>> : j \in Live(t)}
  BY <1>5, <1>6
<1> QED
  BY <1>4, <1>7 DEF Agrees, t

-----------------------------------------------------------------------------
(* The inductive invariant                                                   *)

IndexInv == TypeInv /\ IndexAgrees /\ BatchAccounts

\* LiveKeys and IndexAgrees speak of realBst.
LEMMA IndexFacts ==
  ASSUME IndexInv
  PROVE  /\ RealOK(realBst) /\ Agrees(realBst) /\ LiveKeys = Live(realBst)
         /\ LiveKeys \subseteq RealKeys
         /\ LiveKeys = DOMAIN realBst.accessFreqs \ {NoKey}
         /\ cache \in Seq(RealKeys \X Payloads)
         /\ storage_batch \in Seq(RealKeys) /\ storage_keys \in Seq(StorageIds)
         /\ Len(storage_batch) \in Nat /\ Len(storage_keys) \in Nat
         /\ CacheDistinct(cache)
<1>1. RealOK(realBst)
  BY DEF IndexInv, TypeInv, TypeOK, RealOK
<1>2. LiveKeys = Live(realBst)
  BY DEF LiveKeys, Live
<1>3. Agrees(realBst)
  BY <1>2 DEF IndexInv, IndexAgrees, Agrees
<1>4. LiveKeys \subseteq RealKeys
  BY <1>1, <1>2, LiveMember
<1>5. CacheDistinct(cache)
  BY DEF IndexInv, BatchAccounts, CacheIndexed, CacheDistinct
<1> QED
  BY <1>1, <1>2, <1>3, <1>4, <1>5 DEF Agrees, IndexInv, TypeInv, TypeOK

\* After a step: the agreement of the new smoother is IndexAgrees of the new state.
LEMMA IndexNext ==
  ASSUME Agrees(realBst')
  PROVE  IndexAgrees' /\ LiveKeys' = Live(realBst')
BY DEF IndexAgrees, Agrees, LiveKeys, Live

\* A state that agrees with the previous one on the parts has the same buckets.
LEMMA LiveSame ==
  ASSUME IndexInv, realBst' = realBst
  PROVE  LiveKeys' = LiveKeys /\ IndexAgrees'
BY DEF IndexInv, IndexAgrees, LiveKeys

\* init establishes the invariant.
LEMMA InitIndex == Init => IndexInv
<1> SUFFICES ASSUME Init
             PROVE  IndexInv
  OBVIOUS
<1>1. TypeInv
  BY InitType
<1>2. realBst.accessFreqs = [k \in InitKeys |-> 0] /\ realBst.accessTree = InitKeys \X {0}
      /\ realBst.stamps = LoadedStamps
  BY DEF Init, Loaded
<1>3. LiveKeys = InitKeys
  <2>1. RealOK(realBst) /\ LiveKeys = Live(realBst)
    BY <1>1 DEF TypeInv, TypeOK, RealOK, LiveKeys, Live
  <2>2. \A k \in RealKeys : k[2] \in StampsOf(realBst, k[1]) <=> k \in InitKeys
    <3>1. ASSUME NEW k \in RealKeys
          PROVE  k[2] \in StampsOf(realBst, k[1]) <=> k \in InitKeys
      <4>1. \A j \in InitKeys : j = <<j[1], j[2]>>
        BY ConstantsAssumption, KeyTypes
      <4>2. k = <<k[1], k[2]>>
        BY KeyTypes
      <4>3. k[2] \in StampsOf(realBst, k[1]) <=>
              \E j \in InitKeys : j[1] = k[1] /\ j[2] = k[2]
        BY <1>2 DEF StampsOf, At, LoadedStamps
      <4> QED
        BY <4>1, <4>2, <4>3
    <3> QED
      BY <3>1
  <2>3. InitKeys \subseteq RealKeys
    BY ConstantsAssumption
  <2> QED
    BY <2>1, <2>2, <2>3, LiveMember
<1>4. IndexAgrees
  <2>1. NoKey \notin InitKeys
    BY ConstantsAssumption, KeyTypes
  <2> QED
    BY <1>2, <1>3, <2>1 DEF IndexAgrees
<1>5. CacheIndexed
  <2>1. PICK c \in Placements :
          cache = [n \in 1 .. CacheSize |-> <<c[n], <<c[n], InitVersion>>>>]
    BY DEF Init
  <2>2. /\ \A n \in 1 .. CacheSize : cache[n][1] = c[n] /\ c[n] \in InitKeys
        /\ DOMAIN cache = 1 .. CacheSize
        /\ \A m, n \in 1 .. CacheSize : c[m] = c[n] => m = n
    BY <2>1 DEF Placements
  <2> QED
    BY <2>2, <1>3 DEF CacheIndexed, CacheKeys
<1> QED
  BY <1>1, <1>4, <1>5, EmptyMapType
  DEF Init, IndexInv, BatchAccounts, DoomedRunning, EvictedWritten, OperationsDistinct,
      AwaitedKnown

\* PopGet keeps the invariant.
LEMMA PopGetIndex ==
  ASSUME IndexInv, NEW item \in Items, NEW start, NEW end, PopGet(item, start, end)
  PROVE  (IndexAgrees /\ BatchAccounts)'
<1>1. realBst' = TouchStamps(realBst, item) /\ pc = "collect" /\ pc' \in {"collect", "split"}
  BY DEF PopGet, Collecting
<1>2. Agrees(realBst') /\ Live(realBst') = Live(realBst)
  BY <1>1, IndexFacts, TouchStampsAgrees, LiveAfter
<1>3. IndexAgrees' /\ LiveKeys' = LiveKeys
  BY <1>2, IndexNext, IndexFacts
<1>4. UNCHANGED <<cache, EvictedItems, keys_to_be_deleted, runningKeys, storage_batch,
                  storage_keys, responses, writeBatch, promiseSatisfy>>
  BY DEF PopGet, storeVars, batchVars
<1> QED
  BY <1>1, <1>3, <1>4
  DEF IndexInv, BatchAccounts, CacheIndexed, DoomedRunning, EvictedWritten,
      OperationsDistinct, AwaitedKnown

\* Registering one more bucket for the batch keeps the operations distinct.
LEMMA AppendOperation ==
  ASSUME IndexInv, NEW k \in LiveKeys \ CacheKeys(cache), pc \in {"collect", "split"},
         NEW rk, ~isPresent(runningKeys, k), isPresent(rk, k),
         \A j : isPresent(runningKeys, j) => isPresent(rk, j)
  PROVE  LET sb == Append(storage_batch, k)
         IN  /\ \A m, n \in DOMAIN sb : sb[m] = sb[n] => m = n
             /\ \A n \in DOMAIN sb : /\ sb[n] \in LiveKeys \ CacheKeys(cache)
                                     /\ isPresent(rk, sb[n])
<1> DEFINE sb == Append(storage_batch, k)
<1>1. /\ storage_batch \in Seq(RealKeys) /\ Len(storage_batch) \in Nat /\ k \in RealKeys
  BY IndexFacts
<1>2. /\ DOMAIN sb = 1 .. (Len(storage_batch) + 1)
      /\ DOMAIN storage_batch = 1 .. Len(storage_batch)
      /\ sb[Len(storage_batch) + 1] = k
      /\ \A n \in DOMAIN storage_batch : sb[n] = storage_batch[n]
  BY <1>1
<1>3. /\ \A m, n \in DOMAIN storage_batch : storage_batch[m] = storage_batch[n] => m = n
      /\ \A n \in DOMAIN storage_batch :
           /\ storage_batch[n] \in LiveKeys \ CacheKeys(cache)
           /\ isPresent(runningKeys, storage_batch[n])
  BY DEF IndexInv, BatchAccounts, OperationsDistinct
<1> HIDE DEF sb
<1>4. \A n \in DOMAIN sb : n = Len(storage_batch) + 1 \/ n \in DOMAIN storage_batch
  BY <1>1, <1>2
<1>5. \A n \in DOMAIN storage_batch : storage_batch[n] # k
  BY <1>3
<1>6. \A m, n \in DOMAIN sb : sb[m] = sb[n] => m = n
  BY <1>2, <1>3, <1>4, <1>5
<1>7. \A n \in DOMAIN sb : sb[n] \in LiveKeys \ CacheKeys(cache) /\ isPresent(rk, sb[n])
  BY <1>2, <1>3, <1>4
<1> QED
  BY <1>6, <1>7 DEF sb

\* SubGet keeps the invariant.
LEMMA SubGetIndex ==
  ASSUME IndexInv, SubGet
  PROVE  (IndexAgrees /\ BatchAccounts)'
<1> DEFINE k == CHOOSE k \in split : \A j \in split : k[2] <= j[2]
<1>1. /\ pc = "split" /\ pc' \in {"collect", "split"}
      /\ UNCHANGED <<realBst, cache, EvictedItems, keys_to_be_deleted, storage_keys, responses,
                     writeBatch, promiseSatisfy>>
  BY DEF SubGet, bstVars, storeVars
<1>2. IndexAgrees' /\ LiveKeys' = LiveKeys
  BY <1>1, LiveSame
<1>3. runningKeys'.m_map_ = runningKeys.m_map_
  BY DEF SubGet, insert_cache, insertGet
<1>4. OperationsDistinct'
  <2>1. CASE storage_batch' = storage_batch
    <3>1. \A j : isPresent(runningKeys, j) => isPresent(runningKeys', j)
      BY DEF SubGet, insert_cache, insertGet, isPresent, Assign
    <3> QED
      BY <2>1, <3>1, <1>1, <1>2 DEF IndexInv, BatchAccounts, OperationsDistinct
  <2>2. CASE storage_batch' # storage_batch
    <3>1. /\ KeyExists(realBst, k) /\ ~Held(k)
          /\ runningKeys' = insertGet(runningKeys, k, request_id)
          /\ ~isPresent(runningKeys, k) /\ storage_batch' = Append(storage_batch, k)
      BY <2>2 DEF SubGet
    <3>2. k \in LiveKeys \ CacheKeys(cache)
      <4>1. k \in DOMAIN realBst.accessFreqs /\ k \notin CacheKeys(cache)
        BY <3>1 DEF KeyExists, Held
      <4>2. k # NoKey
        <5>1. k \in split => k # NoKey
          BY KeyTypes DEF IndexInv, TypeInv, TypeOK
        <5>2. k \in split
          BY SplitChoice DEF IndexInv, SubGet
        <5> QED
          BY <5>1, <5>2
      <4> QED
        BY <4>1, <4>2, IndexFacts
    <3> HIDE DEF k
    <3>3. isPresent(runningKeys', k) /\ \A j : isPresent(runningKeys, j) => isPresent(runningKeys', j)
      BY <3>1 DEF insertGet, isPresent, Assign
    <3>4. /\ \A m, n \in DOMAIN storage_batch' : storage_batch'[m] = storage_batch'[n] => m = n
          /\ \A n \in DOMAIN storage_batch' :
               /\ storage_batch'[n] \in LiveKeys \ CacheKeys(cache)
               /\ isPresent(runningKeys', storage_batch'[n])
      BY <3>1, <3>2, <3>3, <1>1, AppendOperation
    <3> QED
      BY <3>4, <1>1, <1>2 DEF OperationsDistinct
  <2> QED
    BY <2>1, <2>2
<1> QED
  BY <1>1, <1>2, <1>3, <1>4
  DEF IndexInv, BatchAccounts, CacheIndexed, DoomedRunning, EvictedWritten, AwaitedKnown

\* insertIntoCache, for the proxy's cache.
LEMMA CacheInsert ==
  ASSUME NEW c \in Seq(RealKeys \X Payloads), NEW k \in RealKeys, NEW v \in Payloads
  PROVE  /\ CacheKeys(insertIntoCache(c, k, v)) = CacheKeys(c) \cup {k}
         /\ CacheDistinct(c) => CacheDistinct(insertIntoCache(c, k, v))
         /\ k \notin CacheKeys(c) => Len(insertIntoCache(c, k, v)) = Len(c) + 1
<1>1. insertIntoCache(c, k, v) \in Seq(RealKeys \X Payloads)
  BY InsertIntoCache
<1>2. ASSUME NEW x
      PROVE  x \in CacheKeys(insertIntoCache(c, k, v)) <=> x \in CacheKeys(c) \cup {k}
  BY <1>1, InsertIntoCache, SMT
<1>3. CacheDistinct(c) => CacheDistinct(insertIntoCache(c, k, v))
  BY InsertIntoCache, Zenon
<1>4. k \notin CacheKeys(c) => Len(insertIntoCache(c, k, v)) = Len(c) + 1
  <2>1. ASSUME k \notin CacheKeys(c)
        PROVE  insertIntoCache(c, k, v) = <<<<k, v>>>> \o c
    BY <2>1 DEF insertIntoCache, removeFromCache
  <2>2. Len(<<<<k, v>>>> \o c) = Len(c) + 1
    OBVIOUS
  <2> QED
    BY <2>1, <2>2
<1> QED
  BY <1>2, <1>3, <1>4

\* What a PUT does, when clients put in time order: the new bucket was unknown, the
\* bucket that goes is the item's oldest, and it leaves at once if it was in the cache.
LEMMA PopPutEffect ==
  ASSUME IndexInv, RePut = FALSE, NEW k \in RealKeys, NEW version \in Versions,
         PopPut(k, version), StampsOf(realBst, k[1]) # {}, NEW old,
         old = getOldestKey(realBst, k)
  PROVE  /\ IF Held(old) THEN DropHeld(old) ELSE DropLater(old)
         /\ k \notin LiveKeys /\ old \in LiveKeys /\ old[1] = k[1] /\ old[2] < k[2]
         /\ Held(old) <=> old \in CacheKeys(cache)
         /\ IndexAgrees'
         /\ LiveKeys' = (IF Held(old) THEN LiveKeys \ {old} ELSE LiveKeys) \cup {k}
         /\ CacheDistinct(cache')
         /\ CacheKeys(cache') =
              (IF Held(old) THEN CacheKeys(cache) \ {old} ELSE CacheKeys(cache)) \cup {k}
         /\ Len(cache') = Len(cache) + (IF Held(old) THEN 0 ELSE 1)
         /\ getFrequency(realBst', k) = timeStamp
         /\ \A j \in LiveKeys : j # old => getFrequency(realBst', j) = getFrequency(realBst, j)
         /\ ~Held(old) => getFrequency(realBst', old) = getFrequency(realBst, old)
<1> DEFINE drop  == Held(old)
           left  == IF drop /\ old \notin DOMAIN EvictedItems
                      THEN removeFromCache(cache, old) ELSE cache
           known == IF drop THEN removeKey(realBst, old) ELSE realBst
<1>1. /\ IF drop THEN DropHeld(old) ELSE DropLater(old)
      /\ cache' = insertIntoCache(left, k, <<k, version>>)
      /\ realBst' = setFrequency(insert(known, k), k, timeStamp)
      /\ Puttable(k) /\ pc = "collect"
  BY DEF PopPut, Collecting
<1>2. DOMAIN EvictedItems = {}
  BY <1>1 DEF IndexInv, BatchAccounts, EvictedWritten
<1>3. StampsOf(realBst, k[1]) \subseteq Nat /\ k[2] \in Nat
  BY IndexFacts, SmootherParts, KeyTypes, ConstantsAssumption DEF RealOK
<1>4. k \notin LiveKeys
  <2>1. k[2] \notin StampsOf(realBst, k[1])
    BY <1>1, <1>3 DEF Puttable
  <2> QED
    BY <2>1, IndexFacts, LiveMember
<1>5. old \in LiveKeys /\ old[1] = k[1] /\ old[2] < k[2]
  <2>1. /\ old[1] = k[1] /\ old[2] \in StampsOf(realBst, k[1])
        /\ old = <<old[1], old[2]>>
    BY <1>3, OldestKey
  <2>2. k[1] \in Items /\ StampsOf(realBst, k[1]) \subseteq Stamps
    BY IndexFacts, SmootherParts, KeyTypes DEF RealOK
  <2>3. old \in RealKeys
    BY <2>1, <2>2 DEF RealKeys
  <2>4. old[2] < k[2]
    BY <1>1, <2>1 DEF Puttable
  <2> QED
    BY <2>1, <2>3, <2>4, IndexFacts, LiveMember
<1>6. old \in RealKeys /\ old # k
  BY <1>4, <1>5, IndexFacts
<1>7. /\ RealOK(known) /\ Agrees(known)
      /\ Live(known) = IF drop THEN LiveKeys \ {old} ELSE LiveKeys
  <2>1. RealOK(realBst) /\ Agrees(realBst) /\ Live(realBst) = LiveKeys
    BY IndexFacts DEF LiveKeys
  <2>2. CASE drop
    <3>1. known = removeKey(realBst, old)
      BY <2>2
    <3> HIDE DEF known
    <3>2. RealOK(known)
      BY <2>1, <3>1, <1>6, RemoveKeyType, KeyTypes DEF RealOK
    <3>3. Agrees(known)
      BY <2>1, <3>1, <1>6, RemoveKeyAgrees, KeyTypes
    <3>4. Live(known) = LiveKeys \ {old}
      BY <2>1, <3>1, <1>6, LiveAfter
    <3> QED
      BY <2>2, <3>2, <3>3, <3>4
  <2>3. CASE ~drop
    BY <2>1, <2>3
  <2> QED
    BY <2>2, <2>3
<1>8. \A j : getFrequency(known, j) = IF drop /\ j = old THEN 0 ELSE getFrequency(realBst, j)
  BY MapEntries DEF getFrequency, removeKey
<1> HIDE DEF known
<1>9. Agrees(realBst') /\ Live(realBst') = Live(known) \cup {k}
  <2>1. k \notin Live(known)
    BY <1>4, <1>7
  <2>2. RealOK(insert(known, k))
    BY <1>7, InsertType, KeyTypes DEF RealOK
  <2>3. Live(insert(known, k)) = Live(known) \cup {k}
    BY <1>7, LiveAfter
  <2>4. Live(setFrequency(insert(known, k), k, timeStamp)) = Live(insert(known, k))
    BY <2>2, LiveAfter
  <2> QED
    BY <2>1, <2>3, <2>4, <1>1, <1>7, InsertAgrees
<1>10. IndexAgrees' /\ LiveKeys' = (IF drop THEN LiveKeys \ {old} ELSE LiveKeys) \cup {k}
  BY <1>7, <1>9, IndexNext
<1>11. \A j : getFrequency(realBst', j) = IF j = k THEN timeStamp ELSE getFrequency(known, j)
  BY <1>1, MapEntries DEF getFrequency, setFrequency, insert
<1>12. /\ getFrequency(realBst', k) = timeStamp
       /\ \A j \in LiveKeys : j # old => getFrequency(realBst', j) = getFrequency(realBst, j)
       /\ ~Held(old) => getFrequency(realBst', old) = getFrequency(realBst, old)
  BY <1>4, <1>6, <1>8, <1>11
<1>13. Held(old) <=> old \in CacheKeys(cache)
  BY <1>2 DEF Held
<1>14. /\ left \in Seq(RealKeys \X Payloads) /\ CacheDistinct(left)
       /\ CacheKeys(left) = IF drop THEN CacheKeys(cache) \ {old} ELSE CacheKeys(cache)
       /\ Len(left) = Len(cache) - (IF drop THEN 1 ELSE 0)
  <2>1. cache \in Seq(RealKeys \X Payloads) /\ CacheDistinct(cache) /\ Len(cache) \in Nat
    BY IndexFacts
  <2> DEFINE d == removeFromCache(cache, old)
  <2>2. /\ d \in Seq(RealKeys \X Payloads) /\ CacheKeys(d) \subseteq CacheKeys(cache)
        /\ CacheDistinct(cache) => CacheDistinct(d) /\ old \notin CacheKeys(d)
    BY <2>1, RemoveFromCache
  <2>3. CacheKeys(cache) \subseteq CacheKeys(d) \cup {old}
    <3>1. \A P, Q : \A c \in Seq(P \X Q) : \A j :
            CacheKeys(c) \subseteq CacheKeys(removeFromCache(c, j)) \cup {j}
      BY RemoveFromCache
    <3>2. CacheKeys(cache) \subseteq CacheKeys(removeFromCache(cache, old)) \cup {old}
      BY <2>1, <3>1
    <3> QED
      BY <3>2
  <2>4. ASSUME old \in CacheKeys(cache)
        PROVE  Len(d) = Len(cache) - 1
    <3>1. CachePos(cache, old) \in DOMAIN cache
      BY <2>4 DEF CacheKeys, CachePos
    <3>2. d = EraseAt(cache, CachePos(cache, old))
      BY <2>4 DEF removeFromCache
    <3> QED
      BY <2>1, <3>1, <3>2, EraseAtEntries
  <2>5. left = IF drop THEN d ELSE cache
    BY <1>2
  <2> HIDE DEF left, d
  <2>6. CASE drop
    <3>1. left = d /\ old \in CacheKeys(cache)
      BY <1>13, <2>5, <2>6
    <3> QED
      BY <2>1, <2>2, <2>6, <2>4, <2>3, <3>1
  <2>7. CASE ~drop
    <3>1. left = cache
      BY <2>5, <2>7
    <3> QED
      BY <2>1, <2>7, <3>1
  <2> QED
    BY <2>6, <2>7
<1> HIDE DEF left
<1>15. /\ CacheDistinct(cache') /\ CacheKeys(cache') = CacheKeys(left) \cup {k}
       /\ Len(cache') = Len(left) + 1
  <2> DEFINE v == <<k, version>>
  <2>1. v \in Payloads /\ cache' = insertIntoCache(left, k, v)
    BY <1>1, KeyTypes DEF Payloads
  <2> HIDE DEF v
  <2>2. left \in Seq(RealKeys \X Payloads) /\ CacheDistinct(left)
    BY <1>14
  <2>3. k \notin CacheKeys(left)
    BY <1>4, <1>14 DEF IndexInv, BatchAccounts, CacheIndexed
  <2>4. /\ CacheKeys(insertIntoCache(left, k, v)) = CacheKeys(left) \cup {k}
        /\ CacheDistinct(left) => CacheDistinct(insertIntoCache(left, k, v))
        /\ k \notin CacheKeys(left) => Len(insertIntoCache(left, k, v)) = Len(left) + 1
    BY <2>1, <2>2, CacheInsert
  <2> QED
    BY <2>1, <2>2, <2>3, <2>4
<1>16. Len(cache') = Len(cache) + (IF Held(old) THEN 0 ELSE 1)
  <2>1. Len(cache) \in Nat
    BY IndexFacts
  <2> QED
    BY <1>14, <1>15, <2>1
<1> QED
  BY <1>1, <1>4, <1>5, <1>10, <1>12, <1>13, <1>14, <1>15, <1>16

\* PopPut keeps the invariant: the new bucket was unknown, the bucket that goes was
\* in the cache, and the bucket that is doomed is fetched by this batch.
LEMMA PopPutIndex ==
  ASSUME IndexInv, RePut = FALSE,
         NEW k \in RealKeys, NEW version \in Versions, PopPut(k, version)
  PROVE  (IndexAgrees /\ BatchAccounts)'
<1>1. /\ pc = "collect" /\ pc' = "collect" /\ Puttable(k)
      /\ UNCHANGED <<storage_keys, responses, writeBatch, promiseSatisfy>>
  BY DEF PopPut, Collecting
<1>2. DOMAIN EvictedItems = {} /\ DOMAIN promiseSatisfy = {}
  BY <1>1 DEF IndexInv, BatchAccounts, EvictedWritten, DoomedRunning
<1>3. CASE StampsOf(realBst, k[1]) = {}
  <2>1. UNCHANGED <<realBst, cache, EvictedItems, keys_to_be_deleted, runningKeys, storage_batch>>
    BY <1>3 DEF PopPut, storeVars
  <2>2. IndexAgrees' /\ LiveKeys' = LiveKeys
    BY <2>1, LiveSame
  <2> QED
    BY <1>1, <2>1, <2>2
    DEF IndexInv, BatchAccounts, CacheIndexed, DoomedRunning, EvictedWritten,
        OperationsDistinct, AwaitedKnown
<1>4. CASE StampsOf(realBst, k[1]) # {}
  <2> DEFINE old  == getOldestKey(realBst, k)
             drop == Held(old)
  <2>1. /\ IF drop THEN DropHeld(old) ELSE DropLater(old)
        /\ k \notin LiveKeys /\ old \in LiveKeys
        /\ IndexAgrees' /\ LiveKeys' = (IF drop THEN LiveKeys \ {old} ELSE LiveKeys) \cup {k}
        /\ CacheDistinct(cache')
        /\ CacheKeys(cache') =
             (IF drop THEN CacheKeys(cache) \ {old} ELSE CacheKeys(cache)) \cup {k}
    BY <1>4, PopPutEffect
  <2> HIDE DEF old
  <2>2. CacheKeys(cache) \subseteq LiveKeys
    BY DEF IndexInv, BatchAccounts, CacheIndexed
  <2>3. CacheIndexed'
    <3>1. CacheKeys(cache') \subseteq LiveKeys'
      BY <2>1, <2>2
    <3> QED
      BY <3>1, <2>1 DEF CacheIndexed, CacheDistinct, CacheKeys
  <2>4. /\ keys_to_be_deleted \subseteq runningKeys.m_map_
        /\ keys_to_be_deleted \subseteq LiveKeys \ CacheKeys(cache)
        /\ \A m, n \in DOMAIN storage_batch : storage_batch[m] = storage_batch[n] => m = n
        /\ \A n \in DOMAIN storage_batch :
             /\ storage_batch[n] \in LiveKeys \ CacheKeys(cache)
             /\ isPresent(runningKeys, storage_batch[n])
    BY <1>1 DEF IndexInv, BatchAccounts, DoomedRunning, OperationsDistinct
  <2>5. DOMAIN EvictedItems' = {}
    BY <1>2, <2>1 DEF DropHeld, DropLater, Erase
  <2>6. DoomedRunning' /\ OperationsDistinct'
    <3>1. CASE drop
      <4>1. UNCHANGED <<runningKeys, keys_to_be_deleted, storage_batch>>
        BY <3>1, <2>1 DEF DropHeld
      <4>2. old \in CacheKeys(cache)
        BY <3>1, <1>2 DEF Held
      <4>3. LiveKeys' = (LiveKeys \ {old}) \cup {k}
            /\ CacheKeys(cache') \subseteq CacheKeys(cache) \cup {k}
        BY <3>1, <2>1
      <4>4. \A j \in LiveKeys \ CacheKeys(cache) : j \in LiveKeys' \ CacheKeys(cache')
        BY <4>2, <4>3, <2>1
      <4>5. DoomedRunning'
        BY <4>1, <4>4, <2>4, <1>1, <1>2 DEF DoomedRunning, CacheKeys
      <4>6. OperationsDistinct'
        BY <4>1, <4>4, <2>4, <1>1 DEF OperationsDistinct, CacheKeys
      <4> QED
        BY <4>5, <4>6
    <3>2. CASE ~drop
      <4>1. /\ runningKeys' = insertIfNotPresent(runningKeys, old)
            /\ keys_to_be_deleted' = keys_to_be_deleted \cup {old}
            /\ storage_batch' = IF isPresent(runningKeys, old) THEN storage_batch
                                ELSE Append(storage_batch, old)
        BY <3>2, <2>1 DEF DropLater
      <4>2. old \in LiveKeys \ CacheKeys(cache)
        BY <3>2, <2>1 DEF Held
      <4>3. LiveKeys' = LiveKeys \cup {k}
            /\ CacheKeys(cache') \subseteq CacheKeys(cache) \cup {k}
        BY <3>2, <2>1
      <4>4. \A j \in LiveKeys \ CacheKeys(cache) : j \in LiveKeys' \ CacheKeys(cache')
        BY <4>3, <2>1
      <4>5. /\ runningKeys'.m_map_ = runningKeys.m_map_ \cup {old}
            /\ isPresent(runningKeys', old)
            /\ \A j : isPresent(runningKeys, j) => isPresent(runningKeys', j)
        BY <4>1 DEF insertIfNotPresent, isPresent
      <4>6. DoomedRunning'
        BY <4>1, <4>2, <4>4, <4>5, <2>4, <1>1, <1>2 DEF DoomedRunning, CacheKeys
      <4>7. /\ \A m, n \in DOMAIN storage_batch' : storage_batch'[m] = storage_batch'[n] => m = n
            /\ \A n \in DOMAIN storage_batch' :
                 /\ storage_batch'[n] \in LiveKeys \ CacheKeys(cache)
                 /\ isPresent(runningKeys', storage_batch'[n])
        <5>1. CASE isPresent(runningKeys, old)
          BY <5>1, <4>1, <4>5, <2>4
        <5>2. CASE ~isPresent(runningKeys, old)
          BY <5>2, <4>1, <4>2, <4>5, <1>1, AppendOperation
        <5> QED
          BY <5>1, <5>2
      <4>8. OperationsDistinct'
        BY <4>4, <4>7, <1>1 DEF OperationsDistinct, CacheKeys
      <4> QED
        BY <4>6, <4>8
    <3> QED
      BY <3>1, <3>2
  <2> QED
    BY <1>1, <2>1, <2>3, <2>5, <2>6 DEF BatchAccounts, EvictedWritten, AwaitedKnown
<1> QED
  BY <1>3, <1>4

\* StartBatch keeps the invariant: answering GETs leaves m_map_ alone.
LEMMA StartBatchIndex ==
  ASSUME IndexInv, StartBatch
  PROVE  (IndexAgrees /\ BatchAccounts)'
<1>1. /\ pc = "collect" /\ pc' = "read"
      /\ UNCHANGED <<realBst, cache, EvictedItems, keys_to_be_deleted, storage_batch,
                     storage_keys, responses, writeBatch, promiseSatisfy>>
  BY DEF StartBatch, bstVars, storeVars, batchVars
<1>2. runningKeys'.m_map_ = runningKeys.m_map_
  BY DEF StartBatch, tryClearAllPromises, Forget
<1>3. IndexAgrees' /\ LiveKeys' = LiveKeys
  BY <1>1, LiveSame
<1>4. Awaited' = {}
  BY <1>1 DEF IndexInv, TypeInv, Shape, Awaited
<1> QED
  BY <1>1, <1>2, <1>3, <1>4
  DEF IndexInv, BatchAccounts, CacheIndexed, DoomedRunning, EvictedWritten,
      OperationsDistinct, AwaitedKnown

\* What a read leaves behind: the positions already read, and the one added.
LEMMA ReadPosition ==
  ASSUME IndexInv, NEW id, pc = "read", pc' = "read", storage_keys' = Append(storage_keys, id),
         id \in StorageIds, storage_batch' = storage_batch
  PROVE  /\ \A n \in Awaited' :
              IF n = Len(storage_keys) + 1 THEN storage_keys'[n] = id
                                           ELSE n \in Awaited /\ storage_keys'[n] = storage_keys[n]
         /\ Len(storage_keys) + 1 \in Awaited' => Len(storage_keys) + 1 <= NumReal
<1>1. storage_keys \in Seq(StorageIds) /\ Len(storage_keys) \in Nat
  BY IndexFacts
<1>2. /\ DOMAIN storage_keys' = 1 .. (Len(storage_keys) + 1)
      /\ DOMAIN storage_keys = 1 .. Len(storage_keys)
      /\ storage_keys'[Len(storage_keys) + 1] = id
      /\ \A n \in DOMAIN storage_keys : storage_keys'[n] = storage_keys[n]
  BY <1>1
<1>3. NumReal' = NumReal
  BY DEF NumReal, FakeReals
<1>4. /\ Awaited' = {n \in DOMAIN storage_keys' : n <= NumReal}
      /\ Awaited = {n \in DOMAIN storage_keys : n <= NumReal}
  BY <1>3 DEF Awaited
<1>5. \A n \in DOMAIN storage_keys' : n = Len(storage_keys) + 1 \/ n \in DOMAIN storage_keys
  BY <1>1, <1>2
<1> QED
  BY <1>2, <1>4, <1>5

\* ReadOperation keeps the invariant.
LEMMA ReadOperationIndex ==
  ASSUME IndexInv, ReadOperation
  PROVE  (IndexAgrees /\ BatchAccounts)'
<1> DEFINE k  == storage_batch[Len(storage_keys) + 1]
           id == <<k, getFrequency(realBst, k)>>
<1>1. /\ pc = "read" /\ pc' = "read" /\ Len(storage_keys) < Len(storage_batch)
      /\ storage_keys' = Append(storage_keys, id)
      /\ realBst' = setFrequency(realBst, k, timeStamp)
      /\ UNCHANGED <<cache, EvictedItems, keys_to_be_deleted, runningKeys, storage_batch,
                     responses, writeBatch, promiseSatisfy>>
  BY DEF ReadOperation, storeVars
<1>2. Len(storage_keys) + 1 \in DOMAIN storage_batch /\ Len(storage_keys) + 1 <= Len(storage_batch)
  BY <1>1, IndexFacts
<1>3. k \in LiveKeys
  BY <1>1, <1>2 DEF IndexInv, BatchAccounts, OperationsDistinct
<1>4. IndexAgrees' /\ LiveKeys' = LiveKeys
  <2> HIDE DEF k
  <2>1. Agrees(realBst') /\ Live(realBst') = Live(realBst)
    BY <1>1, <1>3, IndexFacts, SetFrequencyAgrees, LiveAfter
  <2> QED
    BY <2>1, IndexFacts, IndexNext
<1>5. id \in StorageIds /\ id[1] = k
  <2> HIDE DEF k
  <2> QED
    BY <1>3, IndexFacts, SmootherParts, KeyTypes DEF StorageIds, RealOK
<1>6. AwaitedKnown'
  <2> HIDE DEF id
  <2>1. ASSUME NEW n \in Awaited'
        PROVE  /\ storage_keys'[n][1] \in LiveKeys
               /\ n <= Len(storage_batch) => storage_keys'[n][1] = storage_batch[n]
               /\ n > Len(storage_batch) => storage_keys'[n][1] \notin keys_to_be_deleted
    <3>1. CASE n = Len(storage_keys) + 1
      <4>1. storage_keys'[n][1] = storage_batch[n]
        BY <3>1, <1>1, <1>5, ReadPosition
      <4>2. ~(n > Len(storage_batch))
        BY <3>1, <1>2, IndexFacts
      <4> QED
        BY <3>1, <4>1, <4>2, <1>3
    <3>2. CASE n # Len(storage_keys) + 1
      <4>1. n \in Awaited /\ storage_keys'[n] = storage_keys[n]
        BY <3>2, <1>1, <1>5, ReadPosition
      <4> QED
        BY <4>1, <1>1 DEF IndexInv, BatchAccounts, AwaitedKnown
    <3> QED
      BY <3>1, <3>2
  <2> QED
    BY <2>1, <1>1, <1>4 DEF AwaitedKnown
<1> HIDE DEF k, id
<1> QED
  BY <1>1, <1>4, <1>6
  DEF IndexInv, BatchAccounts, CacheIndexed, DoomedRunning, EvictedWritten, OperationsDistinct

\* ReadFakeReal keeps the invariant: a doomed bucket is in m_map_ and not chosen.
LEMMA ReadFakeRealIndex ==
  ASSUME IndexInv, ReadFakeReal
  PROVE  (IndexAgrees /\ BatchAccounts)'
<1> DEFINE free == {e \in OnServer : ~isPresent(runningKeys, e[1])}
           e    == FirstEntry(free)
           k    == e[1]
           past == {f \in OnServer : f = e \/ freqCmp(f, e)}
           id   == <<k, getFrequency(realBst, k)>>
<1>1. /\ pc = "read" /\ pc' = "read" /\ Len(storage_keys) >= Len(storage_batch)
      /\ UNCHANGED <<cache, EvictedItems, keys_to_be_deleted, storage_batch,
                     responses, writeBatch, promiseSatisfy>>
  BY DEF ReadFakeReal, storeVars
<1>2. CASE free = {}
  <2>1. UNCHANGED <<realBst, runningKeys, storage_keys>>
    BY <1>2 DEF ReadFakeReal
  <2>2. IndexAgrees' /\ LiveKeys' = LiveKeys
    BY <2>1, LiveSame
  <2>3. Awaited' = Awaited
    BY <1>1, <2>1 DEF Awaited, NumReal, FakeReals
  <2> QED
    BY <1>1, <2>1, <2>2, <2>3
    DEF IndexInv, BatchAccounts, CacheIndexed, DoomedRunning, EvictedWritten,
        OperationsDistinct, AwaitedKnown
<1>3. CASE free # {}
  <2>1. /\ storage_keys' = Append(storage_keys, id)
        /\ realBst' = setFrequency(realBst, k, timeStamp)
        /\ runningKeys' = insertAllIfNotPresent(runningKeys, {f[1] : f \in past})
    BY <1>3 DEF ReadFakeReal
  <2>2. OnServer \subseteq realBst.accessTree /\ realBst.accessTree \subseteq RealKeys \X Nat
    BY IndexFacts, SmootherParts DEF OnServer, RealOK
  <2>3. e \in free
    <3>1. free \subseteq (Nat \X Nat) \X Nat
      BY <2>2, KeyTypes
    <3> HIDE DEF free
    <3> QED
      BY <3>1, <1>3, FirstEntryIn
  <2>4. e \in realBst.accessTree /\ ~isPresent(runningKeys, k)
    BY <2>2, <2>3
  <2> HIDE DEF free, e, past
  <2>5. k \in LiveKeys
    BY <2>4, IndexFacts DEF Agrees
  <2> HIDE DEF k
  <2>6. IndexAgrees' /\ LiveKeys' = LiveKeys
    <3>1. Agrees(realBst') /\ Live(realBst') = Live(realBst)
      BY <2>1, <2>5, IndexFacts, SetFrequencyAgrees, LiveAfter
    <3> QED
      BY <3>1, IndexFacts, IndexNext
  <2>7. id \in StorageIds /\ id[1] = k
    BY <2>5, IndexFacts, SmootherParts, KeyTypes DEF StorageIds, RealOK
  <2>8. k \notin keys_to_be_deleted
    BY <2>4 DEF IndexInv, BatchAccounts, DoomedRunning, isPresent
  <2>9. runningKeys.m_map_ \subseteq runningKeys'.m_map_
    BY <2>1 DEF insertAllIfNotPresent
  <2> HIDE DEF id
  <2>10. AwaitedKnown'
    <3>1. ASSUME NEW n \in Awaited'
          PROVE  /\ storage_keys'[n][1] \in LiveKeys
                 /\ n <= Len(storage_batch) => storage_keys'[n][1] = storage_batch[n]
                 /\ n > Len(storage_batch) => storage_keys'[n][1] \notin keys_to_be_deleted
      <4>1. CASE n = Len(storage_keys) + 1
        <5>1. storage_keys'[n][1] = k
          BY <4>1, <1>1, <2>1, <2>7, ReadPosition
        <5>2. ~(n <= Len(storage_batch))
          BY <4>1, <1>1, IndexFacts
        <5> QED
          BY <5>1, <5>2, <2>5, <2>8
      <4>2. CASE n # Len(storage_keys) + 1
        <5>1. n \in Awaited /\ storage_keys'[n] = storage_keys[n]
          BY <4>2, <1>1, <2>1, <2>7, ReadPosition
        <5> QED
          BY <5>1, <1>1 DEF IndexInv, BatchAccounts, AwaitedKnown
      <4> QED
        BY <4>1, <4>2
    <3> QED
      BY <3>1, <1>1, <2>6 DEF AwaitedKnown
  <2>11. DoomedRunning'
    BY <1>1, <2>6, <2>9 DEF IndexInv, BatchAccounts, DoomedRunning
  <2> QED
    BY <1>1, <2>6, <2>10, <2>11
    DEF IndexInv, BatchAccounts, CacheIndexed, EvictedWritten, OperationsDistinct
<1> QED
  BY <1>2, <1>3

\* ReadFake keeps the invariant: it reads beyond the real positions.
LEMMA ReadFakeIndex ==
  ASSUME IndexInv, ReadFake
  PROVE  (IndexAgrees /\ BatchAccounts)'
<1> DEFINE k  == getKeyWithMinFrequency(fakeBst)
           id == <<k, getFrequency(fakeBst, k)>>
<1>1. /\ pc = "read" /\ pc' = "read" /\ Len(storage_keys) >= NumReal
      /\ storage_keys' = Append(storage_keys, id)
      /\ runningKeys' = insertIfNotPresent(runningKeys, k)
      /\ UNCHANGED <<realBst, cache, EvictedItems, keys_to_be_deleted, storage_batch,
                     responses, writeBatch, promiseSatisfy>>
  BY DEF ReadFake, storeVars
<1>2. IndexAgrees' /\ LiveKeys' = LiveKeys
  BY <1>1, LiveSame
<1>3. runningKeys.m_map_ \subseteq runningKeys'.m_map_
  BY <1>1 DEF insertIfNotPresent
<1>4. /\ storage_keys \in Seq(StorageIds) /\ Len(storage_keys) \in Nat /\ NumReal \in Nat
  BY IndexFacts, NumRealType DEF IndexInv
<1> HIDE DEF k, id
<1>5. /\ DOMAIN storage_keys' = 1 .. (Len(storage_keys) + 1)
      /\ DOMAIN storage_keys = 1 .. Len(storage_keys)
      /\ \A n \in DOMAIN storage_keys : storage_keys'[n] = storage_keys[n]
  BY <1>1, <1>4
<1>6. NumReal' = NumReal
  BY <1>1 DEF NumReal, FakeReals
<1>7. \A n \in Awaited' : n \in Awaited /\ storage_keys'[n] = storage_keys[n]
  <2>1. /\ Awaited' = {n \in DOMAIN storage_keys' : n <= NumReal}
        /\ Awaited = {n \in DOMAIN storage_keys : n <= NumReal}
    BY <1>1, <1>6 DEF Awaited
  <2>2. \A n \in DOMAIN storage_keys' : n <= NumReal => n \in DOMAIN storage_keys
    BY <1>1, <1>4, <1>5
  <2> QED
    BY <2>1, <2>2, <1>5
<1> QED
  BY <1>1, <1>2, <1>3, <1>7
  DEF IndexInv, BatchAccounts, CacheIndexed, DoomedRunning, EvictedWritten,
      OperationsDistinct, AwaitedKnown

\* GetBatch keeps the invariant: everything read is now awaited.
LEMMA GetBatchIndex ==
  ASSUME IndexInv, GetBatch
  PROVE  (IndexAgrees /\ BatchAccounts)'
<1>1. /\ pc = "read" /\ pc' \in {"read", "apply"}
      /\ UNCHANGED <<realBst, cache, EvictedItems, keys_to_be_deleted, runningKeys, storage_batch,
                     storage_keys, writeBatch, promiseSatisfy>>
  BY DEF GetBatch, bstVars, storeVars
<1>2. IndexAgrees' /\ LiveKeys' = LiveKeys
  BY <1>1, LiveSame
<1>3. Awaited' \subseteq Awaited
  BY <1>1 DEF Awaited, NumReal, FakeReals
<1> QED
  BY <1>1, <1>2, <1>3
  DEF IndexInv, BatchAccounts, CacheIndexed, DoomedRunning, EvictedWritten,
      OperationsDistinct, AwaitedKnown

\* Applying a response moves the cursor by one.
LEMMA CursorNext ==
  ASSUME IndexInv, pc = "apply", pc' = "apply", responses # <<>>, responses' = Tail(responses),
         storage_keys' = storage_keys, storage_batch' = storage_batch
  PROVE  /\ Cursor \in DOMAIN storage_keys
         /\ Cursor <= NumReal => Cursor \in Awaited
         /\ Awaited' \subseteq Awaited \ {Cursor}
<1>1. responses \in Seq(Ciphertexts) /\ Len(responses) \in Nat /\ Len(storage_keys) \in Nat
  BY IndexFacts DEF IndexInv, TypeInv, TypeOK
<1>2. Len(responses') = Len(responses) - 1
  BY <1>1
<1>3. Cursor' = Cursor + 1 /\ Cursor \in Int
  BY <1>1, <1>2 DEF Cursor
<1>4. Cursor \in DOMAIN storage_keys
  BY CursorType DEF IndexInv
<1>5. NumReal' = NumReal
  BY DEF NumReal, FakeReals
<1>6. /\ Awaited' = {n \in DOMAIN storage_keys : n <= NumReal /\ n >= Cursor + 1}
      /\ Awaited = {n \in DOMAIN storage_keys : n <= NumReal /\ n >= Cursor}
  BY <1>3, <1>5 DEF Awaited
<1>7. \A n \in DOMAIN storage_keys : n \in Int
  BY IndexFacts
<1> QED
  BY <1>3, <1>4, <1>6, <1>7

\* ApplyReal keeps the invariant: a doomed bucket arrives once, as an operation's, and
\* no other position of the batch awaits it.
LEMMA ApplyRealIndex ==
  ASSUME IndexInv, ApplyReal
  PROVE  (IndexAgrees /\ BatchAccounts)'
<1> DEFINE lr   == LREntry(cache, <<NoKey, NoValue>>)
           bst  == Touch(realBst, lr[1])
           left == evictLRElement(cache)
           k    == storage_keys[Cursor][1]
           v    == decryptNonDeterministic(Head(responses))
           w    == IF k \in CacheKeys(left) THEN CachedValue(left, k) ELSE v
           id   == <<lr[1], getFrequency(realBst, lr[1])>>
<1>1. /\ pc = "apply" /\ pc' = "apply" /\ responses # <<>> /\ Cursor <= NumReal
      /\ EvictedItems' = Assign(EvictedItems, lr[1], lr[2])
      /\ writeBatch' = Assign(writeBatch, id, encryptNonDeterministic(lr[2]))
      /\ promiseSatisfy' = Assign(promiseSatisfy, k, v)
      /\ keys_to_be_deleted' = keys_to_be_deleted \ {k}
      /\ responses' = Tail(responses)
      /\ IF k \in keys_to_be_deleted
           THEN realBst' = removeKey(bst, k) /\ cache' = left
           ELSE realBst' = bst /\ cache' = insertIntoCache(left, k, w)
      /\ UNCHANGED <<runningKeys, storage_batch, storage_keys>>
  BY DEF ApplyReal
<1>2. /\ Cursor \in Awaited /\ Awaited' \subseteq Awaited \ {Cursor}
  BY <1>1, CursorNext
<1>3. \A n \in Awaited :
        /\ storage_keys[n][1] \in LiveKeys
        /\ n <= Len(storage_batch) => storage_keys[n][1] = storage_batch[n]
        /\ n > Len(storage_batch) => storage_keys[n][1] \notin keys_to_be_deleted
  BY <1>1 DEF IndexInv, BatchAccounts, AwaitedKnown
<1>4. k \in LiveKeys /\ k \in RealKeys
  BY <1>2, <1>3, IndexFacts
<1>5. /\ CacheKeys(cache) \subseteq LiveKeys
      /\ keys_to_be_deleted \subseteq runningKeys.m_map_
      /\ keys_to_be_deleted \subseteq LiveKeys \ CacheKeys(cache)
      /\ keys_to_be_deleted \cap DOMAIN promiseSatisfy = {}
      /\ DOMAIN EvictedItems \subseteq {x[1] : x \in DOMAIN writeBatch}
      /\ \A m, n \in DOMAIN storage_batch : storage_batch[m] = storage_batch[n] => m = n
  BY DEF IndexInv, BatchAccounts, CacheIndexed, DoomedRunning, EvictedWritten, OperationsDistinct
<1>6. /\ left \in Seq(RealKeys \X Payloads) /\ CacheDistinct(left)
      /\ CacheKeys(left) \subseteq CacheKeys(cache)
  <2>1. cache \in Seq(RealKeys \X Payloads) /\ CacheDistinct(cache)
    BY IndexFacts
  <2>2. /\ left \in Seq(RealKeys \X Payloads)
        /\ CacheKeys(left) \subseteq CacheKeys(cache)
        /\ CacheDistinct(cache) => CacheDistinct(left)
    BY <2>1, EvictLR
  <2> QED
    BY <2>1, <2>2
<1>7. lr[1] \in LiveKeys \cup {NoKey}
  <2>1. CASE cache = <<>>
    BY <2>1 DEF LREntry
  <2>2. CASE cache # <<>>
    <3>1. cache \in Seq(RealKeys \X Payloads)
      BY IndexFacts
    <3>2. lr[1] \in CacheKeys(cache)
      BY <2>2, <3>1, EvictLR
    <3> HIDE DEF lr
    <3> QED
      BY <3>2, <1>5
  <2> QED
    BY <2>1, <2>2
<1>8. RealOK(bst) /\ Agrees(bst) /\ Live(bst) = LiveKeys
  <2> HIDE DEF lr
  <2>1. lr[1] \in RealKeys \cup {NoKey} /\ lr[1] \in Live(realBst) \cup {NoKey}
    BY <1>7, IndexFacts
  <2> QED
    BY <2>1, IndexFacts, TouchType, TouchAgrees, LiveAfter DEF RealOK
<1>9. w \in Payloads
  <2>1. v \in Payloads
    BY <1>1, CursorType DEF IndexInv
  <2> HIDE DEF v, left
  <2> QED
    BY <2>1, <1>6, CachedValueType
<1>10. EvictedWritten'
  <2>1. DOMAIN EvictedItems' = DOMAIN EvictedItems \cup {lr[1]}
        /\ DOMAIN writeBatch' = DOMAIN writeBatch \cup {id}
    BY <1>1 DEF Assign
  <2>2. id[1] = lr[1]
    OBVIOUS
  <2> HIDE DEF id, lr
  <2> QED
    BY <2>1, <2>2, <1>1, <1>5 DEF EvictedWritten
<1>11. DOMAIN promiseSatisfy' = DOMAIN promiseSatisfy \cup {k}
  BY <1>1 DEF Assign
<1>12. OperationsDistinct'
  BY <1>1, <1>5 DEF OperationsDistinct
<1> HIDE DEF lr, bst, left, k, v, w, id
<1>13. CASE k \in keys_to_be_deleted
  <2>1. realBst' = removeKey(bst, k) /\ cache' = left
    BY <1>1, <1>13
  <2>2. IndexAgrees' /\ LiveKeys' = LiveKeys \ {k}
    <3>1. Agrees(realBst') /\ Live(realBst') = Live(bst) \ {k}
      BY <2>1, <1>4, <1>8, RemoveKeyAgrees, LiveAfter
    <3> QED
      BY <3>1, <1>8, IndexNext
  <2>3. k \notin CacheKeys(cache') /\ CacheKeys(cache') \subseteq CacheKeys(cache)
    BY <2>1, <1>5, <1>6, <1>13
  <2>4. CacheIndexed'
    <3>1. CacheKeys(cache') \subseteq LiveKeys'
      BY <2>2, <2>3, <1>5
    <3> QED
      BY <3>1, <2>1, <1>6 DEF CacheIndexed, CacheDistinct, CacheKeys
  <2>5. DoomedRunning'
    <3>1. CacheKeys(cache)' = CacheKeys(cache')
      BY DEF CacheKeys
    <3> QED
      BY <3>1, <2>2, <2>3, <1>1, <1>5, <1>11 DEF DoomedRunning
  <2>6. AwaitedKnown'
    <3>1. Cursor <= Len(storage_batch) /\ k = storage_batch[Cursor]
          /\ Cursor \in DOMAIN storage_batch
      <4>1. Cursor \in DOMAIN storage_keys /\ Cursor \in Nat \ {0}
        BY <1>1, CursorNext, IndexFacts
      <4>2. ~(Cursor > Len(storage_batch))
        BY <1>2, <1>3, <1>13 DEF k
      <4> QED
        BY <4>1, <4>2, <1>2, <1>3, IndexFacts DEF k
    <3>2. ASSUME NEW n \in Awaited'
          PROVE  storage_keys[n][1] \in LiveKeys \ {k}
      <4>1. n \in Awaited /\ n # Cursor /\ n \in DOMAIN storage_keys
        BY <1>2 DEF Awaited
      <4>2. n \in Nat \ {0}
        BY <4>1, IndexFacts
      <4>3. CASE n <= Len(storage_batch)
        <5>1. n \in DOMAIN storage_batch /\ storage_keys[n][1] = storage_batch[n]
          BY <4>1, <4>2, <4>3, <1>3, IndexFacts
        <5>2. storage_batch[n] # k
          BY <5>1, <4>1, <3>1, <1>5
        <5> QED
          BY <5>1, <5>2, <4>1, <1>3
      <4>4. CASE n > Len(storage_batch)
        BY <4>1, <4>4, <1>3, <1>13
      <4> QED
        BY <4>2, <4>3, <4>4, IndexFacts
    <3> QED
      BY <3>2, <2>2, <1>1, <1>2, <1>3 DEF AwaitedKnown
  <2> QED
    BY <2>2, <2>4, <2>5, <2>6, <1>10, <1>12 DEF BatchAccounts
<1>14. CASE k \notin keys_to_be_deleted
  <2>1. realBst' = bst /\ cache' = insertIntoCache(left, k, w)
    BY <1>1, <1>14
  <2>2. IndexAgrees' /\ LiveKeys' = LiveKeys
    BY <2>1, <1>8, IndexNext
  <2>3. CacheKeys(cache') = CacheKeys(left) \cup {k} /\ CacheDistinct(cache')
    BY <2>1, <1>4, <1>6, <1>9, CacheInsert
  <2>4. CacheIndexed'
    <3>1. CacheKeys(cache') \subseteq LiveKeys'
      BY <2>2, <2>3, <1>4, <1>5, <1>6
    <3> QED
      BY <3>1, <2>3 DEF CacheIndexed, CacheDistinct, CacheKeys
  <2>5. DoomedRunning'
    <3>1. CacheKeys(cache)' = CacheKeys(cache')
      BY DEF CacheKeys
    <3> QED
      BY <3>1, <2>2, <2>3, <1>1, <1>5, <1>6, <1>11, <1>14 DEF DoomedRunning
  <2>6. AwaitedKnown'
    BY <2>2, <1>1, <1>2, <1>3 DEF AwaitedKnown
  <2> QED
    BY <2>2, <2>4, <2>5, <2>6, <1>10, <1>12 DEF BatchAccounts
<1> QED
  BY <1>13, <1>14

\* ApplyFake keeps the invariant: a fake key is never doomed.
LEMMA ApplyFakeIndex ==
  ASSUME IndexInv, ApplyFake
  PROVE  (IndexAgrees /\ BatchAccounts)'
<1> DEFINE k == storage_keys[Cursor][1]
<1>1. /\ pc = "apply" /\ pc' = "apply" /\ responses # <<>> /\ Cursor > NumReal
      /\ responses' = Tail(responses)
      /\ DOMAIN promiseSatisfy' = DOMAIN promiseSatisfy \cup {k}
      /\ DOMAIN writeBatch \subseteq DOMAIN writeBatch'
      /\ UNCHANGED <<realBst, cache, EvictedItems, keys_to_be_deleted, runningKeys, storage_batch,
                     storage_keys>>
  BY DEF ApplyFake, Assign, bstVars, storeVars
<1>2. IndexAgrees' /\ LiveKeys' = LiveKeys
  BY <1>1, LiveSame
<1>3. Awaited' \subseteq Awaited
  BY <1>1, CursorNext
<1>4. k \notin keys_to_be_deleted
  <2>1. k \in FakeKeys
    <3>1. k \in IF Cursor <= NumReal THEN RealKeys ELSE FakeKeys
      BY <1>1, CursorType DEF IndexInv
    <3>2. ~(Cursor <= NumReal)
      <4>1. Cursor \in Nat /\ NumReal \in Nat
        BY <1>1, CursorNext, IndexFacts, NumRealType DEF IndexInv
      <4> QED
        BY <4>1, <1>1
    <3> QED
      BY <3>1, <3>2
  <2>2. FakeKeys \cap RealKeys = {}
    BY ConstantsAssumption DEF FakeKeys, RealKeys
  <2> QED
    BY <2>1, <2>2 DEF IndexInv, TypeInv, TypeOK
<1> HIDE DEF k
<1>5. DoomedRunning'
  BY <1>1, <1>2, <1>4 DEF IndexInv, BatchAccounts, DoomedRunning
<1>6. EvictedWritten'
  BY <1>1 DEF IndexInv, BatchAccounts, EvictedWritten
<1> QED
  BY <1>1, <1>2, <1>3, <1>5, <1>6
  DEF IndexInv, BatchAccounts, CacheIndexed, OperationsDistinct, AwaitedKnown

\* PutBatch keeps the invariant: every evicted entry was written.
LEMMA PutBatchIndex ==
  ASSUME IndexInv, PutBatch
  PROVE  (IndexAgrees /\ BatchAccounts)'
<1>1. /\ pc = "apply" /\ pc' = "clear"
      /\ EvictedItems' = EraseAll(EvictedItems, {id[1] : id \in DOMAIN writeBatch})
      /\ UNCHANGED <<realBst, cache, keys_to_be_deleted, runningKeys, storage_batch, writeBatch,
                     promiseSatisfy>>
  BY DEF PutBatch, bstVars, batchVars
<1>2. IndexAgrees' /\ LiveKeys' = LiveKeys
  BY <1>1, LiveSame
<1>3. DOMAIN EvictedItems' = {}
  BY <1>1 DEF IndexInv, BatchAccounts, EvictedWritten, EraseAll
<1> QED
  BY <1>1, <1>2, <1>3
  DEF IndexInv, BatchAccounts, CacheIndexed, DoomedRunning, EvictedWritten,
      OperationsDistinct, AwaitedKnown

\* ClearPromises keeps the invariant: a doomed bucket stays marked as running.
LEMMA ClearPromisesIndex ==
  ASSUME IndexInv, NEW k, ClearPromises(k)
  PROVE  (IndexAgrees /\ BatchAccounts)'
<1>1. /\ pc = "clear" /\ pc' = "clear" /\ k \in DOMAIN promiseSatisfy
      /\ DOMAIN promiseSatisfy' = DOMAIN promiseSatisfy \ {k}
      /\ UNCHANGED <<realBst, cache, EvictedItems, keys_to_be_deleted, storage_batch, writeBatch>>
  BY DEF ClearPromises, Erase, bstVars, storeVars
<1>2. IndexAgrees' /\ LiveKeys' = LiveKeys
  BY <1>1, LiveSame
<1>3. runningKeys.m_map_ \ {k} \subseteq runningKeys'.m_map_
  BY DEF ClearPromises, tryClearPromises, Arrived, Forget
<1> QED
  BY <1>1, <1>2, <1>3
  DEF IndexInv, BatchAccounts, CacheIndexed, DoomedRunning, EvictedWritten,
      OperationsDistinct, AwaitedKnown

\* FinishBatch keeps the invariant.
LEMMA FinishBatchIndex ==
  ASSUME IndexInv, FinishBatch
  PROVE  (IndexAgrees /\ BatchAccounts)'
<1>1. /\ pc = "clear" /\ pc' = "collect" /\ promiseSatisfy = EmptyMap
      /\ storage_batch' = <<>>
      /\ UNCHANGED <<realBst, cache, EvictedItems, keys_to_be_deleted, runningKeys, promiseSatisfy>>
  BY DEF FinishBatch, bstVars, storeVars
<1>2. IndexAgrees' /\ LiveKeys' = LiveKeys
  BY <1>1, LiveSame
<1>3. DOMAIN EvictedItems' = {} /\ DOMAIN promiseSatisfy' = {}
  BY <1>1, EmptyMapType DEF IndexInv, BatchAccounts, EvictedWritten
<1> QED
  BY <1>1, <1>2, <1>3
  DEF IndexInv, BatchAccounts, CacheIndexed, DoomedRunning, EvictedWritten,
      OperationsDistinct, AwaitedKnown

\* A step that leaves the consumer's variables alone keeps the invariant.
LEMMA OtherIndex ==
  ASSUME IndexInv,
         UNCHANGED <<realBst, cache, EvictedItems, keys_to_be_deleted, runningKeys, pc,
                     storage_batch, storage_keys, responses, writeBatch, promiseSatisfy>>
  PROVE  (IndexAgrees /\ BatchAccounts)'
<1>1. IndexAgrees' /\ LiveKeys' = LiveKeys
  BY LiveSame
<1>2. Awaited' = Awaited
  BY DEF Awaited, Cursor, NumReal, FakeReals
<1> QED
  BY <1>1, <1>2
  DEF IndexInv, BatchAccounts, CacheIndexed, DoomedRunning, EvictedWritten,
      OperationsDistinct, AwaitedKnown

\* Every step keeps the invariant.
LEMMA NextIndex ==
  ASSUME RePut = FALSE
  PROVE  IndexInv /\ [Next]_vars => IndexInv'
<1> SUFFICES ASSUME IndexInv, [Next]_vars
             PROVE  IndexInv'
  OBVIOUS
<1>1. SUFFICES (IndexAgrees /\ BatchAccounts)'
  BY NextType DEF IndexInv
<1>2. CASE UNCHANGED vars \/ ClearThread
  BY <1>2, OtherIndex DEF ClearThread, vars, bstVars, storeVars, getVars, batchVars
<1>3. CASE Poll
  BY <1>2, <1>3 DEF Poll
<1>4. CASE Pop
  BY <1>4, PopGetIndex, PopPutIndex DEF Pop
<1>5. CASE SubGet
  BY <1>5, SubGetIndex
<1>6. CASE ExecuteBatch
  BY <1>6, StartBatchIndex, ReadOperationIndex, ReadFakeRealIndex, ReadFakeIndex, GetBatchIndex,
     ApplyRealIndex, ApplyFakeIndex, PutBatchIndex, FinishBatchIndex, ClearPromisesIndex
  DEF ExecuteBatch
<1> QED
  BY <1>2, <1>3, <1>4, <1>5, <1>6 DEF Next

\* With PUTs in time order, the invariant holds in every reachable state.
LEMMA IndexInvariant ==
  ASSUME RePut = FALSE
  PROVE  Spec => []IndexInv
<1>1. IndexInv /\ [Next]_vars => IndexInv'
  BY NextIndex
<1> QED
  BY <1>1, InitIndex, PTL DEF Spec

\* With PUTs in time order, for every batch size and every interleaving: the ordered
\* index, the frequency table and the timestamp index of FrequencySmoother name the
\* same buckets with the same frequencies, at every step of a batch.
THEOREM IndexCorrect ==
  ASSUME RePut = FALSE
  PROVE  Spec => []IndexAgrees
<1>1. IndexInv => IndexAgrees
  BY DEF IndexInv
<1> QED
  BY <1>1, IndexInvariant, PTL

\* With PUTs in time order: cached buckets are known and cached once, doomed ones are
\* known and not cached, and no bucket that still has to arrive is unknown or doomed
\* under another position of the batch.
THEOREM BatchCorrect ==
  ASSUME RePut = FALSE
  PROVE  Spec => []BatchAccounts
<1>1. IndexInv => BatchAccounts
  BY DEF IndexInv
<1> QED
  BY <1>1, IndexInvariant, PTL

-----------------------------------------------------------------------------
(***************************************************************************)
(* The table of running keys over a batch: which keys it holds while the   *)
(* batch is collected, read, applied and cleared, which requests wait for  *)
(* which of them, and that nothing of it is left when the batch is over.   *)
(*                                                                         *)
(* A key that is fetched for a GET is in the table only as long as a       *)
(* request waits for it (get_map is emptied with the last request), and a  *)
(* key in the batch that is not in the table would be read a second time.  *)
(* Tables says why a request does wait for it until the key arrives;       *)
(* Whereabouts where the keys of the table are in the batch.               *)
(***************************************************************************)

\* The keys the operations of the batch fetch, the keys of the ids it reads, and the
\* keys of the responses not yet applied.
Fetched  == {storage_batch[n] : n \in DOMAIN storage_batch}
ReadKeys == {storage_keys[n][1] : n \in DOMAIN storage_keys}
Due      == {storage_keys[n][1] : n \in {m \in DOMAIN storage_keys : m >= Cursor}}

\* The keys for which isPresent holds.
Present(rk) == rk.m_map_ \cup DOMAIN rk.get_map

\* A request waits for exactly the keys that are not at hand, and the tables are empty
\* with the last request.
Linked(rk) ==
  /\ \A r \in DOMAIN rk.request_map : \A k \in rk.request_map[r] \ DOMAIN rk.get_cache :
       k \in DOMAIN rk.get_map /\ r \in rk.get_map[k]
  /\ \A k \in DOMAIN rk.get_map \ DOMAIN rk.get_cache :
       /\ rk.get_map[k] # {}
       /\ \A r \in rk.get_map[k] : r \in DOMAIN rk.request_map /\ k \in rk.request_map[r]
  /\ DOMAIN rk.request_map = {} => DOMAIN rk.get_map = {} /\ DOMAIN rk.get_cache = {}

\* No request has all its keys.
Unfulfilled(rk) == \A r \in DOMAIN rk.request_map : ~isFulfilled(rk, r)

Tables ==
  /\ Linked(runningKeys)
  /\ pc \in {"read", "apply", "clear"} => Unfulfilled(runningKeys)
  /\ pc # "clear" => DOMAIN runningKeys.get_map \cap DOMAIN runningKeys.get_cache = {}
  /\ pc = "clear" => DOMAIN runningKeys.get_map \cap DOMAIN runningKeys.get_cache
                       \cap DOMAIN promiseSatisfy = {}
  /\ pc \in {"collect", "split"} =>
       DOMAIN runningKeys.get_cache \cap LiveKeys \subseteq CacheKeys(cache)

Whereabouts ==
  /\ pc \in {"collect", "split"} => Present(runningKeys) = Fetched
  /\ pc = "read" => Present(runningKeys) = Fetched \cup ReadKeys
  /\ pc = "apply" => Present(runningKeys) \subseteq Due \cup DOMAIN promiseSatisfy
  /\ pc = "clear" /\ status = "up" =>
       runningKeys.m_map_ \cup (DOMAIN runningKeys.get_map \ DOMAIN runningKeys.get_cache)
         \subseteq DOMAIN promiseSatisfy

\* No key is read twice by a batch.
KeysDistinct ==
  \A m, n \in DOMAIN storage_keys : storage_keys[m][1] = storage_keys[n][1] => m = n

\* A GET that was split and not answered is in the table, or still being split.
Tracked ==
  \A r \in DOMAIN asked : \/ r \in DOMAIN answers \cup DOMAIN runningKeys.request_map
                          \/ pc = "split" /\ r = request_id

\* Between two batches the tables are empty.
Quiet ==
  pc = "collect" /\ i = 0 =>
    runningKeys = EmptyRunning /\ keys_to_be_deleted = {} /\ asked = EmptyMap

Rest   == Tables /\ Whereabouts /\ KeysDistinct /\ Tracked /\ Quiet
RunInv == IndexInv /\ Rest
-----------------------------------------------------------------------------
(* What the table's methods keep                                             *)

\* A GET starts to wait for a key that is not at hand.
LEMMA InsertGetLinked ==
  ASSUME NEW rk, Linked(rk), NEW k, k \notin DOMAIN rk.get_cache, NEW r
  PROVE  Linked(insertGet(rk, k, r)) /\ Present(insertGet(rk, k, r)) = Present(rk) \cup {k}
<1> DEFINE n == insertGet(rk, k, r)
<1>0. /\ n.get_cache = rk.get_cache /\ n.m_map_ = rk.m_map_
      /\ n.request_map = Pushed(rk.request_map, r, k)
      /\ n.get_map = Assign(rk.get_map, k, At(rk.get_map, k, {}) \cup {r})
  BY DEF insertGet
<1> HIDE DEF n
<1>1. /\ n.get_cache = rk.get_cache /\ n.m_map_ = rk.m_map_
      /\ DOMAIN n.request_map = DOMAIN rk.request_map \cup {r}
      /\ \A q \in DOMAIN n.request_map : n.request_map[q] =
           IF q = r THEN At(rk.request_map, r, {}) \cup {k} ELSE rk.request_map[q]
  BY <1>0 DEF Pushed, Assign
<1>2. /\ DOMAIN n.get_map = DOMAIN rk.get_map \cup {k}
      /\ \A j \in DOMAIN n.get_map : n.get_map[j] =
           IF j = k THEN At(rk.get_map, k, {}) \cup {r} ELSE rk.get_map[j]
  BY <1>0 DEF Assign
<1>3. ASSUME NEW q \in DOMAIN n.request_map, NEW j \in n.request_map[q] \ DOMAIN n.get_cache
      PROVE  j \in DOMAIN n.get_map /\ q \in n.get_map[j]
  <2>1. CASE j = k /\ q = r
    BY <1>2, <2>1
  <2>2. CASE ~(j = k /\ q = r)
    <3>1. q \in DOMAIN rk.request_map /\ j \in rk.request_map[q] \ DOMAIN rk.get_cache
      BY <1>1, <1>3, <2>2 DEF At
    <3>2. j \in DOMAIN rk.get_map /\ q \in rk.get_map[j]
      BY <3>1 DEF Linked
    <3> QED
      BY <1>2, <3>2 DEF At
  <2> QED
    BY <2>1, <2>2
<1>4. ASSUME NEW j \in DOMAIN n.get_map \ DOMAIN n.get_cache
      PROVE  /\ n.get_map[j] # {}
             /\ \A q \in n.get_map[j] : q \in DOMAIN n.request_map /\ j \in n.request_map[q]
  <2>1. CASE j # k
    BY <1>1, <1>2, <1>4, <2>1 DEF Linked, At
  <2>2. CASE j = k
    <3>1. \A q \in At(rk.get_map, k, {}) : q \in DOMAIN rk.request_map /\ k \in rk.request_map[q]
      BY DEF Linked, At
    <3> QED
      BY <1>1, <1>2, <2>2, <3>1 DEF At
  <2> QED
    BY <2>1, <2>2
<1> QED
  BY <1>1, <1>2, <1>3, <1>4 DEF Linked, Present, n

\* A GET takes a key that nobody waits for from the cache.
LEMMA InsertCacheLinked ==
  ASSUME NEW rk, Linked(rk), NEW k, k \notin DOMAIN rk.get_map, NEW r, NEW v
  PROVE  Linked(insert_cache(rk, r, k, v)) /\ Present(insert_cache(rk, r, k, v)) = Present(rk)
<1> DEFINE n == insert_cache(rk, r, k, v)
<1>0. /\ n.get_map = rk.get_map /\ n.m_map_ = rk.m_map_
      /\ n.request_map = Pushed(rk.request_map, r, k)
      /\ n.get_cache = Assign(rk.get_cache, k, v)
  BY DEF insert_cache
<1> HIDE DEF n
<1>1. /\ n.get_map = rk.get_map /\ n.m_map_ = rk.m_map_
      /\ DOMAIN n.request_map = DOMAIN rk.request_map \cup {r}
      /\ \A q \in DOMAIN n.request_map : n.request_map[q] =
           IF q = r THEN At(rk.request_map, r, {}) \cup {k} ELSE rk.request_map[q]
  BY <1>0 DEF Pushed, Assign
<1>2. DOMAIN n.get_cache = DOMAIN rk.get_cache \cup {k}
  BY <1>0 DEF Assign
<1>3. ASSUME NEW q \in DOMAIN n.request_map, NEW j \in n.request_map[q] \ DOMAIN n.get_cache
      PROVE  j \in DOMAIN n.get_map /\ q \in n.get_map[j]
  BY <1>1, <1>2, <1>3 DEF Linked, At
<1>4. ASSUME NEW j \in DOMAIN n.get_map \ DOMAIN n.get_cache
      PROVE  /\ n.get_map[j] # {}
             /\ \A q \in n.get_map[j] : q \in DOMAIN n.request_map /\ j \in n.request_map[q]
  BY <1>1, <1>2, <1>4 DEF Linked, At
<1> QED
  BY <1>1, <1>2, <1>3, <1>4 DEF Linked, Present, n

\* Answered requests are erased: what the others wait for stays.
LEMMA ForgetLinked ==
  ASSUME NEW rk, Linked(rk), NEW done,
         \A r \in done : r \in DOMAIN rk.request_map /\ isFulfilled(rk, r)
  PROVE  LET n == Forget(rk, done)
         IN  /\ Linked(n) /\ n.m_map_ = rk.m_map_
             /\ DOMAIN n.request_map = DOMAIN rk.request_map \ done
             /\ DOMAIN n.get_map \subseteq DOMAIN rk.get_map
             /\ DOMAIN n.get_cache \subseteq DOMAIN rk.get_cache
             /\ DOMAIN rk.get_map \ DOMAIN rk.get_cache \subseteq DOMAIN n.get_map
             /\ DOMAIN n.get_map \ DOMAIN n.get_cache
                  = DOMAIN rk.get_map \ DOMAIN rk.get_cache
             /\ \A r \in DOMAIN n.request_map : ~isFulfilled(rk, r) => ~isFulfilled(n, r)
<1> DEFINE n == Forget(rk, done)
           left == EraseAll(rk.request_map, done)
<1>1. /\ DOMAIN left = DOMAIN rk.request_map \ done
      /\ \A r \in DOMAIN left : left[r] = rk.request_map[r]
  BY DEF EraseAll
<1>2. /\ n.m_map_ = rk.m_map_ /\ n.request_map = left
      /\ n.get_map = IF DOMAIN left = {} THEN EmptyMap ELSE rk.get_map
      /\ n.get_cache = IF DOMAIN left = {} THEN EmptyMap ELSE rk.get_cache
      /\ DOMAIN EmptyMap = {}
  BY DEF Forget, EmptyMap
<1> HIDE DEF n, left
<1>3. ASSUME NEW k \in DOMAIN rk.get_map \ DOMAIN rk.get_cache, NEW r \in rk.get_map[k]
      PROVE  r \in DOMAIN left
  <2>1. r \in DOMAIN rk.request_map /\ k \in rk.request_map[r]
    BY <1>3 DEF Linked
  <2>2. ~isFulfilled(rk, r)
    BY <1>3, <2>1 DEF isFulfilled, At
  <2> QED
    BY <1>1, <2>1, <2>2
<1>4. CASE DOMAIN left = {}
  <2>1. DOMAIN rk.get_map \ DOMAIN rk.get_cache = {}
    BY <1>3, <1>4 DEF Linked
  <2> QED
    BY <1>1, <1>2, <1>4, <2>1 DEF Linked, n
<1>5. CASE DOMAIN left # {}
  <2>1. n.get_map = rk.get_map /\ n.get_cache = rk.get_cache
    BY <1>2, <1>5
  <2>2. Linked(n)
    BY <1>1, <1>2, <1>3, <1>5, <2>1 DEF Linked
  <2>3. \A r \in DOMAIN left : isFulfilled(n, r) = isFulfilled(rk, r)
    BY <1>1, <1>2, <2>1 DEF isFulfilled, At
  <2> QED
    BY <1>1, <1>2, <2>1, <2>2, <2>3 DEF n
<1> QED
  BY <1>4, <1>5

\* A key arrives: the requests that have all their keys now are among those that waited
\* for it.
LEMMA ArrivedLinked ==
  ASSUME NEW rk, Linked(rk), Unfulfilled(rk), NEW k, NEW v,
         k \notin DOMAIN rk.get_map \cap DOMAIN rk.get_cache
  PROVE  LET n == Arrived(rk, k, v)
         IN  /\ Linked(n) /\ n.m_map_ = rk.m_map_ \ {k}
             /\ n.get_map = rk.get_map /\ n.request_map = rk.request_map
             /\ DOMAIN n.get_cache =
                  DOMAIN rk.get_cache \cup (IF k \in DOMAIN rk.get_map THEN {k} ELSE {})
             /\ FulfilledBy(rk, k, v) = {r \in DOMAIN n.request_map : isFulfilled(n, r)}
<1> DEFINE n == Arrived(rk, k, v)
<1>1. /\ n.m_map_ = rk.m_map_ \ {k} /\ n.get_map = rk.get_map
      /\ n.request_map = rk.request_map
      /\ n.get_cache = IF k \in DOMAIN rk.get_map THEN Assign(rk.get_cache, k, v)
                                                  ELSE rk.get_cache
  BY DEF Arrived
<1>2. DOMAIN n.get_cache = DOMAIN rk.get_cache \cup (IF k \in DOMAIN rk.get_map THEN {k} ELSE {})
  BY <1>1 DEF Assign
<1>3. FulfilledBy(rk, k, v) =
        {r \in At(rk.get_map, k, {}) \cap DOMAIN rk.request_map : isFulfilled(n, r)}
  BY DEF FulfilledBy
<1> HIDE DEF n
<1>4. DOMAIN rk.request_map = {} => DOMAIN rk.get_map = {} /\ DOMAIN rk.get_cache = {}
  BY DEF Linked
<1>5. Linked(n)
  <2>1. \A r \in DOMAIN n.request_map : \A j \in n.request_map[r] \ DOMAIN n.get_cache :
          j \in DOMAIN n.get_map /\ r \in n.get_map[j]
    BY <1>1, <1>2 DEF Linked
  <2>2. \A j \in DOMAIN n.get_map \ DOMAIN n.get_cache :
          /\ n.get_map[j] # {}
          /\ \A r \in n.get_map[j] : r \in DOMAIN n.request_map /\ j \in n.request_map[r]
    BY <1>1, <1>2 DEF Linked
  <2> QED
    BY <1>1, <1>2, <1>4, <2>1, <2>2 DEF Linked
<1>6. ASSUME NEW r \in DOMAIN n.request_map, isFulfilled(n, r)
      PROVE  r \in At(rk.get_map, k, {})
  <2>1. n.request_map[r] \subseteq DOMAIN n.get_cache
    BY <1>6 DEF isFulfilled, At
  <2>2. ~(rk.request_map[r] \subseteq DOMAIN rk.get_cache)
    BY <1>1, <1>6 DEF Unfulfilled, isFulfilled, At
  <2>3. k \in rk.request_map[r] \ DOMAIN rk.get_cache
    BY <1>1, <1>2, <2>1, <2>2
  <2>4. k \in DOMAIN rk.get_map /\ r \in rk.get_map[k]
    BY <1>1, <1>6, <2>3 DEF Linked
  <2> QED
    BY <2>4 DEF At
<1>7. FulfilledBy(rk, k, v) = {r \in DOMAIN n.request_map : isFulfilled(n, r)}
  BY <1>1, <1>3, <1>6
<1> QED
  BY <1>1, <1>2, <1>5, <1>7 DEF n
-----------------------------------------------------------------------------
(* The invariant in the next state                                           *)

\* Tables, as a formula about the next table.
LEMMA TablesNext ==
  ASSUME Linked(runningKeys'),
         pc' \in {"read", "apply", "clear"} => Unfulfilled(runningKeys'),
         pc' # "clear" => DOMAIN runningKeys'.get_map \cap DOMAIN runningKeys'.get_cache = {},
         pc' = "clear" => DOMAIN runningKeys'.get_map \cap DOMAIN runningKeys'.get_cache
                            \cap DOMAIN promiseSatisfy' = {},
         pc' \in {"collect", "split"} =>
           DOMAIN runningKeys'.get_cache \cap LiveKeys' \subseteq CacheKeys(cache')
  PROVE  Tables'
<1>1. /\ Linked(runningKeys)' = Linked(runningKeys')
      /\ Unfulfilled(runningKeys)' = Unfulfilled(runningKeys')
      /\ CacheKeys(cache)' = CacheKeys(cache')
  BY DEF Linked, Unfulfilled, isFulfilled, At, CacheKeys
<1> QED
  BY <1>1 DEF Tables

\* A step that leaves the tables alone.
LEMMA TablesSame ==
  ASSUME Tables, UNCHANGED <<runningKeys, promiseSatisfy, cache, pc>>, LiveKeys' = LiveKeys
  PROVE  Tables'
BY TablesNext DEF Tables

\* The keys of the next table.
LEMMA PresentNext == Present(runningKeys)' = Present(runningKeys')
BY DEF Present

\* The keys of the ids after one more was read.
LEMMA ReadKeysNext ==
  ASSUME storage_keys \in Seq(StorageIds), NEW id \in StorageIds,
         storage_keys' = Append(storage_keys, id)
  PROVE  /\ ReadKeys' = ReadKeys \cup {id[1]}
         /\ KeysDistinct /\ id[1] \notin ReadKeys => KeysDistinct'
<1> DEFINE L == Len(storage_keys)
<1>1. /\ L \in Nat /\ DOMAIN storage_keys = 1 .. L /\ DOMAIN storage_keys' = 1 .. (L + 1)
      /\ storage_keys'[L + 1] = id
      /\ \A n \in DOMAIN storage_keys : storage_keys'[n] = storage_keys[n]
  OBVIOUS
<1> HIDE DEF L
<1>2. DOMAIN storage_keys' = DOMAIN storage_keys \cup {L + 1}
  BY <1>1
<1>3. ReadKeys' = ReadKeys \cup {id[1]}
  <2>1. ReadKeys' = {storage_keys'[n][1] : n \in DOMAIN storage_keys'}
    BY DEF ReadKeys
  <2> QED
    BY <1>1, <1>2, <2>1 DEF ReadKeys
<1>4. ASSUME KeysDistinct, id[1] \notin ReadKeys
      PROVE  KeysDistinct'
  <2>1. \A n \in DOMAIN storage_keys : storage_keys[n][1] # id[1]
    BY <1>4 DEF ReadKeys
  <2>2. \A m, n \in DOMAIN storage_keys' : storage_keys'[m][1] = storage_keys'[n][1] => m = n
    BY <1>1, <1>2, <1>4, <2>1 DEF KeysDistinct
  <2> QED
    BY <2>2 DEF KeysDistinct
<1> QED
  BY <1>3, <1>4

\* The keys the batch fetches after a key was registered for it.
LEMMA FetchedNext ==
  ASSUME storage_batch \in Seq(RealKeys), NEW k \in RealKeys, Present(runningKeys) = Fetched,
         storage_batch' = IF isPresent(runningKeys, k) THEN storage_batch
                          ELSE Append(storage_batch, k)
  PROVE  Fetched' = Fetched \cup {k}
<1>1. Fetched' = {storage_batch'[n] : n \in DOMAIN storage_batch'}
  BY DEF Fetched
<1>2. CASE isPresent(runningKeys, k)
  BY <1>1, <1>2 DEF Fetched, isPresent, Present
<1>3. CASE ~isPresent(runningKeys, k)
  <2> DEFINE L == Len(storage_batch)
  <2>1. /\ L \in Nat /\ DOMAIN storage_batch = 1 .. L
        /\ DOMAIN storage_batch' = 1 .. (L + 1) /\ storage_batch'[L + 1] = k
        /\ \A n \in DOMAIN storage_batch : storage_batch'[n] = storage_batch[n]
    BY <1>3
  <2> HIDE DEF L
  <2>2. DOMAIN storage_batch' = DOMAIN storage_batch \cup {L + 1}
    BY <2>1
  <2> QED
    BY <1>1, <2>1, <2>2 DEF Fetched
<1> QED
  BY <1>2, <1>3

\* init establishes the invariant.
LEMMA InitRun == Init => RunInv
<1> SUFFICES ASSUME Init
             PROVE  RunInv
  OBVIOUS
<1>1. /\ runningKeys = EmptyRunning /\ pc = "collect" /\ storage_keys = <<>>
      /\ storage_batch = <<>> /\ keys_to_be_deleted = {} /\ asked = EmptyMap
      /\ DOMAIN EmptyMap = {}
  BY DEF Init, EmptyMap
<1>2. /\ runningKeys.m_map_ = {} /\ DOMAIN runningKeys.get_map = {}
      /\ DOMAIN runningKeys.request_map = {} /\ DOMAIN runningKeys.get_cache = {}
  BY <1>1 DEF EmptyRunning
<1>3. IndexInv
  BY InitIndex
<1> QED
  BY <1>1, <1>2, <1>3
  DEF RunInv, Rest, Tables, Linked, Whereabouts, Present, Fetched, KeysDistinct, Tracked, Quiet

\* PopGet: the GET is being split.
LEMMA PopGetRun ==
  ASSUME RunInv, NEW item \in Items, NEW start, NEW end, PopGet(item, start, end)
  PROVE  Rest'
<1>1. /\ pc = "collect" /\ pc' \in {"collect", "split"}
      /\ realBst' = TouchStamps(realBst, item)
      /\ UNCHANGED <<runningKeys, promiseSatisfy, cache, storage_batch, storage_keys,
                     keys_to_be_deleted, i, answers>>
  BY DEF PopGet, Collecting, storeVars, batchVars
<1>2. LiveKeys' = LiveKeys
  <2>1. Agrees(realBst') /\ Live(realBst') = Live(realBst)
    BY <1>1, IndexFacts, TouchStampsAgrees, LiveAfter DEF RunInv
  <2> QED
    BY <2>1, IndexNext, IndexFacts DEF RunInv
<1>3. Tables'
  BY <1>1, <1>2, TablesNext DEF RunInv, Rest, Tables
<1>4. Whereabouts'
  BY <1>1 DEF RunInv, Rest, Whereabouts, Fetched
<1>5. KeysDistinct'
  BY <1>1 DEF RunInv, Rest, KeysDistinct
<1>6. Tracked' /\ Quiet'
  <2>1. CASE split' = {}
    BY <1>1, <2>1 DEF PopGet, RunInv, Rest, Tracked, Quiet
  <2>2. CASE split' # {}
    <3>1. pc' = "split" /\ DOMAIN asked' = DOMAIN asked \cup {request_id} /\ request_id' = request_id
      BY <2>2 DEF PopGet, Assign
    <3> QED
      BY <1>1, <3>1 DEF RunInv, Rest, Tracked, Quiet
  <2> QED
    BY <2>1, <2>2
<1> QED
  BY <1>3, <1>4, <1>5, <1>6 DEF Rest

\* SubGet: a bucket taken from the cache is not one the batch fetches, and one the
\* batch fetches is not at hand.
LEMMA SubGetRun ==
  ASSUME RunInv, SubGet
  PROVE  Rest'
<1> DEFINE k == CHOOSE k \in split : \A j \in split : k[2] <= j[2]
<1>1. /\ pc = "split" /\ pc' \in {"collect", "split"} /\ i' = i + 1 /\ i \in Nat
      /\ pc' = "split" => request_id' = request_id
      /\ UNCHANGED <<realBst, cache, promiseSatisfy, storage_keys, keys_to_be_deleted, asked>>
  BY DEF SubGet, bstVars, storeVars, RunInv, IndexInv, TypeInv, TypeOK
<1>2. LiveKeys' = LiveKeys
  BY <1>1, LiveSame DEF RunInv
<1>3. /\ Linked(runningKeys) /\ Present(runningKeys) = Fetched
      /\ DOMAIN runningKeys.get_map \cap DOMAIN runningKeys.get_cache = {}
      /\ DOMAIN runningKeys.get_cache \cap LiveKeys \subseteq CacheKeys(cache)
      /\ \A r \in DOMAIN asked : r \in DOMAIN answers \cup DOMAIN runningKeys.request_map
                                   \cup {request_id}
  BY <1>1 DEF RunInv, Rest, Tables, Whereabouts, Tracked
<1>4. DOMAIN EvictedItems = {} /\ Fetched \cap CacheKeys(cache) = {}
  BY <1>1 DEF RunInv, IndexInv, BatchAccounts, EvictedWritten, OperationsDistinct, Fetched
<1>5. k \in RealKeys
  <2>1. k \in split
    BY <1>1, SplitChoice DEF RunInv, IndexInv
  <2> QED
    BY <2>1 DEF RunInv, IndexInv, TypeInv, TypeOK
<1>6. KeysDistinct' /\ Quiet'
  BY <1>1 DEF RunInv, Rest, KeysDistinct, Quiet
<1> SUFFICES Tables' /\ Whereabouts' /\ Tracked'
  BY <1>6 DEF Rest
<1>7. CASE ~KeyExists(realBst, k)
  <2>1. /\ DOMAIN answers' = DOMAIN answers \cup {request_id}
        /\ UNCHANGED <<runningKeys, storage_batch>>
    BY <1>7 DEF SubGet, Assign
  <2>2. Tables'
    BY <1>1, <1>2, <1>3, <2>1, TablesNext
  <2>3. Whereabouts' /\ Tracked'
    BY <1>1, <1>3, <2>1 DEF Whereabouts, Fetched, Tracked
  <2> QED
    BY <2>2, <2>3
<1>8. CASE KeyExists(realBst, k) /\ Held(k)
  <2> DEFINE v == HeldValue(k)
  <2>1. /\ runningKeys' = insert_cache(runningKeys, request_id, k, v)
        /\ UNCHANGED <<storage_batch, answers>>
    BY <1>8 DEF SubGet
  <2>2. k \in CacheKeys(cache) /\ k \notin DOMAIN runningKeys.get_map
    BY <1>3, <1>4, <1>8 DEF Held, Present
  <2> HIDE DEF k, v
  <2>3. Linked(runningKeys') /\ Present(runningKeys') = Present(runningKeys)
    BY <1>3, <2>1, <2>2, InsertCacheLinked
  <2>4. /\ runningKeys'.get_map = runningKeys.get_map
        /\ DOMAIN runningKeys'.get_cache = DOMAIN runningKeys.get_cache \cup {k}
        /\ DOMAIN runningKeys'.request_map = DOMAIN runningKeys.request_map \cup {request_id}
    BY <2>1 DEF insert_cache, Pushed, Assign
  <2>5. Tables'
    BY <1>1, <1>2, <1>3, <2>2, <2>3, <2>4, TablesNext
  <2>6. Whereabouts'
    BY <1>1, <1>3, <2>1, <2>3, PresentNext DEF Whereabouts, Fetched
  <2>7. Tracked'
    BY <1>1, <1>3, <2>1, <2>4 DEF Tracked
  <2> QED
    BY <2>5, <2>6, <2>7
<1>9. CASE KeyExists(realBst, k) /\ ~Held(k)
  <2>1. /\ runningKeys' = insertGet(runningKeys, k, request_id)
        /\ storage_batch' = IF isPresent(runningKeys, k) THEN storage_batch
                            ELSE Append(storage_batch, k)
        /\ UNCHANGED answers
    BY <1>9 DEF SubGet
  <2>2. k \in LiveKeys /\ k \notin CacheKeys(cache)
    BY <1>5, <1>9, IndexFacts, KeyTypes DEF RunInv, KeyExists, Held
  <2>3. k \notin DOMAIN runningKeys.get_cache
    BY <1>3, <2>2
  <2> HIDE DEF k
  <2>4. Linked(runningKeys') /\ Present(runningKeys') = Present(runningKeys) \cup {k}
    BY <1>3, <2>1, <2>3, InsertGetLinked
  <2>5. /\ runningKeys'.get_cache = runningKeys.get_cache
        /\ DOMAIN runningKeys'.get_map = DOMAIN runningKeys.get_map \cup {k}
        /\ DOMAIN runningKeys'.request_map = DOMAIN runningKeys.request_map \cup {request_id}
    BY <2>1 DEF insertGet, Pushed, Assign
  <2>6. Fetched' = Fetched \cup {k}
    BY <1>3, <1>5, <2>1, IndexFacts, FetchedNext DEF RunInv
  <2>7. Tables'
    BY <1>1, <1>2, <1>3, <2>3, <2>4, <2>5, TablesNext
  <2>8. Whereabouts'
    BY <1>1, <1>3, <2>4, <2>6, PresentNext DEF Whereabouts
  <2>9. Tracked'
    BY <1>1, <1>3, <2>1, <2>5 DEF Tracked
  <2> QED
    BY <2>7, <2>8, <2>9
<1> QED
  BY <1>7, <1>8, <1>9

\* PopPut: the bucket to be dropped joins the keys the batch fetches, once.
LEMMA PopPutRun ==
  ASSUME RunInv, RePut = FALSE, NEW k \in RealKeys, NEW version \in Versions, PopPut(k, version)
  PROVE  Rest'
<1>1. /\ pc = "collect" /\ pc' = "collect" /\ i' = i + 1 /\ i \in Nat
      /\ UNCHANGED <<promiseSatisfy, storage_keys, asked, answers>>
  BY DEF PopPut, Collecting, getVars, RunInv, IndexInv, TypeInv, TypeOK
<1>2. /\ Linked(runningKeys) /\ Present(runningKeys) = Fetched
      /\ DOMAIN runningKeys.get_map \cap DOMAIN runningKeys.get_cache = {}
      /\ DOMAIN runningKeys.get_cache \cap LiveKeys \subseteq CacheKeys(cache)
      /\ \A r \in DOMAIN asked : r \in DOMAIN answers \cup DOMAIN runningKeys.request_map
  BY <1>1 DEF RunInv, Rest, Tables, Whereabouts, Tracked
<1>3. KeysDistinct' /\ Quiet'
  BY <1>1 DEF RunInv, Rest, KeysDistinct, Quiet
<1>4. CASE StampsOf(realBst, k[1]) = {}
  <2>1. UNCHANGED <<realBst, cache, runningKeys, storage_batch>>
    BY <1>4 DEF PopPut, storeVars
  <2>2. LiveKeys' = LiveKeys
    BY <2>1, LiveSame DEF RunInv
  <2>3. Tables'
    BY <1>1, <1>2, <2>1, <2>2, TablesNext
  <2> QED
    BY <1>1, <1>2, <1>3, <2>1, <2>3 DEF Rest, Whereabouts, Fetched, Tracked
<1>5. CASE StampsOf(realBst, k[1]) # {}
  <2> DEFINE old == getOldestKey(realBst, k)
  <2>1. /\ IF Held(old) THEN DropHeld(old) ELSE DropLater(old)
        /\ old \in LiveKeys
        /\ LiveKeys' = (IF Held(old) THEN LiveKeys \ {old} ELSE LiveKeys) \cup {k}
        /\ CacheKeys(cache') =
             (IF Held(old) THEN CacheKeys(cache) \ {old} ELSE CacheKeys(cache)) \cup {k}
    BY <1>5, PopPutEffect DEF RunInv
  <2> HIDE DEF old
  <2>2. /\ runningKeys'.get_map = runningKeys.get_map
        /\ runningKeys'.get_cache = runningKeys.get_cache
        /\ runningKeys'.request_map = runningKeys.request_map
    BY <2>1 DEF DropHeld, DropLater, insertIfNotPresent
  <2>3. Linked(runningKeys')
    BY <1>2, <2>2 DEF Linked
  <2>4. Tables'
    BY <1>1, <1>2, <2>1, <2>2, <2>3, TablesNext
  <2>5. Present(runningKeys') = Fetched'
    <3>1. CASE Held(old)
      BY <1>2, <2>1, <3>1 DEF DropHeld, Fetched
    <3>2. CASE ~Held(old)
      <4>1. /\ Present(runningKeys') = Present(runningKeys) \cup {old}
            /\ storage_batch' = IF isPresent(runningKeys, old) THEN storage_batch
                                ELSE Append(storage_batch, old)
        BY <2>1, <3>2 DEF DropLater, insertIfNotPresent, Present
      <4>2. Fetched' = Fetched \cup {old}
        BY <1>2, <2>1, <4>1, IndexFacts, FetchedNext DEF RunInv
      <4> QED
        BY <1>2, <4>1, <4>2
    <3> QED
      BY <3>1, <3>2
  <2>6. Whereabouts'
    BY <1>1, <2>5, PresentNext DEF Whereabouts
  <2>7. Tracked'
    BY <1>1, <1>2, <2>2 DEF Tracked
  <2> QED
    BY <1>3, <2>4, <2>6, <2>7 DEF Rest
<1> QED
  BY <1>4, <1>5

\* StartBatch: a key the batch fetches for a GET has a request that is not fulfilled,
\* so answering the others leaves it in the table.
LEMMA StartBatchRun ==
  ASSUME RunInv, StartBatch
  PROVE  Rest'
<1> DEFINE done == FulfilledAll(runningKeys)
<1>1. /\ pc = "collect" /\ pc' = "read" /\ runningKeys' = Forget(runningKeys, done)
      /\ DOMAIN answers' = DOMAIN answers \cup done
      /\ UNCHANGED <<promiseSatisfy, storage_keys, storage_batch, asked>>
  BY DEF StartBatch, tryClearAllPromises, Answered, batchVars, getVars
<1>2. storage_keys = <<>>
  BY <1>1 DEF RunInv, IndexInv, TypeInv, Shape
<1>3. /\ Linked(runningKeys) /\ Present(runningKeys) = Fetched
      /\ DOMAIN runningKeys.get_map \cap DOMAIN runningKeys.get_cache = {}
      /\ \A r \in DOMAIN asked : r \in DOMAIN answers \cup DOMAIN runningKeys.request_map
  BY <1>1 DEF RunInv, Rest, Tables, Whereabouts, Tracked
<1>4. \A r : r \in done <=> r \in DOMAIN runningKeys.request_map /\ isFulfilled(runningKeys, r)
  BY DEF FulfilledAll
<1> HIDE DEF done
<1>5. /\ Linked(runningKeys') /\ runningKeys'.m_map_ = runningKeys.m_map_
      /\ DOMAIN runningKeys'.request_map = DOMAIN runningKeys.request_map \ done
      /\ DOMAIN runningKeys'.get_map \subseteq DOMAIN runningKeys.get_map
      /\ DOMAIN runningKeys'.get_cache \subseteq DOMAIN runningKeys.get_cache
      /\ DOMAIN runningKeys.get_map \ DOMAIN runningKeys.get_cache \subseteq DOMAIN runningKeys'.get_map
      /\ \A r \in DOMAIN runningKeys'.request_map :
           ~isFulfilled(runningKeys, r) => ~isFulfilled(runningKeys', r)
  BY <1>1, <1>3, <1>4, ForgetLinked
<1>6. Unfulfilled(runningKeys')
  BY <1>4, <1>5 DEF Unfulfilled
<1>7. Tables'
  BY <1>1, <1>3, <1>5, <1>6, TablesNext
<1>8. Present(runningKeys') = Present(runningKeys)
  BY <1>3, <1>5 DEF Present
<1>9. Whereabouts'
  BY <1>1, <1>2, <1>3, <1>8, PresentNext DEF Whereabouts, Fetched, ReadKeys
<1>10. KeysDistinct' /\ Tracked' /\ Quiet'
  BY <1>1, <1>2, <1>3, <1>5 DEF KeysDistinct, Tracked, Quiet
<1> QED
  BY <1>7, <1>9, <1>10 DEF Rest

\* What all the reads of a batch have in common: they extend storage_keys by an id whose
\* key was not read before, and put that key into the table if it is not in it.
LEMMA ReadRun ==
  ASSUME RunInv, pc = "read", pc' = "read", NEW id \in StorageIds, id[1] \notin ReadKeys,
         storage_keys' = Append(storage_keys, id),
         Present(runningKeys') \cup Fetched = Present(runningKeys) \cup Fetched \cup {id[1]},
         runningKeys' = insertAllIfNotPresent(runningKeys, runningKeys'.m_map_),
         UNCHANGED <<promiseSatisfy, storage_batch, asked, answers>>
  PROVE  Rest'
<1>1. /\ runningKeys'.get_map = runningKeys.get_map
      /\ runningKeys'.get_cache = runningKeys.get_cache
      /\ runningKeys'.request_map = runningKeys.request_map
      /\ runningKeys.m_map_ \subseteq runningKeys'.m_map_
  BY DEF insertAllIfNotPresent
<1>2. /\ Linked(runningKeys) /\ Unfulfilled(runningKeys)
      /\ Present(runningKeys) = Fetched \cup ReadKeys
      /\ DOMAIN runningKeys.get_map \cap DOMAIN runningKeys.get_cache = {}
      /\ \A r \in DOMAIN asked : r \in DOMAIN answers \cup DOMAIN runningKeys.request_map
      /\ KeysDistinct
  BY DEF RunInv, Rest, Tables, Whereabouts, Tracked
<1>3. Linked(runningKeys') /\ Unfulfilled(runningKeys')
  BY <1>1, <1>2 DEF Linked, Unfulfilled, isFulfilled
<1>4. Tables'
  BY <1>1, <1>2, <1>3, TablesNext
<1>5. ReadKeys' = ReadKeys \cup {id[1]} /\ KeysDistinct'
  BY <1>2, IndexFacts, ReadKeysNext DEF RunInv
<1>6. Fetched' = Fetched
  BY DEF Fetched
<1>7. Present(runningKeys') = Fetched' \cup ReadKeys'
  <2>1. Fetched \subseteq Present(runningKeys')
    BY <1>1, <1>2 DEF Present
  <2> QED
    BY <1>2, <1>5, <1>6, <2>1
<1>8. Whereabouts'
  BY <1>7, PresentNext DEF Whereabouts
<1>9. Tracked' /\ Quiet'
  BY <1>1, <1>2 DEF Tracked, Quiet
<1> QED
  BY <1>4, <1>5, <1>8, <1>9 DEF Rest

\* ReadOperation: the operations' keys are in the table and all different.
LEMMA ReadOperationRun ==
  ASSUME RunInv, ReadOperation
  PROVE  Rest'
<1> DEFINE L  == Len(storage_keys)
           k  == storage_batch[L + 1]
           id == <<k, getFrequency(realBst, k)>>
<1>1. /\ pc = "read" /\ pc' = "read" /\ L < Len(storage_batch)
      /\ storage_keys' = Append(storage_keys, id)
      /\ UNCHANGED <<runningKeys, promiseSatisfy, storage_batch, asked, answers>>
  BY DEF ReadOperation, getVars
<1>2. /\ L \in Nat /\ Len(storage_batch) \in Nat /\ L + 1 \in DOMAIN storage_batch
      /\ DOMAIN storage_keys = 1 .. L /\ DOMAIN storage_batch = 1 .. Len(storage_batch)
      /\ Len(storage_batch) <= NumReal /\ NumReal \in Nat
  BY <1>1, IndexFacts, NumRealType DEF RunInv, IndexInv
<1>3. k \in LiveKeys /\ k \in RealKeys
  BY <1>1, <1>2, IndexFacts DEF RunInv, IndexInv, BatchAccounts, OperationsDistinct
<1>4. id \in StorageIds /\ id[1] = k
  <2> HIDE DEF k
  <2> QED
    BY <1>3, IndexFacts, SmootherParts, KeyTypes DEF RunInv, StorageIds, RealOK
<1>5. \A n \in DOMAIN storage_keys : storage_keys[n][1] # k
  <2>1. ASSUME NEW n \in DOMAIN storage_keys
        PROVE  storage_keys[n][1] # k
    <3>1. n \in Awaited /\ n <= Len(storage_batch) /\ n \in DOMAIN storage_batch /\ n # L + 1
      BY <1>1, <1>2 DEF Awaited
    <3>2. storage_keys[n][1] = storage_batch[n]
      BY <1>1, <3>1 DEF RunInv, IndexInv, BatchAccounts, AwaitedKnown
    <3> QED
      BY <1>2, <3>1, <3>2 DEF RunInv, IndexInv, BatchAccounts, OperationsDistinct
  <2> QED
    BY <2>1
<1>6. id[1] \notin ReadKeys /\ id[1] \in Fetched
  BY <1>2, <1>4, <1>5 DEF ReadKeys, Fetched
<1>7. runningKeys' = insertAllIfNotPresent(runningKeys, runningKeys'.m_map_)
  BY <1>1, RunningParts DEF RunInv, IndexInv, TypeInv, TypeOK, RunningOK, insertAllIfNotPresent
<1> HIDE DEF id, k
<1> QED
  BY <1>1, <1>4, <1>6, <1>7, ReadRun

\* ReadFakeReal: the keys the iterator passes over are all in the table already.
LEMMA ReadFakeRealRun ==
  ASSUME RunInv, ReadFakeReal
  PROVE  Rest'
<1> DEFINE free == {e \in OnServer : ~isPresent(runningKeys, e[1])}
           e    == FirstEntry(free)
           k    == e[1]
           past == {f \in OnServer : f = e \/ freqCmp(f, e)}
           id   == <<k, getFrequency(realBst, k)>>
<1>1. /\ pc = "read" /\ pc' = "read"
      /\ UNCHANGED <<cache, promiseSatisfy, storage_batch, asked, answers>>
  BY DEF ReadFakeReal, storeVars, getVars
<1>2. CASE free = {}
  <2>1. UNCHANGED <<realBst, runningKeys, storage_keys>>
    BY <1>2 DEF ReadFakeReal
  <2>2. Tables'
    BY <1>1, <2>1, TablesNext DEF RunInv, Rest, Tables
  <2> QED
    BY <1>1, <2>1, <2>2
    DEF RunInv, Rest, Whereabouts, Fetched, ReadKeys, KeysDistinct, Tracked, Quiet
<1>3. CASE free # {}
  <2>1. /\ storage_keys' = Append(storage_keys, id)
        /\ runningKeys' = insertAllIfNotPresent(runningKeys, {f[1] : f \in past})
    BY <1>3 DEF ReadFakeReal
  <2>2. OnServer \subseteq realBst.accessTree /\ realBst.accessTree \subseteq RealKeys \X Nat
    BY IndexFacts, SmootherParts DEF RunInv, OnServer, RealOK
  <2>3. OnServer \subseteq (Nat \X Nat) \X Nat
    BY <2>2, KeyTypes
  <2>4. e \in free /\ \A g \in free \ {e} : freqCmp(e, g)
    <3>1. free \subseteq (Nat \X Nat) \X Nat
      BY <2>3
    <3> HIDE DEF free
    <3> QED
      BY <3>1, <1>3, FirstEntryIn
  <2>5. e \in OnServer /\ ~isPresent(runningKeys, k)
    BY <2>4
  <2>6. ASSUME NEW f \in past
        PROVE  f = e \/ isPresent(runningKeys, f[1])
    <3>1. SUFFICES ASSUME f # e, ~isPresent(runningKeys, f[1])
                   PROVE  FALSE
      OBVIOUS
    <3>2. f \in OnServer /\ freqCmp(f, e) /\ freqCmp(e, f)
      BY <2>4, <2>6, <3>1
    <3> HIDE DEF free, e, past
    <3>3. f \in (Nat \X Nat) \X Nat /\ e \in (Nat \X Nat) \X Nat
      BY <2>3, <2>5, <3>2
    <3> QED
      BY <3>2, <3>3 DEF freqCmp, KeyLess
  <2>7. e \in past
    BY <2>5
  <2> HIDE DEF free, past
  <2>8. k \in LiveKeys
    BY <2>2, <2>5, IndexFacts DEF RunInv, Agrees
  <2>9. id \in StorageIds /\ id[1] = k
    <3> HIDE DEF k
    <3> QED
      BY <2>8, IndexFacts, SmootherParts, KeyTypes DEF RunInv, StorageIds, RealOK
  <2>10. {f[1] : f \in past} \cup Present(runningKeys) = Present(runningKeys) \cup {k}
    BY <2>6, <2>7 DEF Present, isPresent
  <2> HIDE DEF e, k, id
  <2>11. Present(runningKeys') = Present(runningKeys) \cup {id[1]}
    BY <2>1, <2>9, <2>10 DEF Present, insertAllIfNotPresent
  <2>12. runningKeys' = insertAllIfNotPresent(runningKeys, runningKeys'.m_map_)
    BY <2>1 DEF insertAllIfNotPresent
  <2>13. id[1] \notin ReadKeys
    BY <1>1, <2>5, <2>9 DEF RunInv, Rest, Whereabouts, Present, isPresent
  <2> QED
    BY <1>1, <2>1, <2>9, <2>11, <2>12, <2>13, ReadRun
<1> QED
  BY <1>2, <1>3

\* ReadFake: the guard of the loop sees to it that the key is new.
LEMMA ReadFakeRun ==
  ASSUME RunInv, IndexInv', ReadFake
  PROVE  Rest'
<1> DEFINE k  == getKeyWithMinFrequency(fakeBst)
           id == <<k, getFrequency(fakeBst, k)>>
<1>1. /\ pc = "read" /\ pc' = "read" /\ ~isPresent(runningKeys, k)
      /\ storage_keys' = Append(storage_keys, id)
      /\ runningKeys' = insertIfNotPresent(runningKeys, k)
      /\ UNCHANGED <<promiseSatisfy, storage_batch, asked, answers>>
  BY DEF ReadFake, getVars
<1>2. id[1] = k
  OBVIOUS
<1> HIDE DEF k, id
<1>3. id \in StorageIds
  <2>1. storage_keys' \in Seq(StorageIds) /\ storage_keys \in Seq(StorageIds)
    BY IndexFacts DEF RunInv, IndexInv, TypeInv, TypeOK
  <2>2. Len(storage_keys) \in Nat /\ Len(storage_keys) + 1 \in DOMAIN storage_keys'
        /\ storage_keys'[Len(storage_keys) + 1] = id
    BY <1>1, <2>1
  <2> QED
    BY <2>1, <2>2
<1>4. Present(runningKeys') = Present(runningKeys) \cup {id[1]}
  BY <1>1, <1>2 DEF Present, insertIfNotPresent
<1>5. runningKeys' = insertAllIfNotPresent(runningKeys, runningKeys'.m_map_)
  BY <1>1 DEF insertIfNotPresent, insertAllIfNotPresent
<1>6. id[1] \notin ReadKeys
  BY <1>1, <1>2 DEF RunInv, Rest, Whereabouts, Present, isPresent
<1> QED
  BY <1>1, <1>3, <1>4, <1>5, <1>6, ReadRun

\* GetBatch: every key the operations fetch was read.
LEMMA GetBatchRun ==
  ASSUME RunInv, GetBatch
  PROVE  Rest'
<1>1. /\ pc = "read" /\ Len(storage_keys) = NumReal + F
      /\ UNCHANGED <<realBst, runningKeys, cache, promiseSatisfy, storage_batch, storage_keys,
                     asked, answers>>
  BY DEF GetBatch, bstVars, storeVars, getVars
<1>2. /\ Linked(runningKeys) /\ Unfulfilled(runningKeys)
      /\ Present(runningKeys) = Fetched \cup ReadKeys
      /\ DOMAIN runningKeys.get_map \cap DOMAIN runningKeys.get_cache = {}
      /\ \A r \in DOMAIN asked : r \in DOMAIN answers \cup DOMAIN runningKeys.request_map
      /\ KeysDistinct
  BY <1>1 DEF RunInv, Rest, Tables, Whereabouts, Tracked
<1>3. pc' \in {"read", "apply"} /\ (pc' = "apply" => Len(responses') = Len(storage_keys))
  <2>1. storage_keys \in Seq(StorageIds)
    BY IndexFacts DEF RunInv
  <2> QED
    BY <1>1, <2>1 DEF GetBatch
<1>4. Tables' /\ KeysDistinct' /\ Tracked' /\ Quiet'
  <2>1. Tables'
    BY <1>1, <1>2, <1>3, TablesNext
  <2> QED
    BY <1>1, <1>2, <1>3, <2>1 DEF KeysDistinct, Tracked, Quiet
<1>5. Fetched \subseteq ReadKeys
  <2>1. /\ Len(storage_batch) <= NumReal /\ NumReal \in Nat /\ F \in Nat
        /\ DOMAIN storage_batch = 1 .. Len(storage_batch) /\ Len(storage_batch) \in Nat
        /\ DOMAIN storage_keys = 1 .. Len(storage_keys)
    BY IndexFacts, NumRealType, ConstantsAssumption DEF RunInv, IndexInv
  <2>2. ASSUME NEW n \in DOMAIN storage_batch
        PROVE  n \in DOMAIN storage_keys /\ storage_keys[n][1] = storage_batch[n]
    <3>1. n \in Awaited /\ n \in DOMAIN storage_keys /\ n <= Len(storage_batch)
      BY <1>1, <2>1 DEF Awaited
    <3> QED
      BY <1>1, <3>1 DEF RunInv, IndexInv, BatchAccounts, AwaitedKnown
  <2> QED
    BY <2>2 DEF Fetched, ReadKeys
<1>6. Whereabouts'
  <2>1. CASE pc' = "read"
    BY <1>1, <1>2, <2>1 DEF Whereabouts, Fetched, ReadKeys
  <2>2. CASE pc' = "apply"
    <3>1. Len(storage_keys) \in Nat /\ DOMAIN storage_keys = 1 .. Len(storage_keys)
      BY IndexFacts DEF RunInv
    <3>2. Cursor' = 1
      BY <1>1, <1>3, <2>2, <3>1 DEF Cursor
    <3>3. Due' = ReadKeys
      BY <1>1, <3>1, <3>2 DEF Due, ReadKeys
    <3> QED
      BY <1>1, <1>2, <1>5, <2>2, <3>3 DEF Whereabouts
  <2> QED
    BY <1>3, <2>1, <2>2
<1> QED
  BY <1>4, <1>6 DEF Rest

\* Applying a response: its key is no longer due, and its promises are to be tried.
LEMMA ApplyRun ==
  ASSUME RunInv, pc = "apply", pc' = "apply", responses # <<>>, responses' = Tail(responses),
         DOMAIN promiseSatisfy' = DOMAIN promiseSatisfy \cup {storage_keys[Cursor][1]},
         UNCHANGED <<runningKeys, storage_batch, storage_keys, asked, answers>>
  PROVE  Rest'
<1>1. /\ Linked(runningKeys) /\ Unfulfilled(runningKeys)
      /\ Present(runningKeys) \subseteq Due \cup DOMAIN promiseSatisfy
      /\ DOMAIN runningKeys.get_map \cap DOMAIN runningKeys.get_cache = {}
      /\ \A r \in DOMAIN asked : r \in DOMAIN answers \cup DOMAIN runningKeys.request_map
      /\ KeysDistinct
  BY DEF RunInv, Rest, Tables, Whereabouts, Tracked
<1>2. Tables'
  BY <1>1, TablesNext
<1>3. Cursor' = Cursor + 1 /\ Cursor \in Int /\ \A n \in DOMAIN storage_keys : n \in Int
  <2>1. responses \in Seq(Ciphertexts) /\ storage_keys \in Seq(StorageIds)
    BY DEF RunInv, IndexInv, TypeInv, TypeOK
  <2>2. Len(responses) \in Nat /\ Len(storage_keys) \in Nat /\ Len(responses') = Len(responses) - 1
    BY <2>1
  <2> QED
    BY <2>1, <2>2 DEF Cursor
<1>4. \A n \in DOMAIN storage_keys : n >= Cursor => n = Cursor \/ n >= Cursor'
  BY <1>3
<1>5. Due \subseteq Due' \cup {storage_keys[Cursor][1]}
  BY <1>4 DEF Due
<1>6. Whereabouts'
  BY <1>1, <1>5 DEF Whereabouts
<1> QED
  BY <1>1, <1>2, <1>6 DEF Rest, KeysDistinct, Tracked, Quiet

\* PutBatch: no response is left.
LEMMA PutBatchRun ==
  ASSUME RunInv, PutBatch
  PROVE  Rest'
<1>1. /\ pc = "apply" /\ pc' = "clear" /\ responses = <<>>
      /\ UNCHANGED <<runningKeys, promiseSatisfy, storage_keys, asked, answers>>
  BY DEF PutBatch, batchVars, getVars
<1>2. /\ Linked(runningKeys) /\ Unfulfilled(runningKeys)
      /\ Present(runningKeys) \subseteq Due \cup DOMAIN promiseSatisfy
      /\ DOMAIN runningKeys.get_map \cap DOMAIN runningKeys.get_cache = {}
      /\ \A r \in DOMAIN asked : r \in DOMAIN answers \cup DOMAIN runningKeys.request_map
      /\ KeysDistinct
  BY <1>1 DEF RunInv, Rest, Tables, Whereabouts, Tracked
<1>3. Due = {}
  <2>1. /\ Len(storage_keys) \in Nat /\ DOMAIN storage_keys = 1 .. Len(storage_keys)
        /\ Len(responses) = 0
    BY <1>1, IndexFacts DEF RunInv
  <2> QED
    BY <2>1 DEF Due, Cursor
<1>4. Tables'
  BY <1>1, <1>2, TablesNext
<1> QED
  BY <1>1, <1>2, <1>3, <1>4 DEF Rest, Whereabouts, Present, KeysDistinct, Tracked, Quiet

\* ClearPromises: the requests that have all their keys now are answered and erased.
LEMMA ClearPromisesRun ==
  ASSUME RunInv, NEW k, ClearPromises(k)
  PROVE  Rest'
<1> DEFINE v == promiseSatisfy[k]
           n == Arrived(runningKeys, k, v)
           done == FulfilledBy(runningKeys, k, v)
<1>1. /\ pc = "clear" /\ pc' = "clear" /\ status = "up" /\ k \in DOMAIN promiseSatisfy
      /\ DOMAIN promiseSatisfy' = DOMAIN promiseSatisfy \ {k}
      /\ UNCHANGED <<storage_keys, asked>>
  BY DEF ClearPromises, Erase, getVars
<1>2. /\ Linked(runningKeys) /\ Unfulfilled(runningKeys)
      /\ runningKeys.m_map_ \cup (DOMAIN runningKeys.get_map \ DOMAIN runningKeys.get_cache)
           \subseteq DOMAIN promiseSatisfy
      /\ DOMAIN runningKeys.get_map \cap DOMAIN runningKeys.get_cache
           \cap DOMAIN promiseSatisfy = {}
      /\ \A r \in DOMAIN asked : r \in DOMAIN answers \cup DOMAIN runningKeys.request_map
      /\ KeysDistinct
  BY <1>1 DEF RunInv, Rest, Tables, Whereabouts, Tracked
<1>3. KeysDistinct' /\ Quiet'
  BY <1>1, <1>2 DEF KeysDistinct, Quiet
<1>4. CASE staleRequest(runningKeys, k, v)
  <2>1. status' = "crashed" /\ UNCHANGED <<runningKeys, answers>>
    BY <1>4 DEF ClearPromises
  <2>2. Tables'
    BY <1>1, <1>2, <2>1, TablesNext
  <2> QED
    BY <1>1, <1>2, <1>3, <2>1, <2>2 DEF Rest, Whereabouts, Tracked
<1>5. CASE ~staleRequest(runningKeys, k, v)
  <2>1. /\ runningKeys' = IF done = {} THEN n ELSE Forget(n, done)
        /\ DOMAIN answers' = DOMAIN answers \cup done
    BY <1>5 DEF ClearPromises, tryClearPromises, Answered
  <2>2. k \notin DOMAIN runningKeys.get_map \cap DOMAIN runningKeys.get_cache
    BY <1>1, <1>2
  <2> HIDE DEF v
  <2>3. /\ Linked(n) /\ n.m_map_ = runningKeys.m_map_ \ {k}
        /\ n.get_map = runningKeys.get_map /\ n.request_map = runningKeys.request_map
        /\ DOMAIN n.get_cache = DOMAIN runningKeys.get_cache
                                  \cup (IF k \in DOMAIN runningKeys.get_map THEN {k} ELSE {})
        /\ done = {r \in DOMAIN n.request_map : isFulfilled(n, r)}
    BY <1>2, <2>2, ArrivedLinked
  <2> HIDE DEF n, done
  <2>4. /\ Linked(runningKeys') /\ Unfulfilled(runningKeys')
        /\ runningKeys'.m_map_ = n.m_map_
        /\ DOMAIN runningKeys'.request_map = DOMAIN n.request_map \ done
        /\ DOMAIN runningKeys'.get_map \subseteq DOMAIN n.get_map
        /\ DOMAIN runningKeys'.get_cache \subseteq DOMAIN n.get_cache
        /\ DOMAIN runningKeys'.get_map \ DOMAIN runningKeys'.get_cache
             = DOMAIN n.get_map \ DOMAIN n.get_cache
    <3>1. CASE done = {}
      BY <2>1, <2>3, <3>1 DEF Unfulfilled
    <3>2. CASE done # {}
      <4>1. runningKeys' = Forget(n, done)
        BY <2>1, <3>2
      <4>2. /\ Linked(runningKeys') /\ runningKeys'.m_map_ = n.m_map_
            /\ DOMAIN runningKeys'.request_map = DOMAIN n.request_map \ done
            /\ DOMAIN runningKeys'.get_map \subseteq DOMAIN n.get_map
            /\ DOMAIN runningKeys'.get_cache \subseteq DOMAIN n.get_cache
            /\ DOMAIN runningKeys'.get_map \ DOMAIN runningKeys'.get_cache
                 = DOMAIN n.get_map \ DOMAIN n.get_cache
            /\ \A r \in DOMAIN runningKeys'.request_map :
                 ~isFulfilled(n, r) => ~isFulfilled(runningKeys', r)
        BY <2>3, <4>1, ForgetLinked
      <4>3. Unfulfilled(runningKeys')
        BY <2>3, <4>2 DEF Unfulfilled
      <4> QED
        BY <4>2, <4>3
    <3> QED
      BY <3>1, <3>2
  <2>5. Tables'
    <3>1. DOMAIN runningKeys'.get_map \cap DOMAIN runningKeys'.get_cache
            \cap DOMAIN promiseSatisfy' = {}
      BY <1>1, <1>2, <2>3, <2>4
    <3> QED
      BY <1>1, <2>4, <3>1, TablesNext
  <2>6. Whereabouts'
    <3>1. runningKeys'.m_map_ \cup (DOMAIN runningKeys'.get_map \ DOMAIN runningKeys'.get_cache)
            \subseteq DOMAIN promiseSatisfy'
      BY <1>1, <1>2, <2>3, <2>4
    <3> QED
      BY <1>1, <3>1 DEF Whereabouts
  <2>7. Tracked'
    BY <1>1, <1>2, <2>1, <2>3, <2>4 DEF Tracked
  <2> QED
    BY <1>3, <2>5, <2>6, <2>7 DEF Rest
<1> QED
  BY <1>4, <1>5

\* A map without entries is the empty map.
LEMMA NoEntries ==
  ASSUME NEW m, NEW K, NEW V, IsMap(m, K, V), DOMAIN m = {}
  PROVE  m = EmptyMap
BY DEF IsMap, EmptyMap

\* FinishBatch: a request that still waited would wait for a key that has not arrived,
\* and all have.
LEMMA FinishBatchRun ==
  ASSUME RunInv, FinishBatch
  PROVE  Rest'
<1>1. /\ pc = "clear" /\ pc' = "collect" /\ status = "up" /\ promiseSatisfy = EmptyMap
      /\ storage_batch' = <<>> /\ storage_keys' = <<>>
      /\ asked' = EraseAll(asked, DOMAIN answers)
      /\ UNCHANGED <<runningKeys, keys_to_be_deleted>>
  BY DEF FinishBatch, storeVars
<1>2. DOMAIN promiseSatisfy = {} /\ DOMAIN EmptyMap = {}
  BY <1>1 DEF EmptyMap
<1>3. /\ Linked(runningKeys) /\ Unfulfilled(runningKeys)
      /\ runningKeys.m_map_ = {}
      /\ DOMAIN runningKeys.get_map \subseteq DOMAIN runningKeys.get_cache
      /\ \A r \in DOMAIN asked : r \in DOMAIN answers \cup DOMAIN runningKeys.request_map
  BY <1>1, <1>2 DEF RunInv, Rest, Tables, Whereabouts, Tracked
<1>4. DOMAIN runningKeys.request_map = {}
  <2>1. ASSUME NEW r \in DOMAIN runningKeys.request_map
        PROVE  FALSE
    <3>1. PICK k \in runningKeys.request_map[r] : k \notin DOMAIN runningKeys.get_cache
      BY <1>3 DEF Unfulfilled, isFulfilled, At
    <3>2. k \in DOMAIN runningKeys.get_map
      BY <1>3, <3>1 DEF Linked
    <3> QED
      BY <1>3, <3>1, <3>2
  <2> QED
    BY <2>1
<1>5. DOMAIN runningKeys.get_map = {} /\ DOMAIN runningKeys.get_cache = {}
  BY <1>3, <1>4 DEF Linked
<1>6. runningKeys = EmptyRunning
  <2>1. RunningOK(runningKeys)
    BY DEF RunInv, IndexInv, TypeInv, TypeOK
  <2>2. /\ runningKeys.get_map = EmptyMap /\ runningKeys.request_map = EmptyMap
        /\ runningKeys.get_cache = EmptyMap
    BY <1>4, <1>5, <2>1, NoEntries DEF RunningOK
  <2>3. runningKeys = [m_map_ |-> runningKeys.m_map_, get_map |-> runningKeys.get_map,
                       request_map |-> runningKeys.request_map,
                       get_cache |-> runningKeys.get_cache]
    BY <2>1 DEF RunningOK
  <2> QED
    BY <1>3, <2>2, <2>3 DEF EmptyRunning
<1>7. keys_to_be_deleted = {}
  BY <1>3 DEF RunInv, IndexInv, BatchAccounts, DoomedRunning
<1>8. asked' = EmptyMap
  BY <1>1, <1>3, <1>4 DEF EraseAll, EmptyMap
<1>9. Tables'
  BY <1>1, <1>3, <1>5, TablesNext
<1>10. Whereabouts'
  BY <1>1, <1>3, <1>5 DEF Whereabouts, Present, Fetched
<1>11. KeysDistinct' /\ Tracked' /\ Quiet'
  BY <1>1, <1>2, <1>6, <1>7, <1>8 DEF KeysDistinct, Tracked, Quiet
<1> QED
  BY <1>9, <1>10, <1>11 DEF Rest

\* A step of the clear thread, or of the consumer waiting for an operation.
LEMMA OtherRun ==
  ASSUME RunInv, UNCHANGED vars \/ ClearThread
  PROVE  Rest'
<1>1. UNCHANGED <<realBst, cache, runningKeys, keys_to_be_deleted, pc, i, request_id, asked,
                  answers, storage_batch, storage_keys, responses, promiseSatisfy, status>>
  BY DEF ClearThread, vars, bstVars, storeVars, getVars, batchVars
<1>2. LiveKeys' = LiveKeys
  BY <1>1, LiveSame DEF RunInv
<1>3. Tables'
  BY <1>1, <1>2, TablesSame DEF RunInv, Rest
<1>4. Fetched' = Fetched /\ ReadKeys' = ReadKeys /\ Due' = Due
  BY <1>1 DEF Fetched, ReadKeys, Due, Cursor
<1> QED
  BY <1>1, <1>3, <1>4 DEF RunInv, Rest, Whereabouts, KeysDistinct, Tracked, Quiet

\* Every step keeps the invariant.
LEMMA NextRun ==
  ASSUME RePut = FALSE
  PROVE  RunInv /\ [Next]_vars => RunInv'
<1> SUFFICES ASSUME RunInv, [Next]_vars
             PROVE  RunInv'
  OBVIOUS
<1>1. IndexInv'
  BY NextIndex DEF RunInv
<1>2. SUFFICES Rest'
  BY <1>1 DEF RunInv
<1>3. CASE UNCHANGED vars \/ ClearThread
  BY <1>3, OtherRun
<1>4. CASE Poll
  BY <1>3, <1>4 DEF Poll
<1>5. CASE Pop
  BY <1>5, PopGetRun, PopPutRun DEF Pop
<1>6. CASE SubGet
  BY <1>6, SubGetRun
<1>7. CASE ApplyReal \/ ApplyFake
  <2>1. /\ pc = "apply" /\ pc' = "apply" /\ responses # <<>> /\ responses' = Tail(responses)
        /\ DOMAIN promiseSatisfy' = DOMAIN promiseSatisfy \cup {storage_keys[Cursor][1]}
        /\ UNCHANGED <<runningKeys, storage_batch, storage_keys, asked, answers>>
    BY <1>7 DEF ApplyReal, ApplyFake, Assign, getVars
  <2> QED
    BY <2>1, ApplyRun
<1>8. CASE ExecuteBatch /\ ~ApplyReal /\ ~ApplyFake
  BY <1>1, <1>8, StartBatchRun, ReadOperationRun, ReadFakeRealRun, ReadFakeRun, GetBatchRun,
     PutBatchRun, FinishBatchRun, ClearPromisesRun
  DEF ExecuteBatch
<1> QED
  BY <1>3, <1>4, <1>5, <1>6, <1>7, <1>8 DEF Next, ExecuteBatch

\* With PUTs in time order, the invariant holds in every reachable state.
LEMMA RunInvariant ==
  ASSUME RePut = FALSE
  PROVE  Spec => []RunInv
<1>1. RunInv /\ [Next]_vars => RunInv'
  BY NextRun
<1> QED
  BY <1>1, InitRun, PTL DEF Spec

\* With PUTs in time order, for every batch size and every interleaving: when a batch is
\* over, no key is marked as running, no request waits, no bucket is still to be deleted
\* and no evicted entry is held.
THEOREM BatchesDrain ==
  ASSUME RePut = FALSE
  PROVE  Spec => []Drained
<1>1. RunInv => Drained
  <2>1. ASSUME RunInv, pc = "collect"
        PROVE  EvictedItems = EmptyMap
    BY <2>1, NoEntries DEF RunInv, IndexInv, TypeInv, TypeOK, BatchAccounts, EvictedWritten
  <2> QED
    BY <2>1 DEF RunInv, Rest, Quiet, Drained
<1> QED
  BY <1>1, RunInvariant, PTL
=============================================================================
