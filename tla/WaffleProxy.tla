---------------------------- MODULE WaffleProxy ----------------------------
(***************************************************************************)
(* waffle_proxy (proxy/src/waffle_proxy.cpp): the consumer thread, which   *)
(* collects operations into a batch and executes it against the storage    *)
(* server, and the clear thread, which deletes the storage ids a batch has *)
(* consumed.  There is one consumer (num_cores = 1).                       *)
(*                                                                         *)
(* A real key is <<item, timestamp>>; a fake key is <<0, n>>.  The storage *)
(* id prf(key + "#" + frequency) is <<key, frequency>>: the PRF is taken   *)
(* to be injective.  A payload is <<key, version>>: which bucket it was    *)
(* put for, and which of the payloads put for it.                          *)
(*                                                                         *)
(* The two threads share the storage server and keysNotUsed; everything    *)
(* else belongs to the consumer, whose program order is `pc'.              *)
(***************************************************************************)
EXTENDS FrequencySmoother, Cache, RunningKeys, FiniteSets

CONSTANTS
  Items,        \* item names, as positive numbers
  Stamps,       \* bucket timestamps that clients use
  Ranges,       \* the <<start, end>> ranges of GETs
  Versions,     \* payloads of a PUT for one key
  HasNul,       \* the versions whose serialized bytes hold a NUL byte
  InitKeys,     \* the buckets init() loads
  InitVersion,  \* and their payload
  B, R, F, D,   \* batch size, requests per batch, fakes per batch, fake keys
  CacheSize,    \* cacheCapacity of init(): keys cached at start
  RePut,        \* TRUE: PUTs may name any key; FALSE: PUTs append to an item
  SizeMax,      \* the modulus of size_t
  MaxBatches,   \* bound on timeStamp
  MaxRequests   \* bound on request_id

RealKeys == Items \X Stamps
FakeKeys == {0} \X (1 .. D)
NoKey    == <<0, 0>>       \* the empty string evicted from an empty cache
Keys     == RealKeys \cup FakeKeys \cup {NoKey}
Cut      == -1             \* what is left of a payload that held a NUL byte
Payloads == Keys \X (Versions \cup {InitVersion, Cut})
NoValue  == <<NoKey, Cut>>
NoRecord == EmptyMap       \* invalid_key_response_: the answer without a bucket

ASSUME ConstantsAssumption ==
  /\ Items \subseteq Nat \ {0}
  /\ Stamps \subseteq Nat
  /\ Ranges \subseteq Nat \X Nat
  /\ Versions \subseteq Nat /\ InitVersion \in Nat /\ HasNul \subseteq Nat
  /\ InitKeys \subseteq RealKeys
  /\ B \in Nat /\ R \in Nat \ {0} /\ F \in Nat /\ D \in Nat
  /\ F <= D /\ F <= B
  /\ CacheSize \in Nat
  /\ SizeMax \in Nat \ {0} /\ B < SizeMax
  /\ RePut \in BOOLEAN
  /\ MaxBatches \in Nat /\ MaxRequests \in Nat

VARIABLES
  realBst, fakeBst,      \* FrequencySmoother records
  cache,                 \* LRU list of <<key, payload>>
  EvictedItems,          \* key -> payload, between eviction and put_batch
  runningKeys,           \* RunningKeys record
  keys_to_be_deleted,    \* a vector, searched and erased by value: a set
  timeStamp,             \* number of batches started
  pc,                    \* where the consumer thread is
  i,                     \* sub-operations collected for this batch
  request_id,            \* id of the next GET
  split,                 \* keys of the GET being split, not yet handled
  storage_batch,         \* keys the batch's operations must fetch
  storage_keys,          \* storage ids the batch reads
  responses,             \* get_batch's answers not yet applied
  writeBatch,            \* storage id -> ciphertext for put_batch
  promiseSatisfy,        \* key -> payload, promises not yet tried
  server,                \* the Redis server: storage id -> ciphertext
  keysNotUsed,           \* queue of id vectors for the clear thread
  status,                \* "up", or "crashed" after a fatal error
  asked,                 \* history: GET -> the buckets it was split into
  answers,               \* history: GET -> what its promise was set to
  broken,                \* history: GETs whose promise was dropped unset
  seen                   \* history: every storage id the server was asked for

bstVars   == <<realBst, fakeBst>>
storeVars == <<cache, EvictedItems, keys_to_be_deleted>>
batchVars == <<storage_batch, storage_keys, responses, writeBatch, promiseSatisfy>>
getVars   == <<request_id, split, asked, broken>>
vars == <<bstVars, storeVars, runningKeys, timeStamp, pc, i, getVars, batchVars,
          server, keysNotUsed, status, answers, seen>>

-----------------------------------------------------------------------------
(* Encryption: encryptNonDeterministic appends "#" and a random suffix and   *)
(* encrypts; decryptNonDeterministic decrypts up to the first NUL byte and   *)
(* then drops everything from the last "#" on, so a payload with a NUL byte  *)
(* comes back as a shorter one.                                              *)

encryptNonDeterministic(v) == [sealed |-> v]

\* Fault: more than the suffix is removed.
decryptShort(c) == <<c.sealed[1], Cut - 1>>

decryptNonDeterministic(c) ==
  IF c.sealed[2] \in HasNul THEN <<c.sealed[1], Cut>> ELSE c.sealed

Ciphertexts == {encryptNonDeterministic(v) : v \in Payloads}
StorageIds  == Keys \X Nat

-----------------------------------------------------------------------------
(* get_split_keys: the buckets of the item up to `end', from the last one    *)
(* that starts before `start' (or the first) on.                             *)

\* Fault: the bucket that starts at `end' is left out.
splitExclusive(s, item, start, end) ==
  {<<item, t>> : t \in {u \in StampsOf(s, item) : start <= u /\ u < end}}

get_split_keys(s, item, start, end) ==
  LET T     == StampsOf(s, item)
      Below == {t \in T : t < start}
  IN  {<<item, t>> : t \in {u \in T : u <= end /\ \A b \in Below : b <= u}}

\* Where the payload of a bucket is: the cache, EvictedItems, or the server,
\* under the id this batch reads or else the current one.
InFlight == {storage_keys[n] : n \in {m \in DOMAIN storage_keys :
               pc = "read" \/ (pc = "apply" /\ m > Len(storage_keys) - Len(responses))}}
IdOf(k) ==
  IF \E id \in InFlight : id[1] = k
    THEN CHOOSE id \in InFlight : id[1] = k
    ELSE <<k, getFrequency(realBst, k)>>
Held(k) == k \in CacheKeys(cache) \/ k \in DOMAIN EvictedItems
HeldValue(k) == IF k \in CacheKeys(cache) THEN CachedValue(cache, k)
                                          ELSE EvictedItems[k]
Content(k) == IF Held(k) THEN HeldValue(k)
                         ELSE decryptNonDeterministic(server[IdOf(k)])

LiveKeys == UNION {{item} \X realBst.stamps[item] : item \in DOMAIN realBst.stamps}

-----------------------------------------------------------------------------
(* init: every loaded bucket enters realBst with frequency 0; a random       *)
(* CacheSize of them go to the cache, the others and the fakes to the server.*)

Placements == {c \in [1 .. CacheSize -> InitKeys] :
                 \A m, n \in 1 .. CacheSize : c[m] = c[n] => m = n}

LoadedStamps ==
  [item \in {k[1] : k \in InitKeys} |-> {k[2] : k \in {j \in InitKeys : j[1] = item}}]

\* The smoother after insert() of every key in K.
Loaded(K, stamps) == [accessFreqs |-> [k \in K |-> 0],
                      accessTree  |-> K \X {0},
                      stamps      |-> stamps]

Init ==
  /\ realBst = Loaded(InitKeys, LoadedStamps)
  /\ fakeBst = Loaded(FakeKeys, EmptyMap)
  /\ \E c \in Placements :
       /\ cache = [n \in 1 .. CacheSize |-> <<c[n], <<c[n], InitVersion>>>>]
       /\ server = [id \in ((InitKeys \ {c[n] : n \in 1 .. CacheSize}) \cup FakeKeys) \X {0}
                      |-> encryptNonDeterministic(<<id[1], InitVersion>>)]
  /\ EvictedItems = EmptyMap
  /\ runningKeys = EmptyRunning
  /\ keys_to_be_deleted = {}
  /\ timeStamp = 0 /\ pc = "collect" /\ i = 0 /\ request_id = 0 /\ split = {}
  /\ storage_batch = <<>> /\ storage_keys = <<>> /\ responses = <<>>
  /\ writeBatch = EmptyMap /\ promiseSatisfy = EmptyMap
  /\ keysNotUsed = <<>> /\ status = "up"
  /\ asked = EmptyMap /\ answers = EmptyMap /\ broken = {} /\ seen = {}

-----------------------------------------------------------------------------
(* consumer_thread's inner loop: pop operations until R sub-operations are   *)
(* in the batch.  Which operation the queue holds is the environment's       *)
(* choice.                                                                   *)

Collecting ==
  /\ status = "up" /\ pc = "collect" /\ i < R

\* The operation queue is empty: the loop spins.
Poll == Collecting /\ UNCHANGED vars

\* A GET is popped and split into the buckets of its range.  With none, no
\* sub-operation refers to the promise, which is destroyed unset.
PopGet(item, start, end) ==
  /\ Collecting
  /\ timeStamp < MaxBatches /\ request_id < MaxRequests
  /\ split' = get_split_keys(realBst, item, start, end)
  /\ realBst' = TouchStamps(realBst, item)
  /\ IF split' = {}
       THEN /\ broken' = broken \cup {request_id}
            /\ request_id' = request_id + 1
            /\ UNCHANGED <<pc, asked>>
       ELSE /\ pc' = "split"
            /\ asked' = Assign(asked, request_id, [k \in split' |-> Content(k)])
            /\ UNCHANGED <<broken, request_id>>
  /\ UNCHANGED <<fakeBst, storeVars, runningKeys, timeStamp, i, batchVars,
                 server, keysNotUsed, status, answers, seen>>

\* create_security_batch for the next bucket of the GET being split: refused
\* when the bucket is unknown, taken from the cache, or registered and fetched
\* by this batch.
SubGet ==
  /\ status = "up" /\ pc = "split"
  /\ LET k == CHOOSE k \in split : \A j \in split : k[2] <= j[2]
     IN  /\ split' = split \ {k}
         /\ IF ~KeyExists(realBst, k)
              THEN /\ answers' = Assign(answers, request_id, NoRecord)
                   /\ status' = IF request_id \in DOMAIN answers THEN "crashed" ELSE "up"
                   /\ UNCHANGED <<runningKeys, storage_batch>>
            ELSE IF Held(k)
              THEN /\ runningKeys' = insert_cache(runningKeys, request_id, k, HeldValue(k))
                   /\ status' = IF cacheConflict(runningKeys, k, HeldValue(k))
                                  THEN "crashed" ELSE "up"
                   /\ UNCHANGED <<storage_batch, answers>>
              ELSE /\ runningKeys' = insertGet(runningKeys, k, request_id)
                   /\ storage_batch' = IF isPresent(runningKeys, k) THEN storage_batch
                                       ELSE Append(storage_batch, k)
                   /\ UNCHANGED <<status, answers>>
  /\ i' = i + 1
  /\ IF split' = {} THEN pc' = "collect" /\ request_id' = request_id + 1
                    ELSE UNCHANGED <<pc, request_id>>
  /\ UNCHANGED <<bstVars, storeVars, timeStamp, asked, broken, storage_keys, responses,
                 writeBatch, promiseSatisfy, server, keysNotUsed, seen>>

\* With RePut FALSE, clients put buckets in time order, as the trace generator does.
Puttable(k) == RePut \/ \A t \in StampsOf(realBst, k[1]) : t < k[2]

\* remove_oldest_data(currentKey) found its bucket `old' in the cache (or in
\* EvictedItems): the bucket goes at once.  Otherwise it is fetched by this
\* batch, to be dropped when it arrives.
DropHeld(old) ==
  /\ EvictedItems' = Erase(EvictedItems, old)
  /\ UNCHANGED <<runningKeys, keys_to_be_deleted, storage_batch>>

\* Fault: the doomed bucket is not marked as running.
DropUnmarked(old) ==
  /\ storage_batch' = IF isPresent(runningKeys, old) THEN storage_batch
                                                     ELSE Append(storage_batch, old)
  /\ keys_to_be_deleted' = keys_to_be_deleted \cup {old}
  /\ UNCHANGED <<EvictedItems, runningKeys>>

DropLater(old) ==
  /\ storage_batch' = IF isPresent(runningKeys, old) THEN storage_batch
                                                     ELSE Append(storage_batch, old)
  /\ runningKeys' = insertIfNotPresent(runningKeys, old)
  /\ keys_to_be_deleted' = keys_to_be_deleted \cup {old}
  /\ UNCHANGED EvictedItems

\* A PUT is popped: create_security_batch removes the item's oldest bucket and
\* caches the new one.  The oldest bucket of an item without buckets is
\* begin() of an empty set.
PopPut(k, version) ==
  /\ Collecting
  /\ timeStamp < MaxBatches
  /\ Puttable(k)
  /\ IF StampsOf(realBst, k[1]) = {}
       THEN /\ status' = "crashed"
            /\ UNCHANGED <<realBst, storeVars, runningKeys, storage_batch>>
       ELSE LET old   == getOldestKey(realBst, k)
                drop  == Held(old)
                left  == IF drop /\ old \notin DOMAIN EvictedItems
                           THEN removeFromCache(cache, old) ELSE cache
                known == IF drop THEN removeKey(realBst, old) ELSE realBst
            IN  /\ IF drop THEN DropHeld(old) ELSE DropLater(old)
                /\ cache' = insertIntoCache(left, k, <<k, version>>)
                /\ realBst' = setFrequency(insert(known, k), k, timeStamp)
                /\ UNCHANGED status
  /\ i' = i + 1
  /\ UNCHANGED <<fakeBst, timeStamp, pc, getVars, storage_keys, responses, writeBatch,
                 promiseSatisfy, server, keysNotUsed, answers, seen>>

-----------------------------------------------------------------------------
(* The end of consumer_thread's loop and execute_batch.                      *)

\* The answers of the requests in `done', as clearPromises sets them.
Answered(rk, done) ==
  [r \in DOMAIN answers \cup done |-> IF r \in done THEN Answer(rk, r) ELSE answers[r]]

\* R sub-operations are collected: the GETs that the cache alone satisfies are
\* answered, and the batch gets its number.
StartBatch ==
  /\ status = "up" /\ pc = "collect" /\ i >= R
  /\ answers' = Answered(runningKeys, FulfilledAll(runningKeys))
  /\ runningKeys' = tryClearAllPromises(runningKeys)
  /\ timeStamp' = timeStamp + 1
  /\ pc' = "read"
  /\ UNCHANGED <<bstVars, storeVars, i, getVars, batchVars, server, keysNotUsed,
                 status, seen>>

\* How many real keys are read besides the operations' own, in size_t arithmetic,
\* and how many real keys are read in all.
\* Fault: off by one.
FakeRealsShort == (B - (Len(storage_batch) + F + 1)) % SizeMax

FakeReals == (B - (Len(storage_batch) + F)) % SizeMax
NumReal   == Len(storage_batch) + FakeReals

\* One operation's key: its current id is read, the next id is fixed.
ReadOperation ==
  /\ status = "up" /\ pc = "read"
  /\ Len(storage_keys) < Len(storage_batch)
  /\ LET k == storage_batch[Len(storage_keys) + 1]
     IN  /\ storage_keys' = Append(storage_keys, <<k, getFrequency(realBst, k)>>)
         /\ realBst' = setFrequency(realBst, k, timeStamp)
  /\ UNCHANGED <<fakeBst, storeVars, runningKeys, timeStamp, pc, i, getVars, storage_batch,
                 responses, writeBatch, promiseSatisfy, server, keysNotUsed, status,
                 answers, seen>>

\* Fault: a key in the cache counts as on the server.
OnServerOrCached == {e \in realBst.accessTree : e[1] \notin DOMAIN EvictedItems}

\* The entries of accessTree whose keys are on the server only.
OnServer == {e \in realBst.accessTree :
               e[1] \notin CacheKeys(cache) /\ e[1] \notin DOMAIN EvictedItems}

\* One real key nobody asked for: the first in accessTree that is neither held
\* nor already in the batch.  The iterator inserts every server key it passes
\* into runningKeys, and runs past the end of the tree when none is left.
ReadFakeReal ==
  /\ status = "up" /\ pc = "read"
  /\ Len(storage_keys) >= Len(storage_batch) /\ Len(storage_keys) < NumReal
  /\ LET free == {e \in OnServer : ~isPresent(runningKeys, e[1])}
         e    == FirstEntry(free)
         k    == e[1]
         past == {f \in OnServer : f = e \/ freqCmp(f, e)}
     IN  IF free = {}
           THEN status' = "crashed" /\ UNCHANGED <<realBst, runningKeys, storage_keys>>
           ELSE /\ storage_keys' = Append(storage_keys, <<k, getFrequency(realBst, k)>>)
                /\ realBst' = setFrequency(realBst, k, timeStamp)
                /\ runningKeys' = insertAllIfNotPresent(runningKeys, {f[1] : f \in past})
                /\ UNCHANGED status
  /\ UNCHANGED <<fakeBst, storeVars, timeStamp, pc, i, getVars, storage_batch, responses,
                 writeBatch, promiseSatisfy, server, keysNotUsed, answers, seen>>

\* One fake key: the least recently read.
ReadFake ==
  /\ status = "up" /\ pc = "read"
  /\ Len(storage_keys) >= NumReal /\ Len(storage_keys) < NumReal + F
  /\ LET k == getKeyWithMinFrequency(fakeBst)
     IN  /\ ~isPresent(runningKeys, k)
         /\ runningKeys' = insertIfNotPresent(runningKeys, k)
         /\ storage_keys' = Append(storage_keys, <<k, getFrequency(fakeBst, k)>>)
         /\ fakeBst' = setFrequency(fakeBst, k, timeStamp)
  /\ UNCHANGED <<realBst, storeVars, timeStamp, pc, i, getVars, storage_batch, responses,
                 writeBatch, promiseSatisfy, server, keysNotUsed, status, answers, seen>>

\* get_batch: one MGET.  The nil reply for an absent id is not a string, and
\* the exception ends the process.
GetBatch ==
  /\ status = "up" /\ pc = "read"
  /\ Len(storage_keys) = NumReal + F
  /\ LET ids == {storage_keys[n] : n \in DOMAIN storage_keys}
     IN  /\ seen' = seen \cup ids
         /\ IF ids \subseteq DOMAIN server
              THEN /\ responses' = [n \in DOMAIN storage_keys |-> server[storage_keys[n]]]
                   /\ pc' = "apply"
                   /\ UNCHANGED status
              ELSE /\ status' = "crashed"
                   /\ UNCHANGED <<responses, pc>>
  /\ UNCHANGED <<bstVars, storeVars, runningKeys, timeStamp, i, getVars, storage_batch,
                 storage_keys, writeBatch, promiseSatisfy, server, keysNotUsed, answers>>

\* The position of the next response.
Cursor == Len(storage_keys) - Len(responses) + 1

\* One response for a real key: the least recently used entry leaves the cache
\* for the write batch, and the key enters the cache, unless a PUT has
\* replaced it.
ApplyReal ==
  /\ status = "up" /\ pc = "apply"
  /\ responses # <<>> /\ Cursor <= NumReal
  /\ LET lr   == LREntry(cache, <<NoKey, NoValue>>)
         bst  == Touch(realBst, lr[1])
         left == evictLRElement(cache)
         k    == storage_keys[Cursor][1]
         v    == decryptNonDeterministic(Head(responses))
     IN  /\ EvictedItems' = Assign(EvictedItems, lr[1], lr[2])
         /\ writeBatch' = Assign(writeBatch, <<lr[1], getFrequency(realBst, lr[1])>>,
                                 encryptNonDeterministic(lr[2]))
         /\ promiseSatisfy' = Assign(promiseSatisfy, k, v)
         /\ IF k \in keys_to_be_deleted
              THEN /\ realBst' = removeKey(bst, k)
                   /\ cache' = left
              ELSE /\ realBst' = bst
                   /\ cache' = insertIntoCache(left, k, IF k \in CacheKeys(left)
                                                          THEN CachedValue(left, k) ELSE v)
         /\ keys_to_be_deleted' = keys_to_be_deleted \ {k}
  /\ responses' = Tail(responses)
  /\ UNCHANGED <<fakeBst, runningKeys, timeStamp, pc, i, getVars, storage_batch,
                 storage_keys, server, keysNotUsed, status, answers, seen>>

\* One response for a fake key, written back under its next id.
ApplyFake ==
  /\ status = "up" /\ pc = "apply"
  /\ responses # <<>> /\ Cursor > NumReal
  /\ LET k == storage_keys[Cursor][1]
     IN  /\ promiseSatisfy' = Assign(promiseSatisfy, k, decryptNonDeterministic(Head(responses)))
         /\ writeBatch' = Assign(writeBatch, <<k, getFrequency(fakeBst, k)>>,
                                 encryptNonDeterministic(<<k, InitVersion>>))
  /\ responses' = Tail(responses)
  /\ UNCHANGED <<bstVars, storeVars, runningKeys, timeStamp, pc, i, getVars, storage_batch,
                 storage_keys, server, keysNotUsed, status, answers, seen>>

\* put_batch: one MSET, after which the evicted entries are forgotten.
PutBatch ==
  /\ status = "up" /\ pc = "apply" /\ responses = <<>>
  /\ server' = Merge(server, writeBatch)
  /\ EvictedItems' = EraseAll(EvictedItems, {id[1] : id \in DOMAIN writeBatch})
  /\ pc' = "clear"
  /\ UNCHANGED <<bstVars, cache, keys_to_be_deleted, runningKeys, timeStamp, i, getVars,
                 batchVars, keysNotUsed, status, answers, seen>>

\* tryClearPromises for one key of promiseSatisfy, an unordered_map.
ClearPromises(k) ==
  /\ status = "up" /\ pc = "clear"
  /\ k \in DOMAIN promiseSatisfy
  /\ LET v == promiseSatisfy[k]
     IN  IF staleRequest(runningKeys, k, v)
           THEN status' = "crashed" /\ UNCHANGED <<runningKeys, answers>>
           ELSE /\ runningKeys' = tryClearPromises(runningKeys, k, v)
                /\ answers' = Answered(Arrived(runningKeys, k, v),
                                       FulfilledBy(runningKeys, k, v))
                /\ UNCHANGED status
  /\ promiseSatisfy' = Erase(promiseSatisfy, k)
  /\ UNCHANGED <<bstVars, storeVars, timeStamp, pc, i, getVars, storage_batch, storage_keys,
                 responses, writeBatch, server, keysNotUsed, seen>>

\* The ids read go to the clear thread, and the next batch begins.  The history
\* of the answered GETs ends here.
FinishBatch ==
  /\ status = "up" /\ pc = "clear" /\ promiseSatisfy = EmptyMap
  /\ keysNotUsed' = Append(keysNotUsed, storage_keys)
  /\ pc' = "collect" /\ i' = 0
  /\ storage_batch' = <<>> /\ storage_keys' = <<>> /\ writeBatch' = EmptyMap
  /\ asked' = EraseAll(asked, DOMAIN answers)
  /\ answers' = EmptyMap
  /\ UNCHANGED <<bstVars, storeVars, runningKeys, timeStamp, request_id, split, broken,
                 responses, promiseSatisfy, server, status, seen>>

-----------------------------------------------------------------------------
\* Fault: the first id of a batch is skipped.
IdsButFirst(ids) == {ids[n] : n \in DOMAIN ids \ {1}}

\* The ids of a vector.
IdSet(ids) == {ids[n] : n \in DOMAIN ids}

\* clearThread: deletes the ids of the oldest finished batch.  Popping the vector
\* and the DEL are one step: nobody else looks at keysNotUsed.
ClearThread ==
  /\ status = "up"
  /\ keysNotUsed # <<>>
  /\ server' = EraseAll(server, IdSet(Head(keysNotUsed)))
  /\ keysNotUsed' = Tail(keysNotUsed)
  /\ UNCHANGED <<bstVars, storeVars, runningKeys, timeStamp, pc, i, getVars, batchVars,
                 status, answers, seen>>

Pop ==
  \/ \E item \in Items, r \in Ranges : PopGet(item, r[1], r[2])
  \/ \E k \in RealKeys, version \in Versions : PopPut(k, version)

ExecuteBatch ==
  \/ StartBatch \/ ReadOperation \/ ReadFakeReal \/ ReadFake \/ GetBatch
  \/ ApplyReal \/ ApplyFake \/ PutBatch \/ FinishBatch
  \/ \E k \in Keys : ClearPromises(k)

Next == Poll \/ Pop \/ SubGet \/ ExecuteBatch \/ ClearThread

Spec == Init /\ [][Next]_vars

\* The consumer keeps running, operations keep arriving, and the clear thread
\* keeps running.
Fairness == WF_vars(Pop \/ SubGet \/ ExecuteBatch) /\ WF_vars(ClearThread)
FairSpec == Spec /\ Fairness

-----------------------------------------------------------------------------
SmootherOK(s, K, N) ==
  /\ s = [accessFreqs |-> s.accessFreqs, accessTree |-> s.accessTree, stamps |-> s.stamps]
  /\ IsMap(s.accessFreqs, K \cup {NoKey}, Nat)
  /\ s.accessTree \subseteq K \X Nat
  /\ IsMap(s.stamps, N, SUBSET Stamps)

RunningOK(rk) ==
  /\ rk = [m_map_ |-> rk.m_map_, get_map |-> rk.get_map,
           request_map |-> rk.request_map, get_cache |-> rk.get_cache]
  /\ rk.m_map_ \subseteq Keys
  /\ IsMap(rk.get_map, RealKeys, SUBSET Nat)
  /\ IsMap(rk.request_map, Nat, SUBSET RealKeys)
  /\ IsMap(rk.get_cache, RealKeys, Payloads)

\* TypeOK: in particular only real buckets reach the cache, the split table and the
\* request tables, and only payloads that were put (or cut) are cached or answered.
TypeOK ==
  /\ SmootherOK(realBst, RealKeys, Items)
  /\ SmootherOK(fakeBst, FakeKeys, {})
  /\ cache \in Seq(RealKeys \X Payloads)
  /\ IsMap(EvictedItems, RealKeys \cup {NoKey}, Payloads)
  /\ RunningOK(runningKeys)
  /\ keys_to_be_deleted \subseteq RealKeys
  /\ timeStamp \in Nat
  /\ pc \in {"collect", "split", "read", "apply", "clear"}
  /\ i \in Nat
  /\ request_id \in Nat
  /\ split \subseteq RealKeys
  /\ storage_batch \in Seq(RealKeys)
  /\ storage_keys \in Seq(StorageIds)
  /\ responses \in Seq(Ciphertexts)
  /\ IsMap(writeBatch, StorageIds, Ciphertexts)
  /\ IsMap(promiseSatisfy, Keys, Payloads)
  /\ IsMap(server, StorageIds, Ciphertexts)
  /\ keysNotUsed \in Seq(Seq(StorageIds))
  /\ status \in {"up", "crashed"}
  /\ DOMAIN asked \subseteq Nat /\ DOMAIN answers \subseteq Nat
  /\ broken \subseteq Nat
  /\ seen \subseteq StorageIds

-----------------------------------------------------------------------------
(* Safety                                                                    *)

\* Is the payload of k on the server, under the id the proxy will ask for?
Stored(k) == IdOf(k) \in DOMAIN server

\* NothingLost: at every step of a batch, each bucket that realBst knows is in
\* exactly one place: the cache, the write-back buffer EvictedItems, or the server
\* under the id computed from its current frequency (execute_batch lines 393-538).
\* A bucket in none is lost; one in two would be served stale after an update.
NothingLost ==
  \A k \in LiveKeys :
    /\ Cardinality({n \in DOMAIN cache : cache[n][1] = k}) <= 1
    /\ k \in CacheKeys(cache) => k \notin DOMAIN EvictedItems /\ ~Stored(k)
    /\ k \in DOMAIN EvictedItems => ~Stored(k)
    /\ Held(k) \/ Stored(k)

\* NeverCrashes: with PUTs in time order no batch asks the server for an absent
\* id (redis::get_batch throws), runs its iterator off accessTree (line 416), hits
\* exit(1) in insert_cache, or reads a request that was already answered.
NeverCrashes == status = "up"

\* IdsFresh: no storage id is ever requested twice, within a batch or over the
\* whole run, and none is written that was ever used before.  This is what makes
\* the server's view independent of the data (execute_batch lines 393-456, 501, 527).
IdsFresh ==
  /\ \A m, n \in DOMAIN storage_keys : storage_keys[m] = storage_keys[n] => m = n
  /\ pc = "read" => \A n \in DOMAIN storage_keys : storage_keys[n] \notin seen
  /\ pc = "apply" => DOMAIN writeBatch \cap (seen \cup DOMAIN server) = {}

\* ConstantBandwidth: every batch reads exactly B ids and writes exactly B ids, F
\* of each fake, whatever the operations were.
IsFake(id) == id[1] \in FakeKeys
ConstantBandwidth ==
  pc = "apply" /\ responses = <<>> =>
    /\ Len(storage_keys) = B
    /\ Cardinality({n \in DOMAIN storage_keys : IsFake(storage_keys[n])}) = F
    /\ Cardinality(DOMAIN writeBatch) = B
    /\ Cardinality({id \in DOMAIN writeBatch : IsFake(id)}) = F

\* Drained: when a batch is over, nothing of it is left: no running key, no
\* waiting request, no bucket still to be deleted, no evicted entry.  A leftover in
\* runningKeys would keep its key out of every later batch.
Drained ==
  pc = "collect" /\ i = 0 /\ request_id \notin DOMAIN asked =>
    /\ runningKeys = EmptyRunning
    /\ keys_to_be_deleted = {}
    /\ EvictedItems = EmptyMap
    /\ asked = EmptyMap

\* The ids waiting for the clear thread.
Discarded == UNION {IdSet(keysNotUsed[m]) : m \in DOMAIN keysNotUsed}

\* DiscardedDead: the clear thread runs behind the batches and never deletes an id
\* that is current, about to be read, or about to be written (clearThread line 812).
DiscardedDead ==
  \A id \in Discarded :
    /\ id \notin DOMAIN writeBatch
    /\ id[1] \in LiveKeys => id # IdOf(id[1])
    /\ id[1] \in FakeKeys => id # <<id[1], getFrequency(fakeBst, id[1])>>

\* ConstantStorage: apart from ids on their way to deletion, the server always
\* holds the same number of objects between batches.
ConstantStorage ==
  pc = "collect" =>
    Cardinality(DOMAIN server \ Discarded) = Cardinality(InitKeys) - CacheSize + D

\* IndexAgrees: accessTree, accessFreqs and the timestamp index name the same
\* buckets with the same frequencies, although insert, setFrequency and removeKey
\* update them one by one (FrequencySmoother.cpp lines 55-134).
IndexAgrees ==
  /\ LiveKeys = DOMAIN realBst.accessFreqs \ {NoKey}
  /\ realBst.accessTree = {<<k, realBst.accessFreqs[k]>> : k \in LiveKeys}

\* The positions of storage_keys whose real key is still to be applied.
Awaited == {n \in DOMAIN storage_keys : n <= NumReal /\ (pc = "apply" => n >= Cursor)}

CacheIndexed ==
  /\ CacheKeys(cache) \subseteq LiveKeys
  /\ \A m, n \in DOMAIN cache : cache[m][1] = cache[n][1] => m = n

DoomedRunning ==
  /\ keys_to_be_deleted \subseteq runningKeys.m_map_
  /\ keys_to_be_deleted \subseteq LiveKeys \ CacheKeys(cache)
  /\ keys_to_be_deleted \cap DOMAIN promiseSatisfy = {}
  /\ pc \notin {"apply", "clear"} => DOMAIN promiseSatisfy = {}

EvictedWritten ==
  /\ DOMAIN EvictedItems \subseteq {id[1] : id \in DOMAIN writeBatch}
  /\ pc # "apply" => DOMAIN EvictedItems = {}

OperationsDistinct ==
  /\ \A m, n \in DOMAIN storage_batch : storage_batch[m] = storage_batch[n] => m = n
  /\ pc \in {"collect", "split", "read"} =>
       \A n \in DOMAIN storage_batch : storage_batch[n] \in LiveKeys
  /\ pc \in {"collect", "split"} =>
       \A n \in DOMAIN storage_batch :
         /\ storage_batch[n] \notin CacheKeys(cache)
         /\ isPresent(runningKeys, storage_batch[n])

AwaitedKnown ==
  pc \in {"read", "apply"} =>
    \A n \in Awaited :
      /\ storage_keys[n][1] \in LiveKeys
      /\ n <= Len(storage_batch) => storage_keys[n][1] = storage_batch[n]
      /\ n > Len(storage_batch) => storage_keys[n][1] \notin keys_to_be_deleted

\* BatchAccounts: what the index relies on while buckets move.  Cached buckets are
\* known, each once; a doomed bucket is known, not cached, and marked as running
\* until it has arrived; evicted entries are in the write batch; the operations of a
\* batch name different buckets; every bucket still to be applied is known, and one
\* read only as a filler is not doomed (execute_batch lines 393-538 with
\* remove_oldest_data lines 242-282).  A doomed bucket read twice would be removed
\* from the index and then cached.
BatchAccounts ==
  CacheIndexed /\ DoomedRunning /\ EvictedWritten /\ OperationsDistinct /\ AwaitedKnown

\* ItemsKeepBuckets: counting out the buckets already doomed, no sequence of PUTs
\* leaves an item with fewer buckets than it was loaded with (remove_oldest_data).
BucketCount(item) ==
  Cardinality({k \in LiveKeys \ keys_to_be_deleted : k[1] = item})
Loadeds(item) == Cardinality({k \in InitKeys : k[1] = item})
ItemsKeepBuckets == \A item \in Items : BucketCount(item) >= Loadeds(item)

\* Ceiling of a quotient.
CeilDiv(a, b) == (a + b - 1) \div b

\* The number of buckets on the server between two batches.
NumStored == Cardinality(InitKeys) - CacheSize

\* AlphaBounded: an object still to be read is at most AlphaReal batches older than
\* the current one, counted from when its id was fixed, and a fake one AlphaFake,
\* however the operations are skewed (the selection by least frequency, lines
\* 411-456; recording_alpha logs the ages).  Every batch moves B - F entries out of
\* the cache, and reads at least B - F - fetches of the oldest buckets on the server,
\* `fetches' being the most that the operations of a batch ask for: R, if every
\* operation asks for one bucket.  The cache is as large as at first unless two PUTs
\* doomed the same bucket, and the R PUTs of a batch may add to it.
AlphaFake == CeilDiv(D, F)
AlphaReal(fetches) ==
  CeilDiv(Cardinality(LiveKeys \ keys_to_be_deleted) - NumStored + R, B - F)
    + CeilDiv(NumStored, B - F - fetches)
AlphaWithin(fetches) ==
  \A id \in DOMAIN server \ seen :
    timeStamp - id[2] <= IF IsFake(id) THEN AlphaFake ELSE AlphaReal(fetches)
AlphaBounded == AlphaWithin(R)

\* PutOverwritesOldest: a PUT replaces one bucket of its item by the new one, so an
\* item always has as many buckets as it was loaded with.
PutOverwritesOldest == \A item \in Items : BucketCount(item) = Loadeds(item)

\* EveryGetResolved: no GET loses its promise, which the responder thread (or the
\* handler of a synchronous get) is waiting on.
EveryGetResolved == broken = {}

\* PayloadsKept: while nobody puts the bucket again, moving it between cache and
\* server does not change what it holds.
PayloadsKept ==
  [][\A k \in LiveKeys \cap LiveKeys' : Content(k)' = Content(k)]_vars

\* GetAnswered: a GET that was split is answered, provided operations keep arriving.
GetAnswered ==
  \A r \in 0 .. MaxRequests : r \in DOMAIN asked ~> r \in DOMAIN answers

\* IdsReclaimed: every id a batch read leaves the server again (clearThread).
IdsReclaimed ==
  \A id \in Keys \X (0 .. MaxBatches) : id \in seen ~> id \notin DOMAIN server

\* Implements: the proxy is a TimeSeriesStore whose buckets are wherever their
\* payloads are.
Store == INSTANCE TimeSeriesStore WITH
  BucketKeys <- RealKeys,
  Requests   <- 0 .. MaxRequests,
  buckets    <- [k \in LiveKeys |-> Content(k)],
  doomed     <- keys_to_be_deleted
Implements == Store!Spec
=============================================================================
