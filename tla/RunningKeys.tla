---------------------------- MODULE RunningKeys ----------------------------
(***************************************************************************)
(* ThreadSafeUnorderedMap (proxy/src/ThreadSafeUnorderedMap.h), the        *)
(* proxy's table of keys being fetched and of GETs waiting for them:       *)
(*   m_map_       the keys some part of the current batch fetches          *)
(*   get_map      key -> the request ids waiting for it                    *)
(*   request_map  request id -> the keys it was split into                 *)
(*   get_cache    key -> value, for the keys already at hand               *)
(* m_map_'s vectors of null pointers are never read, so it is a set; the   *)
(* promise of a request is identified with its request id, and the keys of *)
(* a request form a set because only their sum is ever computed.           *)
(* Every method takes the one mutex, so each is a function of the record.  *)
(***************************************************************************)
EXTENDS Integers, StdMap

EmptyRunning == [m_map_      |-> {},
                 get_map     |-> EmptyMap,
                 request_map |-> EmptyMap,
                 get_cache   |-> EmptyMap]

\* What both overloads of insertIfNotPresent return.
isPresent(rk, k) == k \in rk.m_map_ \/ k \in DOMAIN rk.get_map

insertIfNotPresent(rk, k) == [m_map_      |-> rk.m_map_ \cup {k},
                              get_map     |-> rk.get_map,
                              request_map |-> rk.request_map,
                              get_cache   |-> rk.get_cache]

\* insertIfNotPresent for each key of a set.
insertAllIfNotPresent(rk, K) == [m_map_      |-> rk.m_map_ \cup K,
                                 get_map     |-> rk.get_map,
                                 request_map |-> rk.request_map,
                                 get_cache   |-> rk.get_cache]

\* request_map[request_id].first.push_back(key)
Pushed(m, request_id, k) == Assign(m, request_id, At(m, request_id, {}) \cup {k})

\* The overload for a key that GET request_id is waiting for.
insertGet(rk, k, request_id) ==
  [m_map_      |-> rk.m_map_,
   get_map     |-> Assign(rk.get_map, k, At(rk.get_map, k, {}) \cup {request_id}),
   request_map |-> Pushed(rk.request_map, request_id, k),
   get_cache   |-> rk.get_cache]

\* insert_cache finds another value for the key and calls exit(1).
cacheConflict(rk, k, v) ==
  k \in DOMAIN rk.get_cache /\ rk.get_cache[k] # v

insert_cache(rk, request_id, k, v) ==
  [m_map_      |-> rk.m_map_,
   get_map     |-> rk.get_map,
   request_map |-> Pushed(rk.request_map, request_id, k),
   get_cache   |-> Assign(rk.get_cache, k, v)]

\* operator[] gives a request id without an entry the empty key list, which
\* counts as fulfilled.
isFulfilled(rk, request_id) ==
  At(rk.request_map, request_id, {}) \subseteq DOMAIN rk.get_cache

\* clearPromises: the values the promise's sum is computed from.
Answer(rk, request_id) ==
  [k \in rk.request_map[request_id] |-> rk.get_cache[k]]

\* Fault: the tables outlive the last request.
ForgetRequests(rk, done) ==
  [m_map_      |-> rk.m_map_,
   get_map     |-> rk.get_map,
   request_map |-> EraseAll(rk.request_map, done),
   get_cache   |-> rk.get_cache]

\* The tables after the requests in `done' were answered and erased: get_map and
\* get_cache are emptied only with the last waiting request.
Forget(rk, done) ==
  LET left == EraseAll(rk.request_map, done)
      last == DOMAIN left = {}
  IN  [m_map_      |-> rk.m_map_,
       get_map     |-> IF last THEN EmptyMap ELSE rk.get_map,
       request_map |-> left,
       get_cache   |-> IF last THEN EmptyMap ELSE rk.get_cache]

\* Fault: nobody looks for requests the cache alone satisfies.
FulfilledNone(rk) == {}

\* tryClearAllPromises
FulfilledAll(rk) == {r \in DOMAIN rk.request_map : isFulfilled(rk, r)}
tryClearAllPromises(rk) == Forget(rk, FulfilledAll(rk))

\* tryClearPromises(key, value), up to the loop over get_map[key].
Arrived(rk, k, v) ==
  [m_map_      |-> rk.m_map_ \ {k},
   get_map     |-> rk.get_map,
   request_map |-> rk.request_map,
   get_cache   |-> IF k \in DOMAIN rk.get_map THEN Assign(rk.get_cache, k, v)
                                               ELSE rk.get_cache]

\* The waiting requests that loop answers.
FulfilledBy(rk, k, v) ==
  {r \in At(rk.get_map, k, {}) \cap DOMAIN rk.request_map :
     isFulfilled(Arrived(rk, k, v), r)}

tryClearPromises(rk, k, v) ==
  LET done == FulfilledBy(rk, k, v)
  IN  IF done = {} THEN Arrived(rk, k, v) ELSE Forget(Arrived(rk, k, v), done)

\* get_map[key] names a request that is no longer in request_map and the loop
\* reaches it: it runs in increasing order and stops once request_map is empty.
\* clearPromises then reads first[0] of an empty vector.
staleRequest(rk, k, v) ==
  \E r \in At(rk.get_map, k, {}) \ DOMAIN rk.request_map :
    \/ DOMAIN rk.request_map = {}
    \/ \E q \in DOMAIN rk.request_map : q > r \/ q \notin FulfilledBy(rk, k, v)
=============================================================================
