# A TLA+ model of the Waffle time-series proxy

Waffle is an oblivious proxy between clients and an untrusted storage server
(Redis). Clients put serialized buckets of a time series and ask for the sum over
a time range; the proxy turns these operations into batches of a fixed shape, so
that what the server sees does not depend on the data asked for. This directory
models the proxy's batch engine, the way of a call through the proxy process, the
clients, and the messages between them from the trace file to the answers; checks
them with TLC on small instances; and proves the core invariants with TLAPS for all
instances.

Source paths below are relative to `src/waffle/`.

## 1. Inventory

| Component | State | Operations | Module |
|---|---|---|---|
| Batch engine, `proxy/src/waffle_proxy.cpp` | cache, `EvictedItems`, `realBst`, `fakeBst`, `runningKeys`, `keys_to_be_deleted`, `timeStamp`, `keysNotUsed` | `init`, `consumer_thread`, `create_security_batch`, `remove_oldest_data`, `get_split_keys`, `execute_batch`, `clearThread` | `WaffleProxy` |
| Frequency index, `proxy/src/FrequencySmoother.cpp` | `accessFreqs`, `accessTree`, the timestamps of each item | `insert`, `removeKey`, `setFrequency`, `getFrequency`, `getOldestKey`, `keyExists`, `get_timestamp_for_key` | `FrequencySmoother` |
| LRU cache, `proxy/src/Cache.cpp` | list of key and value | `insertIntoCache`, `getValue`, `evictLRElement`, `removeFromCache` | `Cache` |
| Table of running keys and waiting GETs, `proxy/src/ThreadSafeUnorderedMap.h` | `m_map_`, `get_map`, `request_map`, `get_cache` | `insertIfNotPresent` (two overloads), `insert_cache`, `tryClearPromises`, `tryClearAllPromises` | `RunningKeys` |
| Encryption, `proxy/src/encryption_engine.cpp` | keys | `encryptNonDeterministic`, `decryptNonDeterministic`, `prf` | in `WaffleProxy`, by effect |
| Storage client, `libstorage/src/redis.cpp` | connections | `get_batch`, `put_batch`, `delete_batch` | in `WaffleProxy`, one server |
| Thrift handlers and responder, `service/src/`, `waffle_proxy.cpp` 560-800 | pool of workers, operation queue, `respond_queue_`, `sequence_queue_`, map of response clients | `get`, `put`, their batch and `async_` forms, `register_client_id`, `search`, `responder_thread`, `async_respond_client` | `ResponsePath`; `search` in `ThriftConnection` |
| Asynchronous client, `libclient/src/async_proxy_client.cpp` | `requests_`, `in_flight_limit_`, `m_mtx_`, `m_cond_`, `done_`, `total_`, one socket for two threads | `init`, the four calls, `search`, `read_responses`, `finish` | `AsyncClient` (threads, limit, timeouts), `ThriftConnection` (messages) |
| Synchronous client, `libclient/src/proxy_client.cpp` | socket | the four calls | `ResponsePath`, `ThriftConnection` |
| Generated Thrift code, `service/src/waffle_thrift*.cpp`, `proxy_types.cpp` | none | `read` and `write` of every struct, `send_`, `recv_` and `process_` of every method, `dispatchCall` | `ThriftWire` |
| Benchmark and trace generator, `benchmark/src/TS_proxy_benchmark.cpp`, `utils/TS_value_master.h` | trace file, list of calls | `generate_TS_tracefile_binary`, `load_trace`, `run_benchmark` | `Workload`, `ThriftConnection` |
| Server program, `server/src/proxy_server.cpp` | initial keys | `main` | `Workload!InitialKeys`, constants |
| Other workload programs, serializer, unused helpers | | | not modelled, see section 8 |

How they interact. The benchmark cuts a trace file into batch calls and makes them on
one connection. A worker of the server takes the messages of a connection one by one,
and the connection's handler turns a call into operations,
each with a promise, and pushes them to the consumer's queue. For an asynchronous
call it also pushes the futures to `respond_queue_` and, for the batch forms, the
call's sequence id to `sequence_queue_`. The consumer pops operations until `R`
sub-operations are collected, a GET counting once per bucket of its range. It then
executes a batch: `B` objects are read under ids derived from the key and its
frequency, of which `F` are fake; every real answer evicts one cache entry and enters
the cache itself; `B` objects are written under new ids; the promises are set; and the
ids read go to the clear thread, which deletes them later. The responder waits for
the futures of one entry after another and sends the result over the client's own
connection, where the client's response thread counts it. Replies of two-way calls
travel on the same connection and are read by the calling thread.

What is hard, and what correctness means for each part:

* **Batch engine.** A bucket moves between cache, write-back buffer and server while
  operations name it and PUTs delete it. Every bucket must be in exactly one place,
  no id may be used twice, each batch must have the same size, objects may not rest
  on the server for an unbounded time, and the answers must be those of a plain store.
* **Frequency index.** Three containers are updated one by one and must agree.
* **Running keys.** The tables are cleared only when the last request is answered; a
  stale entry makes the next arrival read an empty vector, or call `exit(1)`.
* **Clear thread.** Its deletions run any number of batches behind.
* **Response path.** Two queues without a common lock, several producers, promises
  that may be destroyed unset, clients that go away, a pool of workers that
  synchronous calls hold while they wait.
* **Connection.** Two threads of the client read from one socket and neither can tell
  whose message comes next; answers are paired with calls by position. The queries
  must arrive as the file has them, and each answer at its call.
* **Asynchronous client.** A condition variable notified without its mutex, late
  answers behind a receive timeout, `finish` with dummy requests.

The list `hazards` of `PROJECT.json` has each of these at its line.

## 2. Modules

```
StdMap            finite maps: Assign, Erase, EraseAll, Merge (std::map, unordered_map)
FrequencySmoother, Cache, RunningKeys    the data structures, as operators on a record
TimeSeriesStore   abstract specification: what the proxy promises
WaffleProxy       EXTENDS the structures; INSTANCE TimeSeriesStore for the refinement
ResponsePath      handlers, consumer (promises only), responder
AsyncClient       calling threads, response thread
ThriftWire        messages and structs of the two Thrift services, as operators
Workload          trace file, load_trace, the proxy's initial keys, as operators
ThriftConnection  EXTENDS ThriftWire, Workload: one connection message by message
MC*               constants for TLC
WaffleProxyProofs lemmas on the data structures, type correctness of WaffleProxy
IndexProofs       EXTENDS WaffleProxyProofs: IndexAgrees, BatchAccounts, Drained
PlaceProofs       EXTENDS IndexProofs: NothingLost, IdsFresh, DiscardedDead
StoreProofs       EXTENDS PlaceProofs: the refinement of TimeSeriesStore, PayloadsKept
CountProofs       EXTENDS StoreProofs: the properties that count, NeverCrashes, AlphaBounded
ResponsePathProofs the order of responses and answers, the worker pool
AsyncClientProofs the in-flight bound and the account of calls
ThriftProofs      EXTENDS ThriftConnection: the order of calls and answers on one connection
```

### WaffleProxy

The consumer's program order is `pc`; its steps and the code:

| Action | Code |
|---|---|
| `Poll` | the inner loop of `consumer_thread` finds the queue empty |
| `PopGet`, `SubGet` | a GET is popped and split by `get_split_keys`; one sub-operation goes through `create_security_batch` |
| `PopPut` (`DropHeld`, `DropLater`) | a PUT is popped: `remove_oldest_data`, then the new bucket is cached |
| `StartBatch` | `tryClearAllPromises`, `++timeStamp` |
| `ReadOperation`, `ReadFakeReal`, `ReadFake` | the three loops that choose the ids to read |
| `GetBatch` | `get_batch`: one MGET |
| `ApplyReal`, `ApplyFake` | one response is applied |
| `PutBatch` | one MSET, and `EvictedItems` is cleared |
| `ClearPromises`, `FinishBatch` | `tryClearPromises` per key; `keysNotUsed.push` |
| `ClearThread` | the clear thread deletes the ids of one batch |

Abstractions. A key is `<<item, timestamp>>`, a fake key `<<0, n>>`. The storage id
`prf(key#frequency)` is the pair itself: the PRF is taken to be injective. A payload
is `<<key, version>>`, so a payload that ends up under the wrong key is seen.
Encryption wraps a payload; decryption unwraps it and cuts a payload with a NUL byte,
as the code does. The sum over a bucket's readings is abstracted to the map of
buckets a GET received. Where the program would throw, call `exit(1)`, wrap a
`size_t` or read an empty container, the model sets `status = "crashed"`, and
`FakeReals` is computed modulo `SizeMax`. Which operation is popped is the
environment's choice. `RePut = FALSE` restricts PUTs to buckets later than all buckets
of their item, which is the order the trace generator produces; `RePut = TRUE` lifts
the restriction. (The server loads buckets with timestamps below those of the trace,
and `num_clients` is one: the benchmark replays the trace once. Several clients
replaying the same trace would put keys twice, which is outside what the passing
runs and the index theorems cover.)

The variables `asked`, `answers`, `broken` and `seen` are history: they record what
was asked and answered and do not influence the steps. `asked` takes a GET's buckets
at the moment it is split, which is what the refinement compares its answer with.

### TimeSeriesStore

A store of buckets without batches, cache or server. `Put` adds a bucket and removes
the item's oldest one, at once or later (`doomed`, `Expire`); `Get` fixes the buckets
of a range as they are now; `Reply` answers with exactly these; `Forget` drops
answered GETs. `WaffleProxy!Implements` maps `buckets` to wherever each payload is:
the cache, `EvictedItems`, or the server under the id the proxy will ask for.

### ResponsePath

A call is `<<client, number>>`, the promise of its j-th key `<<call, j>>`. Each push
to one of the queues is a step of its own, because the code takes no lock around them.
The consumer is reduced to what it does to promises: a PUT's is set when it is taken,
a GET that is split into no bucket loses its promise, the others are set in any order
once `R` sub-operations are there. `respond_queue_`'s element type holds the
sequence id by reference and the referent is gone when the responder reads it; the
code does not use that copy, so the model leaves it out. `Threads` is the size of the
worker pool: a handler that is in a call holds a worker. Sending to a client that went
away is lost, or throws in `send_async_response`, where an added `catch` calls
`exit(1)`; the model allows both.

### AsyncClient

One step per lock, test, wait, send, push, pop, notify, receive. `requests_` is a
length: its elements are never looked at. A timed-out receive reads `_return[0]` of an
empty vector: the model lets the process end or go on. Spurious wakeups are a step.
`total_` counts responses, where the code adds the number of results of each.

### ThriftWire, Workload and ThriftConnection

`ThriftWire` gives every args and result struct its layout (field ids, types, names).
`Write` and `Read` are the generated `write` and `read`: a field is written if it is
set, taken if id and type are known, skipped otherwise. `send_X` builds the message of
a call, `process_X` says whether a method answers and with which struct, `recv_X` and
`recv_response` say what a reader makes of the next message: a value, an exception, or
undefined behaviour (`recv_X` reads on behind a message that is not its reply,
`recv_response` ends without a value).

`Workload` has the trace generator as a function of the rounds it draws, `load_trace`
as a fold over the lines with the two batches being filled, and the keys the server
starts with. Time 0 is the code's 1700000000, one unit its `object_size_`. A value is
abstracted to "bucket", and a GET's range, which the code samples, to the whole time.

`ThriftConnection` runs one of four programs over a connection: batch or single calls,
asynchronous or synchronous. The calling thread sends and, for a two-way call, reads
the next message; the response thread reads the next message after popping a request;
a worker serves the messages one by one; the responder writes to the same socket.
`search()` may be called at any time between two calls; `main.overlap` records that a
call was unanswered then. When the result of a GET is ready is left open (`ResponsePath`
and `WaffleProxy` say more): at any time after its call, or never, when its batch does
not fill; a worker in `.get()` and the responder wait for it. It may also be a broken
promise: the exception is the reply of a synchronous call, and in the responder it ends
the proxy (`RespondThrows`). Receive timeouts are in `AsyncClient`. `IdStarts` stands for
the uninitialized `client_id_gen_`.

## 3. Runs

Twelve runs; each takes less than four minutes with two workers.

| Run | Expect | Question |
|---|---|---|
| `core` | pass | all safety properties of the batch engine and the refinement |
| `alpha` | pass | how long an object rests on the server |
| `live` | pass | GETs are answered, read ids are deleted |
| `two_clients` | pass | order of answers, read-your-writes, disconnects |
| `connection` | pass | from the trace file to the answers over one connection |
| `responses_live` | pass | the worker pool; calls are answered if batches fill |
| `client` | pass | in-flight limit, account of calls, wakeups, `finish` |
| `double_put`, `empty_range`, `nul` | violation | section 7 |
| `crossed`, `stranded` | violation | section 7 |

What the properties say, and why they are not obvious:

* `NothingLost`: each known bucket is in exactly one of cache, write-back buffer and
  server, at every step. `IdsFresh`: no storage id is read twice in the whole run,
  and none is written that was used before. These two are the proxy's reason to
  exist: one keeps the data, the other keeps the server from linking two accesses.
* `ConstantBandwidth`, `ConstantStorage`: each batch reads and writes exactly `B`
  ids, `F` of them fake, and the server holds the same number of objects between
  batches, whatever the operations were.
* `IndexAgrees`, `BatchAccounts`, `ItemsKeepBuckets`, `Drained`: the indexes agree, a
  doomed bucket is known, not cached and running until it arrives, no sequence of
  PUTs takes too many buckets from an item, and nothing of a batch is left over.
* `DiscardedDead`: the clear thread, however late, deletes no id that is current.
* `NeverCrashes`: no absent id, wrapped size, stale request or `exit(1)`.
* `AlphaBounded`: with one bucket per operation an object is read again after at most
  `ceil((C + R) / (B - F)) + ceil((N - C) / (B - F - R))` batches for `N` real buckets and
  a cache of `C`, a fake one after at most `ceil(D / F)`: the first term is the way
  through the cache, the second the wait on the server. If two PUTs doom the same bucket
  (`double_put`) the cache grows, and with it the first term.
* `Implements`: every answer is that of `TimeSeriesStore`.
* `GetAnswered`, `IdsReclaimed`: the matching liveness.
* `AnsweredInOrder`, `ReadYourWrites`: a client is answered in the order of its calls
  and at most once; a GET's answer comes after its client's earlier operations, also the
  PUT batches that are acknowledged before anything is done for them.
* `PoolServes`: as long as `R` of the promises that synchronous calls wait for are unset,
  the consumer has an operation to take or a full batch to execute, whatever the number of
  workers. The code has 15 workers and `R = 800`, so synchronous calls with fewer keys than
  `R` between them can hold all workers; then nothing fills the batch, and the proxy
  stops for good. The property says that there is no other way to get there.
* `ResponseDelivered`: if the batch does not stay short of `R` forever (`Starved`), every
  asynchronous batch call is answered and every synchronous call returns. The premise
  is what the code leaves to its clients, as `flush()` is empty; without it TLC finds the
  GETs that are never answered and the workers that wait for one another. Exceptions: a
  client that went away, and the end of the proxy by a failing send to such a client or
  by a broken promise.
* `TraceArrives`: the handler gets the queries of the trace file in the file's order,
  unchanged, in batches of one kind and a legal size. `PutsInTimeOrder`: no bucket is
  put twice, nor one the proxy started with; this is the assumption `RePut = FALSE`
  of the index theorems, shown for the programs that exist.
* `MessagesUnderstood`: each thread of the client reads only what is meant for it,
  unless `search()` overlapped a call. `AnswersMatch`: the n-th answer is that of the
  n-th call and has a result for each of its queries. `Conserved`: each request that
  the client counts is one message or queue entry under way, or a response thrown away
  because the client's id is -1, and there are at most one more than the limit.
* `CallsAnswered`: if operations keep arriving (`OperationsArrive`), batch calls and
  synchronous calls are answered. The exceptions are named in the formula: single
  asynchronous calls, a client with the id -1, an overlapping `search()`, a broken promise
  in the responder. `MainReturns` has no such premise: a caller that waits for anything
  but a GET (`search()`, a PUT, its client id) returns although the result of some GET may
  never come.
* `InFlightBounded`, `FinishReturns`: the client's limit, and the end of its response
  thread. `Accounted`: every call is queued, being received, counted or given up; and the
  answers still to come exceed those awaited by exactly the number of timeouts, so
  after `k` timeouts each response is counted for the call `k` places behind its own.
* `WaiterWoken`: while requests are queued, the callers do not all wait on. Which of them
  `notify_one` wakes is not the client's choice: with several calling threads one may be
  passed over for as long as the others keep calling, so what is said of a single caller
  has the premise that the others stop at some time. With one calling thread, as in
  the benchmark, the premise always holds.

Each property of a passing run has a mutant in `PROJECT.json`: a faulty form of one
definition (named `Fault` in the modules) under which TLC finds the property violated.

## 4. Bounds

* `core`: two items of two buckets, `B = 4`, `R = 2`, `F = 1`, two fake keys, one cache
  entry, three batches and three GETs. There are four real objects, so each batch reads
  every bucket that is on the server and every kind of overlap occurs: an operation on a
  cached, an evicted, a running and a doomed bucket, PUTs that replace each of them,
  two operations on the same bucket, batches that hold GETs only or PUTs only. Three
  batches let a bucket be evicted, fetched again and evicted again, and let the clear
  thread fall two batches behind. A GET's range holds up to two buckets, and the
  timestamps leave room to replace both loaded buckets of an item.
* `alpha`: four items of one bucket, `B = 3`, five batches, so that fillers are fewer
  than the objects on the server and the oldest have to wait their turn; the bound
  is four batches. (With six buckets, `B = 4` and a cache of two, and no PUTs, TLC finds
  ages that reach the bound.)
* `live`: two batches of `R = 2`, in which at most four GETs fit, so the bound of four
  GETs never keeps a batch from filling; the behaviours end between batches.
* `two_clients`: two connections with two calls each, three kinds of call, GETs with
  and without buckets, `R = 2`, so that a batch mixes both clients. The clients are
  interchangeable; the run uses symmetry and checks invariants only.
* `connection`: three items and trace files of up to three rounds, up to nine queries;
  `client_batch_size = 2` does not divide a round, so `load_trace` flushes for a full
  batch, for a change of kind and at the end of the file. A limit of two makes the
  caller wait, one `search()` may come at any point, and `N = 7` buckets for three
  items leave a remainder. Client ids start at 0 or -1.
* `responses_live`: two connections and two workers, one call per connection of one or
  two keys, a GET with or without a bucket, and `R = 3`. Two synchronous calls may ask for
  two to four keys between them, so that both cases occur: the batch fills, or both
  workers wait for a batch that nobody can fill.
* `client`: three threads, a limit of two and five calls, so that the limit is met
  while two threads wait. The bound on the calls makes the premise of the second part
  of `WaiterWoken` true; the part that is about the callers together does not use it.

## 5. Fairness

* `WaffleProxy`: weak fairness of the consumer together with the arrival of
  operations, and of the clear thread. Both threads loop without blocking on anything
  but their queues. The arrival is an assumption about clients the code really needs:
  a batch is executed only when `R` sub-operations have come in, and `flush()` is
  empty, so without further operations a GET waits forever.
* `ResponsePath`: weak fairness of each handler, of the consumer and of the responder,
  which are threads of their own. Clients need not call, so a batch need not fill; that
  it does not stay short forever is a premise of `ResponseDelivered`, not fairness.
* `ThriftConnection`: weak fairness of the calling thread inside a call and of the
  response thread, and of the worker and the responder except where they wait for the
  result of a GET: there the code blocks until `R` sub-operations have come in from some
  client, which nothing guarantees. That these steps are taken too is `OperationsArrive`,
  the premise of `CallsAnswered`. Nobody has to make a call or to search, and the
  benchmark's time may end before its next call.
* `AsyncClient`: weak fairness of each calling thread and of the response thread, whose
  receive ends with a response or with its timeout. The proxy need not answer, nobody
  has to call or finish, and spurious wakeups are possible but not relied upon.

## 6. Proofs

All theorems hold for every value of the constants that satisfies the named
assumptions (`ConstantsAssumption`, `ResponseAssumption`, `ClientAssumption`,
`ConnectionAssumption`, `WorkloadAssumption`), which say little more than that numbers are
numbers, `F <= D`, `F <= B` and `B < SizeMax`.
What a theorem needs beyond that is a hypothesis in its statement.

* **`TypeCorrect`** (`WaffleProxyProofs`): `Spec => []TypeOK`. `TypeOK` is not
  inductive as it stands: that a filler or fake key taken from an index is a key, and
  that a response belongs to a real or a fake id, needs facts about the shape of the
  batch, which the strengthening adds. One lemma per action, after the lemmas on the
  operators of the data structures.
* **`IndexCorrect`** and **`BatchCorrect`** (`IndexProofs`): with PUTs in time order
  (`RePut = FALSE`), `Spec => []IndexAgrees` and `Spec => []BatchAccounts`. Neither is
  inductive alone. `setFrequency` and `removeKey` keep the index in agreement only for
  a key the index knows; that the keys a batch touches are known is `BatchAccounts`;
  and that they stay known while PUTs remove buckets follows from the doomed ones being
  marked as running and not cached. The inductive invariant is `TypeInv /\ IndexAgrees
  /\ BatchAccounts`; TLC checks both parts in the run `core`. Without `RePut = FALSE` the
  statement is false: `insert` of a known key leaves a ghost in `accessTree`.
* **`BatchesDrain`** (`IndexProofs`): with PUTs in time order, `Spec => []Drained`.
  A key fetched for a GET is in the table of running keys only while a request waits
  for it, because `get_map` is emptied with the last request. So the invariant `RunInv`
  has to follow the requests: each waits for exactly those of its keys that are not at
  hand, and each waiting key names at least one request that is still there (`Linked`);
  no request has all its keys once the batch runs (`Unfulfilled`); and the keys of the
  table are, phase by phase, the fetched ones, those read, those still due, those not
  yet offered to `tryClearPromises` (`Whereabouts`). From this follows that no key is
  read twice by a batch (`KeysDistinct`), which everything below rests on.
* **`BucketsInOnePlace`**, **`IdsUsedOnce`** and **`ClearThreadSafe`** (`PlaceProofs`):
  `NothingLost`, `IdsFresh` and `DiscardedDead`, with PUTs in time order and a cache
  that starts with at least one bucket. The three need one another. An id is fixed when
  its key is read and used when the key is written back, batches later, so `Placed`
  keeps for every key the id under which it is to be found or written next (`Current`):
  unused while the key is cached or in the batch, on the server and never asked for
  otherwise. That a new id is unused needs bounds on the frequencies (`Bounded`) and
  that a PUT never brings back a bucket that was ever on the server (`Past`). That
  `ApplyReal` always has something to evict needs a count: each doomed bucket has made
  room for one in the cache (`Room`). The hypothesis `CacheSize > 0` excludes the case
  in which the first response meets an empty list and the empty key is evicted and
  written; `init` caches 2 % of the loaded keys (`cacheBatches`), so that `CacheSize` is
  0 only for fewer than 50 keys.
* **`ProxyImplementsStore`** (`StoreProofs`): `Spec => Implements`, the refinement of
  `TimeSeriesStore`, and **`PayloadsUnchanged`**, `Spec => PayloadsKept`, with PUTs in time
  order, a cache that starts with a bucket, and no payload with a NUL byte (`NoNul`): the
  run `nul` shows that the last is needed, and a PUT of an existing bucket would corrupt
  the index. A bucket's content is computed from where it is, so the proof follows the payload on its way:
  what is evicted is encrypted for the id under which the bucket will be asked for, and
  the responses not yet applied are those of the ids read (`Sealed`). A GET is owed what
  its buckets held when it was taken; each of them has been collected or will still be
  supplied with that value, from its bucket until the response is applied and from
  `promiseSatisfy` after that (`Owed`, `Supplied`). With this each action is mapped: a
  PUT, the last sub-operation of a GET, the replies of `tryClearPromises` and
  `tryClearAllPromises`, and the removal of a replaced bucket are steps of the store,
  all others leave it as it is.
* **`BucketsNeverRunOut`**, **`BandwidthConstant`**, **`StorageConstant`**
  (`CountProofs`): `ItemsKeepBuckets`, `ConstantBandwidth` and `ConstantStorage`, if
  moreover the loaded buckets can be counted in a `size_t` (`Countable`). Neither the
  number of buckets nor the length of the cache is constant, as a PUT caches a bucket
  before the one it replaces is gone; their difference is (`Balanced`), and is the
  number of buckets on the server. A batch that reads only distinct buckets from the
  server cannot read more than these, so a number of fillers that wrapped around
  `SizeMax` never reaches `GetBatch`: every batch that is written has `B` ids. The
  objects on the server are in bijection with the keys that are not cached, apart from
  what waits for deletion (`Accounted`).
* **`ProxyNeverStops`** (`CountProofs`): `Spec => []NeverCrashes`, if the deployment is
  sound (`Deployable`): every item that clients name was loaded; the server holds at
  least the `B - F` buckets of a batch; and the operations of a batch need no more than
  that, either because there are no more on the server or because a range of a GET
  spans at most `B - F - R` bucket timestamps. Without the last the count of fillers
  wraps and the iterator runs off `accessTree`. The settings of `tsconfig.cpp`
  (`B = 1200`, `R = 800`, `F = 100`) leave room for ranges of 300 buckets, three times
  what an item is loaded with. Beyond the theorems above the proof needs that what
  `get_cache` holds for a bucket is what the cache holds until the batch starts
  (`CacheAgrees`; else `insert_cache` calls `exit(1)`), and that no PUT makes a bucket
  of the GET being split unknown. The constants of the run `core` satisfy `Countable`
  and `Deployable`.
* **`ReadWithin`** and **`AlphaHolds`** (`CountProofs`): `Spec => []AlphaWithin(w)` for
  every `w < B - F` that bounds the buckets the operations of a batch ask for
  (`FetchesWithin`), under `Countable` and with at least one fake read per batch; and
  `Spec => []AlphaBounded`, the case `w = R`, for ranges that hold no bucket timestamp, so
  that a GET asks for the one bucket before it. With `w = B - F` there would be batches
  without a filler, and an object nobody asks for is never read. The age of an object is
  a statement about a state, not about the batches it waited, so the invariant counts
  instead of ranking. `Queued`: an entry of the cache that is `a` batches old has at most
  `CacheBound - (B - F)(a - 1)` entries behind it, as each batch evicts `B - F` of them and
  everything new comes in front. So an entry leaves the cache at an age of at most
  `CacheTime`, and from that age on no bucket that is as old joins those on the server, of
  which each batch reads the `B - F - w` oldest (`Waited`); fake keys are never cached and
  each batch reads the `F` oldest (`FakesWaited`). Both hold step by step inside a batch
  (`Evictions`, `Fillers`, `FakesRead`), and need that an id read is replaced in the same
  batch by one of the current time (`ReadNow`), that `fakeBst` agrees with its frequencies
  (`FakesIndexed`), and that a batch dooms at most `R` buckets (`FewDoomed`), by which the
  cache may be longer than at first. The constants of the run `alpha` satisfy the
  hypotheses of both theorems.
* **`TypesHold`**, **`ResponsesInOrder`**, **`AnswersFollowWrites`**,
  **`PoolNeverStuck`** (`ResponsePathProofs`): `TypeOK`, `AnsweredInOrder`,
  `ReadYourWrites` and `PoolServes` for any set of clients, any calls and any number of
  workers. The invariant `IInv` orders the sequence ids of one client along its inbox,
  the responder and `sequence_queue_`, all of calls whose handler has returned
  (`Order`); orders the operations of one client along the batch and `operation_queue`
  (`Applied`); and says where the promises of a call in progress are (`Kept`) and that
  those in the batch are no more than its sub-operations (`Counted`). `PoolServes`
  then follows by counting: if the operation queue is empty, the unset promises of the
  waiting calls are all in the batch, and so at most as many as its sub-operations. The
  number of workers does not enter.
* **`InFlightBound`** and **`CallsAccounted`** (`AsyncClientProofs`): for any number of
  threads and any limit, `Spec => []InFlightBounded` and `Spec => []Accounted`. The
  strengthening says that only the holder of `m_mtx_` is inside the critical section
  (`Inside`), that a thread that is past its test still finds room when it pushes
  (`Room`: the response thread only takes elements away), and the account itself, with
  the lag of the answers behind the timeouts.
  **`ClientTypes`**, `Spec => []TypeOK`, comes with it.
* **`ReadersDoNotMix`**, **`AnswersInOrder`**, **`RequestsConserved`**, **`CallsInOrder`**
  and **`ConnectionTypes`** (`ThriftProofs`): `MessagesUnderstood`, `AnswersMatch`,
  `Conserved`, that the handler is given the calls one by one as the program made them,
  and `TypeOK`, for every kind of program, every trace, limit, number of searches and
  first client id; for a client with the id -1 `Conserved` counts the responses that are
  thrown away. The invariant `ThriftInv` counts: in each queue the
  messages of one-way calls keep their order, so the n-th of them belongs to the call n
  places behind those that the next stage has taken (`Rank`; `Upstream`, `Answering`,
  `Downstream`); the message of a two-way call is out at most once, somewhere among them,
  is left out of the count (`Flow`), and is the one the caller waits for (`TwoWayOut`).
  That the caller and the response thread do not take each other's message then follows
  from `Calling`: while the caller waits for a reply without an overlap, no request is
  queued or being received. The lemmas on the wire say that `Read` of a struct undoes
  `Write` for every layout of the generated code, and that no reply can be read as an
  `async_response`. The theorems assume `TraceSound`: files hold lines and `load_trace`
  makes no empty call. It is about folds over a file, which cannot be proved here, and
  is an `ASSUME` of `MCThriftConnection` that TLC evaluates.

Only model-checked:

* liveness and everything under fairness, which is out of this prover's reach;
* `TraceArrives` and `PutsInTimeOrder` of `ThriftConnection`: what `load_trace` and the
  generator compute are folds over a file, and induction over data is out of reach. What
  the connection adds to `TraceArrives` is proved (`CallsInOrder`).

## 7. Where the code and its documentation disagree

Each is a run that TLC ends with a counterexample; `findings` quotes the line.

* `double_put`: two PUTs of one item in the same batch, its oldest bucket being on the
  server, doom the same bucket. It is removed once and the item grows by one.
* `empty_range`: a GET whose range ends before the item's first bucket is split into
  nothing and its promise is destroyed unset; waiting for it throws.
* `nul`: decryption cuts a payload at its first NUL byte, and a serialized bucket holds
  such bytes, so a bucket that was put and evicted comes back shorter.
* `crossed`: handlers of two connections may push to the two response queues in
  different orders; each client then gets the results of the other's call. (The order
  of the sequence ids of one client is still kept: `AnsweredInOrder` passes.)
* `stranded`: if the request queue is drained between a caller's test and its wait, all
  notifications are lost and the caller waits forever. For a program with one calling
  thread `WaiterWoken` shows that this is the only case: it is woken if requests are queued.

Met while modelling, and visible in the model without a run of its own:

* A batch is executed only with `R` sub-operations and `flush()` is empty: the last GETs of
  a trace are not answered unless another client calls, a lone synchronous GET waits
  forever, and enough of them hold every worker of the server (premises of
  `ResponseDelivered` and `CallsAnswered`).
* The exception of a broken promise (`empty_range`) leaves the responder thread and ends
  the proxy for every client.
* `async_get` and `async_put` push no sequence id, so the responder waits and the call
  is not answered (`CallsAnswered` excludes them).
* A send that fails ends the proxy: the generated `send_async_response` was given a
  `catch` that calls `exit(1)`, so the handler of the exception in
  `async_respond_client` is never reached. A client that finishes while answers are
  owed to it is enough (`ResponseDelivered` excludes it).
* `search()` over an unanswered call lets either thread read the other's message.
* `client_id_gen_` is not initialized; the client that draws -1 is never answered.
* A trace file that began with a GET would make `load_trace` emit an empty batch,
  whose empty answer the client indexes; the generator always begins with PUTs.

## 8. Not modelled

* `close()` and the end of the threads: nothing calls it.
* Storage over several Redis servers: `server_count_` is one and no option sets it.
* The binary serializer (a pure conversion by Boost), the arithmetic on readings, the
  ciphers (OpenSSL).
* Crash recovery: the code has none; cache and frequencies live in memory.
* Of the generated code: the `ConcurrentClient`s, the multiface, null and skeleton
  handlers and the processor of the response service, which nobody uses; the text of
  exceptions and the message sequence number, which is always 0.
* Broken connections inside `ThriftConnection`: timeouts are in `AsyncClient`,
  disconnects in `ResponsePath`. Two threads of one program reading the same bytes of
  an overlapping `search()` is the state `client = "undefined"`, after which the client
  does nothing more.
* Option parsing, latencies and throughput, `proxy_benchmark.cpp` (of the key-value
  store this code derives from) and the generator of item ids.
* Methods without a caller: `getMinFrequency`, `getRUKey`, `incrementFrequency`,
  `addKey`, `removeKey_without_mutex`, `remove_client`, `send_failure`, `clear`.

## 9. Plan

Done, in this order: the data structures; `WaffleProxy` with its safety properties;
the abstract store and the refinement; liveness and the alpha bound; `ResponsePath`;
`AsyncClient`; types, index and batch invariants, in-flight bound proved; the worker
pool and failing sends in `ResponsePath`; the connection from trace file to answers;
the order and progress of the responses proved; every safety invariant of the batch
engine proved, the refinement of the abstract store, `PayloadsKept` and the alpha bound
included; the invariants of the connection that do not depend on the contents of a trace
file proved.

What is left is out of the prover's reach (section 6, "Only model-checked"): the
liveness properties, and what the trace generator and `load_trace` compute. An extension
of the model that would be worth its while is several clients replaying traces against
one proxy, with PUTs that are not in time order.
