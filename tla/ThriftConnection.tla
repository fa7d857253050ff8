-------------------------- MODULE ThriftConnection --------------------------
(***************************************************************************)
(* One connection from a client program to the proxy, message by message.  *)
(* The program (run_benchmark of TS_proxy_benchmark.cpp, or a user of the  *)
(* other client calls) sends its calls; the server's worker hands each to  *)
(* the handler and writes the reply of a two-way call; the responder       *)
(* writes async_response messages to the same socket; and on the client    *)
(* two threads read from it, the caller (replies) and the response thread  *)
(* (responses).  Neither can tell whose message comes next:                *)
(* the response thread relies on reading only while a request of its is    *)
(* out.                                                                    *)
(*                                                                         *)
(* How callers wait for the in-flight limit, late answers and finish() are *)
(* module AsyncClient; how calls of several connections meet in the proxy  *)
(* is module ResponsePath.  Here the result of a GET is ready at any time  *)
(* after its call, or never: its batch may not fill.                       *)
(***************************************************************************)
EXTENDS ThriftWire, Workload

CONSTANTS
  Programs,          \* which of the four kinds of program run
  IdStarts,          \* values that client_id_gen_, never initialized, may start with
  in_flight_limit_,  \* 2000 in async_proxy_client.h
  MaxRounds,         \* bound on the rounds of a trace file
  MaxSearches        \* bound on the calls of search()

AsyncPrograms == {"async_batch", "async_single"}
SyncPrograms  == {"sync_batch", "sync_single"}

ASSUME ConnectionAssumption ==
  /\ Programs \subseteq AsyncPrograms \cup SyncPrograms
  /\ IdStarts \subseteq Int /\ in_flight_limit_ \in Nat \ {0}
  /\ MaxRounds \in Nat \ {0} /\ MaxSearches \in Nat

VARIABLES
  program,           \* the kind of program that runs
  lines, calls,      \* the trace file, and the calls it is replayed as
  main,              \* the calling thread: where it is, which call is next, its id
  requests_,         \* length of the client's queue of requests
  response_thread,   \* "pop" or "recv"
  answers,           \* what the client got for its calls
  client,            \* "up", or "undefined" after reading a message as what it is not
  toServer, toClient,
  proxy,             \* "up", or "crashed" after an exception in the responder thread
  worker,            \* the message being served, <<m>> or <<>>
  client_id_gen_, clients_,
  respond_queue_, sequence_queue_,
  handled,           \* the calls the handler was given
  outcomes           \* what the proxy answered them with

vars == <<program, lines, calls, main, requests_, response_thread, answers, client, toServer,
          toClient, proxy, worker, client_id_gen_, clients_, respond_queue_, sequence_queue_,
          handled, outcomes>>

inputVars    == <<program, lines, calls>>
readerVars   == <<requests_, response_thread>>
registryVars == <<client_id_gen_, clients_>>
queueVars    == <<respond_queue_, sequence_queue_>>
serverVars   == <<proxy, worker, registryVars, queueVars, handled, outcomes>>

\* A program of single calls makes one for each line.
SingleCalls(file) == [n \in DOMAIN file |-> IF file[n].value = "" THEN GetCall(<<file[n]>>)
                                                                  ELSE PutCall(<<file[n]>>)]

\* init() of async_proxy_client asks for an id before anything else; that of
\* proxy_client does not.
Init ==
  /\ program \in Programs
  /\ lines \in TraceFiles(MaxRounds)
  /\ calls = IF program \in {"async_batch", "sync_batch"} THEN load_trace(lines)
                                                          ELSE SingleCalls(lines)
  /\ main = [pc |-> IF program \in AsyncPrograms THEN "get_client_id" ELSE "run",
             await |-> "none", sent |-> 0, id |-> 0, searches |-> 0, overlap |-> FALSE]
  /\ requests_ = 0 /\ response_thread = "pop" /\ answers = <<>> /\ client = "up"
  /\ toServer = <<>> /\ toClient = <<>> /\ proxy = "up" /\ worker = <<>>
  /\ client_id_gen_ \in IdStarts /\ clients_ = {}
  /\ respond_queue_ = <<>> /\ sequence_queue_ = <<>>
  /\ handled = <<>> /\ outcomes = <<>>

-----------------------------------------------------------------------------
(* The calling thread.                                                       *)

Send(m) == toServer' = Append(toServer, m)

\* async_proxy_client::get_client_id: two calls, the second with the result of the first.
GetClientId ==
  /\ client = "up" /\ main.pc = "get_client_id"
  /\ Send(send_get_client_id)
  /\ main' = [main EXCEPT !.pc = "recv", !.await = "get_client_id"]
  /\ UNCHANGED <<inputVars, readerVars, answers, client, toClient, serverVars>>

RegisterClientId ==
  /\ client = "up" /\ main.pc = "register_client_id"
  /\ Send(send_register_client_id(1, main.id))
  /\ main' = [main EXCEPT !.pc = "recv", !.await = "register_client_id"]
  /\ UNCHANGED <<inputVars, readerVars, answers, client, toClient, serverVars>>

\* The message of the n-th call.
AsyncRequest(call, seq) ==
  IF program = "async_batch"
    THEN IF call.values = <<>> THEN send_async_get_batch(seq, call.keys)
                               ELSE send_async_put_batch(seq, call.keys, call.values)
    ELSE IF call.values = <<>> THEN send_async_get(seq, call.keys[1])
                               ELSE send_async_put(seq, call.keys[1], call.values[1])

\* Fault: the in-flight limit is not tested.
CallAsyncUnlimited ==
  /\ client = "up" /\ program \in AsyncPrograms /\ main.pc = "run"
  /\ main.sent < Len(calls)
  /\ Send(AsyncRequest(calls[main.sent + 1], SeqId(main.id, main.sent)))
  /\ main' = [main EXCEPT !.pc = "push", !.sent = @ + 1]
  /\ UNCHANGED <<inputVars, readerVars, answers, client, toClient, serverVars>>

\* get, put, get_batch, put_batch of async_proxy_client up to the send.
CallAsync ==
  /\ client = "up" /\ program \in AsyncPrograms /\ main.pc = "run"
  /\ main.sent < Len(calls) /\ requests_ < in_flight_limit_
  /\ Send(AsyncRequest(calls[main.sent + 1], SeqId(main.id, main.sent)))
  /\ main' = [main EXCEPT !.pc = "push", !.sent = @ + 1]
  /\ UNCHANGED <<inputVars, readerVars, answers, client, toClient, serverVars>>

\* Fault: the request is not queued.
PushNoRequest ==
  /\ client = "up" /\ main.pc = "push"
  /\ main' = [main EXCEPT !.pc = "run"]
  /\ UNCHANGED <<inputVars, requests_, response_thread, answers, client, toServer, toClient,
                 serverVars>>

\* requests_->push, the end of those calls.
PushRequest ==
  /\ client = "up" /\ main.pc = "push"
  /\ requests_' = requests_ + 1
  /\ main' = [main EXCEPT !.pc = "run"]
  /\ UNCHANGED <<inputVars, response_thread, answers, client, toServer, toClient, serverVars>>

SyncMethod(call) ==
  IF program = "sync_batch" THEN IF call.values = <<>> THEN "get_batch" ELSE "put_batch"
                            ELSE IF call.values = <<>> THEN "get" ELSE "put"
SyncRequest(call) ==
  CASE SyncMethod(call) = "get_batch" -> send_get_batch(call.keys)
    [] SyncMethod(call) = "put_batch" -> send_put_batch(call.keys, call.values)
    [] SyncMethod(call) = "get"       -> send_get(call.keys[1])
    [] SyncMethod(call) = "put"       -> send_put(call.keys[1], call.values[1])

\* get, put, get_batch, put_batch of proxy_client up to the send.
CallSync ==
  /\ client = "up" /\ program \in SyncPrograms /\ main.pc = "run" /\ main.sent < Len(calls)
  /\ Send(SyncRequest(calls[main.sent + 1]))
  /\ main' = [main EXCEPT !.pc = "recv", !.await = SyncMethod(calls[main.sent + 1]),
                          !.sent = @ + 1]
  /\ UNCHANGED <<inputVars, readerVars, answers, client, toClient, serverVars>>

\* search() of async_proxy_client takes no lock, and sends and reads on the connection
\* that the response thread reads from.  main.overlap remembers that one was made while
\* a call was unanswered.
Quiet == requests_ = 0 /\ response_thread = "pop"
Search ==
  /\ client = "up" /\ program = "async_batch" /\ main.pc = "run"
  /\ main.searches < MaxSearches
  /\ Send(send_search("item"))
  /\ main' = [main EXCEPT !.pc = "recv", !.await = "search", !.searches = @ + 1,
                          !.overlap = @ \/ ~Quiet]
  /\ UNCHANGED <<inputVars, readerVars, answers, client, toClient, serverVars>>

RecvOf(method, m) ==
  CASE method = "get_client_id"      -> recv_get_client_id(m)
    [] method = "register_client_id" -> recv_register_client_id(m)
    [] method = "get"                -> recv_get(m)
    [] method = "put"                -> recv_put(m)
    [] method = "get_batch"          -> recv_get_batch(m)
    [] method = "put_batch"          -> recv_put_batch(m)
    [] method = "search"             -> recv_search(m)

\* A failed call is an answer too; a single result is a list of one.
Failure    == <<[kind |-> "failure", key |-> Key(0, 0, 0)]>>
ResultOf(method, out) == IF out.kind = "throw" THEN Failure
                         ELSE IF method = "get" THEN <<out.value>> ELSE out.value

\* The caller reads the next message and returns.
RecvReply ==
  /\ client = "up" /\ main.pc = "recv" /\ toClient # <<>>
  /\ toClient' = Tail(toClient)
  /\ LET out == RecvOf(main.await, Head(toClient))
     IN  IF out.kind = "undefined" THEN client' = "undefined" /\ UNCHANGED <<main, answers>>
         ELSE /\ main' = [main EXCEPT
                            !.await = "none",
                            !.id = IF main.await = "get_client_id" THEN out.value ELSE @,
                            !.pc = IF main.await = "get_client_id" THEN "register_client_id"
                                   ELSE "run"]
              /\ answers' = IF main.await \in {"get", "put", "get_batch", "put_batch"}
                              THEN Append(answers, [no     |-> main.sent - 1,
                                                    result |-> ResultOf(main.await, out)])
                              ELSE answers
              /\ UNCHANGED client
  /\ UNCHANGED <<inputVars, readerVars, toServer, serverVars>>

\* run_benchmark stops when its time is over.
TimeUp ==
  /\ client = "up" /\ main.pc = "run"
  /\ main' = [main EXCEPT !.pc = "end"]
  /\ UNCHANGED <<inputVars, readerVars, answers, client, toServer, toClient, serverVars>>

-----------------------------------------------------------------------------
(* read_responses, the response thread.                                      *)

\* Fault: the thread does not wait for a request.
PopAnyway ==
  /\ client = "up" /\ program \in AsyncPrograms /\ response_thread = "pop"
  /\ requests_' = IF requests_ > 0 THEN requests_ - 1 ELSE 0
  /\ response_thread' = "recv"
  /\ UNCHANGED <<inputVars, main, answers, client, toServer, toClient, serverVars>>

PopRequest ==
  /\ client = "up" /\ response_thread = "pop" /\ requests_ > 0
  /\ requests_' = requests_ - 1
  /\ response_thread' = "recv"
  /\ UNCHANGED <<inputVars, main, answers, client, toServer, toClient, serverVars>>

\* recv_response, then _return[0], which needs a result.  No exception but a transport's
\* is caught.
RecvResponse ==
  /\ client = "up" /\ response_thread = "recv" /\ toClient # <<>>
  /\ toClient' = Tail(toClient)
  /\ LET out == recv_response(Head(toClient))
     IN  IF out.kind = "return" /\ out.value.result # <<>>
           THEN answers' = Append(answers, out.value) /\ UNCHANGED client
           ELSE client' = "undefined" /\ UNCHANGED answers
  /\ response_thread' = "pop"
  /\ UNCHANGED <<inputVars, main, requests_, toServer, serverVars>>

-----------------------------------------------------------------------------
(* The server: a worker serves one message of the connection after the other. *)

Take ==
  /\ proxy = "up" /\ worker = <<>> /\ toServer # <<>>
  /\ worker' = <<Head(toServer)>> /\ toServer' = Tail(toServer)
  /\ UNCHANGED <<inputVars, main, readerVars, answers, client, toClient, proxy, registryVars,
                 queueVars, handled, outcomes>>

Serving(methods) == proxy = "up" /\ worker # <<>> /\ worker[1].fname \in methods
Args == Read(processMap_[worker[1].fname].args, worker[1].body)
Done(out) == worker' = <<>> /\ toClient' = toClient \o Replies(worker[1], out)

ServeGetClientId ==
  /\ Serving({"get_client_id"})
  /\ client_id_gen_' = client_id_gen_ + 1
  /\ Done(Return(client_id_gen_))
  /\ UNCHANGED <<inputVars, main, readerVars, answers, client, toServer, proxy, clients_,
                 queueVars, handled, outcomes>>

ServeRegisterClientId ==
  /\ Serving({"register_client_id"})
  /\ clients_' = clients_ \cup {Args.client_id}
  /\ Done(Return(<<>>))
  /\ UNCHANGED <<inputVars, main, readerVars, answers, client, toServer, proxy, client_id_gen_,
                 queueVars, handled, outcomes>>

\* The call as the handler gets it.
Given ==
  LET a == Args
  IN  [keys   |-> IF "keys" \in DOMAIN a THEN a.keys ELSE <<a.key>>,
       values |-> IF "values" \in DOMAIN a THEN a.values
                  ELSE IF "value" \in DOMAIN a THEN <<a.value>> ELSE <<>>]

\* Fault: the sequence id is not queued.
ServeAsyncNoSequence ==
  /\ Serving({"async_get", "async_put", "async_get_batch", "async_put_batch"})
  /\ handled' = Append(handled, Given)
  /\ respond_queue_' = Append(respond_queue_, [op |-> 2, call |-> Given])
  /\ Done(Return(<<>>))
  /\ UNCHANGED <<inputVars, main, readerVars, answers, client, toServer, proxy, registryVars,
                 sequence_queue_, outcomes>>

\* async_get and async_put queue the response as GET (0) and no sequence id;
\* async_get_batch (2) and async_put_batch (3) queue both.
ServeAsync ==
  /\ Serving({"async_get", "async_put", "async_get_batch", "async_put_batch"})
  /\ LET f == worker[1].fname
     IN  /\ respond_queue_' = Append(respond_queue_,
              [op   |-> IF f = "async_get_batch" THEN 2 ELSE IF f = "async_put_batch" THEN 3 ELSE 0,
               call |-> Given])
         /\ sequence_queue_' = IF f \in {"async_get_batch", "async_put_batch"}
                                 THEN Append(sequence_queue_, Read(sequence_id, Args.seq_id))
                                 ELSE sequence_queue_
  /\ handled' = Append(handled, Given)
  /\ Done(Return(<<>>))
  /\ UNCHANGED <<inputVars, main, readerVars, answers, client, toServer, proxy, registryVars,
                 outcomes>>

\* The result of one query: the sum over a GET's range, or "PUT SUCCESSFUL".
Sums(keys)     == [n \in DOMAIN keys |-> [kind |-> "sum", key |-> keys[n]]]
Successes(keys) == [n \in DOMAIN keys |-> [kind |-> "put", key |-> Key(0, 0, 0)]]

\* get, put, get_batch, put_batch: the handler waits for the futures.  Those of PUTs are
\* set as the consumer takes them; that of a GET is set with its batch, or never, or holds
\* a broken promise, and .get() throws.
ServeSync(throws) ==
  /\ Serving({"get", "put", "get_batch", "put_batch"})
  /\ throws => worker[1].fname \in {"get", "get_batch"}
  /\ LET f   == worker[1].fname
         out == IF throws THEN Throw
                ELSE CASE f = "get"       -> Return(Sums(Given.keys)[1])
                       [] f = "get_batch" -> Return(Sums(Given.keys))
                       [] OTHER           -> Return(<<>>)
     IN  /\ Done(out)
         /\ outcomes' = Append(outcomes, ResultOf(f, out))
  /\ handled' = Append(handled, Given)
  /\ UNCHANGED <<inputVars, main, readerVars, answers, client, toServer, proxy, registryVars,
                 queueVars>>

\* search: the keys of the item, or "SEARCH FAILURE"; nothing for an item that the index
\* knows without a bucket.
ServeSearch(results) ==
  /\ Serving({"search"})
  /\ Done(Return(results))
  /\ UNCHANGED <<inputVars, main, readerVars, answers, client, toServer, proxy, registryVars,
                 queueVars, handled, outcomes>>

-----------------------------------------------------------------------------
(* responder_thread and async_respond_client.                                *)

\* Fault: the newest entry is answered.
RespondNewest ==
  /\ proxy = "up" /\ respond_queue_ # <<>> /\ sequence_queue_ # <<>>
  /\ LET e   == respond_queue_[Len(respond_queue_)]
         seq == Head(sequence_queue_)
         result == IF e.op = 3 THEN Successes(e.call.keys) ELSE Sums(e.call.keys)
     IN  /\ outcomes' = Append(outcomes, result)
         /\ toClient' = Append(toClient, send_async_response(
                                 SeqId(seq.client_id, seq.client_seq_no), e.op, result))
  /\ respond_queue_' = Front(respond_queue_)
  /\ sequence_queue_' = Tail(sequence_queue_)
  /\ UNCHANGED <<inputVars, main, readerVars, answers, client, toServer, proxy, worker,
                 registryVars, handled>>

\* The futures of a GET are waited for.  The client id -1 and an id that is not registered
\* get no response.
Respond ==
  /\ proxy = "up" /\ respond_queue_ # <<>> /\ sequence_queue_ # <<>>
  /\ LET e   == Head(respond_queue_)
         seq == Head(sequence_queue_)
         result == IF e.op = 3 THEN Successes(e.call.keys) ELSE Sums(e.call.keys)
     IN  /\ outcomes' = Append(outcomes, result)
         /\ toClient' = IF seq.client_id # -1 /\ seq.client_id \in clients_
                          THEN Append(toClient, send_async_response(
                                 SeqId(seq.client_id, seq.client_seq_no), e.op, result))
                          ELSE toClient
  /\ respond_queue_' = Tail(respond_queue_)
  /\ sequence_queue_' = Tail(sequence_queue_)
  /\ UNCHANGED <<inputVars, main, readerVars, answers, client, toServer, proxy, worker,
                 registryVars, handled>>

\* A future of a GET holds a broken promise: the exception leaves the thread and ends the
\* proxy.
RespondThrows ==
  /\ proxy = "up" /\ respond_queue_ # <<>> /\ sequence_queue_ # <<>>
  /\ Head(respond_queue_).op # 3 /\ Head(respond_queue_).call.values = <<>>
  /\ proxy' = "crashed"
  /\ UNCHANGED <<inputVars, main, readerVars, answers, client, toServer, toClient, worker,
                 registryVars, queueVars, handled, outcomes>>

-----------------------------------------------------------------------------
InCall == GetClientId \/ RegisterClientId \/ PushRequest \/ RecvReply
Main   == InCall \/ CallAsync \/ CallSync
ResponseThread == PopRequest \/ RecvResponse
Server == \/ Take \/ ServeGetClientId \/ ServeRegisterClientId \/ ServeAsync
          \/ \E results \in {<<>>, <<"key">>} : ServeSearch(results)
          \/ \E throws \in BOOLEAN : ServeSync(throws)
Responder == Respond \/ RespondThrows

Next == Main \/ Search \/ TimeUp \/ ResponseThread \/ Server \/ Responder

Spec == Init /\ [][Next]_vars

\* The steps that wait for the result of a GET: of the worker in .get(), and of the
\* responder.  They are taken only if operations of this or other clients fill the batch.
Gets      == {"get", "get_batch"}
HeadWaits == respond_queue_ # <<>> /\ Head(respond_queue_).op # 3
WorkerHasResult    == Serving(Gets) /\ Server
ResponderHasResult == HeadWaits /\ Responder
OperationsArrive   == WF_vars(WorkerHasResult) /\ WF_vars(ResponderHasResult)

\* Each thread keeps running where it does not wait for such a result.  Nobody has to call
\* or to search, and the program's time may end.
FairSpec == /\ Spec
            /\ WF_vars(InCall) /\ WF_vars(ResponseThread)
            /\ WF_vars(~Serving(Gets) /\ Server) /\ WF_vars(~HeadWaits /\ Responder)

-----------------------------------------------------------------------------
TypeOK ==
  /\ program \in Programs /\ client \in {"up", "undefined"}
  /\ main.pc \in {"get_client_id", "register_client_id", "run", "push", "recv", "end"}
  /\ main.sent \in 0 .. Len(calls) /\ main.searches \in 0 .. MaxSearches
  /\ main.overlap \in BOOLEAN
  /\ requests_ \in 0 .. in_flight_limit_ /\ response_thread \in {"pop", "recv"}
  /\ \A n \in DOMAIN toServer : toServer[n].fname \in DOMAIN processMap_
  /\ \A n \in DOMAIN toClient : toClient[n].mtype \in {"reply", "exception", "oneway"}
  /\ proxy \in {"up", "crashed"} /\ Len(worker) <= 1
  /\ client_id_gen_ \in Int /\ clients_ \subseteq Int
  /\ \A n \in DOMAIN respond_queue_ : respond_queue_[n].op \in {0, 2, 3}

\* TraceArrives: the handler is given the queries of the trace file in the file's order,
\* none lost, repeated or changed on the way, in calls of one kind and of at most
\* client_batch_size queries (load_trace, the args structs, process_X).  The order is
\* what makes a replayed GET see the PUTs before it.
TraceArrives ==
  /\ IsPrefix(AllLines(handled), lines)
  /\ \A n \in DOMAIN handled : Len(handled[n].keys) \in 1 .. client_batch_size

\* PutsInTimeOrder: a PUT names a bucket later than every bucket its item has, those the
\* proxy started with included, so no bucket is put twice.  This is what WaffleProxy
\* assumes of its callers with RePut = FALSE: insert of an existing key would corrupt the
\* index.
PutLines(file) == SelectSeq(file, LAMBDA line : line.value # "")
PutsInTimeOrder ==
  LET puts == PutLines(AllLines(handled))
  IN  \A n \in DOMAIN puts :
        \A k \in InitialKeys \cup {puts[m].key : m \in 1 .. n - 1} :
          k.item = puts[n].key.item => k.to < puts[n].key.from

\* MessagesUnderstood: no thread of the client reads a message that is meant for the
\* other, though recv_response never checks the name and recv_X reads on after a
\* mismatch; unless search() was called with a call unanswered, which breaks both.
MessagesUnderstood == client = "up" \/ main.overlap

\* AnswersMatch: what the client gets for its n-th call is what the proxy answered to
\* the n-th call, and that is a result for each of the call's queries or the failure of
\* the whole call.  read_responses pairs them by position alone.
Fits(result, call) ==
  \/ result = Failure
  \/ call.values = <<>> /\ result = Sums(call.keys)
  \/ call.values # <<>> /\ result \in {<<>>, Successes(call.keys)}
AnswersMatch ==
  \A n \in DOMAIN answers : /\ answers[n] = [no |-> n - 1, result |-> outcomes[n]]
                            /\ Fits(answers[n].result, calls[n])

\* Conserved: every request that the asynchronous client counts is in exactly one place
\* between the two programs, and there are never more than the limit and one; the socket
\* the responder writes to does not block, so nothing else bounds what it has to hold.
\* The responses to a client whose id is -1 are thrown away and stay counted, so that it
\* stops calling at the limit; those of async_get and async_put stay in respond_queue_.
Requests   == requests_ + (IF response_thread = "recv" THEN 1 ELSE 0)
                        + (IF main.pc = "push" THEN 1 ELSE 0)
OneWays(s) == Cardinality({n \in DOMAIN s : s[n].mtype = "oneway"})
Discarded  == IF main.id = -1 THEN Len(outcomes) ELSE 0
Conserved ==
  client = "up" /\ program \in AsyncPrograms =>
    /\ Requests = OneWays(toServer) + OneWays(worker) + Len(respond_queue_) + OneWays(toClient)
                    + Discarded
    /\ Requests <= in_flight_limit_ + 1

\* CallsAnswered: if operations keep arriving, so that the batches fill, every call that was
\* sent is answered, unless a search() was made over unanswered calls or a broken promise
\* ended the proxy.  Not those of async_get and async_put, which queue no sequence id, and
\* not those of a client whose id is -1.
CallsAnswered ==
  OperationsArrive =>
    \A n \in 1 .. MaxRounds * RoundSize :
      (main.sent >= n /\ program # "async_single" /\ main.id # -1)
        ~> (Len(answers) >= n \/ main.overlap \/ proxy = "crashed")

\* MainReturns: whether or not operations arrive, a caller that waits for the reply to
\* anything but a GET gets one; also search(), whose reply the response thread takes only
\* if a call was unanswered.
MainReturns ==
  (main.pc = "recv" /\ main.await \notin Gets) ~> (main.pc # "recv" \/ main.overlap)

-----------------------------------------------------------------------------
(* What the proofs need of the trace: files and calls are well formed, and   *)
(* no call is empty.                                                         *)

TraceKeys  == [item : Int, from : Int, to : Int]
TraceValues == {"", "bucket"}
TraceLines == [key : TraceKeys, value : TraceValues]
Calls      == {c \in [keys : Seq(TraceKeys), values : Seq(TraceValues)] : c.keys # <<>>}
TraceSound == \A file \in TraceFiles(MaxRounds) : /\ file \in Seq(TraceLines)
                                                  /\ load_trace(file) \in Seq(Calls)
=============================================================================
