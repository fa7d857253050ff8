---------------------------- MODULE ResponsePath ----------------------------
(***************************************************************************)
(* The way of a call through the proxy process: the thrift handler of a    *)
(* connection turns it into operations with promises                       *)
(* (service/src/thrift_handler.cpp, get_future and put_future of           *)
(* waffle_proxy.cpp), the consumer thread takes the operations and sets    *)
(* the promises, and the responder thread waits for the promises of one    *)
(* asynchronous call after the other and sends the results to the client.  *)
(*                                                                         *)
(* respond_queue_ should carry the call's sequence_id, but its element     *)
(* type holds it by reference and the referent is gone when the responder  *)
(* looks.  The sequence_id therefore travels by a queue of its own,        *)
(* sequence_queue_, which the batch calls push to and the single calls do  *)
(* not.                                                                    *)
(*                                                                         *)
(* What the consumer does with an operation is module WaffleProxy; here a  *)
(* PUT's promise is set when it is taken, and the GETs of a batch are      *)
(* answered, in some order, once the batch is full.                        *)
(***************************************************************************)
EXTENDS Integers, Sequences, FiniteSets

CONSTANTS
  Clients,      \* connections, each with its handler and its client id
  Calls,        \* the methods the clients use, out of AsyncOps and SyncOps
  BatchSizes,   \* how many keys a batch call has
  SplitSizes,   \* into how many buckets a GET may be split
  R,            \* sub-operations the consumer collects before a batch
  Threads,      \* worker threads of the server (15 in thrift_server.cpp)
  MaxCalls      \* bound on the calls of one client

AsyncBatch == {"async_get_batch", "async_put_batch"}
AsyncOps   == AsyncBatch \cup {"async_get", "async_put"}
SyncOps    == {"get", "put", "get_batch", "put_batch"}
PutOps     == {"put", "put_batch", "async_put", "async_put_batch"}
Batches    == AsyncBatch \cup {"get_batch", "put_batch"}

ASSUME ResponseAssumption ==
  /\ Calls \subseteq AsyncOps \cup SyncOps
  /\ BatchSizes \subseteq Nat \ {0} /\ SplitSizes \subseteq Nat
  /\ R \in Nat \ {0} /\ Threads \in Nat \ {0} /\ MaxCalls \in Nat

VARIABLES
  clients_,          \* clients in the thrift_response_client_map
  connected,         \* clients whose socket is open
  made,              \* client -> number of calls so far
  handler,           \* client -> where its handler is, in which call
  operation_queue,   \* operations not yet taken by the consumer
  i,                 \* sub-operations in the consumer's batch
  pending,           \* promises of the GETs in the batch
  ready,             \* promises that were set
  broken,            \* promises destroyed unset
  respond_queue_, sequence_queue_,
  responder,         \* where the responder thread is, with its entry and seq
  inbox,             \* client -> the responses sent to it
  status             \* "up", or "crashed" after an uncaught exception or exit(1)

vars == <<clients_, connected, made, handler, operation_queue, i, pending, ready, broken,
          respond_queue_, sequence_queue_, responder, inbox, status>>

handlerVars  == <<clients_, connected, made, handler>>
consumerVars == <<i, pending, ready, broken>>
queueVars    == <<respond_queue_, sequence_queue_>>

\* A call is <<client, number>>; the promise of its j-th key is <<call, j>>.
NoCall == [op |-> "none", size |-> 0]
Idle   == [pc |-> "idle", call |-> NoCall, pushed |-> 0]
Entry(call, id) == [op |-> call.op, id |-> id, size |-> call.size]
NoEntry == Entry(NoCall, <<>>)

Init ==
  /\ clients_ = {} /\ connected = Clients
  /\ made = [c \in Clients |-> 0]
  /\ handler = [c \in Clients |-> Idle]
  /\ operation_queue = <<>>
  /\ i = 0 /\ pending = {} /\ ready = {} /\ broken = {}
  /\ respond_queue_ = <<>> /\ sequence_queue_ = <<>>
  /\ responder = [pc |-> "respond", entry |-> NoEntry, seq |-> <<>>]
  /\ inbox = [c \in Clients |-> <<>>]
  /\ status = "up"

-----------------------------------------------------------------------------
(* The handler of client c.  The server takes the next call of a connection  *)
(* when the handler has returned from the one before and a worker is free; a *)
(* synchronous call keeps its worker while it waits.                         *)

FreeWorker == Cardinality({c \in Clients : handler[c] # Idle}) < Threads

\* get_client_id and register_client_id, the first calls of an asynchronous client.
RegisterClientId(c) ==
  /\ status = "up" /\ c \in connected /\ c \notin clients_ /\ handler[c] = Idle /\ FreeWorker
  /\ clients_' = clients_ \cup {c}
  /\ UNCHANGED <<connected, made, handler, operation_queue, consumerVars, queueVars,
                 responder, inbox, status>>

\* The handler enters method op with `size' keys.
Enter(c, op, size) ==
  /\ status = "up" /\ c \in connected /\ handler[c] = Idle /\ FreeWorker /\ made[c] < MaxCalls
  /\ op \in AsyncOps => c \in clients_
  /\ op \notin Batches => size = 1
  /\ made' = [made EXCEPT ![c] = @ + 1]
  /\ handler' = [handler EXCEPT ![c] =
                   [pc |-> "futures", call |-> [op |-> op, size |-> size], pushed |-> 0]]
  /\ UNCHANGED <<clients_, connected, operation_queue, consumerVars, queueVars,
                 responder, inbox, status>>

\* Fault: a synchronous call does not wait.
PushWithoutAwait(c) ==
  /\ status = "up" /\ handler[c].pc = "futures"
  /\ LET n == handler[c].pushed + 1
     IN  /\ operation_queue' = Append(operation_queue, [promise |-> <<<<c, made[c]>>, n>>,
                                                        put     |-> FALSE])
         /\ handler' = [handler EXCEPT ![c].pushed = n, ![c].pc = "respond"]
  /\ UNCHANGED <<clients_, connected, made, consumerVars, queueVars, responder, inbox, status>>

\* get_future / put_future for the next key.
PushOperation(c) ==
  /\ status = "up" /\ handler[c].pc = "futures"
  /\ LET h == handler[c]
         n == h.pushed + 1
     IN  /\ operation_queue' = Append(operation_queue,
                                      [promise |-> <<<<c, made[c]>>, n>>,
                                       put     |-> h.call.op \in PutOps])
         /\ handler' = [handler EXCEPT ![c].pushed = n,
                          ![c].pc = IF n < h.call.size THEN "futures"
                                    ELSE IF h.call.op \in SyncOps THEN "await" ELSE "respond"]
  /\ UNCHANGED <<clients_, connected, made, consumerVars, queueVars, responder, inbox, status>>

\* respond_queue_.push.  async_get and async_put end here.
PushRespond(c) ==
  /\ status = "up" /\ handler[c].pc = "respond"
  /\ LET call == handler[c].call
     IN  /\ respond_queue_' = Append(respond_queue_, Entry(call, <<c, made[c]>>))
         /\ handler' = [handler EXCEPT ![c] = IF call.op \in AsyncBatch
                                                THEN [@ EXCEPT !.pc = "sequence"] ELSE Idle]
  /\ UNCHANGED <<clients_, connected, made, operation_queue, consumerVars, sequence_queue_,
                 responder, inbox, status>>

\* Fault: the sequence id is not passed on.
PushNothing(c) ==
  /\ status = "up" /\ handler[c].pc = "sequence"
  /\ handler' = [handler EXCEPT ![c] = Idle]
  /\ UNCHANGED <<clients_, connected, made, operation_queue, consumerVars, respond_queue_,
                 sequence_queue_, responder, inbox, status>>

\* sequence_queue_.push, the end of async_get_batch and async_put_batch.
PushSequence(c) ==
  /\ status = "up" /\ handler[c].pc = "sequence"
  /\ sequence_queue_' = Append(sequence_queue_, <<c, made[c]>>)
  /\ handler' = [handler EXCEPT ![c] = Idle]
  /\ UNCHANGED <<clients_, connected, made, operation_queue, consumerVars, respond_queue_,
                 responder, inbox, status>>

\* The promises of a call with `size' keys.
Waiters(id, size) == {<<id, n>> : n \in 1 .. size}

\* A synchronous call returns when its futures are set; the exception of a broken
\* promise becomes the call's error reply.
ReturnSync(c) ==
  /\ status = "up" /\ handler[c].pc = "await"
  /\ Waiters(<<c, made[c]>>, handler[c].call.size) \subseteq ready \cup broken
  /\ handler' = [handler EXCEPT ![c] = Idle]
  /\ UNCHANGED <<clients_, connected, made, operation_queue, consumerVars, queueVars,
                 responder, inbox, status>>

\* The client goes away.  Its entry in the map stays.
Disconnect(c) ==
  /\ c \in connected
  /\ connected' = connected \ {c}
  /\ UNCHANGED <<clients_, made, handler, operation_queue, consumerVars, queueVars,
                 responder, inbox, status>>

-----------------------------------------------------------------------------
(* The consumer thread, as far as promises go.                               *)

\* Fault: the newest operation is taken.
TakeLast(q) == [op |-> q[Len(q)], rest |-> SubSeq(q, 1, Len(q) - 1)]

\* operation_queues_[id]->pop()
TakeFirst(q) == [op |-> Head(q), rest |-> Tail(q)]

\* Fault: a GET is not counted.
ConsumeUncounted(n) ==
  /\ status = "up" /\ operation_queue # <<>> /\ i < R
  /\ LET taken == TakeFirst(operation_queue)
     IN  /\ operation_queue' = taken.rest
         /\ IF taken.op.put
              THEN ready' = ready \cup {taken.op.promise} /\ i' = i + 1 /\ UNCHANGED pending
              ELSE pending' = pending \cup {taken.op.promise} /\ UNCHANGED <<i, ready>>
  /\ UNCHANGED <<broken, handlerVars, queueVars, responder, inbox, status>>

\* An operation is taken.  A GET is split into n buckets; with none its promise has
\* no owner left.
Consume(n) ==
  /\ status = "up" /\ operation_queue # <<>> /\ i < R
  /\ LET taken == TakeFirst(operation_queue)
         p     == taken.op.promise
     IN  /\ operation_queue' = taken.rest
         /\ IF taken.op.put
              THEN ready' = ready \cup {p} /\ i' = i + 1 /\ UNCHANGED <<pending, broken>>
            ELSE IF n = 0
              THEN broken' = broken \cup {p} /\ UNCHANGED <<i, pending, ready>>
              ELSE pending' = pending \cup {p} /\ i' = i + n /\ UNCHANGED <<ready, broken>>
  /\ UNCHANGED <<handlerVars, queueVars, responder, inbox, status>>

\* The full batch is executed: one GET after the other is answered.
SetPromise(p) ==
  /\ status = "up" /\ i >= R /\ p \in pending
  /\ pending' = pending \ {p} /\ ready' = ready \cup {p}
  /\ UNCHANGED <<handlerVars, operation_queue, i, broken, queueVars, responder, inbox, status>>

EndBatch ==
  /\ status = "up" /\ i >= R /\ pending = {}
  /\ i' = 0
  /\ UNCHANGED <<handlerVars, operation_queue, pending, ready, broken, queueVars,
                 responder, inbox, status>>

-----------------------------------------------------------------------------
(* responder_thread.                                                         *)

PopRespond ==
  /\ status = "up" /\ responder.pc = "respond" /\ respond_queue_ # <<>>
  /\ responder' = [responder EXCEPT !.pc = "sequence", !.entry = Head(respond_queue_)]
  /\ respond_queue_' = Tail(respond_queue_)
  /\ UNCHANGED <<handlerVars, operation_queue, consumerVars, sequence_queue_, inbox, status>>

\* Fault: the youngest sequence id is taken.
PopLastSequence ==
  /\ status = "up" /\ responder.pc = "sequence" /\ sequence_queue_ # <<>>
  /\ responder' = [responder EXCEPT !.pc = "wait",
                                    !.seq = sequence_queue_[Len(sequence_queue_)]]
  /\ sequence_queue_' = SubSeq(sequence_queue_, 1, Len(sequence_queue_) - 1)
  /\ UNCHANGED <<handlerVars, operation_queue, consumerVars, respond_queue_, inbox, status>>

PopSequence ==
  /\ status = "up" /\ responder.pc = "sequence" /\ sequence_queue_ # <<>>
  /\ responder' = [responder EXCEPT !.pc = "wait", !.seq = Head(sequence_queue_)]
  /\ sequence_queue_' = Tail(sequence_queue_)
  /\ UNCHANGED <<handlerVars, operation_queue, consumerVars, respond_queue_, inbox, status>>

\* async_respond_client and send_async_response.  A client that is not in the map is
\* passed over.  A write to a connection whose peer went away is lost, or fails, and
\* send_async_response answers every exception with exit(1).
AsyncRespondClient(seq, of) ==
  LET c == seq[1]
  IN  /\ inbox' = IF c \in clients_ \cap connected
                     THEN [inbox EXCEPT ![c] = Append(@, [seq |-> seq, of |-> of])] ELSE inbox
      /\ status' \in IF c \in clients_ \ connected THEN {"up", "crashed"} ELSE {"up"}

\* Every future but those of a PUT_BATCH is waited for, in order; a broken promise
\* throws out of the thread.
Respond ==
  /\ status = "up" /\ responder.pc = "wait"
  /\ LET e == responder.entry
         s == responder.seq
         throws == \E n \in 1 .. e.size : /\ <<e.id, n>> \in broken
                                          /\ \A m \in 1 .. n - 1 : <<e.id, m>> \in ready
     IN  IF e.op # "async_put_batch" /\ throws
           THEN status' = "crashed" /\ UNCHANGED <<inbox, responder>>
           ELSE /\ e.op = "async_put_batch" \/ Waiters(e.id, e.size) \subseteq ready
                /\ AsyncRespondClient(s, e.id)
                /\ responder' = [pc |-> "respond", entry |-> NoEntry, seq |-> <<>>]
  /\ UNCHANGED <<handlerVars, operation_queue, consumerVars, queueVars>>

-----------------------------------------------------------------------------
HandlerStep(c) == PushOperation(c) \/ PushRespond(c) \/ PushSequence(c) \/ ReturnSync(c)
Arrival(c) ==
  \/ RegisterClientId(c)
  \/ \E op \in Calls, size \in BatchSizes : Enter(c, op, size)
Consumer  == (\E n \in SplitSizes : Consume(n)) \/ (\E p \in pending : SetPromise(p)) \/ EndBatch
Responder == PopRespond \/ PopSequence \/ Respond

Next ==
  \/ \E c \in Clients : Arrival(c) \/ HandlerStep(c) \/ Disconnect(c)
  \/ Consumer
  \/ Responder

Spec == Init /\ [][Next]_vars

\* Every handler thread, the consumer and the responder keep running.  Clients need
\* not call.
Fairness ==
  /\ \A c \in Clients : WF_vars(HandlerStep(c))
  /\ WF_vars(Consumer)
  /\ WF_vars(Responder)
FairSpec == Spec /\ Fairness

-----------------------------------------------------------------------------
Ids == Clients \X (1 .. MaxCalls)
Promises == Ids \X Nat

TypeOK ==
  /\ clients_ \subseteq Clients /\ connected \subseteq Clients
  /\ made \in [Clients -> 0 .. MaxCalls]
  /\ \A c \in Clients : handler[c].pc \in {"idle", "futures", "respond", "sequence", "await"}
  /\ \A n \in DOMAIN operation_queue : operation_queue[n].promise \in Promises
  /\ i \in Nat /\ pending \subseteq Promises /\ ready \subseteq Promises
  /\ broken \subseteq Promises
  /\ respond_queue_ \in Seq([op : AsyncOps, id : Ids, size : Nat])
  /\ sequence_queue_ \in Seq(Ids)
  /\ responder.pc \in {"respond", "sequence", "wait"}
  /\ \A c \in Clients : inbox[c] \in Seq([seq : Ids, of : Ids])
  /\ status \in {"up", "crashed"}

\* The sequence ids that are on their way or were answered.
Travelling == {sequence_queue_[n] : n \in DOMAIN sequence_queue_}
                \cup (IF responder.pc = "wait" THEN {responder.seq} ELSE {})
SeqsSent(c) == {inbox[c][n].seq : n \in DOMAIN inbox[c]}

\* AnsweredInOrder: a client is sent at most one response for each of its calls, in
\* the order of the calls, and it made the call, whatever the handlers interleave on
\* the two queues.  The client's response thread counts on it: it never looks at the
\* sequence id (read_responses of async_proxy_client.cpp, lines 89-113).
AnsweredInOrder ==
  \A c \in Clients :
    /\ SeqsSent(c) \subseteq {c} \X (1 .. made[c])
    /\ \A m, n \in DOMAIN inbox[c] : m < n => inbox[c][m].seq[2] < inbox[c][n].seq[2]
    /\ SeqsSent(c) \cap Travelling = {}

\* OwnAnswers: the results sent under a sequence id are those of the call that has it
\* (responder_thread lines 778-781 pair the heads of two queues).
OwnAnswers ==
  \A c \in Clients : \A n \in DOMAIN inbox[c] : inbox[c][n].seq = inbox[c][n].of

\* ReadYourWrites: when a GET has its answer, every operation of the same client's
\* earlier calls has been applied, also the PUT_BATCHes that were acknowledged before
\* anything was done for them (lines 785-788).
Queued  == {operation_queue[n].promise : n \in DOMAIN operation_queue}
ReadYourWrites ==
  \A p \in ready, q \in Queued : p[1][1] = q[1][1] => p[1][2] <= q[1][2]

\* PoolServes: synchronous calls that ask for R keys between them do not wait for one
\* another, however few the workers are that they hold: as long as R of their promises are
\* unset, the consumer has an operation to take or a batch to execute.  The code has 15
\* workers (thrift_server.cpp line 15) and R = 800, so the pool can be held by calls with
\* fewer keys, and then nothing fills the batch: that is the only way it gets stuck.
Unset ==
  UNION {Waiters(<<c, made[c]>>, handler[c].call.size) \ (ready \cup broken) :
           c \in {d \in Clients : handler[d].pc = "await"}}
PoolServes == Cardinality(Unset) >= R => operation_queue # <<>> \/ i >= R

\* ResponseDelivered: every batch call is answered and every synchronous call returns,
\* however many connections share the workers, if the batch does not stay short of R
\* sub-operations forever (flush() is empty, lines 817-819, so that is for the clients to
\* see to).  Exceptions are the clients that went away, and the end of the proxy: a failing
\* send to such a client, or a broken promise that the responder waits for.  async_get and
\* async_put queue no sequence id and hold up the responder; the clients do not use them.
Starved == operation_queue = <<>> /\ i < R /\ pending # {}
Ended   == status = "crashed" /\ (connected # Clients \/ broken # {})
InCall(c, n) == made[c] = n /\ handler[c].call.op \in AsyncBatch
ResponseDelivered ==
  Calls \subseteq Batches \cup SyncOps /\ []<>~Starved =>
    /\ \A c \in Clients, n \in 1 .. MaxCalls :
         InCall(c, n) ~> <<c, n>> \in SeqsSent(c) \/ c \notin connected \/ Ended
    /\ \A c \in Clients : handler[c].pc = "await" ~> handler[c].pc # "await" \/ Ended
=============================================================================
