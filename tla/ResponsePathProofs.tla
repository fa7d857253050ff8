------------------------- MODULE ResponsePathProofs -------------------------
(***************************************************************************)
(* For every set of clients, every choice of calls and every number of     *)
(* workers: the types of ResponsePath, the order in which a client is      *)
(* answered, that its answers follow its writes, and that the worker pool  *)
(* is not held by calls that wait for one another and ask for R keys.      *)
(*                                                                         *)
(* None of the three is inductive.  The order of the responses rests on    *)
(* the order of the ids in sequence_queue_, behind the one the responder   *)
(* holds (Order); that of the answers on the order of operation_queue      *)
(* (Applied); and the pool's progress on where the promises of a waiting   *)
(* call are (Kept) and how many the batch holds (Counted).                 *)
(***************************************************************************)
EXTENDS ResponsePath, FiniteSetTheorems, TLAPS

HandlerStates == {"idle", "futures", "respond", "sequence", "await"}
AnyCall == [op : AsyncOps \cup SyncOps \cup {"none"}, size : Nat]
Entries == [op : AsyncOps, id : Ids, size : Nat]

\* The types of every component of the state.
Types ==
  /\ clients_ \subseteq Clients /\ connected \subseteq Clients
  /\ made \in [Clients -> 0 .. MaxCalls]
  /\ handler \in [Clients -> [pc : HandlerStates, call : AnyCall, pushed : Nat]]
  /\ operation_queue \in Seq([promise : Promises, put : BOOLEAN])
  /\ i \in Nat /\ pending \subseteq Promises /\ ready \subseteq Promises
  /\ broken \subseteq Promises
  /\ respond_queue_ \in Seq(Entries)
  /\ sequence_queue_ \in Seq(Ids)
  /\ responder \in [pc    : {"respond", "sequence", "wait"},
                    entry : Entries \cup {NoEntry}, seq : Ids \cup {<<>>}]
  /\ responder.pc # "respond" => responder.entry \in Entries
  /\ responder.pc = "wait" => responder.seq \in Ids
  /\ inbox \in [Clients -> Seq([seq : Ids, of : Ids])]
  /\ status \in {"up", "crashed"}

\* Where a handler is says what its call is and how far it got.
InMethod ==
  \A c \in Clients : handler[c].pc # "idle" =>
    LET h == handler[c]
    IN  /\ made[c] >= 1
        /\ h.call.op \in AsyncOps \cup SyncOps
        /\ IF h.pc = "futures" THEN h.pushed < h.call.size ELSE h.pushed = h.call.size
        /\ h.pc = "respond" => h.call.op \in AsyncOps
        /\ h.pc = "sequence" => h.call.op \in AsyncBatch

\* Client -> the number of the last call that its handler has returned from.
Closed == [c \in Clients |-> IF handler[c].pc = "idle" THEN made[c] ELSE made[c] - 1]

\* The ids of one client are in the order of its calls: in its inbox, then the one the
\* responder holds, then those in sequence_queue_, and all are of calls that returned.
Order ==
  /\ \A n \in DOMAIN sequence_queue_ :
       sequence_queue_[n][2] <= Closed[sequence_queue_[n][1]]
  /\ \A m, n \in DOMAIN sequence_queue_ :
       m < n /\ sequence_queue_[m][1] = sequence_queue_[n][1]
         => sequence_queue_[m][2] < sequence_queue_[n][2]
  /\ responder.pc = "wait" =>
       /\ responder.seq[2] <= Closed[responder.seq[1]]
       /\ \A n \in DOMAIN sequence_queue_ : responder.seq[1] = sequence_queue_[n][1]
            => responder.seq[2] < sequence_queue_[n][2]
  /\ \A c \in Clients : \A m \in DOMAIN inbox[c] :
       /\ inbox[c][m].seq[1] = c /\ inbox[c][m].seq[2] <= Closed[c]
       /\ responder.pc = "wait" /\ responder.seq[1] = c
            => inbox[c][m].seq[2] < responder.seq[2]
       /\ \A n \in DOMAIN sequence_queue_ : sequence_queue_[n][1] = c
            => inbox[c][m].seq[2] < sequence_queue_[n][2]
       /\ \A n \in DOMAIN inbox[c] : m < n => inbox[c][m].seq[2] < inbox[c][n].seq[2]

\* The operations of one client are in the order of its calls: those taken, then those
\* in operation_queue.
Applied ==
  /\ \A p \in pending \cup ready : p[1][2] <= made[p[1][1]]
  /\ \A n \in DOMAIN operation_queue :
       LET q == operation_queue[n].promise
       IN  /\ q[1][2] <= made[q[1][1]]
           /\ \A p \in pending \cup ready : p[1][1] = q[1][1] => p[1][2] <= q[1][2]
           /\ \A m \in DOMAIN operation_queue :
                LET p == operation_queue[m].promise
                IN  m < n /\ p[1][1] = q[1][1] => p[1][2] <= q[1][2]

\* Every operation that a handler pushed in its call is somewhere.
Kept ==
  \A c \in Clients : handler[c].pc # "idle" =>
    \A n \in 1 .. handler[c].pushed :
      <<<<c, made[c]>>, n>> \in Queued \cup pending \cup ready \cup broken

\* A GET in the batch has at least one sub-operation there.
Counted == IsFiniteSet(pending) /\ Cardinality(pending) <= i

IInv == Types /\ InMethod /\ Order /\ Applied /\ Kept /\ Counted

-----------------------------------------------------------------------------
(* Types and where the handlers are. *)

\* The elements of a queue.
LEMMA ElementOf ==
  ASSUME NEW S, NEW q \in Seq(S), NEW n \in DOMAIN q
  PROVE  q[n] \in S
OBVIOUS

\* Taking the head of a queue and putting an element at its end.
LEMMA HeadTail ==
  ASSUME NEW S, NEW q \in Seq(S), q # <<>>
  PROVE  /\ Head(q) \in S /\ Head(q) = q[1] /\ Tail(q) \in Seq(S)
         /\ 1 \in DOMAIN q /\ DOMAIN Tail(q) = 1 .. Len(q) - 1
         /\ \A n \in DOMAIN Tail(q) : n + 1 \in DOMAIN q /\ Tail(q)[n] = q[n + 1]
OBVIOUS

LEMMA AppendEnd ==
  ASSUME NEW S, NEW q \in Seq(S), NEW e \in S
  PROVE  /\ Append(q, e) \in Seq(S) /\ DOMAIN q = 1 .. Len(q)
         /\ DOMAIN Append(q, e) = DOMAIN q \cup {Len(q) + 1}
         /\ \A n \in DOMAIN q : Append(q, e)[n] = q[n] /\ n < Len(q) + 1
         /\ Append(q, e)[Len(q) + 1] = e
OBVIOUS

\* Init: nobody is in a call, every queue is empty.
LEMMA InitInv == Init => IInv
<1> SUFFICES ASSUME Init PROVE IInv
  OBVIOUS
<1>1. Types
  BY ResponseAssumption DEF Init, Types, Idle, NoCall, HandlerStates, AnyCall, Entry, NoEntry
<1>2. InMethod /\ Kept
  BY DEF Init, InMethod, Kept, Idle
<1>3. Order
  BY DEF Init, Order
<1>4. Applied
  BY DEF Init, Applied
<1>5. Counted
  BY FS_EmptySet DEF Init, Counted
<1> QED
  BY <1>1, <1>2, <1>3, <1>4, <1>5 DEF IInv

\* A handler enters a method.
LEMMA EnterTypes ==
  ASSUME Types, InMethod, NEW c \in Clients, NEW op \in Calls, NEW size \in BatchSizes,
         Enter(c, op, size)
  PROVE  Types' /\ InMethod'
<1> DEFINE h == [pc |-> "futures", call |-> [op |-> op, size |-> size], pushed |-> 0]
<1>1. size \in Nat /\ size > 0 /\ op \in AsyncOps \cup SyncOps
  BY ResponseAssumption
<1>2. h \in [pc : HandlerStates, call : AnyCall, pushed : Nat]
  BY <1>1 DEF HandlerStates, AnyCall
<1>3. made[c] + 1 \in 1 .. MaxCalls
  BY ResponseAssumption DEF Types, Enter
<1>4. Types'
  <2>1. handler' \in [Clients -> [pc : HandlerStates, call : AnyCall, pushed : Nat]]
    BY <1>2 DEF Types, Enter
  <2>2. made' \in [Clients -> 0 .. MaxCalls]
    BY <1>3 DEF Types, Enter
  <2> HIDE DEF h
  <2> QED
    BY <2>1, <2>2 DEF Types, Enter, consumerVars, queueVars
<1>5. InMethod'
  BY <1>1, <1>3 DEF Types, InMethod, Enter
<1> QED
  BY <1>4, <1>5

\* A handler pushes an operation.
LEMMA PushOperationTypes ==
  ASSUME Types, InMethod, NEW c \in Clients, PushOperation(c)
  PROVE  Types' /\ InMethod'
<1> DEFINE h == handler[c]
           n == h.pushed + 1
           pc == IF n < h.call.size THEN "futures"
                 ELSE IF h.call.op \in SyncOps THEN "await" ELSE "respond"
           op == [promise |-> <<<<c, made[c]>>, n>>, put |-> h.call.op \in PutOps]
<1>1. handler' = [handler EXCEPT ![c] = [@ EXCEPT !.pushed = n, !.pc = pc]]
  BY DEF PushOperation, Types
<1>2. /\ h \in [pc : HandlerStates, call : AnyCall, pushed : Nat] /\ h.pc = "futures"
      /\ n \in Nat /\ h.call \in AnyCall /\ h.call.size \in Nat
  BY DEF Types, PushOperation, AnyCall
<1>3. /\ made[c] \in 1 .. MaxCalls
      /\ h.call.op \in AsyncOps \cup SyncOps /\ h.pushed < h.call.size
  BY <1>2 DEF Types, InMethod
<1>4. op \in [promise : Promises, put : BOOLEAN]
  BY <1>2, <1>3 DEF Promises, Ids
<1>5. operation_queue' \in Seq([promise : Promises, put : BOOLEAN])
  BY <1>4 DEF Types, PushOperation
<1>6. handler' \in [Clients -> [pc : HandlerStates, call : AnyCall, pushed : Nat]]
  BY <1>1, <1>2 DEF Types, HandlerStates
<1>7. Types'
  BY <1>5, <1>6 DEF Types, PushOperation, consumerVars, queueVars
<1>8. InMethod'
  <2>1. /\ made' = made /\ handler \in [Clients -> [pc : HandlerStates, call : AnyCall, pushed : Nat]]
    BY DEF PushOperation, Types
  <2>2. /\ handler'[c].pc = pc /\ handler'[c].pushed = n /\ handler'[c].call = h.call
        /\ \A d \in Clients : d # c => handler'[d] = handler[d]
    BY <1>1, <1>2, <2>1
  <2>3. n <= h.call.size
    BY <1>2, <1>3
  <2>4. /\ pc = "futures" => n < h.call.size
        /\ pc # "futures" => n = h.call.size
        /\ pc = "respond" => h.call.op \in AsyncOps
        /\ pc # "sequence" /\ pc # "idle"
    BY <1>2, <1>3, <2>3
  <2> HIDE DEF pc, n, h
  <2>5. ASSUME NEW d \in Clients, handler'[d].pc # "idle"
        PROVE  /\ made'[d] >= 1
               /\ handler'[d].call.op \in AsyncOps \cup SyncOps
               /\ IF handler'[d].pc = "futures" THEN handler'[d].pushed < handler'[d].call.size
                  ELSE handler'[d].pushed = handler'[d].call.size
               /\ handler'[d].pc = "respond" => handler'[d].call.op \in AsyncOps
               /\ handler'[d].pc = "sequence" => handler'[d].call.op \in AsyncBatch
    <3>1. CASE d = c
      BY <1>3, <2>1, <2>2, <2>4, <3>1
    <3>2. CASE d # c
      BY <2>1, <2>2, <2>5, <3>2 DEF InMethod
    <3> QED
      BY <3>1, <3>2
  <2> QED
    BY <2>5 DEF InMethod
<1> QED
  BY <1>7, <1>8

\* A handler pushes an entry for the responder.
LEMMA PushRespondTypes ==
  ASSUME Types, InMethod, NEW c \in Clients, PushRespond(c)
  PROVE  Types' /\ InMethod'
<1> DEFINE h == handler[c]
<1>1. /\ h \in [pc : HandlerStates, call : AnyCall, pushed : Nat] /\ h.pc = "respond"
      /\ made[c] \in 1 .. MaxCalls /\ h.call.op \in AsyncOps /\ h.call.size \in Nat
      /\ h.pushed = h.call.size
  BY DEF Types, PushRespond, InMethod, AnyCall
<1>2. Entry(h.call, <<c, made[c]>>) \in Entries
  BY <1>1 DEF Entry, Entries, Ids
<1>3. respond_queue_' \in Seq(Entries)
  BY <1>2 DEF Types, PushRespond
<1>4. handler' \in [Clients -> [pc : HandlerStates, call : AnyCall, pushed : Nat]]
  BY <1>1 DEF Types, PushRespond, HandlerStates, Idle, NoCall, AnyCall
<1>5. Types'
  BY <1>3, <1>4 DEF Types, PushRespond, consumerVars
<1>6. InMethod'
  BY <1>1 DEF InMethod, Types, PushRespond, Idle
<1> QED
  BY <1>5, <1>6

\* A handler returns, having pushed the sequence id or having waited.
LEMMA ReturnTypes ==
  ASSUME Types, InMethod, NEW c \in Clients, PushSequence(c) \/ ReturnSync(c)
  PROVE  Types' /\ InMethod'
<1>1. handler' = [handler EXCEPT ![c] = Idle]
  BY DEF PushSequence, ReturnSync
<1>2. Idle \in [pc : HandlerStates, call : AnyCall, pushed : Nat] /\ Idle.pc = "idle"
  BY DEF Idle, NoCall, HandlerStates, AnyCall
<1>3. sequence_queue_' \in Seq(Ids)
  <2>1. CASE PushSequence(c)
    <3>1. <<c, made[c]>> \in Ids
      BY <2>1 DEF Types, InMethod, PushSequence, Ids
    <3> QED
      BY <2>1, <3>1 DEF Types, PushSequence
  <2>2. CASE ReturnSync(c)
    BY <2>2 DEF Types, ReturnSync, queueVars
  <2> QED
    BY <2>1, <2>2
<1>4. Types'
  BY <1>1, <1>2, <1>3 DEF Types, PushSequence, ReturnSync, consumerVars, queueVars
<1>5. InMethod'
  BY <1>1, <1>2 DEF Types, InMethod, PushSequence, ReturnSync
<1> QED
  BY <1>4, <1>5

\* A client comes or goes.
LEMMA ClientTypes ==
  ASSUME Types, InMethod, NEW c \in Clients, RegisterClientId(c) \/ Disconnect(c)
  PROVE  Types' /\ InMethod'
BY DEF Types, InMethod, RegisterClientId, Disconnect, consumerVars, queueVars

\* The consumer takes an operation, answers a GET or ends its batch.
LEMMA ConsumerTypes ==
  ASSUME Types, InMethod, Consumer
  PROVE  Types' /\ InMethod'
<1>1. UNCHANGED <<handlerVars, queueVars, responder, inbox, status>>
  BY DEF Consumer, Consume, SetPromise, EndBatch
<1>2. ASSUME NEW n \in SplitSizes, Consume(n)
      PROVE  Types'
  <2>1. n \in Nat
    BY ResponseAssumption
  <2>2. /\ Head(operation_queue) \in [promise : Promises, put : BOOLEAN]
        /\ Tail(operation_queue) \in Seq([promise : Promises, put : BOOLEAN])
    BY <1>2, HeadTail DEF Types, Consume
  <2>3. Head(operation_queue).promise \in Promises
    BY <2>2
  <2>4. operation_queue' = Tail(operation_queue) /\ i' \in Nat
    BY <1>2, <2>1 DEF Types, Consume, TakeFirst
  <2>5. /\ pending' \subseteq pending \cup {Head(operation_queue).promise}
        /\ ready' \subseteq ready \cup {Head(operation_queue).promise}
        /\ broken' \subseteq broken \cup {Head(operation_queue).promise}
    BY <1>2 DEF Consume, TakeFirst
  <2> QED
    BY <1>1, <2>2, <2>3, <2>4, <2>5 DEF Types, handlerVars, queueVars
<1>3. ASSUME NEW p \in pending, SetPromise(p)
      PROVE  Types'
  BY <1>3 DEF Types, SetPromise, handlerVars, queueVars
<1>4. ASSUME EndBatch
      PROVE  Types'
  BY <1>4 DEF Types, EndBatch, handlerVars, queueVars
<1>5. InMethod'
  BY <1>1 DEF InMethod, handlerVars
<1> QED
  BY <1>2, <1>3, <1>4, <1>5 DEF Consumer

\* The responder takes an entry, takes a sequence id, or sends a response.
LEMMA ResponderTypes ==
  ASSUME Types, InMethod, Responder
  PROVE  Types' /\ InMethod'
<1>1. UNCHANGED <<handlerVars, operation_queue, consumerVars>>
  BY DEF Responder, PopRespond, PopSequence, Respond
<1>2. ASSUME PopRespond
      PROVE  Types'
  <2>1. Head(respond_queue_) \in Entries /\ Tail(respond_queue_) \in Seq(Entries)
    BY <1>2 DEF Types, PopRespond
  <2> QED
    BY <1>1, <1>2, <2>1 DEF Types, PopRespond, handlerVars, consumerVars
<1>3. ASSUME PopSequence
      PROVE  Types'
  <2>1. Head(sequence_queue_) \in Ids /\ Tail(sequence_queue_) \in Seq(Ids)
    BY <1>3 DEF Types, PopSequence
  <2> QED
    BY <1>1, <1>3, <2>1 DEF Types, PopSequence, handlerVars, consumerVars
<1>4. ASSUME Respond
      PROVE  Types'
  <2>1. responder.seq \in Ids /\ responder.entry \in Entries /\ responder.entry.id \in Ids
    BY <1>4 DEF Types, Respond, Entries
  <2>2. [seq |-> responder.seq, of |-> responder.entry.id] \in [seq : Ids, of : Ids]
    BY <2>1
  <2>3. inbox' \in [Clients -> Seq([seq : Ids, of : Ids])]
    <3>1. \A c \in Clients : Append(inbox[c], [seq |-> responder.seq, of |-> responder.entry.id])
                               \in Seq([seq : Ids, of : Ids])
      BY <2>2, AppendEnd DEF Types
    <3>2. \/ inbox' = inbox
          \/ \E c \in Clients :
               inbox' = [inbox EXCEPT ![c] = Append(@, [seq |-> responder.seq,
                                                        of  |-> responder.entry.id])]
      BY <1>4, <2>1 DEF Respond, AsyncRespondClient, Types, Ids
    <3> QED
      BY <3>1, <3>2 DEF Types
  <2>4. status' \in {"up", "crashed"}
    BY <1>4 DEF Types, Respond, AsyncRespondClient
  <2>5. \/ UNCHANGED responder
        \/ responder' = [pc |-> "respond", entry |-> NoEntry, seq |-> <<>>]
    BY <1>4 DEF Respond
  <2>7. UNCHANGED queueVars
    BY <1>4 DEF Respond
  <2>6. /\ responder' \in [pc    : {"respond", "sequence", "wait"},
                           entry : Entries \cup {NoEntry}, seq : Ids \cup {<<>>}]
        /\ responder'.pc # "respond" => responder'.entry \in Entries
        /\ responder'.pc = "wait" => responder'.seq \in Ids
    BY <2>5 DEF Types
  <2> QED
    BY <1>1, <2>3, <2>4, <2>6, <2>7 DEF Types, handlerVars, consumerVars, queueVars
<1>5. InMethod'
  BY <1>1 DEF InMethod, handlerVars
<1> QED
  BY <1>2, <1>3, <1>4, <1>5 DEF Responder

-----------------------------------------------------------------------------
(* The order of the responses. *)

\* Closed is a call number or zero.
LEMMA ClosedType ==
  ASSUME Types, InMethod, NEW c \in Clients
  PROVE  Closed[c] \in Nat /\ Closed[c] <= made[c]
BY DEF Types, InMethod, Closed

\* What is under way or was sent are call ids.
LEMMA IdsTyped ==
  ASSUME Types
  PROVE  /\ \A x \in Ids : x[1] \in Clients /\ x[2] \in Nat
         /\ \A n \in DOMAIN sequence_queue_ : sequence_queue_[n] \in Ids
         /\ \A c \in Clients : \A m \in DOMAIN inbox[c] : inbox[c][m].seq \in Ids
         /\ responder.pc = "wait" => responder.seq \in Ids /\ responder.entry.id \in Ids
<1>1. \A x \in Ids : x[1] \in Clients /\ x[2] \in Nat
  BY DEF Ids
<1>2. \A n \in DOMAIN sequence_queue_ : sequence_queue_[n] \in Ids
  BY DEF Types
<1>3. ASSUME NEW c \in Clients, NEW m \in DOMAIN inbox[c]
      PROVE  inbox[c][m].seq \in Ids
  <2>1. inbox[c] \in Seq([seq : Ids, of : Ids])
    BY DEF Types
  <2>2. inbox[c][m] \in [seq : Ids, of : Ids]
    BY <1>3, <2>1, ElementOf
  <2> QED
    BY <2>2
<1>4. responder.pc = "wait" => responder.seq \in Ids /\ responder.entry \in Entries
  BY DEF Types
<1>5. \A e \in Entries : e.id \in Ids
  BY DEF Entries
<1> QED
  BY <1>1, <1>2, <1>3, <1>4, <1>5

\* A step that leaves the sequence ids alone and returns at most from a call.
LEMMA OrderSame ==
  ASSUME Types, Types', InMethod, InMethod', Order,
         UNCHANGED <<sequence_queue_, responder, inbox>>,
         \A c \in Clients : Closed[c] <= Closed'[c]
  PROVE  Order'
<1>1. \A c \in Clients : Closed[c] \in Nat /\ Closed'[c] \in Nat
  BY DEF Types, InMethod, Closed
<1>2. \A x \in Ids : x[1] \in Clients /\ x[2] \in Nat
  BY DEF Ids
<1>3. /\ \A n \in DOMAIN sequence_queue_ : sequence_queue_[n] \in Ids
      /\ \A c \in Clients : \A m \in DOMAIN inbox[c] : inbox[c][m].seq \in Ids
      /\ responder.pc = "wait" => responder.seq \in Ids
  BY IdsTyped
<1>4. \A x \in Ids : x[2] <= Closed[x[1]] => x[2] <= Closed'[x[1]]
  BY <1>1, <1>2
<1>5. \A n \in DOMAIN sequence_queue_' :
        sequence_queue_'[n][2] <= Closed'[sequence_queue_[n][1]]
  BY <1>3, <1>4 DEF Order
<1>6. responder.pc = "wait" => responder.seq[2] <= Closed'[responder.seq[1]]
  BY <1>3, <1>4 DEF Order
<1>7. \A c \in Clients : \A m \in DOMAIN inbox[c] :
        inbox[c][m].seq[1] = c /\ inbox[c][m].seq[2] <= Closed'[c]
  BY <1>3, <1>4 DEF Order
<1> QED
  BY <1>5, <1>6, <1>7 DEF Order

\* The steps of the handlers but the push of a sequence id.
LEMMA HandlerOrder ==
  ASSUME Types, Types', InMethod, InMethod', Order, NEW c \in Clients,
         \/ Arrival(c) \/ PushOperation(c) \/ PushRespond(c) \/ ReturnSync(c)
         \/ Disconnect(c)
  PROVE  Order'
<1>1. UNCHANGED <<sequence_queue_, responder, inbox>>
  BY DEF Arrival, RegisterClientId, Enter, PushOperation, PushRespond, ReturnSync, Disconnect,
         queueVars
<1>2. ASSUME NEW d \in Clients
      PROVE  Closed[d] <= Closed'[d]
  <2>1. CASE RegisterClientId(c) \/ Disconnect(c)
    BY <2>1, ClosedType DEF RegisterClientId, Disconnect, Closed, Types
  <2>2. CASE \E op \in Calls, size \in BatchSizes : Enter(c, op, size)
    BY <2>2 DEF Enter, Closed, Types, Idle
  <2>3. CASE PushOperation(c)
    <3>1. /\ made' = made /\ handler[c].pc = "futures" /\ handler'[c].pc # "idle"
          /\ \A x \in Clients : x # c => handler'[x] = handler[x]
      BY <2>3 DEF PushOperation, Types
    <3>2. Closed'[d] = Closed[d]
      BY <3>1 DEF Closed
    <3> QED
      BY <3>2, ClosedType
  <2>4. CASE PushRespond(c)
    BY <2>4 DEF PushRespond, Closed, Types, Idle
  <2>5. CASE ReturnSync(c)
    BY <2>5 DEF ReturnSync, Closed, Types, Idle
  <2> QED
    BY <2>1, <2>2, <2>3, <2>4, <2>5 DEF Arrival
<1> QED
  BY <1>1, <1>2, OrderSame

\* The id of the call that returns is younger than all that its client has under way.
LEMMA PushSequenceOrder ==
  ASSUME Types, Types', InMethod, InMethod', Order, NEW c \in Clients, PushSequence(c)
  PROVE  Order'
<1> DEFINE q == sequence_queue_
           e == <<c, made[c]>>
<1>1. /\ \A d \in Clients : Closed[d] \in Nat /\ Closed[d] <= Closed'[d]
      /\ Closed[c] = made[c] - 1 /\ Closed'[c] = made[c] /\ made[c] \in Nat
  BY DEF Types, InMethod, PushSequence, Closed, Idle
<1>2. \A x \in Ids : x[1] \in Clients /\ x[2] \in Nat
  BY DEF Ids
<1>3. e \in Ids /\ q \in Seq(Ids)
  BY DEF Ids, Types, InMethod, PushSequence
<1>4. /\ q' = Append(q, e) /\ responder' = responder /\ inbox' = inbox
  BY DEF PushSequence
<1>5. /\ DOMAIN q' = DOMAIN q \cup {Len(q) + 1} /\ DOMAIN q = 1 .. Len(q)
      /\ \A n \in DOMAIN q : q'[n] = q[n] /\ n < Len(q) + 1
      /\ q'[Len(q) + 1] = e
  BY <1>3, <1>4, AppendEnd
<1>6. Len(q) \in Nat
  BY <1>3
<1>7. /\ \A n \in DOMAIN q : q[n] \in Ids
      /\ \A d \in Clients : \A m \in DOMAIN inbox[d] : inbox[d][m].seq \in Ids
      /\ responder.pc = "wait" => responder.seq \in Ids
  BY IdsTyped
<1>8. \A x \in Ids : x[2] <= Closed[x[1]] => x[2] <= Closed'[x[1]] /\ (x[1] = c => x[2] < made[c])
  <2> TAKE x \in Ids
  <2>1. /\ x[1] \in Clients /\ x[2] \in Nat
        /\ Closed[x[1]] \in Nat /\ Closed[x[1]] <= Closed'[x[1]]
    BY <1>1, <1>2
  <2>2. Closed'[x[1]] \in Int
    <3>1. made' \in [Clients -> Nat]
      BY DEF Types
    <3>2. \A d \in Clients : made'[d] \in Int /\ made'[d] - 1 \in Int
      BY <3>1
    <3> QED
      BY <2>1, <3>2 DEF Closed
  <2>3. x[2] <= Closed[x[1]] => x[2] <= Closed'[x[1]]
    BY <2>1, <2>2
  <2>4. x[1] = c => Closed[x[1]] = made[c] - 1
    BY <1>1
  <2> QED
    BY <1>1, <2>1, <2>3, <2>4
<1>9. \A n \in DOMAIN q' : q'[n][2] <= Closed'[q'[n][1]]
  BY <1>1, <1>5, <1>7, <1>8 DEF Order
<1>10. \A m, n \in DOMAIN q' : m < n /\ q'[m][1] = q'[n][1] => q'[m][2] < q'[n][2]
  BY <1>5, <1>6, <1>7, <1>8 DEF Order
<1>11. responder.pc = "wait" =>
         /\ responder.seq[2] <= Closed'[responder.seq[1]]
         /\ \A n \in DOMAIN q' : responder.seq[1] = q'[n][1] => responder.seq[2] < q'[n][2]
  BY <1>5, <1>7, <1>8 DEF Order
<1>12. \A d \in Clients : \A m \in DOMAIN inbox[d] :
         /\ inbox[d][m].seq[1] = d /\ inbox[d][m].seq[2] <= Closed'[d]
         /\ \A n \in DOMAIN q' : q'[n][1] = d => inbox[d][m].seq[2] < q'[n][2]
  BY <1>5, <1>7, <1>8 DEF Order
<1> QED
  BY <1>4, <1>9, <1>10, <1>11, <1>12 DEF Order

\* The responder takes the oldest id.
LEMMA PopOrder ==
  ASSUME Types, Types', InMethod, InMethod', Order, PopRespond \/ PopSequence
  PROVE  Order'
<1>1. \A c \in Clients : Closed'[c] = Closed[c]
  BY DEF PopRespond, PopSequence, handlerVars, Closed
<1>2. CASE PopRespond
  <2>1. /\ sequence_queue_' = sequence_queue_ /\ inbox' = inbox
        /\ responder.pc = "respond" /\ responder'.pc = "sequence"
    BY <1>2 DEF PopRespond, Types
  <2>2. \A n \in DOMAIN sequence_queue_ : sequence_queue_[n][1] \in Clients
    BY DEF Types, Ids
  <2> QED
    BY <1>1, <2>1, <2>2 DEF Order
<1>3. CASE PopSequence
  <2> DEFINE q == sequence_queue_
  <2>1. /\ q \in Seq(Ids) /\ q # <<>> /\ q' = Tail(q) /\ inbox' = inbox
        /\ responder.pc = "sequence" /\ responder'.pc = "wait" /\ responder'.seq = Head(q)
    BY <1>3 DEF PopSequence, Types
  <2>2. /\ Head(q) = q[1] /\ 1 \in DOMAIN q /\ DOMAIN q' = 1 .. Len(q) - 1
        /\ \A n \in DOMAIN q' : n + 1 \in DOMAIN q /\ q'[n] = q[n + 1]
    BY <2>1, HeadTail
  <2>3. \A n \in DOMAIN q : q[n][1] \in Clients
    BY DEF Types, Ids
  <2>4. \A n \in DOMAIN q' : q'[n][2] <= Closed'[q'[n][1]]
    BY <1>1, <2>2, <2>3 DEF Order
  <2>5. \A m, n \in DOMAIN q' : m < n /\ q'[m][1] = q'[n][1] => q'[m][2] < q'[n][2]
    BY <2>2 DEF Order
  <2>6. /\ responder'.seq[2] <= Closed'[responder'.seq[1]]
        /\ \A n \in DOMAIN q' : responder'.seq[1] = q'[n][1] => responder'.seq[2] < q'[n][2]
    BY <1>1, <2>1, <2>2, <2>3 DEF Order
  <2>7. \A c \in Clients : \A m \in DOMAIN inbox[c] :
          /\ inbox[c][m].seq[1] = c /\ inbox[c][m].seq[2] <= Closed'[c]
          /\ responder'.seq[1] = c => inbox[c][m].seq[2] < responder'.seq[2]
          /\ \A n \in DOMAIN q' : q'[n][1] = c => inbox[c][m].seq[2] < q'[n][2]
          /\ \A n \in DOMAIN inbox[c] : m < n => inbox[c][m].seq[2] < inbox[c][n].seq[2]
    BY <1>1, <2>1, <2>2, <2>3 DEF Order
  <2> QED
    BY <2>1, <2>4, <2>5, <2>6, <2>7 DEF Order
<1> QED
  BY <1>2, <1>3

\* The response goes to the end of the client's inbox, if it goes anywhere.
LEMMA RespondOrder ==
  ASSUME Types, Types', InMethod, InMethod', Order, Respond
  PROVE  Order'
<1> DEFINE q == sequence_queue_
           s == responder.seq
           e == [seq |-> s, of |-> responder.entry.id]
<1>1. /\ \A d \in Clients : Closed'[d] = Closed[d]
      /\ q' = q /\ responder.pc = "wait"
  BY DEF Respond, handlerVars, queueVars, Closed
<1>2. s \in Ids /\ s[1] \in Clients /\ s[2] \in Nat /\ responder.entry.id \in Ids
  BY <1>1, IdsTyped
<1>3. \A n \in DOMAIN q : q[n][1] \in Clients
  BY DEF Types, Ids
<1>4. \/ responder' = responder /\ inbox' = inbox
      \/ responder'.pc = "respond" /\ inbox' = inbox
      \/ responder'.pc = "respond" /\ inbox' = [inbox EXCEPT ![s[1]] = Append(@, e)]
  BY DEF Respond, AsyncRespondClient
<1>5. CASE inbox' = inbox
  <2>1. responder' = responder \/ responder'.pc # "wait"
    BY <1>4
  <2>2. responder'.pc = "wait" => responder' = responder
    BY <2>1
  <2>3. \A n \in DOMAIN q' : q'[n][2] <= Closed'[q'[n][1]]
    BY <1>1, <1>3 DEF Order
  <2>4. responder'.pc = "wait" => responder'.seq[2] <= Closed'[responder'.seq[1]]
    BY <1>1, <1>2, <2>2 DEF Order
  <2>5. \A c \in Clients : \A m \in DOMAIN inbox[c] :
          inbox[c][m].seq[1] = c /\ inbox[c][m].seq[2] <= Closed'[c]
    BY <1>1 DEF Order
  <2> QED
    BY <1>1, <1>5, <2>2, <2>3, <2>4, <2>5 DEF Order
<1>6. CASE /\ responder'.pc = "respond"
           /\ inbox' = [inbox EXCEPT ![s[1]] = Append(@, e)]
  <2> DEFINE b == inbox[s[1]]
  <2>1. b \in Seq([seq : Ids, of : Ids]) /\ e \in [seq : Ids, of : Ids] /\ e.seq = s
    BY <1>2 DEF Types
  <2>2. inbox'[s[1]] = Append(b, e) /\ \A d \in Clients : d # s[1] => inbox'[d] = inbox[d]
    BY <1>2, <1>6 DEF Types
  <2>3. /\ DOMAIN inbox'[s[1]] = DOMAIN b \cup {Len(b) + 1} /\ DOMAIN b = 1 .. Len(b)
        /\ \A n \in DOMAIN b : inbox'[s[1]][n] = b[n] /\ n < Len(b) + 1
        /\ inbox'[s[1]][Len(b) + 1] = e /\ Len(b) \in Nat
    BY <2>1, <2>2, AppendEnd
  <2> HIDE DEF b, e, s
  <2>4. ASSUME NEW d \in Clients, NEW m \in DOMAIN inbox'[d]
        PROVE  /\ inbox'[d][m].seq[1] = d /\ inbox'[d][m].seq[2] <= Closed'[d]
               /\ \A n \in DOMAIN q : q[n][1] = d => inbox'[d][m].seq[2] < q[n][2]
               /\ \A n \in DOMAIN inbox'[d] : m < n => inbox'[d][m].seq[2] < inbox'[d][n].seq[2]
    <3>1. CASE d # s[1]
      BY <1>1, <2>2, <2>4, <3>1 DEF Order
    <3>2. CASE d = s[1] /\ m = Len(b) + 1
      BY <1>1, <2>1, <2>3, <3>2 DEF Order, s
    <3>3. CASE d = s[1] /\ m \in DOMAIN b
      <4>1. /\ inbox'[d][m] = b[m] /\ b = inbox[d] /\ Closed'[d] = Closed[d]
        BY <1>1, <2>3, <3>3 DEF b, Closed
      <4>2. /\ b[m].seq[1] = d /\ b[m].seq[2] <= Closed[d]
            /\ \A n \in DOMAIN q : q[n][1] = d => b[m].seq[2] < q[n][2]
            /\ \A n \in DOMAIN b : m < n => b[m].seq[2] < b[n].seq[2]
            /\ b[m].seq[2] < s[2]
        BY <1>1, <3>3, <4>1 DEF Order, s
      <4>3. ASSUME NEW n \in DOMAIN inbox'[d], m < n
            PROVE  inbox'[d][m].seq[2] < inbox'[d][n].seq[2]
        <5>1. CASE n \in DOMAIN b
          BY <2>3, <3>3, <4>1, <4>2, <4>3, <5>1
        <5>2. CASE n = Len(b) + 1
          BY <2>1, <2>3, <3>3, <4>1, <4>2, <5>2
        <5> QED
          BY <2>3, <3>3, <4>3, <5>1, <5>2
      <4> QED
        BY <4>1, <4>2, <4>3
    <3> QED
      BY <2>3, <2>4, <3>1, <3>2, <3>3
  <2>5. /\ \A n \in DOMAIN q' : q'[n][2] <= Closed'[q'[n][1]]
        /\ \A m, n \in DOMAIN q' : m < n /\ q'[m][1] = q'[n][1] => q'[m][2] < q'[n][2]
    BY <1>1, <1>3 DEF Order
  <2> QED
    BY <1>1, <1>6, <2>4, <2>5 DEF Order
<1> QED
  BY <1>4, <1>5, <1>6

-----------------------------------------------------------------------------
(* The order of the operations. *)

\* The promises of the operations are typed.
LEMMA PromisesTyped ==
  ASSUME Types
  PROVE  /\ \A p \in Promises : p[1] \in Ids /\ p[1][1] \in Clients /\ p[1][2] \in Nat
         /\ \A n \in DOMAIN operation_queue : operation_queue[n].promise \in Promises
<1>1. ASSUME NEW p \in Promises
      PROVE  p[1] \in Ids /\ p[1][1] \in Clients /\ p[1][2] \in Nat
  <2>1. p[1] \in Ids
    BY DEF Promises
  <2> QED
    BY <2>1, IdsTyped
<1>2. ASSUME NEW n \in DOMAIN operation_queue
      PROVE  operation_queue[n].promise \in Promises
  <2>1. operation_queue[n] \in [promise : Promises, put : BOOLEAN]
    BY <1>2, ElementOf DEF Types
  <2> QED
    BY <2>1
<1> QED
  BY <1>1, <1>2

\* A step that moves no promise but from pending to ready, and calls at most.
LEMMA AppliedSame ==
  ASSUME Types, Types', Applied, UNCHANGED operation_queue,
         pending' \cup ready' \subseteq pending \cup ready,
         \A c \in Clients : made[c] <= made'[c]
  PROVE  Applied'
<1>1. \A c \in Clients : made[c] \in Nat /\ made'[c] \in Nat
  BY DEF Types
<1>2. \A p \in Promises : p[1][2] <= made[p[1][1]] => p[1][2] <= made'[p[1][1]]
  BY <1>1, PromisesTyped
<1>3. pending \cup ready \subseteq Promises
  BY DEF Types
<1>4. \A p \in pending' \cup ready' : p[1][2] <= made'[p[1][1]]
  BY <1>2, <1>3 DEF Applied
<1>5. \A n \in DOMAIN operation_queue :
        operation_queue[n].promise[1][2] <= made'[operation_queue[n].promise[1][1]]
  BY <1>2, PromisesTyped DEF Applied
<1> QED
  BY <1>4, <1>5 DEF Applied

\* An operation of the current call goes to the end of the queue.
LEMMA PushOperationApplied ==
  ASSUME Types, Types', InMethod, Applied, NEW c \in Clients, PushOperation(c)
  PROVE  Applied'
<1> DEFINE oq == operation_queue
<1>1. PICK e \in [promise : Promises, put : BOOLEAN] :
        oq' = Append(oq, e) /\ e.promise[1] = <<c, made[c]>>
  <2> DEFINE x == [promise |-> <<<<c, made[c]>>, handler[c].pushed + 1>>,
                   put     |-> handler[c].call.op \in PutOps]
  <2>1. handler[c].pushed + 1 \in Nat /\ made[c] \in 1 .. MaxCalls
    BY DEF Types, InMethod, PushOperation
  <2>2. x \in [promise : Promises, put : BOOLEAN]
    BY <2>1 DEF Promises, Ids
  <2>3. oq' = Append(oq, x)
    BY DEF PushOperation
  <2> QED
    BY <2>2, <2>3
<1>2. /\ DOMAIN oq' = DOMAIN oq \cup {Len(oq) + 1} /\ DOMAIN oq = 1 .. Len(oq)
      /\ \A n \in DOMAIN oq : oq'[n] = oq[n] /\ n < Len(oq) + 1
      /\ oq'[Len(oq) + 1] = e
  <2>1. oq \in Seq([promise : Promises, put : BOOLEAN])
    BY DEF Types
  <2> HIDE DEF oq
  <2> QED
    BY <1>1, <2>1, AppendEnd
<1>3. made' = made /\ pending' = pending /\ ready' = ready /\ Len(oq) \in Nat
  BY DEF PushOperation, consumerVars, Types
<1>4. /\ e.promise[1][1] = c /\ e.promise[1][2] = made[c] /\ made[c] \in Nat
  BY <1>1 DEF Types
<1> HIDE DEF oq
<1>5. \A n \in DOMAIN oq' : oq'[n].promise[1][2] <= made[oq'[n].promise[1][1]]
  BY <1>2, <1>4 DEF Applied, oq
<1>6. \A n \in DOMAIN oq', p \in pending \cup ready :
        p[1][1] = oq'[n].promise[1][1] => p[1][2] <= oq'[n].promise[1][2]
  BY <1>2, <1>4 DEF Applied, oq
<1>7. \A n \in DOMAIN oq', m \in DOMAIN oq' :
        m < n /\ oq'[m].promise[1][1] = oq'[n].promise[1][1]
          => oq'[m].promise[1][2] <= oq'[n].promise[1][2]
  <2> TAKE n \in DOMAIN oq', m \in DOMAIN oq'
  <2>1. CASE n \in DOMAIN oq
    BY <1>2, <1>3, <2>1 DEF Applied, oq
  <2>2. CASE n = Len(oq) + 1
    BY <1>2, <1>4, <2>2 DEF Applied, oq
  <2> QED
    BY <1>2, <2>1, <2>2
<1> QED
  BY <1>3, <1>5, <1>6, <1>7 DEF Applied, oq

\* The consumer takes the oldest operation.
LEMMA ConsumeApplied ==
  ASSUME Types, Types', Applied, NEW n \in SplitSizes, Consume(n)
  PROVE  Applied'
<1> DEFINE oq == operation_queue
           h == Head(operation_queue).promise
<1>1. /\ oq' = Tail(oq) /\ oq # <<>> /\ made' = made
      /\ pending' \cup ready' \subseteq pending \cup ready \cup {h}
  BY DEF Consume, TakeFirst, handlerVars
<1>2. /\ Head(oq) = oq[1] /\ 1 \in DOMAIN oq /\ DOMAIN oq' = 1 .. Len(oq) - 1
      /\ \A m \in DOMAIN oq' : m + 1 \in DOMAIN oq /\ oq'[m] = oq[m + 1]
  BY <1>1, HeadTail DEF Types
<1>3. h = oq[1].promise
  BY <1>2
<1> HIDE DEF oq, h
<1>4. \A p \in pending' \cup ready' : p[1][2] <= made[p[1][1]]
  BY <1>1, <1>2, <1>3 DEF Applied, oq
<1>5. \A m \in DOMAIN oq' :
        /\ oq'[m].promise[1][2] <= made[oq'[m].promise[1][1]]
        /\ h[1][1] = oq'[m].promise[1][1] => h[1][2] <= oq'[m].promise[1][2]
        /\ \A p \in pending \cup ready :
             p[1][1] = oq'[m].promise[1][1] => p[1][2] <= oq'[m].promise[1][2]
  <2> TAKE m \in DOMAIN oq'
  <2>1. m + 1 \in DOMAIN oq /\ oq'[m] = oq[m + 1] /\ 1 < m + 1
    BY <1>2
  <2> QED
    BY <1>2, <1>3, <2>1 DEF Applied, oq
<1>6. \A m \in DOMAIN oq', k \in DOMAIN oq' :
        k < m /\ oq'[k].promise[1][1] = oq'[m].promise[1][1]
          => oq'[k].promise[1][2] <= oq'[m].promise[1][2]
  <2> TAKE m \in DOMAIN oq', k \in DOMAIN oq'
  <2>1. /\ m + 1 \in DOMAIN oq /\ oq'[m] = oq[m + 1]
        /\ k + 1 \in DOMAIN oq /\ oq'[k] = oq[k + 1]
        /\ k < m => k + 1 < m + 1
    BY <1>2
  <2> QED
    BY <2>1 DEF Applied, oq
<1> QED
  BY <1>1, <1>4, <1>5, <1>6 DEF Applied, oq

-----------------------------------------------------------------------------
(* Where the promises of a call are, and how many the batch has. *)

Held == Queued \cup pending \cup ready \cup broken

\* No operation is dropped by the consumer.
LEMMA ConsumerHeld ==
  ASSUME Types, Consumer
  PROVE  Held \subseteq Held'
<1>1. ASSUME NEW n \in SplitSizes, Consume(n)
      PROVE  Held \subseteq Held'
  <2> DEFINE oq == operation_queue
  <2>1. /\ oq' = Tail(oq) /\ oq # <<>> /\ oq \in Seq([promise : Promises, put : BOOLEAN])
        /\ pending \cup ready \cup broken \cup {Head(oq).promise}
             \subseteq pending' \cup ready' \cup broken'
    BY <1>1 DEF Consume, TakeFirst, Types
  <2>2. /\ Head(oq) = oq[1] /\ DOMAIN oq' = 1 .. Len(oq) - 1 /\ DOMAIN oq = 1 .. Len(oq)
        /\ \A m \in DOMAIN oq' : oq'[m] = oq[m + 1]
    BY <2>1, HeadTail
  <2>3. ASSUME NEW m \in DOMAIN oq
        PROVE  oq[m].promise \in Held'
    <3>1. CASE m = 1
      BY <2>1, <2>2, <3>1 DEF Held
    <3>2. CASE m # 1
      <4>1. m - 1 \in DOMAIN oq' /\ oq'[m - 1] = oq[m]
        BY <2>1, <2>2, <3>2
      <4> QED
        BY <4>1 DEF Held, Queued
    <3> QED
      BY <3>1, <3>2
  <2> QED
    BY <2>1, <2>3 DEF Held, Queued
<1>2. ASSUME NEW p \in pending, SetPromise(p)
      PROVE  Held \subseteq Held'
  BY <1>2 DEF SetPromise, Held, Queued
<1>3. ASSUME EndBatch
      PROVE  Held \subseteq Held'
  BY <1>3 DEF EndBatch, Held, Queued
<1> QED
  BY <1>1, <1>2, <1>3 DEF Consumer

\* A step that neither calls nor pushes an operation, and drops none.
LEMMA KeptSame ==
  ASSUME Types, Types', Kept, Held \subseteq Held', UNCHANGED made,
         \A c \in Clients : \/ handler'[c].pc = "idle"
                            \/ handler[c].pc # "idle" /\ handler'[c].pushed = handler[c].pushed
  PROVE  Kept'
<1>1. Kept <=> \A c \in Clients : handler[c].pc # "idle" =>
                 \A n \in 1 .. handler[c].pushed : <<<<c, made[c]>>, n>> \in Held
  BY DEF Kept, Held
<1>2. Kept' <=> \A c \in Clients : handler'[c].pc # "idle" =>
                 \A n \in 1 .. handler'[c].pushed : <<<<c, made'[c]>>, n>> \in Held'
  BY DEF Kept, Held
<1> HIDE DEF Kept
<1> QED
  BY <1>1, <1>2

\* A handler step keeps the promises of every call in hand.
LEMMA HandlerKept ==
  ASSUME Types, Types', InMethod, Kept, NEW c \in Clients,
         Arrival(c) \/ HandlerStep(c) \/ Disconnect(c)
  PROVE  Kept'
<1>1. CASE RegisterClientId(c) \/ Disconnect(c)
  <2>1. UNCHANGED <<handler, made, operation_queue, consumerVars>>
    BY <1>1 DEF RegisterClientId, Disconnect
  <2> QED
    BY <2>1 DEF Kept, Queued, consumerVars
<1>2. ASSUME NEW op \in Calls, NEW size \in BatchSizes, Enter(c, op, size)
      PROVE  Kept'
  <2>1. /\ UNCHANGED <<operation_queue, consumerVars>>
        /\ handler'[c].pushed = 0
        /\ \A d \in Clients : d # c => handler'[d] = handler[d] /\ made'[d] = made[d]
    BY <1>2 DEF Enter, Types
  <2> QED
    BY <2>1 DEF Kept, Queued, consumerVars
<1>3. CASE PushOperation(c)
  <2> DEFINE oq == operation_queue
             x == [promise |-> <<<<c, made[c]>>, handler[c].pushed + 1>>,
                   put     |-> handler[c].call.op \in PutOps]
  <2>1. /\ oq' = Append(oq, x) /\ made' = made /\ UNCHANGED consumerVars
        /\ handler'[c].pushed = handler[c].pushed + 1 /\ handler[c].pc # "idle"
        /\ \A d \in Clients : d # c => handler'[d] = handler[d]
        /\ handler[c].pushed \in Nat
    BY <1>3 DEF PushOperation, Types
  <2>2. x \in [promise : Promises, put : BOOLEAN]
    <3>1. made[c] \in 1 .. MaxCalls
      BY <2>1 DEF Types, InMethod
    <3> QED
      BY <2>1, <3>1 DEF Promises, Ids
  <2>3. /\ DOMAIN oq' = DOMAIN oq \cup {Len(oq) + 1}
        /\ \A n \in DOMAIN oq : oq'[n] = oq[n]
        /\ oq'[Len(oq) + 1] = x
    <3>1. oq \in Seq([promise : Promises, put : BOOLEAN])
      BY DEF Types
    <3> HIDE DEF oq, x
    <3> QED
      BY <2>1, <2>2, <3>1, AppendEnd
  <2>4. Queued \subseteq Queued' /\ <<<<c, made[c]>>, handler[c].pushed + 1>> \in Queued'
    <3>1. x.promise \in Queued'
      BY <2>3 DEF Queued
    <3> QED
      BY <2>3, <3>1 DEF Queued
  <2> HIDE DEF x, oq
  <2>5. ASSUME NEW d \in Clients, handler'[d].pc # "idle", NEW n \in 1 .. handler'[d].pushed
        PROVE  <<<<d, made'[d]>>, n>> \in Queued' \cup pending' \cup ready' \cup broken'
    <3>1. CASE d = c /\ n = handler[c].pushed + 1
      BY <2>1, <2>4, <3>1
    <3>2. CASE d = c /\ n # handler[c].pushed + 1
      <4>1. n \in 1 .. handler[c].pushed
        BY <2>1, <2>5, <3>2
      <4> QED
        BY <2>1, <2>4, <3>2, <4>1 DEF Kept, consumerVars
    <3>3. CASE d # c
      BY <2>1, <2>4, <2>5, <3>3 DEF Kept, consumerVars
    <3> QED
      BY <3>1, <3>2, <3>3
  <2> QED
    BY <2>5 DEF Kept
<1>4. CASE PushRespond(c) \/ PushSequence(c) \/ ReturnSync(c)
  <2>1. /\ UNCHANGED <<made, operation_queue, consumerVars>>
        /\ handler'[c].pc = "idle" \/ handler'[c].pushed = handler[c].pushed
        /\ handler[c].pc # "idle"
        /\ \A d \in Clients : d # c => handler'[d] = handler[d]
    <3>1. CASE PushRespond(c)
      <4>1. handler'[c] = IF handler[c].call.op \in AsyncBatch
                            THEN [handler[c] EXCEPT !.pc = "sequence"] ELSE Idle
        BY <3>1 DEF PushRespond, Types
      <4>2. handler[c] \in [pc : HandlerStates, call : AnyCall, pushed : Nat]
        BY DEF Types
      <4>3. handler'[c].pc = "idle" \/ handler'[c].pushed = handler[c].pushed
        BY <4>1, <4>2 DEF Idle
      <4> QED
        BY <3>1, <4>3 DEF PushRespond, Types
    <3>2. CASE PushSequence(c) \/ ReturnSync(c)
      BY <3>2 DEF PushSequence, ReturnSync, Types, Idle
    <3> QED
      BY <1>4, <3>1, <3>2
  <2>2. Held \subseteq Held'
    BY <2>1 DEF Held, Queued, consumerVars
  <2>3. \A d \in Clients : \/ handler'[d].pc = "idle"
                           \/ handler[d].pc # "idle" /\ handler'[d].pushed = handler[d].pushed
    BY <2>1
  <2> QED
    BY <2>1, <2>2, <2>3, KeptSame
<1> QED
  BY <1>1, <1>2, <1>3, <1>4 DEF Arrival, HandlerStep

\* The consumer counts what it takes.
LEMMA ConsumerCounted ==
  ASSUME Types, Types', Counted, Consumer
  PROVE  Counted'
<1>1. Cardinality(pending) \in Nat /\ i \in Nat
  BY FS_CardinalityType DEF Counted, Types
<1>2. ASSUME NEW n \in SplitSizes, Consume(n)
      PROVE  Counted'
  <2> DEFINE p == Head(operation_queue).promise
  <2>1. n \in Nat
    BY ResponseAssumption
  <2>2. \/ pending' = pending /\ i' = i + 1
        \/ pending' = pending /\ i' = i
        \/ pending' = pending \cup {p} /\ i' = i + n /\ n # 0
    BY <1>2 DEF Consume, TakeFirst
  <2>3. /\ IsFiniteSet(pending \cup {p})
        /\ Cardinality(pending \cup {p}) <= Cardinality(pending) + 1
        /\ Cardinality(pending \cup {p}) \in Nat
    <3> HIDE DEF p
    <3>1. IsFiniteSet(pending) /\ Cardinality(pending) \in Nat
      BY FS_CardinalityType DEF Counted
    <3>2. /\ IsFiniteSet(pending \cup {p})
          /\ Cardinality(pending \cup {p}) =
               IF p \in pending THEN Cardinality(pending) ELSE Cardinality(pending) + 1
      BY <3>1, FS_AddElement
    <3> QED
      BY <3>1, <3>2
  <2> HIDE DEF p
  <2>4. CASE pending' = pending /\ (i' = i + 1 \/ i' = i)
    BY <1>1, <2>4 DEF Counted
  <2>5. CASE pending' = pending \cup {p} /\ i' = i + n /\ n # 0
    <3>1. Cardinality(pending) + 1 <= i'
      BY <1>1, <2>1, <2>5 DEF Counted
    <3> QED
      BY <1>1, <2>1, <2>3, <2>5, <3>1 DEF Counted
  <2> QED
    BY <2>2, <2>4, <2>5
<1>3. ASSUME NEW p \in pending, SetPromise(p)
      PROVE  Counted'
  <2>1. pending' = pending \ {p} /\ i' = i
    BY <1>3 DEF SetPromise
  <2>2. IsFiniteSet(pending \ {p}) /\ Cardinality(pending \ {p}) <= Cardinality(pending)
    BY <1>1, FS_RemoveElement DEF Counted
  <2>3. Cardinality(pending \ {p}) \in Nat
    BY <2>2, FS_CardinalityType
  <2> QED
    BY <1>1, <2>1, <2>2, <2>3 DEF Counted
<1>4. ASSUME EndBatch
      PROVE  Counted'
  BY <1>4, FS_EmptySet DEF EndBatch, Counted
<1> QED
  BY <1>2, <1>3, <1>4 DEF Consumer

-----------------------------------------------------------------------------
(* The invariant and what follows from it. *)

LEMMA NextInv == IInv /\ [Next]_vars => IInv'
<1> SUFFICES ASSUME IInv, [Next]_vars
             PROVE  IInv'
  OBVIOUS
<1> USE DEF IInv
<1>1. ASSUME NEW c \in Clients, Arrival(c) \/ HandlerStep(c) \/ Disconnect(c)
      PROVE  IInv'
  <2>1. Types' /\ InMethod'
    BY <1>1, ClientTypes, EnterTypes, PushOperationTypes, PushRespondTypes, ReturnTypes
       DEF Arrival, HandlerStep
  <2>2. Order'
    BY <1>1, <2>1, HandlerOrder, PushSequenceOrder DEF HandlerStep
  <2>3. Applied'
    <3>1. CASE PushOperation(c)
      BY <2>1, <3>1, PushOperationApplied
    <3>2. CASE ~PushOperation(c)
      <4>1. UNCHANGED <<operation_queue, pending, ready>>
        BY <1>1, <3>2 DEF Arrival, RegisterClientId, Enter, HandlerStep, PushRespond,
                          PushSequence, ReturnSync, Disconnect, consumerVars
      <4>2. made' = made \/ made' = [made EXCEPT ![c] = @ + 1]
        BY <1>1, <3>2 DEF Arrival, RegisterClientId, Enter, HandlerStep, PushRespond,
                          PushSequence, ReturnSync, Disconnect
      <4>3. \A d \in Clients : made[d] <= made'[d]
        <5>1. \A d \in Clients : made[d] \in Nat
          BY DEF Types
        <5>2. \A d \in Clients : made'[d] = made[d] \/ made'[d] = made[d] + 1
          BY <4>2 DEF Types
        <5> QED
          BY <5>1, <5>2
      <4> QED
        BY <2>1, <4>1, <4>3, AppliedSame
    <3> QED
      BY <3>1, <3>2
  <2>4. Kept'
    BY <1>1, <2>1, HandlerKept
  <2>5. Counted'
    <3>1. UNCHANGED <<i, pending>>
      BY <1>1 DEF Arrival, RegisterClientId, Enter, HandlerStep, PushOperation, PushRespond,
                  PushSequence, ReturnSync, Disconnect, consumerVars
    <3> QED
      BY <3>1 DEF Counted
  <2> QED
    BY <2>1, <2>2, <2>3, <2>4, <2>5
<1>2. CASE Consumer
  <2>1. Types' /\ InMethod'
    BY <1>2, ConsumerTypes
  <2>2. UNCHANGED <<handler, made, sequence_queue_, responder, inbox>>
    BY <1>2 DEF Consumer, Consume, SetPromise, EndBatch, handlerVars, queueVars
  <2>3. \A c \in Clients : Closed[c] \in Nat /\ Closed'[c] = Closed[c]
    BY <2>2, ClosedType DEF Closed
  <2>4. Order'
    <3>1. \A c \in Clients : Closed[c] <= Closed'[c]
      BY <2>3
    <3> QED
      BY <2>1, <2>2, <3>1, OrderSame
  <2>5. Applied'
    <3>1. ASSUME NEW n \in SplitSizes, Consume(n)
          PROVE  Applied'
      BY <2>1, <3>1, ConsumeApplied
    <3>2. CASE EndBatch \/ \E p \in pending : SetPromise(p)
      <4>1. /\ UNCHANGED operation_queue
            /\ pending' \cup ready' \subseteq pending \cup ready
        BY <3>2 DEF EndBatch, SetPromise
      <4>2. \A c \in Clients : made[c] <= made'[c]
        BY <2>2 DEF Types
      <4> QED
        BY <2>1, <4>1, <4>2, AppliedSame
    <3> QED
      BY <1>2, <3>1, <3>2 DEF Consumer
  <2>6. Kept'
    <3>1. Held \subseteq Held'
      BY <1>2, ConsumerHeld
    <3>2. \A c \in Clients : \/ handler'[c].pc = "idle"
                             \/ handler[c].pc # "idle" /\ handler'[c].pushed = handler[c].pushed
      BY <2>2
    <3> QED
      BY <2>1, <2>2, <3>1, <3>2, KeptSame
  <2>7. Counted'
    BY <1>2, <2>1, ConsumerCounted
  <2> QED
    BY <2>1, <2>4, <2>5, <2>6, <2>7
<1>3. CASE Responder
  <2>1. Types' /\ InMethod'
    BY <1>3, ResponderTypes
  <2>2. UNCHANGED <<handlerVars, operation_queue, consumerVars>>
    BY <1>3 DEF Responder, PopRespond, PopSequence, Respond
  <2>3. Order'
    BY <1>3, <2>1, PopOrder, RespondOrder DEF Responder
  <2>4. Applied' /\ Kept' /\ Counted'
    BY <2>2 DEF Applied, Kept, Queued, Counted, handlerVars, consumerVars
  <2> QED
    BY <2>1, <2>3, <2>4
<1>4. CASE UNCHANGED vars
  <2>1. Types' /\ InMethod'
    BY <1>4 DEF vars, Types, InMethod
  <2>2. Order' /\ Applied' /\ Kept' /\ Counted'
    <3>1. Closed' = Closed /\ Queued' = Queued
      BY <1>4 DEF vars, Closed, Queued
    <3>2. Order'
      BY <1>4, <3>1 DEF vars, Order
    <3>3. Applied' /\ Kept' /\ Counted'
      BY <1>4, <3>1 DEF vars, Applied, Kept, Counted
    <3> QED
      BY <3>2, <3>3
  <2> QED
    BY <2>1, <2>2
<1> QED
  BY <1>1, <1>2, <1>3, <1>4 DEF Next

\* The inductive invariant holds.
LEMMA Inductive == Spec => []IInv
BY InitInv, NextInv, PTL DEF Spec

\* TypesHold: every queue, promise and response is of its type (TypeOK), for any
\* number of clients and calls.
THEOREM TypesHold == Spec => []TypeOK
<1>1. IInv => TypeOK
  <2> SUFFICES ASSUME IInv PROVE TypeOK
    OBVIOUS
  <2>1. \A n \in DOMAIN operation_queue : operation_queue[n].promise \in Promises
    BY PromisesTyped DEF IInv
  <2>2. \A c \in Clients : handler[c].pc \in HandlerStates
    BY DEF IInv, Types
  <2> QED
    BY <2>1, <2>2 DEF IInv, Types, TypeOK, HandlerStates, Entries
<1> QED
  BY <1>1, Inductive, PTL

\* ResponsesInOrder: whatever the handlers interleave on respond_queue_ and
\* sequence_queue_, a client is sent at most one response for each of its calls, in the
\* order of the calls (responder_thread, async_respond_client).
THEOREM ResponsesInOrder == Spec => []AnsweredInOrder
<1>1. IInv => AnsweredInOrder
  <2> SUFFICES ASSUME IInv, NEW c \in Clients
               PROVE  /\ SeqsSent(c) \subseteq {c} \X (1 .. made[c])
                      /\ \A m, n \in DOMAIN inbox[c] :
                           m < n => inbox[c][m].seq[2] < inbox[c][n].seq[2]
                      /\ SeqsSent(c) \cap Travelling = {}
    BY DEF AnsweredInOrder
  <2>1. Types /\ InMethod /\ Order
    BY DEF IInv
  <2>2. made[c] \in Nat /\ Closed[c] \in Nat /\ Closed[c] <= made[c]
    <3>1. made[c] \in Nat
      BY <2>1 DEF Types
    <3> QED
      BY <2>1, <3>1, ClosedType
  <2>3. ASSUME NEW m \in DOMAIN inbox[c]
        PROVE  inbox[c][m].seq \in {c} \X (1 .. made[c]) /\ inbox[c][m].seq \notin Travelling
    <3> DEFINE s == inbox[c][m].seq
    <3>1. s \in Ids
      BY <2>1, <2>3, IdsTyped
    <3>2. s = <<s[1], s[2]>> /\ s[2] \in Nat \ {0}
      BY <3>1 DEF Ids
    <3>3. s[1] = c /\ s[2] <= Closed[c]
      BY <2>1, <2>3 DEF Order
    <3>4. s \in {c} \X (1 .. made[c])
      BY <2>2, <3>2, <3>3
    <3>5. \A n \in DOMAIN sequence_queue_ : s # sequence_queue_[n]
      BY <2>1, <2>3, <3>2, <3>3 DEF Order
    <3>6. responder.pc = "wait" => s # responder.seq
      BY <2>1, <2>3, <3>2, <3>3 DEF Order
    <3> HIDE DEF s
    <3>7. s \notin Travelling
      BY <3>5, <3>6 DEF Travelling
    <3> QED
      BY <3>4, <3>7 DEF s
  <2>4. \A m, n \in DOMAIN inbox[c] : m < n => inbox[c][m].seq[2] < inbox[c][n].seq[2]
    BY <2>1 DEF Order
  <2> QED
    BY <2>3, <2>4 DEF SeqsSent
<1> QED
  BY <1>1, Inductive, PTL

\* AnswersFollowWrites: when an operation of a client has its answer, none of the
\* client's earlier calls has an operation left in operation_queue (put_future,
\* get_future and the consumer's pop share one queue).
THEOREM AnswersFollowWrites == Spec => []ReadYourWrites
<1>1. IInv => ReadYourWrites
  BY DEF IInv, Applied, ReadYourWrites, Queued
<1> QED
  BY <1>1, Inductive, PTL

\* PoolNeverStuck: synchronous calls with R unset promises between them, whatever workers
\* they hold, leave the consumer an operation to take or a full batch to execute: what is
\* not in the queue is in the batch, and each promise there counts for at least one
\* sub-operation (get_batch, consumer_thread, thrift_server::create).
THEOREM PoolNeverStuck == Spec => []PoolServes
<1>1. IInv => PoolServes
  <2> SUFFICES ASSUME IInv, Cardinality(Unset) >= R, operation_queue = <<>>
               PROVE  i >= R
    BY DEF PoolServes
  <2>1. ASSUME NEW p \in Unset
        PROVE  p \in pending
    <3>1. PICK c \in Clients : /\ handler[c].pc = "await"
                               /\ p \in Waiters(<<c, made[c]>>, handler[c].call.size)
                               /\ p \notin ready \cup broken
      BY <2>1 DEF Unset
    <3>2. PICK n \in 1 .. handler[c].call.size : p = <<<<c, made[c]>>, n>>
      BY <3>1 DEF Waiters
    <3>3. handler[c].pushed = handler[c].call.size
      BY <3>1 DEF IInv, InMethod
    <3>4. p \in Queued \cup pending
      BY <3>1, <3>2, <3>3 DEF IInv, Kept
    <3>5. Queued = {}
      BY DEF Queued
    <3> QED
      BY <3>4, <3>5
  <2>2. IsFiniteSet(pending) /\ Cardinality(pending) <= i
    BY DEF IInv, Counted
  <2>3. Cardinality(Unset) <= Cardinality(pending)
    BY <2>1, <2>2, FS_Subset
  <2>4. IsFiniteSet(Unset)
    BY <2>1, <2>2, FS_Subset
  <2>5. Cardinality(Unset) \in Nat /\ Cardinality(pending) \in Nat /\ i \in Nat
    BY <2>2, <2>4, FS_CardinalityType DEF IInv, Types
  <2> QED
    BY <2>2, <2>3, <2>5, ResponseAssumption
<1> QED
  BY <1>1, Inductive, PTL
=============================================================================
