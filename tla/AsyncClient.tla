---------------------------- MODULE AsyncClient ----------------------------
(***************************************************************************)
(* async_proxy_client (libclient/src/async_proxy_client.cpp): the threads  *)
(* that call get, put, get_batch and put_batch on one client object, and   *)
(* its response thread.  A call is sent at once and its result only        *)
(* counted, by the response thread; requests_ holds one element per call   *)
(* that thread has not turned to yet, and a caller waits while it holds    *)
(* in_flight_limit_.                                                       *)
(*                                                                         *)
(* The four methods differ in what they send only.  The proxy answers the  *)
(* calls of a connection in their order, some of them after the 10 s       *)
(* receive timeout, or never: a GET waits for its batch to fill.           *)
(***************************************************************************)
EXTENDS Integers, FiniteSets

CONSTANTS
  Callers,      \* threads calling into the client
  Limit,        \* in_flight_limit_
  MaxSent       \* bound on the calls sent

ASSUME ClientAssumption ==
  /\ Limit \in Nat /\ MaxSent \in Nat
  /\ "free" \notin Callers

VARIABLES
  caller,     \* thread -> where it is
  lock,       \* who holds m_mtx_, or "free"
  sent,       \* calls handed to the transport
  owed,       \* sent calls the proxy has not answered
  wire,       \* answers in the socket
  requests_,  \* length of the queue: its elements are never looked at
  reader,     \* where the response thread is
  total_,     \* responses counted (the code adds the number of results of each)
  timeouts,   \* history: receives that timed out
  done_,      \* set by finish
  status      \* "up", or "crashed"

vars == <<caller, lock, sent, owed, wire, requests_, reader, total_, timeouts, done_, status>>
proxyVars == <<sent, owed, wire>>

Init ==
  /\ caller = [t \in Callers |-> "out"] /\ lock = "free"
  /\ sent = 0 /\ owed = 0 /\ wire = 0
  /\ requests_ = 0 /\ reader = "pop" /\ total_ = 0 /\ timeouts = 0
  /\ done_ = FALSE /\ status = "up"

-----------------------------------------------------------------------------
(* A calling thread.                                                         *)

\* Calls sent or begun.
Begun == sent + Cardinality({t \in Callers : caller[t] \notin {"out", "push"}})

\* A thread calls one of the four methods; none does after finish.
Call(t) ==
  /\ status = "up" /\ caller[t] = "out" /\ ~done_ /\ Begun < MaxSent
  /\ caller' = [caller EXCEPT ![t] = "locking"]
  /\ UNCHANGED <<lock, proxyVars, requests_, reader, total_, timeouts, done_, status>>

\* It obtains m_mtx_, at the start or on its way out of wait.
Lock(t) ==
  /\ status = "up" /\ caller[t] = "locking" /\ lock = "free"
  /\ lock' = t
  /\ caller' = [caller EXCEPT ![t] = "test"]
  /\ UNCHANGED <<proxyVars, requests_, reader, total_, timeouts, done_, status>>

\* Fault: one request too many.
FullByOne == requests_ > Limit

Full == requests_ >= Limit

\* The loop condition.  m_mtx_ does not exclude the response thread.
Test(t) ==
  /\ status = "up" /\ caller[t] = "test"
  /\ caller' = [caller EXCEPT ![t] = IF Full THEN "sleep" ELSE "send"]
  /\ UNCHANGED <<lock, proxyVars, requests_, reader, total_, timeouts, done_, status>>

\* m_cond_->wait begins: m_mtx_ is released and the thread waits, in one step.
Wait(t) ==
  /\ status = "up" /\ caller[t] = "sleep"
  /\ lock' = "free"
  /\ caller' = [caller EXCEPT ![t] = "waiting"]
  /\ UNCHANGED <<proxyVars, requests_, reader, total_, timeouts, done_, status>>

\* A condition variable may wake its waiters for no reason.
Wake(t) ==
  /\ status = "up" /\ caller[t] = "waiting"
  /\ caller' = [caller EXCEPT ![t] = "locking"]
  /\ UNCHANGED <<lock, proxyVars, requests_, reader, total_, timeouts, done_, status>>

\* client_->async_...: the call is on its way before the request is queued.
Send(t) ==
  /\ status = "up" /\ caller[t] = "send"
  /\ sent' = sent + 1 /\ owed' = owed + 1
  /\ caller' = [caller EXCEPT ![t] = "push"]
  /\ UNCHANGED <<lock, wire, requests_, reader, total_, timeouts, done_, status>>

\* requests_->push, and the end of the critical section.
Push(t) ==
  /\ status = "up" /\ caller[t] = "push"
  /\ requests_' = requests_ + 1
  /\ lock' = "free"
  /\ caller' = [caller EXCEPT ![t] = "out"]
  /\ UNCHANGED <<proxyVars, reader, total_, timeouts, done_, status>>

\* finish, when the callers are through: done_ and five elements nobody sent.
Dummies == 5
Finish ==
  /\ status = "up" /\ ~done_ /\ \A t \in Callers : caller[t] = "out"
  /\ done_' = TRUE
  /\ requests_' = requests_ + Dummies
  /\ UNCHANGED <<caller, lock, proxyVars, reader, total_, timeouts, status>>

-----------------------------------------------------------------------------
\* The proxy answers a call.
ProxyAnswers ==
  /\ owed > 0
  /\ owed' = owed - 1 /\ wire' = wire + 1
  /\ UNCHANGED <<caller, lock, sent, requests_, reader, total_, timeouts, done_, status>>

-----------------------------------------------------------------------------
(* read_responses                                                            *)

\* Fault: an empty queue is popped.
PopUnchecked ==
  /\ status = "up" /\ reader = "pop"
  /\ requests_' = requests_ - 1
  /\ reader' = "notify"
  /\ UNCHANGED <<caller, lock, proxyVars, total_, timeouts, done_, status>>

\* Fault: the element is looked at and not removed.
PopNothing ==
  /\ status = "up" /\ reader = "pop" /\ requests_ > 0
  /\ reader' = "notify"
  /\ UNCHANGED <<caller, lock, proxyVars, requests_, total_, timeouts, done_, status>>

Pop ==
  /\ status = "up" /\ reader = "pop" /\ requests_ > 0
  /\ requests_' = requests_ - 1
  /\ reader' = "notify"
  /\ UNCHANGED <<caller, lock, proxyVars, total_, timeouts, done_, status>>

\* Fault: nobody is woken.
NotifyNone ==
  /\ status = "up" /\ reader = "notify"
  /\ reader' = "recv"
  /\ UNCHANGED <<caller, lock, proxyVars, requests_, total_, timeouts, done_, status>>

\* m_cond_->notify_one, without m_mtx_: lost when nobody waits yet.
Notify ==
  /\ status = "up" /\ reader = "notify"
  /\ LET waiting == {t \in Callers : caller[t] = "waiting"}
     IN  IF waiting = {} THEN UNCHANGED caller
         ELSE \E t \in waiting : caller' = [caller EXCEPT ![t] = "locking"]
  /\ reader' = "recv"
  /\ UNCHANGED <<lock, proxyVars, requests_, total_, timeouts, done_, status>>

\* Fault: the flag is not looked at.
AgainAlways == "pop"

\* The loop condition, after one response.
Again == IF done_ THEN "ended" ELSE "pop"

\* recv_response returns an answer.
Receive ==
  /\ status = "up" /\ reader = "recv" /\ wire > 0
  /\ wire' = wire - 1
  /\ total_' = total_ + 1
  /\ reader' = Again
  /\ UNCHANGED <<caller, lock, sent, owed, requests_, timeouts, done_, status>>

\* recv_response times out: nothing comes, because nothing was sent or because the
\* answer is late.  Printing _return[0] of the empty vector then is undefined: the
\* process ends, or goes on with nothing counted.
TimeOut ==
  /\ status = "up" /\ reader = "recv" /\ wire = 0
  /\ timeouts' = timeouts + 1
  /\ status' \in {"up", "crashed"}
  /\ reader' = IF status' = "up" THEN Again ELSE reader
  /\ UNCHANGED <<caller, lock, proxyVars, requests_, total_, done_>>

-----------------------------------------------------------------------------
CallStep(t)  == Lock(t) \/ Test(t) \/ Wait(t) \/ Send(t) \/ Push(t)
ReadResponse == Pop \/ Notify \/ Receive \/ TimeOut

Next ==
  \/ \E t \in Callers : Call(t) \/ CallStep(t) \/ Wake(t)
  \/ Finish
  \/ ProxyAnswers
  \/ ReadResponse

Spec == Init /\ [][Next]_vars

\* The threads run.  Nobody need call, the proxy need not answer, and nobody counts on
\* spurious wakeups.
Fairness ==
  /\ \A t \in Callers : WF_vars(CallStep(t))
  /\ WF_vars(ReadResponse)
FairSpec == Spec /\ Fairness

-----------------------------------------------------------------------------
TypeOK ==
  /\ caller \in [Callers -> {"out", "locking", "test", "sleep", "waiting", "send", "push"}]
  /\ lock \in Callers \cup {"free"}
  /\ sent \in Nat /\ owed \in Nat /\ wire \in Nat
  /\ requests_ \in Nat /\ total_ \in Nat /\ timeouts \in Nat
  /\ reader \in {"pop", "notify", "recv", "ended"}
  /\ done_ \in BOOLEAN /\ status \in {"up", "crashed"}

\* InFlightBounded: before finish, the client has at most Limit + 1 calls whose answer
\* it has neither received nor given up, however many threads call and whenever they
\* are woken: the queued ones and the one the response thread is waiting for (the
\* loop around wait and the push under m_mtx_, lines 61-69).
Outstanding == sent - total_ - timeouts
InFlightBounded ==
  ~done_ => requests_ <= Limit /\ Outstanding <= Limit + 1

\* Accounted: before finish, every call sent is queued, about to be queued, being
\* received, counted or given up, so that the response thread never waits for an
\* answer without a call behind it (the send before the push, lines 67-69).  A receive
\* that timed out leaves its answer to the next one: the answers still to come exceed
\* those still awaited by the number of timeouts, and by nothing else, so each response
\* is counted for a call exactly that many places after its own.
Pushing   == IF \E t \in Callers : caller[t] = "push" THEN 1 ELSE 0
Receiving == IF reader \in {"notify", "recv"} THEN 1 ELSE 0
Awaited   == Receiving + requests_ + Pushing
Accounted ==
  ~done_ /\ status = "up" => /\ sent = total_ + timeouts + Awaited
                            /\ owed + wire = Awaited + timeouts

\* WaiterWoken: although notify_one is called without m_mtx_, while requests are queued
\* the callers do not all wait on: one of them is woken.  Which one is not the client's
\* choice, so a single caller is sure of it only if the others call finitely often; a
\* program with one calling thread, as the benchmark is, always is.
Waiters == {t \in Callers : caller[t] = "waiting"}
WaiterWoken ==
  /\ Waiters = Callers /\ requests_ > 0 ~> Waiters # Callers \/ status = "crashed"
  /\ \A t \in Callers :
       <>[][\A u \in Callers \ {t} : ~Call(u)]_vars
         => (t \in Waiters /\ requests_ > 0 ~> t \notin Waiters \/ status = "crashed")

\* CallReturns: a caller that waits for room gets out of the call.
CallReturns ==
  \A t \in Callers :
    caller[t] = "waiting" ~> caller[t] = "out" \/ status = "crashed"

\* FinishReturns: the response thread ends after finish, so that the join returns,
\* whether answers are outstanding or not.
FinishReturns == done_ ~> reader = "ended" \/ status = "crashed"
=============================================================================
