------------------------- MODULE AsyncClientProofs -------------------------
(***************************************************************************)
(* For every number of calling threads and every limit: the types of       *)
(* AsyncClient, the bound on its calls in flight, and the account of them. *)
(*                                                                         *)
(* The bound on requests_ is not inductive: between the loop condition and *)
(* the push it must be known that nobody else pushes.  Inside says who is  *)
(* in the critical section, and Room that the room found there lasts.      *)
(***************************************************************************)
EXTENDS AsyncClient, TLAPS

\* A caller between lock and unlock.
InSection(t) == caller[t] \in {"test", "sleep", "send", "push"}

Inside == \A t \in Callers : InSection(t) <=> lock = t

Room ==
  /\ done_ => \A t \in Callers : caller[t] = "out"
  /\ ~done_ => requests_ <= Limit
  /\ \A t \in Callers : caller[t] \in {"send", "push"} => requests_ < Limit

\* No answer is lost; once a receive has crashed the process, one call too many is given up.
Account ==
  /\ sent = total_ + wire + owed
  /\ ~done_ => /\ sent <= total_ + timeouts + Receiving + requests_ + Pushing
               /\ status = "up" => sent = total_ + timeouts + Receiving + requests_ + Pushing

IInv == TypeOK /\ Inside /\ Room /\ Account

\* A step of a caller that neither reaches nor leaves the push keeps Pushing, which
\* looks at who is about to push.
LEMMA PushingSame ==
  ASSUME \A t \in Callers : caller[t] = "push" <=> caller'[t] = "push"
  PROVE  Pushing' = Pushing
BY DEF Pushing

\* The two indicators of the account are zero or one.
LEMMA ReceivingType == Receiving \in {0, 1} /\ Pushing \in {0, 1}
BY DEF Receiving, Pushing

\* Init: nobody calls and nothing is queued.
LEMMA InitInv == Init => IInv
<1> SUFFICES ASSUME Init PROVE IInv
  OBVIOUS
<1>1. Receiving = 0 /\ Pushing = 0
  BY DEF Init, Receiving, Pushing
<1>2. TypeOK
  BY DEF Init, TypeOK
<1>3. Inside
  BY ClientAssumption DEF Init, Inside, InSection
<1>4. Room
  BY ClientAssumption DEF Init, Room
<1>5. Account
  BY <1>1 DEF Init, Account
<1> QED
  BY <1>2, <1>3, <1>4, <1>5 DEF IInv

\* The steps of a caller before it sends: only its position and m_mtx_ change.
LEMMA CallerMoves ==
  ASSUME IInv, NEW t \in Callers, Call(t) \/ Lock(t) \/ Test(t) \/ Wait(t) \/ Wake(t)
  PROVE  IInv'
<1> USE ClientAssumption DEF IInv
<1>1. /\ UNCHANGED <<sent, owed, wire, requests_, reader, total_, timeouts, done_, status>>
      /\ \E w \in {"locking", "test", "sleep", "send", "waiting"} :
           caller' = [caller EXCEPT ![t] = w]
  BY DEF Call, Lock, Test, Wait, Wake, proxyVars
<1>2. caller[t] \in {"out", "locking", "test", "sleep", "waiting"}
  BY DEF Call, Lock, Test, Wait, Wake
<1>3. Pushing' = Pushing /\ Receiving' = Receiving
  <2>1. \A u \in Callers : caller[u] = "push" <=> caller'[u] = "push"
    BY <1>1, <1>2 DEF TypeOK
  <2> QED
    BY <1>1, <2>1, PushingSame DEF Receiving
<1>4. TypeOK'
  BY <1>1 DEF TypeOK, Call, Lock, Test, Wait, Wake
<1>5. Inside'
  BY DEF TypeOK, Inside, InSection, Call, Lock, Test, Wait, Wake
<1>6. Room'
  <2>1. caller[t] # "out" \/ ~done_
    BY DEF Call, Lock, Test, Wait, Wake
  <2>2. ~done_
    BY <2>1 DEF Room
  <2>3. caller'[t] = "send" => requests_ < Limit
    BY <1>1 DEF Call, Lock, Test, Wait, Wake, TypeOK, Full
  <2> QED
    BY <1>1, <2>2, <2>3 DEF Room, TypeOK
<1>7. Account'
  BY <1>1, <1>3 DEF Account
<1> QED
  BY <1>4, <1>5, <1>6, <1>7

\* Send: the call is counted as sent, and its caller as about to push.
LEMMA SendInv ==
  ASSUME IInv, NEW t \in Callers, Send(t)
  PROVE  IInv'
<1> USE ClientAssumption DEF IInv
<1>1. ~done_
  BY DEF Send, Room
<1>2. \A u \in Callers : caller[u] # "push"
  BY DEF Send, Inside, InSection
<1>3. Pushing = 0 /\ Pushing' = 1 /\ Receiving' = Receiving
  BY <1>2 DEF Pushing, Receiving, Send, TypeOK
<1>4. TypeOK'
  BY DEF TypeOK, Send
<1>5. Inside'
  BY DEF TypeOK, Inside, InSection, Send
<1>6. Room'
  BY <1>1 DEF Room, Send, TypeOK
<1>7. Account'
  BY <1>1, <1>3, ReceivingType DEF Account, Send, TypeOK
<1> QED
  BY <1>4, <1>5, <1>6, <1>7

\* Push: the caller's request is queued; nobody else was about to push.
LEMMA PushInv ==
  ASSUME IInv, NEW t \in Callers, Push(t)
  PROVE  IInv'
<1> USE ClientAssumption DEF IInv
<1>1. ~done_
  BY DEF Push, Room
<1>2. \A u \in Callers : u # t => caller[u] \notin {"send", "push"}
  BY DEF Push, Inside, InSection
<1>3. Pushing = 1 /\ Pushing' = 0 /\ Receiving' = Receiving
  BY <1>2 DEF Pushing, Receiving, Push, TypeOK, proxyVars
<1>4. TypeOK'
  BY DEF TypeOK, Push, proxyVars
<1>5. Inside'
  BY DEF TypeOK, Inside, InSection, Push
<1>6. Room'
  BY <1>1, <1>2 DEF Room, Push, TypeOK
<1>7. Account'
  BY <1>1, <1>3, ReceivingType DEF Account, Push, TypeOK, proxyVars
<1> QED
  BY <1>4, <1>5, <1>6, <1>7

\* finish: from here on the account is closed.
LEMMA FinishInv ==
  ASSUME IInv, Finish
  PROVE  IInv'
<1> USE ClientAssumption DEF IInv
<1>1. TypeOK'
  BY DEF TypeOK, Finish, Dummies, proxyVars
<1>2. Inside'
  BY DEF Inside, InSection, Finish
<1>3. Room' /\ Account'
  BY DEF Room, Account, Finish, proxyVars
<1> QED
  BY <1>1, <1>2, <1>3

\* The proxy changes neither what the client has sent nor what it has counted.
LEMMA ProxyInv ==
  ASSUME IInv, ProxyAnswers
  PROVE  IInv'
BY DEF IInv, TypeOK, Inside, InSection, Room, Account, Receiving, Pushing, ProxyAnswers

\* The response thread before it receives: one request leaves the queue.
LEMMA PopInv ==
  ASSUME IInv, Pop
  PROVE  IInv'
<1> USE ClientAssumption DEF IInv
<1>1. Receiving = 0 /\ Receiving' = 1 /\ Pushing' = Pushing
  BY DEF Receiving, Pushing, Pop
<1>2. TypeOK'
  BY DEF TypeOK, Pop, proxyVars
<1>3. Inside'
  BY DEF Inside, InSection, Pop
<1>4. Room'
  BY DEF Room, Pop, TypeOK
<1>5. Account'
  BY <1>1, ReceivingType DEF Account, Pop, TypeOK, proxyVars
<1> QED
  BY <1>2, <1>3, <1>4, <1>5

\* notify_one moves a waiting caller, if there is one.
LEMMA NotifyInv ==
  ASSUME IInv, Notify
  PROVE  IInv'
<1> USE ClientAssumption DEF IInv
<1>1. \/ caller' = caller
      \/ \E t \in Callers : caller[t] = "waiting" /\ caller' = [caller EXCEPT ![t] = "locking"]
  BY DEF Notify
<1>2. Receiving' = Receiving /\ Pushing' = Pushing
  <2>1. \A u \in Callers : caller[u] = "push" <=> caller'[u] = "push"
    BY <1>1 DEF TypeOK
  <2> QED
    BY <2>1, PushingSame DEF Receiving, Notify
<1>3. TypeOK'
  BY <1>1 DEF TypeOK, Notify, proxyVars
<1>4. Inside'
  BY <1>1 DEF Inside, InSection, Notify, TypeOK
<1>5. Room'
  BY <1>1 DEF Room, Notify, TypeOK
<1>6. Account'
  BY <1>2 DEF Account, Notify, proxyVars
<1> QED
  BY <1>3, <1>4, <1>5, <1>6

\* A receive counts the call or gives it up.
LEMMA ReceiveInv ==
  ASSUME IInv, Receive \/ TimeOut
  PROVE  IInv'
<1> USE ClientAssumption DEF IInv
<1>1. Receiving = 1 /\ Receiving' \in {0, 1} /\ Pushing' = Pushing
  BY DEF Receiving, Pushing, Receive, TimeOut
<1>2. status' = "up" => Receiving' = 0
  BY DEF Receiving, Receive, TimeOut, Again
<1>3. /\ UNCHANGED <<caller, lock, sent, requests_, done_>>
      /\ total_' + timeouts' = total_ + timeouts + 1
      /\ status = "up"
  BY DEF Receive, TimeOut, TypeOK, proxyVars
<1>4. TypeOK'
  BY DEF TypeOK, Receive, TimeOut, Again, proxyVars
<1>5. Inside' /\ Room'
  BY <1>3 DEF Inside, InSection, Room
<1>6. Account'
  <2>0. sent' = total_' + wire' + owed'
    BY DEF Account, Receive, TimeOut, TypeOK, proxyVars
  <2> SUFFICES ASSUME ~done_'
               PROVE  /\ sent' <= total_' + timeouts' + Receiving' + requests_' + Pushing'
                      /\ status' = "up" =>
                           sent' = total_' + timeouts' + Receiving' + requests_' + Pushing'
    BY <2>0 DEF Account
  <2>1. sent = total_ + timeouts + 1 + requests_ + Pushing
    BY <1>1, <1>3 DEF Account
  <2>2. sent' = total_' + timeouts' + requests_' + Pushing'
    BY <2>1, <1>1, <1>3, <1>4, ReceivingType DEF TypeOK
  <2>3. /\ total_' \in Nat /\ timeouts' \in Nat /\ requests_' \in Nat
        /\ Pushing' \in Nat
    BY <1>1, <1>4, ReceivingType DEF TypeOK
  <2>4. Receiving' = 0 \/ (Receiving' = 1 /\ status' # "up")
    BY <1>1, <1>2
  <2> HIDE DEF IInv
  <2> QED
    BY <2>2, <2>3, <2>4
<1> QED
  BY <1>4, <1>5, <1>6

\* The invariant holds in every step.
LEMMA StepInv == IInv /\ [Next]_vars => IInv'
<1> SUFFICES ASSUME IInv, [Next]_vars PROVE IInv'
  OBVIOUS
<1>1. CASE \E t \in Callers : Call(t) \/ CallStep(t) \/ Wake(t)
  BY <1>1, CallerMoves, SendInv, PushInv DEF CallStep
<1>2. CASE Finish
  BY <1>2, FinishInv
<1>3. CASE ProxyAnswers
  BY <1>3, ProxyInv
<1>4. CASE ReadResponse
  BY <1>4, PopInv, NotifyInv, ReceiveInv DEF ReadResponse
<1>5. CASE UNCHANGED vars
  BY <1>5 DEF IInv, TypeOK, Inside, InSection, Room, Account, Receiving, Pushing, vars
<1> QED
  BY <1>1, <1>2, <1>3, <1>4, <1>5 DEF Next

\* The invariant implies the three properties: with a push under way there is room.
LEMMA InvImplies == IInv => TypeOK /\ InFlightBounded /\ Accounted
<1> SUFFICES ASSUME IInv PROVE TypeOK /\ InFlightBounded /\ Accounted
  OBVIOUS
<1>1. ~done_ => requests_ + Pushing <= Limit
  BY ClientAssumption DEF IInv, Room, Pushing, TypeOK
<1> QED
  BY <1>1, ReceivingType, ClientAssumption
  DEF IInv, TypeOK, Account, InFlightBounded, Outstanding, Accounted, Awaited

\* The invariant holds in every behaviour.
LEMMA Invariance == Spec => []IInv
BY InitInv, StepInv, PTL DEF Spec

\* InFlightBound: whatever the number of threads and the limit, async_proxy_client
\* never has more than in_flight_limit_ + 1 calls outstanding before finish.
THEOREM InFlightBound == Spec => []InFlightBounded
BY Invariance, InvImplies, PTL

\* CallsAccounted: every call sent by async_proxy_client is queued, about to be
\* queued, being received, counted or given up, and read_responses lags behind the
\* answers by exactly the receives that timed out.
THEOREM CallsAccounted == Spec => []Accounted
BY Invariance, InvImplies, PTL

\* ClientTypes: type correctness of the client.
THEOREM ClientTypes == Spec => []TypeOK
BY Invariance, InvImplies, PTL
=============================================================================
