---------------------------- MODULE ThriftProofs ----------------------------
(***************************************************************************)
(* One connection, for every program, trace, in-flight limit and number of *)
(* searches: the calls reach the handler in order and unchanged, the       *)
(* answers reach the client in order, and neither thread of the client     *)
(* reads a message of the other unless search() overlapped a call.         *)
(*                                                                         *)
(* The argument counts.  The requests and the responses of one-way calls   *)
(* keep their order in every queue, so the n-th message of a queue belongs *)
(* to the call that is n places behind what the next stage has taken; a    *)
(* two-way call is out at most once, somewhere among them, and is left out *)
(* of the count (Flow, Rank).                                              *)
(***************************************************************************)
EXTENDS ThriftConnection, FiniteSetTheorems, SequenceTheorems, TLAPS

-----------------------------------------------------------------------------
(* The invariant                                                             *)

\* A sequence, whatever its elements.
IsSeq(s) == Len(s) \in Nat /\ s = [n \in 1 .. Len(s) |-> s[n]]

\* Of the messages on a connection at most one belongs to a two-way call.  How many others
\* there are, and which of them the n-th message is.
TwoWayIn(s) == \E n \in DOMAIN s : s[n].mtype # "oneway"
OneAtMost(s) == \A m, n \in DOMAIN s : s[m].mtype # "oneway" /\ s[n].mtype # "oneway" => m = n
Flow(s)    == Len(s) - (IF TwoWayIn(s) THEN 1 ELSE 0)
Rank(s, n) == n - (IF \E m \in 1 .. n - 1 : s[m].mtype # "oneway" THEN 1 ELSE 0)

\* The methods that are answered, those that are not, and those answered without a value.
Methods == {"get_client_id", "register_client_id", "get", "put", "get_batch", "put_batch", "search"}
OneWayMethods == {"async_get", "async_put", "async_get_batch", "async_put_batch"}
VoidMethods == {"register_client_id", "put", "put_batch"}

\* Where the calling thread can be.
Places == {"get_client_id", "register_client_id", "run", "push", "recv", "end"}

IsAsync == program \in AsyncPrograms
Joining == main.pc \in {"get_client_id", "register_client_id"}
             \/ (main.pc = "recv" /\ main.await \in {"get_client_id", "register_client_id"})

Typed ==
  /\ TypeOK
  /\ main \in [pc : Places, await : Methods \cup {"none"}, sent : Nat, id : Int, searches : Nat,
               overlap : BOOLEAN]
  /\ calls \in Seq(Calls)
  /\ program \in {"async_single", "sync_single"} =>
       \A n \in DOMAIN calls : Len(calls[n].keys) = 1 /\ Len(calls[n].values) <= 1
  /\ IsSeq(toServer) /\ IsSeq(toClient) /\ IsSeq(worker) /\ IsSeq(respond_queue_)
  /\ IsSeq(sequence_queue_) /\ IsSeq(handled) /\ IsSeq(outcomes) /\ IsSeq(answers)

\* Where the calling thread can be, and what it waits for.
Calling ==
  /\ main.pc = "push" => IsAsync /\ requests_ < in_flight_limit_
  /\ main.pc = "recv" => main.await \in
       IF IsAsync THEN {"get_client_id", "register_client_id", "search"}
                  ELSE {"get", "put", "get_batch", "put_batch"}
  /\ main.pc = "recv" /\ ~IsAsync => main.sent > 0 /\ main.await = SyncMethod(calls[main.sent])
  /\ Joining => IsAsync /\ main.sent = 0
  /\ IsAsync /\ ~Joining => main.id \in clients_
  /\ ~IsAsync => requests_ = 0 /\ response_thread = "pop"
  /\ IsAsync /\ main.pc = "recv" /\ ~main.overlap => Quiet

\* At most one message of a two-way call is out, and somebody waits for it.
TwoWayOut ==
  /\ OneAtMost(toServer) /\ OneAtMost(worker) /\ OneAtMost(toClient)
  /\ ~(TwoWayIn(toServer) /\ TwoWayIn(worker))
  /\ ~(TwoWayIn(toServer) /\ TwoWayIn(toClient))
  /\ ~(TwoWayIn(worker) /\ TwoWayIn(toClient))

\* The request of the two-way call that the calling thread waits for.
Asking ==
  CASE main.await = "get_client_id"      -> send_get_client_id
    [] main.await = "register_client_id" -> send_register_client_id(1, main.id)
    [] main.await = "search"             -> send_search("item")
    [] OTHER                             -> SyncRequest(calls[main.sent])

\* m is the request of call x, or the one of the two-way call.
Request(m, x) ==
  IF m.mtype = "oneway"
    THEN IsAsync /\ x \in DOMAIN calls /\ m = AsyncRequest(calls[x], SeqId(main.id, x - 1))
    ELSE main.pc = "recv" /\ m = Asking

\* The calls reach the handler in the order they were made.
Upstream ==
  /\ \A n \in DOMAIN worker : Request(worker[n], Len(handled) + 1)
  /\ \A n \in DOMAIN toServer :
       Request(toServer[n], Len(handled) + Flow(worker) + Rank(toServer, n))
  /\ main.sent = Len(handled) + Flow(worker) + Flow(toServer)
                   + (IF ~IsAsync /\ (TwoWayIn(worker) \/ TwoWayIn(toServer)) THEN 1 ELSE 0)
  /\ \A n \in DOMAIN handled : handled[n] = calls[n]

\* What the responder has still to answer, and with which ids.
Answering ==
  /\ Len(handled) = Len(outcomes) + Len(respond_queue_)
  /\ ~IsAsync => respond_queue_ = <<>>
  /\ program # "async_batch" => sequence_queue_ = <<>>
  /\ program = "async_batch" => Len(sequence_queue_) = Len(respond_queue_)
  /\ \A n \in DOMAIN respond_queue_ :
       /\ respond_queue_[n].call = calls[Len(outcomes) + n]
       /\ program = "async_batch" =>
            respond_queue_[n].op = IF respond_queue_[n].call.values = <<>> THEN 2 ELSE 3
  /\ \A n \in DOMAIN sequence_queue_ :
       /\ sequence_queue_[n].client_id = main.id
       /\ sequence_queue_[n].client_seq_no = Len(outcomes) + n - 1
  /\ \A n \in DOMAIN outcomes : Fits(outcomes[n], calls[n]) /\ (IsAsync => outcomes[n] # <<>>)

\* m is the response to call x, or the reply of the two-way call.
Response(m, x) ==
  IF m.mtype = "oneway"
    THEN /\ IsAsync /\ main.id # -1 /\ x \in DOMAIN outcomes
         /\ recv_response(m) = Return([no |-> x - 1, result |-> outcomes[x]])
    ELSE LET out == RecvOf(main.await, m)
         IN  /\ main.pc = "recv" /\ out.kind \in {"return", "throw"}
             /\ recv_response(m).kind # "return"
             /\ main.await = "get_client_id" => out.kind = "return" /\ out.value \in Int
             /\ main.await = "register_client_id" => main.id \in clients_
             /\ ~IsAsync => Len(outcomes) = main.sent
                            /\ ResultOf(main.await, out) = outcomes[main.sent]

\* The answers reach the client in the order the proxy gave them.
Downstream ==
  /\ \A n \in DOMAIN answers : answers[n] = [no |-> n - 1, result |-> outcomes[n]]
  /\ Len(answers) <= Len(outcomes)
  /\ client = "up" =>
       /\ \A n \in DOMAIN toClient : Response(toClient[n], Len(answers) + Rank(toClient, n))
       /\ IsAsync /\ main.id # -1 => Len(outcomes) = Len(answers) + Flow(toClient)
       /\ IsAsync /\ main.id = -1 => answers = <<>>
       /\ IsAsync => Requests = main.sent - Len(answers)
       /\ ~IsAsync => Len(answers) = main.sent - (IF main.pc = "recv" THEN 1 ELSE 0)

ThriftInv == /\ Typed /\ Calling /\ TwoWayOut /\ Upstream /\ Answering /\ Downstream
             /\ MessagesUnderstood

-----------------------------------------------------------------------------
(* Sequences                                                                 *)

\* A sequence in this sense is one of the sequences over its own elements.
LEMMA SeqOver ==
  ASSUME NEW s, IsSeq(s), NEW T, \A n \in 1 .. Len(s) : s[n] \in T
  PROVE  s \in Seq(T) /\ Len(s) \in Nat /\ DOMAIN s = 1 .. Len(s)
<1>1. Len(s) \in Nat /\ s = [n \in 1 .. Len(s) |-> s[n]]
  BY DEF IsSeq
<1>2. s \in [1 .. Len(s) -> T]
  BY <1>1
<1> QED
  BY <1>1, <1>2

\* And conversely.
LEMMA SeqIsSeq ==
  ASSUME NEW T, NEW s \in Seq(T)
  PROVE  IsSeq(s)
BY DEF IsSeq

\* Appending keeps the places of the elements.
LEMMA AppendSeq ==
  ASSUME NEW s, IsSeq(s), NEW m
  PROVE  /\ IsSeq(Append(s, m)) /\ Len(Append(s, m)) = Len(s) + 1
         /\ DOMAIN Append(s, m) = 1 .. Len(s) + 1
         /\ Append(s, m)[Len(s) + 1] = m
         /\ \A n \in 1 .. Len(s) : Append(s, m)[n] = s[n]
<1> DEFINE T == {s[n] : n \in 1 .. Len(s)} \cup {m}
<1>1. s \in Seq(T) /\ m \in T /\ Len(s) \in Nat
  BY SeqOver
<1> HIDE DEF T
<1>2. Append(s, m) \in Seq(T)
  BY <1>1
<1>3. IsSeq(Append(s, m))
  BY <1>2, SeqIsSeq
<1> QED
  BY <1>1, <1>3

\* Taking the head moves the other elements by one place.
LEMMA TailSeq ==
  ASSUME NEW s, IsSeq(s), s # <<>>
  PROVE  /\ Len(s) \in Nat \ {0} /\ Head(s) = s[1]
         /\ IsSeq(Tail(s)) /\ Len(Tail(s)) = Len(s) - 1
         /\ DOMAIN Tail(s) = 1 .. Len(s) - 1
         /\ \A n \in 1 .. Len(s) - 1 : Tail(s)[n] = s[n + 1]
<1> DEFINE T == {s[n] : n \in 1 .. Len(s)}
<1>1. s \in Seq(T)
  BY SeqOver
<1> HIDE DEF T
<1>2. Len(s) \in Nat \ {0}
  BY <1>1, EmptySeq
<1>3. /\ Tail(s) \in Seq(T) /\ Len(Tail(s)) = Len(s) - 1
      /\ \A n \in 1 .. Len(Tail(s)) : Tail(s)[n] = s[n + 1]
  BY <1>1, HeadTailProperties
<1>4. IsSeq(Tail(s))
  BY <1>3, SeqIsSeq
<1> QED
  BY <1>1, <1>2, <1>3, <1>4

\* The empty sequence, and the sequences of one element.
LEMMA ShortSeq ==
  /\ IsSeq(<<>>) /\ Len(<<>>) = 0 /\ DOMAIN <<>> = {}
  /\ \A m : IsSeq(<<m>>) /\ Len(<<m>>) = 1 /\ DOMAIN <<m>> = {1} /\ <<m>>[1] = m
  /\ \A s : IsSeq(s) => Len(s) \in Nat /\ DOMAIN s = 1 .. Len(s) /\ (s = <<>> <=> Len(s) = 0)
<1>1. IsSeq(<<>>) /\ Len(<<>>) = 0 /\ DOMAIN <<>> = {}
  BY DEF IsSeq
<1>2. ASSUME NEW m
      PROVE  IsSeq(<<m>>) /\ Len(<<m>>) = 1 /\ DOMAIN <<m>> = {1} /\ <<m>>[1] = m
  <2>1. <<m>> \in Seq({m})
    OBVIOUS
  <2>2. IsSeq(<<m>>)
    BY <2>1, SeqIsSeq
  <2> QED
    BY <2>2
<1>3. ASSUME NEW s, IsSeq(s)
      PROVE  Len(s) \in Nat /\ DOMAIN s = 1 .. Len(s) /\ (s = <<>> <=> Len(s) = 0)
  <2>1. s \in Seq({s[n] : n \in 1 .. Len(s)}) /\ Len(s) \in Nat /\ DOMAIN s = 1 .. Len(s)
    BY <1>3, SeqOver
  <2> QED
    BY <2>1, EmptySeq
<1> QED
  BY <1>1, <1>2, <1>3

\* Places that move by one, or are the last one.
LEMMA Indexes ==
  ASSUME NEW k \in Nat
  PROVE  /\ \A n \in 1 .. k - 1 : n + 1 \in 1 .. k
         /\ \A n \in 1 .. k + 1 : n \in 1 .. k \/ n = k + 1
OBVIOUS

\* What serving a message adds to the connection is one message or none.
LEMMA ConcatSeq ==
  ASSUME NEW s, IsSeq(s)
  PROVE  s \o <<>> = s /\ \A m : s \o <<m>> = Append(s, m)
<1>1. s \o <<>> = s
  <2>1. s \in Seq({s[n] : n \in 1 .. Len(s)})
    BY SeqOver
  <2> QED
    BY <2>1, ConcatEmptySeq
<1>2. ASSUME NEW m
      PROVE  s \o <<m>> = Append(s, m)
  <2> DEFINE T == {s[n] : n \in 1 .. Len(s)} \cup {m}
  <2>1. s \in Seq(T) /\ m \in T
    BY SeqOver
  <2> HIDE DEF T
  <2> QED
    BY <2>1
<1> QED
  BY <1>1, <1>2

-----------------------------------------------------------------------------
(* Counting the messages of a queue                                          *)

\* The n-th message of one-way calls has its place among them.
LEMMA FlowRank ==
  ASSUME NEW s, IsSeq(s)
  PROVE  /\ Flow(s) \in Nat /\ (~TwoWayIn(s) => Flow(s) = Len(s))
         /\ \A n \in DOMAIN s : s[n].mtype = "oneway" => Rank(s, n) \in 1 .. Flow(s)
         /\ s # <<>> => Rank(s, 1) = 1
<1>1. Len(s) \in Nat /\ DOMAIN s = 1 .. Len(s)
  BY ShortSeq
<1>2. Flow(s) \in Nat /\ (~TwoWayIn(s) => Flow(s) = Len(s))
  <2>1. CASE TwoWayIn(s)
    <3>1. PICK n \in 1 .. Len(s) : s[n].mtype # "oneway"
      BY <1>1, <2>1 DEF TwoWayIn
    <3> QED
      BY <1>1, <2>1, <3>1 DEF Flow
  <2>2. CASE ~TwoWayIn(s)
    BY <1>1, <2>2 DEF Flow
  <2> QED
    BY <2>1, <2>2
<1>3. ASSUME NEW n \in DOMAIN s, s[n].mtype = "oneway"
      PROVE  Rank(s, n) \in 1 .. Flow(s)
  <2>1. CASE \E m \in 1 .. n - 1 : s[m].mtype # "oneway"
    <3>1. TwoWayIn(s) /\ n > 1
      BY <1>1, <2>1 DEF TwoWayIn
    <3> QED
      BY <1>1, <2>1, <3>1 DEF Flow, Rank
  <2>2. CASE ~\E m \in 1 .. n - 1 : s[m].mtype # "oneway"
    <3>1. CASE TwoWayIn(s)
      <4>1. PICK m \in 1 .. Len(s) : s[m].mtype # "oneway"
        BY <1>1, <3>1 DEF TwoWayIn
      <4>2. m > n
        BY <1>1, <1>3, <2>2, <4>1
      <4> QED
        BY <1>1, <2>2, <3>1, <4>1, <4>2 DEF Flow, Rank
    <3>2. CASE ~TwoWayIn(s)
      BY <1>1, <2>2, <3>2 DEF Flow, Rank
    <3> QED
      BY <3>1, <3>2
  <2> QED
    BY <2>1, <2>2
<1>4. Rank(s, 1) = 1
  BY DEF Rank
<1> QED
  BY <1>2, <1>3, <1>4

\* Sending a message of a one-way call.
LEMMA AppendOneWay ==
  ASSUME NEW s, IsSeq(s), NEW m, m.mtype = "oneway"
  PROVE  /\ TwoWayIn(Append(s, m)) <=> TwoWayIn(s)
         /\ OneAtMost(s) => OneAtMost(Append(s, m))
         /\ Flow(Append(s, m)) = Flow(s) + 1
         /\ \A n \in 1 .. Len(s) : Rank(Append(s, m), n) = Rank(s, n)
         /\ Rank(Append(s, m), Len(s) + 1) = Flow(s) + 1
<1> DEFINE t == Append(s, m)
<1>1. /\ Len(s) \in Nat /\ DOMAIN s = 1 .. Len(s) /\ Len(t) = Len(s) + 1
      /\ DOMAIN t = 1 .. Len(s) + 1 /\ t[Len(s) + 1] = m
      /\ \A n \in 1 .. Len(s) : t[n] = s[n]
  BY AppendSeq, ShortSeq
<1> HIDE DEF t
<1>2. TwoWayIn(t) <=> TwoWayIn(s)
  BY <1>1 DEF TwoWayIn
<1>3. OneAtMost(s) => OneAtMost(t)
  <2>1. \A n \in DOMAIN t : t[n].mtype # "oneway" => n \in DOMAIN s /\ t[n] = s[n]
    BY <1>1
  <2> QED
    BY <2>1 DEF OneAtMost
<1>4. Flow(t) = Flow(s) + 1
  BY <1>1, <1>2 DEF Flow
<1>5. \A n \in 1 .. Len(s) : Rank(t, n) = Rank(s, n)
  BY <1>1 DEF Rank
<1>6. Rank(t, Len(s) + 1) = Flow(s) + 1
  <2>1. (\E n \in 1 .. (Len(s) + 1) - 1 : t[n].mtype # "oneway") <=> TwoWayIn(s)
    BY <1>1 DEF TwoWayIn
  <2> QED
    BY <1>1, <2>1 DEF Rank, Flow
<1> QED
  BY <1>2, <1>3, <1>4, <1>5, <1>6 DEF t

\* Sending the message of a two-way call, when none is there.
LEMMA AppendTwoWay ==
  ASSUME NEW s, IsSeq(s), NEW m, m.mtype # "oneway", ~TwoWayIn(s)
  PROVE  /\ TwoWayIn(Append(s, m)) /\ OneAtMost(Append(s, m))
         /\ Flow(Append(s, m)) = Flow(s)
         /\ \A n \in 1 .. Len(s) : Rank(Append(s, m), n) = Rank(s, n)
<1> DEFINE t == Append(s, m)
<1>1. /\ Len(s) \in Nat /\ DOMAIN s = 1 .. Len(s) /\ Len(t) = Len(s) + 1
      /\ DOMAIN t = 1 .. Len(s) + 1 /\ t[Len(s) + 1] = m
      /\ \A n \in 1 .. Len(s) : t[n] = s[n]
  BY AppendSeq, ShortSeq
<1> HIDE DEF t
<1>2. TwoWayIn(t)
  BY <1>1 DEF TwoWayIn
<1>3. OneAtMost(t)
  <2>1. \A n \in DOMAIN t : t[n].mtype # "oneway" => n = Len(s) + 1
    BY <1>1 DEF TwoWayIn
  <2> QED
    BY <2>1 DEF OneAtMost
<1>4. Flow(t) = Flow(s)
  BY <1>1, <1>2 DEF Flow
<1>5. \A n \in 1 .. Len(s) : Rank(t, n) = Rank(s, n)
  BY <1>1 DEF Rank
<1> QED
  BY <1>2, <1>3, <1>4, <1>5 DEF t

\* Taking a message of a one-way call.
LEMMA TailOneWay ==
  ASSUME NEW s, IsSeq(s), s # <<>>, s[1].mtype = "oneway"
  PROVE  /\ TwoWayIn(Tail(s)) <=> TwoWayIn(s)
         /\ Flow(Tail(s)) = Flow(s) - 1
         /\ \A n \in 1 .. Len(s) - 1 : Rank(Tail(s), n) = Rank(s, n + 1) - 1
<1> DEFINE t == Tail(s)
<1>1. /\ Len(s) \in Nat \ {0} /\ DOMAIN s = 1 .. Len(s) /\ Len(t) = Len(s) - 1
      /\ DOMAIN t = 1 .. Len(s) - 1
      /\ \A n \in 1 .. Len(s) - 1 : t[n] = s[n + 1]
  BY TailSeq, ShortSeq
<1> HIDE DEF t
<1>2. \A n \in 0 .. Len(s) - 1 :
        (\E m \in 1 .. n : t[m].mtype # "oneway") <=> (\E m \in 1 .. n + 1 : s[m].mtype # "oneway")
  <2> TAKE n \in 0 .. Len(s) - 1
  <2>1. ASSUME NEW m \in 1 .. n, t[m].mtype # "oneway"
        PROVE  m + 1 \in 1 .. n + 1 /\ s[m + 1].mtype # "oneway"
    BY <1>1, <2>1
  <2>2. ASSUME NEW m \in 1 .. n + 1, s[m].mtype # "oneway"
        PROVE  m - 1 \in 1 .. n /\ t[m - 1].mtype # "oneway"
    BY <1>1, <2>2
  <2> QED
    BY <2>1, <2>2
<1>3. TwoWayIn(t) <=> TwoWayIn(s)
  <2>1. Len(s) - 1 \in 0 .. Len(s) - 1 /\ 1 .. (Len(s) - 1) + 1 = DOMAIN s
    BY <1>1
  <2> QED
    BY <1>1, <1>2, <2>1 DEF TwoWayIn
<1>4. Flow(t) = Flow(s) - 1
  BY <1>1, <1>3 DEF Flow
<1>5. ASSUME NEW n \in 1 .. Len(s) - 1
      PROVE  Rank(t, n) = Rank(s, n + 1) - 1
  <2>1. (\E m \in 1 .. n - 1 : t[m].mtype # "oneway")
           <=> (\E m \in 1 .. (n + 1) - 1 : s[m].mtype # "oneway")
    <3>1. n - 1 \in 0 .. Len(s) - 1 /\ (n - 1) + 1 = (n + 1) - 1
      BY <1>1
    <3> QED
      BY <1>2, <3>1
  <2> QED
    BY <1>1, <2>1 DEF Rank
<1> QED
  BY <1>3, <1>4, <1>5 DEF t

\* Taking the message of the two-way call.
LEMMA TailTwoWay ==
  ASSUME NEW s, IsSeq(s), s # <<>>, s[1].mtype # "oneway", OneAtMost(s)
  PROVE  /\ TwoWayIn(s) /\ ~TwoWayIn(Tail(s)) /\ Flow(Tail(s)) = Flow(s)
         /\ \A n \in 1 .. Len(s) - 1 : Rank(Tail(s), n) = Rank(s, n + 1)
<1> DEFINE t == Tail(s)
<1>1. /\ Len(s) \in Nat \ {0} /\ DOMAIN s = 1 .. Len(s) /\ Len(t) = Len(s) - 1
      /\ DOMAIN t = 1 .. Len(s) - 1
      /\ \A n \in 1 .. Len(s) - 1 : t[n] = s[n + 1]
  BY TailSeq, ShortSeq
<1> HIDE DEF t
<1>2. ASSUME NEW n \in 1 .. Len(s) - 1
      PROVE  t[n].mtype = "oneway"
  <2>1. n + 1 \in DOMAIN s /\ 1 \in DOMAIN s /\ n + 1 # 1 /\ t[n] = s[n + 1]
    BY <1>1
  <2> QED
    BY <2>1 DEF OneAtMost
<1>3. TwoWayIn(s) /\ ~TwoWayIn(t)
  BY <1>1, <1>2 DEF TwoWayIn
<1>4. Flow(t) = Flow(s)
  BY <1>1, <1>3 DEF Flow
<1>5. ASSUME NEW n \in 1 .. Len(s) - 1
      PROVE  Rank(t, n) = Rank(s, n + 1)
  <2>1. ~\E m \in 1 .. n - 1 : t[m].mtype # "oneway"
    BY <1>1, <1>2
  <2>2. 1 \in 1 .. (n + 1) - 1
    BY <1>1
  <2>3. \E m \in 1 .. (n + 1) - 1 : s[m].mtype # "oneway"
    BY <2>2
  <2> QED
    BY <1>1, <2>1, <2>3 DEF Rank
<1> QED
  BY <1>3, <1>4, <1>5 DEF t

\* What is left has at most one message of a two-way call, too.
LEMMA TailOneAtMost ==
  ASSUME NEW s, IsSeq(s), s # <<>>, OneAtMost(s)
  PROVE  OneAtMost(Tail(s)) /\ (TwoWayIn(Tail(s)) => TwoWayIn(s))
<1>1. /\ Len(s) \in Nat \ {0} /\ DOMAIN s = 1 .. Len(s)
      /\ DOMAIN Tail(s) = 1 .. Len(s) - 1
      /\ \A n \in 1 .. Len(s) - 1 : Tail(s)[n] = s[n + 1]
  BY TailSeq, ShortSeq
<1>2. ASSUME NEW n \in 1 .. Len(s) - 1
      PROVE  n + 1 \in DOMAIN s /\ Tail(s)[n] = s[n + 1]
  BY <1>1
<1>3. OneAtMost(Tail(s))
  <2> SUFFICES ASSUME NEW m \in 1 .. Len(s) - 1, NEW n \in 1 .. Len(s) - 1,
                      Tail(s)[m].mtype # "oneway", Tail(s)[n].mtype # "oneway"
               PROVE  m = n
    BY <1>1 DEF OneAtMost
  <2>1. m + 1 = n + 1
    BY <1>2 DEF OneAtMost
  <2> QED
    BY <1>1, <2>1
<1>4. TwoWayIn(Tail(s)) => TwoWayIn(s)
  BY <1>1, <1>2 DEF TwoWayIn
<1> QED
  BY <1>3, <1>4

\* The worker holds one message or none.
LEMMA ShortFlow ==
  /\ ~TwoWayIn(<<>>) /\ OneAtMost(<<>>) /\ Flow(<<>>) = 0
  /\ \A m : /\ TwoWayIn(<<m>>) <=> m.mtype # "oneway"
            /\ OneAtMost(<<m>>) /\ Flow(<<m>>) = IF m.mtype = "oneway" THEN 1 ELSE 0
<1>1. ~TwoWayIn(<<>>) /\ OneAtMost(<<>>) /\ Flow(<<>>) = 0
  BY ShortSeq DEF TwoWayIn, OneAtMost, Flow
<1>2. ASSUME NEW m
      PROVE  /\ TwoWayIn(<<m>>) <=> m.mtype # "oneway"
             /\ OneAtMost(<<m>>) /\ Flow(<<m>>) = IF m.mtype = "oneway" THEN 1 ELSE 0
  <2>1. Len(<<m>>) = 1 /\ DOMAIN <<m>> = {1} /\ <<m>>[1] = m
    BY ShortSeq
  <2>2. TwoWayIn(<<m>>) <=> m.mtype # "oneway"
    BY <2>1 DEF TwoWayIn
  <2>3. OneAtMost(<<m>>)
    BY <2>1 DEF OneAtMost
  <2> QED
    BY <2>1, <2>2, <2>3 DEF Flow
<1> QED
  BY <1>1, <1>2

-----------------------------------------------------------------------------
(* The wire                                                                  *)

\* What is written with a layout is read back with it, when the layout has all the
\* fields that are set.
LEMMA RoundTrip ==
  ASSUME NEW layout, NEW v, DOMAIN v \subseteq {layout[f].name : f \in DOMAIN layout}
  PROVE  /\ DOMAIN Read(layout, Write(layout, v)) = DOMAIN v
         /\ \A n \in DOMAIN v : Read(layout, Write(layout, v))[n] = v[n]
<1> DEFINE body  == Write(layout, v)
           known == {f \in DOMAIN layout \cap DOMAIN body : body[f].type = layout[f].type}
           names == {layout[f].name : f \in known}
<1>1. /\ DOMAIN body = {g \in DOMAIN layout : layout[g].name \in DOMAIN v}
      /\ \A f \in DOMAIN body : body[f] = [type |-> layout[f].type, value |-> v[layout[f].name]]
  BY DEF Write
<1>2. \A f \in DOMAIN body : body[f].type = layout[f].type /\ body[f].value = v[layout[f].name]
  BY <1>1
<1> HIDE DEF body
<1>3. known = DOMAIN body
  BY <1>1, <1>2
<1>4. names = DOMAIN v
  BY <1>1, <1>3
<1>5. Read(layout, body) = [n \in names |-> body[CHOOSE f \in known : layout[f].name = n].value]
  BY DEF Read
<1>6. ASSUME NEW n \in names
      PROVE  body[CHOOSE f \in known : layout[f].name = n].value = v[n]
  <2>1. \E f \in known : layout[f].name = n
    OBVIOUS
  <2> HIDE DEF known
  <2>2. PICK f \in known : f = (CHOOSE g \in known : layout[g].name = n) /\ layout[f].name = n
    BY <2>1
  <2> QED
    BY <1>2, <1>3, <2>2
<1> HIDE DEF names, known
<1> QED
  BY <1>4, <1>5, <1>6 DEF body

\* The names of the fields of the layouts.
LEMMA LayoutNames ==
  /\ {sequence_id[f].name : f \in DOMAIN sequence_id}
       = {"client_id", "client_seq_no", "server_seq_no"}
  /\ {register_client_id_args[f].name : f \in DOMAIN register_client_id_args}
       = {"block_id", "client_id"}
  /\ {async_get_args[f].name : f \in DOMAIN async_get_args} = {"seq_id", "key"}
  /\ {async_put_args[f].name : f \in DOMAIN async_put_args} = {"seq_id", "key", "value"}
  /\ {async_get_batch_args[f].name : f \in DOMAIN async_get_batch_args} = {"seq_id", "keys"}
  /\ {async_put_batch_args[f].name : f \in DOMAIN async_put_batch_args}
       = {"seq_id", "keys", "values"}
  /\ {get_args[f].name : f \in DOMAIN get_args} = {"key"}
  /\ {put_args[f].name : f \in DOMAIN put_args} = {"key", "value"}
  /\ {get_batch_args[f].name : f \in DOMAIN get_batch_args} = {"keys"}
  /\ {put_batch_args[f].name : f \in DOMAIN put_batch_args} = {"keys", "values"}
  /\ {async_response_args[f].name : f \in DOMAIN async_response_args}
       = {"seq_id", "op_code", "result"}
<1>1. {sequence_id[f].name : f \in DOMAIN sequence_id}
       = {"client_id", "client_seq_no", "server_seq_no"}
  BY DEF sequence_id, Field
<1>2. {register_client_id_args[f].name : f \in DOMAIN register_client_id_args}
       = {"block_id", "client_id"}
  BY DEF register_client_id_args, Field
<1>3. {async_get_args[f].name : f \in DOMAIN async_get_args} = {"seq_id", "key"}
  BY DEF async_get_args, Field
<1>4. {async_put_args[f].name : f \in DOMAIN async_put_args} = {"seq_id", "key", "value"}
  BY DEF async_put_args, Field
<1>5. {async_get_batch_args[f].name : f \in DOMAIN async_get_batch_args} = {"seq_id", "keys"}
  BY DEF async_get_batch_args, Field
<1>6. {async_put_batch_args[f].name : f \in DOMAIN async_put_batch_args}
       = {"seq_id", "keys", "values"}
  BY DEF async_put_batch_args, Field
<1>7. {get_args[f].name : f \in DOMAIN get_args} = {"key"}
  BY DEF get_args, Field
<1>8. {put_args[f].name : f \in DOMAIN put_args} = {"key", "value"}
  BY DEF put_args, Field
<1>9. {get_batch_args[f].name : f \in DOMAIN get_batch_args} = {"keys"}
  BY DEF get_batch_args, Field
<1>10. {put_batch_args[f].name : f \in DOMAIN put_batch_args} = {"keys", "values"}
  BY DEF put_batch_args, Field
<1>11. {async_response_args[f].name : f \in DOMAIN async_response_args}
       = {"seq_id", "op_code", "result"}
  BY DEF async_response_args, Field
<1> QED
  BY <1>1, <1>2, <1>3, <1>4, <1>5, <1>6, <1>7, <1>8, <1>9, <1>10, <1>11

\* The ids of a sequence id are read back.
LEMMA SeqIdRead ==
  ASSUME NEW id, NEW no
  PROVE  /\ Read(sequence_id, SeqId(id, no)).client_id = id
         /\ Read(sequence_id, SeqId(id, no)).client_seq_no = no
<1> DEFINE v == [client_id |-> id, client_seq_no |-> no, server_seq_no |-> 0]
<1>1. DOMAIN v = {"client_id", "client_seq_no", "server_seq_no"}
  OBVIOUS
<1>2. /\ Read(sequence_id, Write(sequence_id, v))["client_id"] = v["client_id"]
      /\ Read(sequence_id, Write(sequence_id, v))["client_seq_no"] = v["client_seq_no"]
  <2>1. "client_id" \in DOMAIN v /\ "client_seq_no" \in DOMAIN v
    BY <1>1
  <2> QED
    BY <1>1, <2>1, LayoutNames, RoundTrip
<1> QED
  BY <1>2 DEF SeqId

\* What the handlers of the four one-way calls are given.
LEMMA AsyncRead ==
  ASSUME NEW seq, NEW key, NEW value, NEW keys, NEW values
  PROVE  /\ LET a == Read(async_get_args, send_async_get(seq, key).body)
            IN  DOMAIN a = {"seq_id", "key"} /\ a.seq_id = seq /\ a.key = key
         /\ LET a == Read(async_put_args, send_async_put(seq, key, value).body)
            IN  DOMAIN a = {"seq_id", "key", "value"} /\ a.seq_id = seq /\ a.key = key
                /\ a.value = value
         /\ LET a == Read(async_get_batch_args, send_async_get_batch(seq, keys).body)
            IN  DOMAIN a = {"seq_id", "keys"} /\ a.seq_id = seq /\ a.keys = keys
         /\ LET a == Read(async_put_batch_args, send_async_put_batch(seq, keys, values).body)
            IN  DOMAIN a = {"seq_id", "keys", "values"} /\ a.seq_id = seq /\ a.keys = keys
                /\ a.values = values
<1>1. LET a == Read(async_get_args, send_async_get(seq, key).body)
      IN  DOMAIN a = {"seq_id", "key"} /\ a.seq_id = seq /\ a.key = key
  <2> DEFINE v == [seq_id |-> seq, key |-> key]
  <2>1. DOMAIN v = {"seq_id", "key"} /\ v.seq_id = seq /\ v.key = key
    OBVIOUS
  <2>2. send_async_get(seq, key).body = Write(async_get_args, v)
    BY DEF send_async_get, Message
  <2> HIDE DEF v
  <2>3. DOMAIN v \subseteq {async_get_args[f].name : f \in DOMAIN async_get_args}
    BY <2>1, LayoutNames
  <2> QED
    BY <2>1, <2>2, <2>3, RoundTrip
<1>2. LET a == Read(async_put_args, send_async_put(seq, key, value).body)
      IN  DOMAIN a = {"seq_id", "key", "value"} /\ a.seq_id = seq /\ a.key = key
          /\ a.value = value
  <2> DEFINE v == [seq_id |-> seq, key |-> key, value |-> value]
  <2>1. DOMAIN v = {"seq_id", "key", "value"} /\ v.seq_id = seq /\ v.key = key /\ v.value = value
    OBVIOUS
  <2>2. send_async_put(seq, key, value).body = Write(async_put_args, v)
    BY DEF send_async_put, Message
  <2> HIDE DEF v
  <2>3. DOMAIN v \subseteq {async_put_args[f].name : f \in DOMAIN async_put_args}
    BY <2>1, LayoutNames
  <2> QED
    BY <2>1, <2>2, <2>3, RoundTrip
<1>3. LET a == Read(async_get_batch_args, send_async_get_batch(seq, keys).body)
      IN  DOMAIN a = {"seq_id", "keys"} /\ a.seq_id = seq /\ a.keys = keys
  <2> DEFINE v == [seq_id |-> seq, keys |-> keys]
  <2>1. DOMAIN v = {"seq_id", "keys"} /\ v.seq_id = seq /\ v.keys = keys
    OBVIOUS
  <2>2. send_async_get_batch(seq, keys).body = Write(async_get_batch_args, v)
    BY DEF send_async_get_batch, Message
  <2> HIDE DEF v
  <2>3. DOMAIN v \subseteq {async_get_batch_args[f].name : f \in DOMAIN async_get_batch_args}
    BY <2>1, LayoutNames
  <2> QED
    BY <2>1, <2>2, <2>3, RoundTrip
<1>4. LET a == Read(async_put_batch_args, send_async_put_batch(seq, keys, values).body)
      IN  DOMAIN a = {"seq_id", "keys", "values"} /\ a.seq_id = seq /\ a.keys = keys
          /\ a.values = values
  <2> DEFINE v == [seq_id |-> seq, keys |-> keys, values |-> values]
  <2>1. /\ DOMAIN v = {"seq_id", "keys", "values"} /\ v.seq_id = seq /\ v.keys = keys
        /\ v.values = values
    OBVIOUS
  <2>2. send_async_put_batch(seq, keys, values).body = Write(async_put_batch_args, v)
    BY DEF send_async_put_batch, Message
  <2> HIDE DEF v
  <2>3. DOMAIN v \subseteq {async_put_batch_args[f].name : f \in DOMAIN async_put_batch_args}
    BY <2>1, LayoutNames
  <2> QED
    BY <2>1, <2>2, <2>3, RoundTrip
<1> QED
  BY <1>1, <1>2, <1>3, <1>4

\* What the handlers of the two-way calls are given.
LEMMA SyncRead ==
  ASSUME NEW key, NEW value, NEW keys, NEW values, NEW id
  PROVE  /\ LET a == Read(get_args, send_get(key).body) IN DOMAIN a = {"key"} /\ a.key = key
         /\ LET a == Read(put_args, send_put(key, value).body)
            IN  DOMAIN a = {"key", "value"} /\ a.key = key /\ a.value = value
         /\ LET a == Read(get_batch_args, send_get_batch(keys).body)
            IN  DOMAIN a = {"keys"} /\ a.keys = keys
         /\ LET a == Read(put_batch_args, send_put_batch(keys, values).body)
            IN  DOMAIN a = {"keys", "values"} /\ a.keys = keys /\ a.values = values
         /\ Read(register_client_id_args, send_register_client_id(1, id).body).client_id = id
<1>1. LET a == Read(get_args, send_get(key).body) IN DOMAIN a = {"key"} /\ a.key = key
  <2> DEFINE v == [key |-> key]
  <2>1. DOMAIN v = {"key"} /\ v.key = key
    OBVIOUS
  <2>2. send_get(key).body = Write(get_args, v)
    BY DEF send_get, Message
  <2> HIDE DEF v
  <2>3. DOMAIN v \subseteq {get_args[f].name : f \in DOMAIN get_args}
    BY <2>1, LayoutNames
  <2> QED
    BY <2>1, <2>2, <2>3, RoundTrip
<1>2. LET a == Read(put_args, send_put(key, value).body)
      IN  DOMAIN a = {"key", "value"} /\ a.key = key /\ a.value = value
  <2> DEFINE v == [key |-> key, value |-> value]
  <2>1. DOMAIN v = {"key", "value"} /\ v.key = key /\ v.value = value
    OBVIOUS
  <2>2. send_put(key, value).body = Write(put_args, v)
    BY DEF send_put, Message
  <2> HIDE DEF v
  <2>3. DOMAIN v \subseteq {put_args[f].name : f \in DOMAIN put_args}
    BY <2>1, LayoutNames
  <2> QED
    BY <2>1, <2>2, <2>3, RoundTrip
<1>3. LET a == Read(get_batch_args, send_get_batch(keys).body)
      IN  DOMAIN a = {"keys"} /\ a.keys = keys
  <2> DEFINE v == [keys |-> keys]
  <2>1. DOMAIN v = {"keys"} /\ v.keys = keys
    OBVIOUS
  <2>2. send_get_batch(keys).body = Write(get_batch_args, v)
    BY DEF send_get_batch, Message
  <2> HIDE DEF v
  <2>3. DOMAIN v \subseteq {get_batch_args[f].name : f \in DOMAIN get_batch_args}
    BY <2>1, LayoutNames
  <2> QED
    BY <2>1, <2>2, <2>3, RoundTrip
<1>4. LET a == Read(put_batch_args, send_put_batch(keys, values).body)
      IN  DOMAIN a = {"keys", "values"} /\ a.keys = keys /\ a.values = values
  <2> DEFINE v == [keys |-> keys, values |-> values]
  <2>1. DOMAIN v = {"keys", "values"} /\ v.keys = keys /\ v.values = values
    OBVIOUS
  <2>2. send_put_batch(keys, values).body = Write(put_batch_args, v)
    BY DEF send_put_batch, Message
  <2> HIDE DEF v
  <2>3. DOMAIN v \subseteq {put_batch_args[f].name : f \in DOMAIN put_batch_args}
    BY <2>1, LayoutNames
  <2> QED
    BY <2>1, <2>2, <2>3, RoundTrip
<1>5. Read(register_client_id_args, send_register_client_id(1, id).body).client_id = id
  <2> DEFINE v == [block_id |-> 1, client_id |-> id]
  <2>1. DOMAIN v = {"block_id", "client_id"} /\ v.client_id = id
    OBVIOUS
  <2>2. send_register_client_id(1, id).body = Write(register_client_id_args, v)
    BY DEF send_register_client_id, Message
  <2> HIDE DEF v
  <2>3. DOMAIN v \subseteq {register_client_id_args[f].name : f \in DOMAIN register_client_id_args}
    BY <2>1, LayoutNames
  <2> QED
    BY <2>1, <2>2, <2>3, RoundTrip
<1> QED
  BY <1>1, <1>2, <1>3, <1>4, <1>5

\* The response thread gets the number and the result that the responder sent.
LEMMA ResponseRead ==
  ASSUME NEW id, NEW no, NEW op, NEW result
  PROVE  /\ send_async_response(SeqId(id, no), op, result).mtype = "oneway"
         /\ recv_response(send_async_response(SeqId(id, no), op, result))
              = Return([no |-> no, result |-> result])
<1> DEFINE v == [seq_id |-> SeqId(id, no), op_code |-> op, result |-> result]
           m == send_async_response(SeqId(id, no), op, result)
           a == Read(async_response_args, m.body)
<1>1. DOMAIN v = {"seq_id", "op_code", "result"} /\ v.seq_id = SeqId(id, no) /\ v.result = result
  OBVIOUS
<1>2. m.mtype = "oneway" /\ m.body = Write(async_response_args, v)
  BY DEF send_async_response, Message
<1> HIDE DEF v, m
<1>3. DOMAIN a = {"seq_id", "op_code", "result"} /\ a.seq_id = SeqId(id, no) /\ a.result = result
  <2>1. DOMAIN v \subseteq {async_response_args[f].name : f \in DOMAIN async_response_args}
    BY <1>1, LayoutNames
  <2> QED
    BY <1>1, <1>2, <2>1, RoundTrip
<1>4. recv_response(m) = IF {"seq_id", "result"} \subseteq DOMAIN a
                           THEN Return([no     |-> Read(sequence_id, a.seq_id).client_seq_no,
                                        result |-> a.result])
                           ELSE Undefined
  BY <1>2 DEF recv_response
<1> HIDE DEF a
<1>5. Read(sequence_id, a.seq_id).client_seq_no = no
  BY <1>3, SeqIdRead
<1>6. recv_response(m) = Return([no |-> no, result |-> result])
  BY <1>3, <1>4, <1>5
<1> QED
  BY <1>2, <1>6 DEF m

-----------------------------------------------------------------------------
(* Requests and replies                                                      *)

\* A program of single calls asks for one key, or stores one value, at a time.
FitsProgram(call) == program \in {"async_single", "sync_single"} =>
                       Len(call.keys) = 1 /\ Len(call.values) <= 1

\* A call, and the parts it is made of.
LEMMA CallParts ==
  ASSUME NEW call \in Calls, FitsProgram(call)
  PROVE  /\ call = [keys |-> call.keys, values |-> call.values]
         /\ call.keys \in Seq(TraceKeys) /\ call.keys # <<>> /\ Len(call.keys) \in Nat \ {0}
         /\ program \in {"async_single", "sync_single"} =>
              /\ call.keys = <<call.keys[1]>>
              /\ call.values # <<>> => call.values = <<call.values[1]>>
<1>1. /\ call = [keys |-> call.keys, values |-> call.values] /\ call.keys # <<>>
      /\ call.keys \in Seq(TraceKeys) /\ call.values \in Seq(TraceValues)
  BY DEF Calls
<1>2. Len(call.keys) \in Nat \ {0} /\ (call.values # <<>> => Len(call.values) \in Nat \ {0})
  BY <1>1, EmptySeq
<1>3. ASSUME program \in {"async_single", "sync_single"}
      PROVE  /\ call.keys = <<call.keys[1]>>
             /\ call.values # <<>> => call.values = <<call.values[1]>>
  <2>1. Len(call.keys) = 1 /\ Len(call.values) <= 1
    BY <1>3, Zenon DEF FitsProgram
  <2>2. ASSUME NEW T, NEW s \in Seq(T), Len(s) <= 1, s # <<>>
        PROVE  s = <<s[1]>>
    <3>1. Len(s) \in Nat /\ Len(s) # 0
      BY <2>2, EmptySeq
    <3>2. \A n \in Nat : n # 0 /\ n <= 1 => n = 1
      OBVIOUS
    <3>3. Len(s) = 1
      BY <2>2, <3>1, <3>2
    <3> QED
      BY <3>3
  <2>3. call.keys = <<call.keys[1]>>
    <3>1. Len(call.keys) <= 1
      BY <2>1
    <3> QED
      BY <1>1, <2>2, <3>1
  <2>4. call.values # <<>> => call.values = <<call.values[1]>>
    BY <1>1, <2>1, <2>2
  <2> QED
    BY <2>3, <2>4
<1> QED
  BY <1>1, <1>2, <1>3

\* The layouts the processor uses, and which methods are answered.
LEMMA ProcessParts ==
  /\ DOMAIN processMap_ = Methods \cup OneWayMethods
  /\ \A f \in Methods : ~processMap_[f].oneway
  /\ \A f \in OneWayMethods : processMap_[f].oneway
  /\ processMap_["async_get"].args = async_get_args
  /\ processMap_["async_put"].args = async_put_args
  /\ processMap_["async_get_batch"].args = async_get_batch_args
  /\ processMap_["async_put_batch"].args = async_put_batch_args
  /\ processMap_["get"].args = get_args /\ processMap_["put"].args = put_args
  /\ processMap_["get_batch"].args = get_batch_args
  /\ processMap_["put_batch"].args = put_batch_args
  /\ processMap_["register_client_id"].args = register_client_id_args
  /\ processMap_["get_client_id"].result = Success("i64")
  /\ processMap_["get"].result = Success("string")
  /\ processMap_["get_batch"].result = Success("list")
  /\ processMap_["search"].result = Success("list")
  /\ \A f \in VoidMethods : processMap_[f].result = Void
<1>1. /\ DOMAIN processMap_ = Methods \cup OneWayMethods
      /\ processMap_["get_client_id"] = TwoWay(get_client_id_args, get_client_id_result)
      /\ processMap_["register_client_id"]
           = TwoWay(register_client_id_args, register_client_id_result)
      /\ processMap_["async_get"] = OneWay(async_get_args)
      /\ processMap_["async_put"] = OneWay(async_put_args)
      /\ processMap_["async_get_batch"] = OneWay(async_get_batch_args)
      /\ processMap_["async_put_batch"] = OneWay(async_put_batch_args)
      /\ processMap_["get"] = TwoWay(get_args, get_result)
      /\ processMap_["put"] = TwoWay(put_args, put_result)
      /\ processMap_["get_batch"] = TwoWay(get_batch_args, get_batch_result)
      /\ processMap_["put_batch"] = TwoWay(put_batch_args, put_batch_result)
      /\ processMap_["search"] = TwoWay(search_args, search_result)
  BY DEF processMap_, Methods, OneWayMethods, process_get_client_id, process_register_client_id,
         process_async_get, process_async_put, process_async_get_batch, process_async_put_batch,
         process_get, process_put, process_get_batch, process_put_batch, process_search
<1>2. /\ \A args, result : /\ TwoWay(args, result).args = args
                           /\ TwoWay(args, result).result = result
                           /\ ~TwoWay(args, result).oneway
      /\ \A args : OneWay(args).args = args /\ OneWay(args).oneway
  BY DEF TwoWay, OneWay
<1>3. \A f \in Methods : ~processMap_[f].oneway
  BY <1>1, <1>2 DEF Methods
<1>4. \A f \in OneWayMethods : processMap_[f].oneway
  BY <1>1, <1>2 DEF OneWayMethods
<1>5. \A f \in VoidMethods : processMap_[f].result = Void
  BY <1>1, <1>2 DEF VoidMethods, register_client_id_result, put_result, put_batch_result
<1>6. /\ processMap_["get_client_id"].result = Success("i64")
      /\ processMap_["get"].result = Success("string")
      /\ processMap_["get_batch"].result = Success("list")
      /\ processMap_["search"].result = Success("list")
  BY <1>1, <1>2 DEF get_client_id_result, get_result, get_batch_result, search_result
<1> QED
  BY <1>1, <1>2, <1>3, <1>4, <1>5, <1>6

\* The requests of the one-way calls.
LEMMA AsyncRequestParts ==
  ASSUME NEW call, NEW seq
  PROVE  LET m == AsyncRequest(call, seq)
         IN  /\ m.mtype = "oneway" /\ m.fname \in OneWayMethods
             /\ m.fname = IF program = "async_batch"
                            THEN IF call.values = <<>> THEN "async_get_batch" ELSE "async_put_batch"
                            ELSE IF call.values = <<>> THEN "async_get" ELSE "async_put"
BY DEF AsyncRequest, send_async_get, send_async_put, send_async_get_batch, send_async_put_batch,
       Message, OneWayMethods

\* The handler of a one-way call is given the call, and its sequence id.
LEMMA AsyncGiven ==
  ASSUME NEW call \in Calls, FitsProgram(call), IsAsync, NEW id, NEW no,
         worker[1] = AsyncRequest(call, SeqId(id, no))
  PROVE  Given = call /\ Args.seq_id = SeqId(id, no)
<1> DEFINE seq == SeqId(id, no)
<1>1. /\ call = [keys |-> call.keys, values |-> call.values]
      /\ program = "async_single" =>
              /\ call.keys = <<call.keys[1]>>
              /\ call.values # <<>> => call.values = <<call.values[1]>>
  BY CallParts
<1>2. Given = [keys   |-> IF "keys" \in DOMAIN Args THEN Args.keys ELSE <<Args.key>>,
               values |-> IF "values" \in DOMAIN Args THEN Args.values
                          ELSE IF "value" \in DOMAIN Args THEN <<Args.value>> ELSE <<>>]
  BY DEF Given
<1>3. program \in {"async_batch", "async_single"}
  BY DEF IsAsync, AsyncPrograms
<1>4. Args = Read(processMap_[worker[1].fname].args, worker[1].body)
  BY DEF Args
<1> HIDE DEF seq
<1>5. CASE program = "async_batch" /\ call.values = <<>>
  <2>1. worker[1] = send_async_get_batch(seq, call.keys) /\ worker[1].fname = "async_get_batch"
    BY <1>5, AsyncRequestParts DEF AsyncRequest, seq
  <2>2. DOMAIN Args = {"seq_id", "keys"} /\ Args.seq_id = seq /\ Args.keys = call.keys
    BY <1>4, <2>1, ProcessParts, AsyncRead
  <2> QED
    BY <1>1, <1>2, <1>5, <2>2 DEF seq
<1>6. CASE program = "async_batch" /\ call.values # <<>>
  <2>1. /\ worker[1] = send_async_put_batch(seq, call.keys, call.values)
        /\ worker[1].fname = "async_put_batch"
    BY <1>6, AsyncRequestParts DEF AsyncRequest, seq
  <2>2. /\ DOMAIN Args = {"seq_id", "keys", "values"} /\ Args.seq_id = seq
        /\ Args.keys = call.keys /\ Args.values = call.values
    BY <1>4, <2>1, ProcessParts, AsyncRead
  <2> QED
    BY <1>1, <1>2, <2>2 DEF seq
<1>7. CASE program = "async_single" /\ call.values = <<>>
  <2>1. worker[1] = send_async_get(seq, call.keys[1]) /\ worker[1].fname = "async_get"
    BY <1>7, AsyncRequestParts DEF AsyncRequest, seq
  <2>2. DOMAIN Args = {"seq_id", "key"} /\ Args.seq_id = seq /\ Args.key = call.keys[1]
    BY <1>4, <2>1, ProcessParts, AsyncRead
  <2> QED
    BY <1>1, <1>2, <1>7, <2>2 DEF seq
<1>8. CASE program = "async_single" /\ call.values # <<>>
  <2>1. /\ worker[1] = send_async_put(seq, call.keys[1], call.values[1])
        /\ worker[1].fname = "async_put"
    BY <1>8, AsyncRequestParts DEF AsyncRequest, seq
  <2>2. /\ DOMAIN Args = {"seq_id", "key", "value"} /\ Args.seq_id = seq
        /\ Args.key = call.keys[1] /\ Args.value = call.values[1]
    BY <1>4, <2>1, ProcessParts, AsyncRead
  <2> QED
    BY <1>1, <1>2, <1>8, <2>2 DEF seq
<1> QED
  BY <1>3, <1>5, <1>6, <1>7, <1>8

\* The requests of the two-way calls.
LEMMA SyncRequestParts ==
  ASSUME NEW call
  PROVE  /\ SyncRequest(call).mtype = "call" /\ SyncRequest(call).fname = SyncMethod(call)
         /\ SyncMethod(call) \in {"get", "put", "get_batch", "put_batch"}
         /\ SyncMethod(call) = "get" => SyncRequest(call) = send_get(call.keys[1])
         /\ SyncMethod(call) = "put" => SyncRequest(call) = send_put(call.keys[1], call.values[1])
         /\ SyncMethod(call) = "get_batch" => SyncRequest(call) = send_get_batch(call.keys)
         /\ SyncMethod(call) = "put_batch" =>
              SyncRequest(call) = send_put_batch(call.keys, call.values)
<1>1. SyncMethod(call) \in {"get", "put", "get_batch", "put_batch"}
  BY DEF SyncMethod
<1>2. /\ SyncMethod(call) = "get" => SyncRequest(call) = send_get(call.keys[1])
      /\ SyncMethod(call) = "put" => SyncRequest(call) = send_put(call.keys[1], call.values[1])
      /\ SyncMethod(call) = "get_batch" => SyncRequest(call) = send_get_batch(call.keys)
      /\ SyncMethod(call) = "put_batch" =>
           SyncRequest(call) = send_put_batch(call.keys, call.values)
  BY DEF SyncRequest
<1> QED
  BY <1>1, <1>2 DEF send_get, send_put, send_get_batch, send_put_batch, Message

\* The handler of a two-way call is given the call.
LEMMA SyncGiven ==
  ASSUME NEW call \in Calls, FitsProgram(call), program \in SyncPrograms,
         worker[1] = SyncRequest(call)
  PROVE  Given = call
<1>1. /\ call = [keys |-> call.keys, values |-> call.values]
      /\ program = "sync_single" =>
              /\ call.keys = <<call.keys[1]>>
              /\ call.values # <<>> => call.values = <<call.values[1]>>
  BY CallParts
<1>2. Given = [keys   |-> IF "keys" \in DOMAIN Args THEN Args.keys ELSE <<Args.key>>,
               values |-> IF "values" \in DOMAIN Args THEN Args.values
                          ELSE IF "value" \in DOMAIN Args THEN <<Args.value>> ELSE <<>>]
  BY DEF Given
<1>3. program \in {"sync_batch", "sync_single"}
  BY DEF SyncPrograms
<1>4. Args = Read(processMap_[worker[1].fname].args, worker[1].body)
  BY DEF Args
<1>5. CASE SyncMethod(call) = "get_batch"
  <2>1. worker[1] = send_get_batch(call.keys) /\ worker[1].fname = "get_batch"
    BY <1>5, SyncRequestParts
  <2>2. DOMAIN Args = {"keys"} /\ Args.keys = call.keys
    BY <1>4, <2>1, ProcessParts, SyncRead
  <2>3. call.values = <<>>
    BY <1>5 DEF SyncMethod
  <2> QED
    BY <1>1, <1>2, <2>2, <2>3
<1>6. CASE SyncMethod(call) = "put_batch"
  <2>1. worker[1] = send_put_batch(call.keys, call.values) /\ worker[1].fname = "put_batch"
    BY <1>6, SyncRequestParts
  <2>2. DOMAIN Args = {"keys", "values"} /\ Args.keys = call.keys /\ Args.values = call.values
    BY <1>4, <2>1, ProcessParts, SyncRead
  <2> QED
    BY <1>1, <1>2, <2>2
<1>7. CASE SyncMethod(call) = "get"
  <2>1. worker[1] = send_get(call.keys[1]) /\ worker[1].fname = "get"
    BY <1>7, SyncRequestParts
  <2>2. DOMAIN Args = {"key"} /\ Args.key = call.keys[1]
    BY <1>4, <2>1, ProcessParts, SyncRead
  <2>3. call.values = <<>> /\ program = "sync_single"
    BY <1>3, <1>7 DEF SyncMethod
  <2> QED
    BY <1>1, <1>2, <2>2, <2>3
<1>8. CASE SyncMethod(call) = "put"
  <2>1. worker[1] = send_put(call.keys[1], call.values[1]) /\ worker[1].fname = "put"
    BY <1>8, SyncRequestParts
  <2>2. DOMAIN Args = {"key", "value"} /\ Args.key = call.keys[1] /\ Args.value = call.values[1]
    BY <1>4, <2>1, ProcessParts, SyncRead
  <2>3. call.values # <<>> /\ program = "sync_single"
    BY <1>3, <1>8 DEF SyncMethod
  <2> QED
    BY <1>1, <1>2, <2>2, <2>3
<1> QED
  BY <1>5, <1>6, <1>7, <1>8, SyncRequestParts

\* A reply is read as the answer by the caller, and as no response by the response
\* thread: a result has no field that async_response_args knows.
Reply(f, out) ==
  IF out.kind = "throw" THEN Message(f, "exception", Void)
                        ELSE Message(f, "reply", Write(processMap_[f].result, [success |-> out.value]))

\* A two-way call gets one reply,
LEMMA OneReply ==
  ASSUME NEW m, m.fname \in Methods, NEW out
  PROVE  Replies(m, out) = <<Reply(m.fname, out)>>
<1>1. m.fname \in DOMAIN processMap_ /\ ~processMap_[m.fname].oneway
  BY ProcessParts
<1> QED
  BY <1>1 DEF Replies, Reply

\* and a one-way call none.
LEMMA NoReply ==
  ASSUME NEW m, m.fname \in OneWayMethods, NEW out
  PROVE  Replies(m, out) = <<>>
<1>1. m.fname \in DOMAIN processMap_ /\ processMap_[m.fname].oneway
  BY ProcessParts
<1> QED
  BY <1>1 DEF Replies

\* The reply carries the name of its method.
LEMMA ReplyParts ==
  ASSUME NEW f \in Methods, NEW out
  PROVE  Reply(f, out).mtype \in {"reply", "exception"} /\ Reply(f, out).fname = f
BY DEF Reply, Message

\* The response thread cannot read a reply.
LEMMA ReplyIsNoResponse ==
  ASSUME NEW f \in Methods, NEW out
  PROVE  recv_response(Reply(f, out)).kind # "return"
<1> DEFINE r == Reply(f, out)
           a == Read(async_response_args, r.body)
<1>1. Throw.kind # "return" /\ Undefined.kind # "return"
  BY DEF Throw, Undefined
<1>2. CASE out.kind = "throw"
  <2>1. r.mtype = "exception"
    BY <1>2 DEF Reply, Message
  <2> QED
    BY <1>1, <2>1 DEF recv_response
<1>3. CASE out.kind # "throw"
  <2>1. r.mtype = "reply" /\ r.body = Write(processMap_[f].result, [success |-> out.value])
    BY <1>3 DEF Reply, Message
  <2>2. DOMAIN processMap_[f].result \subseteq {0}
    <3>1. DOMAIN Void = {} /\ \A type : DOMAIN Success(type) = {0}
      BY DEF Void, Success
    <3>2. CASE f \in VoidMethods
      BY <3>1, <3>2, ProcessParts
    <3>3. CASE f \in {"get_client_id", "get", "get_batch", "search"}
      BY <3>1, <3>3, ProcessParts
    <3> QED
      BY <3>2, <3>3 DEF Methods, VoidMethods
  <2>3. DOMAIN r.body \subseteq {0}
    BY <2>1, <2>2 DEF Write
  <2> HIDE DEF r
  <2>4. DOMAIN async_response_args = 1 .. 3
    BY DEF async_response_args
  <2>5. {g \in DOMAIN async_response_args \cap DOMAIN r.body :
           r.body[g].type = async_response_args[g].type} = {}
    BY <2>3, <2>4
  <2>6. DOMAIN a = {}
    BY <2>5 DEF Read
  <2> HIDE DEF a
  <2>7. recv_response(r) = IF {"seq_id", "result"} \subseteq DOMAIN a
                             THEN Return([no     |-> Read(sequence_id, a.seq_id).client_seq_no,
                                          result |-> a.result])
                             ELSE Undefined
    BY <2>1 DEF recv_response, a
  <2> QED
    BY <1>1, <2>6, <2>7 DEF r
<1> QED
  BY <1>2, <1>3

\* The caller reads the outcome that the handler gave.
LEMMA ReplyRead ==
  ASSUME NEW f \in Methods, NEW out, out = Throw \/ \E v : out = Return(v)
  PROVE  RecvOf(f, Reply(f, out)) = IF out # Throw /\ f \in VoidMethods THEN Return(<<>>) ELSE out
<1> DEFINE layout == processMap_[f].result
           r      == Reply(f, out)
<1>1. RecvOf(f, r) = Recv(f, layout, r)
  <2>1. /\ processMap_["register_client_id"].result = register_client_id_result
        /\ processMap_["put"].result = put_result
        /\ processMap_["put_batch"].result = put_batch_result
        /\ processMap_["get_client_id"].result = get_client_id_result
        /\ processMap_["get"].result = get_result
        /\ processMap_["get_batch"].result = get_batch_result
        /\ processMap_["search"].result = search_result
    BY ProcessParts DEF VoidMethods, register_client_id_result, put_result, put_batch_result,
                        get_client_id_result, get_result, get_batch_result, search_result
  <2> HIDE DEF r
  <2>2. CASE f = "get_client_id"
    BY <2>1, <2>2 DEF RecvOf, recv_get_client_id
  <2>3. CASE f = "register_client_id"
    BY <2>1, <2>3 DEF RecvOf, recv_register_client_id
  <2>4. CASE f = "get"
    BY <2>1, <2>4 DEF RecvOf, recv_get
  <2>5. CASE f = "put"
    BY <2>1, <2>5 DEF RecvOf, recv_put
  <2>6. CASE f = "get_batch"
    BY <2>1, <2>6 DEF RecvOf, recv_get_batch
  <2>7. CASE f = "put_batch"
    BY <2>1, <2>7 DEF RecvOf, recv_put_batch
  <2>8. CASE f = "search"
    BY <2>1, <2>8 DEF RecvOf, recv_search
  <2> QED
    BY <2>2, <2>3, <2>4, <2>5, <2>6, <2>7, <2>8 DEF Methods
<1>2. CASE out = Throw
  <2>1. r.mtype = "exception"
    BY <1>2 DEF Reply, Message, Throw
  <2> QED
    BY <1>1, <1>2, <2>1 DEF Recv
<1>3. CASE out # Throw
  <2>1. PICK v : out = Return(v)
    BY <1>3
  <2>2. out.kind # "throw" /\ out.value = v
    BY <2>1 DEF Return
  <2>3. r.mtype = "reply" /\ r.fname = f /\ r.body = Write(layout, [success |-> v])
    BY <2>2 DEF Reply, Message
  <2> HIDE DEF r
  <2>4. CASE f \in VoidMethods
    <3>1. DOMAIN layout = {}
      BY <2>4, ProcessParts DEF Void
    <3> HIDE DEF layout
    <3>2. Recv(f, layout, r) = Return(<<>>)
      BY <2>3, <3>1 DEF Recv
    <3> QED
      BY <1>1, <1>3, <2>4, <3>2 DEF r
  <2>5. CASE f \notin VoidMethods
    <3>1. PICK type : layout = Success(type)
      BY <2>5, ProcessParts DEF Methods, VoidMethods
    <3> DEFINE w == [success |-> v]
               a == Read(layout, r.body)
    <3>2. DOMAIN layout = {0} /\ layout[0].name = "success"
      BY <3>1 DEF Success, Field
    <3> HIDE DEF layout
    <3>3. DOMAIN w = {"success"} /\ w.success = v
      OBVIOUS
    <3> HIDE DEF w
    <3>4. DOMAIN w \subseteq {layout[g].name : g \in DOMAIN layout}
      BY <3>2, <3>3
    <3>5. DOMAIN a = {"success"} /\ a.success = v
      BY <2>3, <3>3, <3>4, RoundTrip DEF w
    <3>6. Recv(f, layout, r) = IF "success" \in DOMAIN a THEN Return(a.success) ELSE Throw
      BY <2>3, <3>2 DEF Recv
    <3> HIDE DEF a
    <3> QED
      BY <1>1, <2>1, <2>5, <3>5, <3>6 DEF r
  <2> QED
    BY <2>4, <2>5
<1> QED
  BY <1>2, <1>3

\* What the caller makes of a response that is not meant for it.
LEMMA OneWayIsNoReply ==
  ASSUME NEW f \in Methods, NEW m, m.mtype = "oneway"
  PROVE  RecvOf(f, m).kind = "undefined"
<1>1. \A fname, layout : Recv(fname, layout, m) = Undefined
  BY DEF Recv
<1>2. Undefined.kind = "undefined"
  BY DEF Undefined
<1> QED
  BY <1>1, <1>2 DEF Methods, RecvOf, recv_get_client_id, recv_register_client_id, recv_get, recv_put,
                    recv_get_batch, recv_put_batch, recv_search

-----------------------------------------------------------------------------
(* What the invariant says of single messages                                *)

\* The lengths of the queues.
LEMMA Lengths ==
  ASSUME Typed
  PROVE  /\ Len(toServer) \in Nat /\ DOMAIN toServer = 1 .. Len(toServer)
         /\ Len(toClient) \in Nat /\ DOMAIN toClient = 1 .. Len(toClient)
         /\ Len(worker) \in Nat /\ DOMAIN worker = 1 .. Len(worker)
         /\ Len(respond_queue_) \in Nat /\ DOMAIN respond_queue_ = 1 .. Len(respond_queue_)
         /\ Len(sequence_queue_) \in Nat /\ DOMAIN sequence_queue_ = 1 .. Len(sequence_queue_)
         /\ Len(handled) \in Nat /\ DOMAIN handled = 1 .. Len(handled)
         /\ Len(outcomes) \in Nat /\ DOMAIN outcomes = 1 .. Len(outcomes)
         /\ Len(answers) \in Nat /\ DOMAIN answers = 1 .. Len(answers)
         /\ Len(calls) \in Nat /\ DOMAIN calls = 1 .. Len(calls)
         /\ worker # <<>> => Len(worker) = 1 /\ DOMAIN worker = {1}
<1>1. \A s : IsSeq(s) => Len(s) \in Nat /\ DOMAIN s = 1 .. Len(s) /\ (s = <<>> <=> Len(s) = 0)
  BY ShortSeq
<1>2. IsSeq(calls) /\ Len(worker) <= 1
  BY SeqIsSeq DEF Typed, TypeOK
<1>3. /\ IsSeq(toServer) /\ IsSeq(toClient) /\ IsSeq(worker) /\ IsSeq(respond_queue_)
      /\ IsSeq(sequence_queue_) /\ IsSeq(handled) /\ IsSeq(outcomes) /\ IsSeq(answers)
  BY DEF Typed
<1>4. Len(worker) \in Nat /\ (worker # <<>> => Len(worker) # 0)
  BY <1>1, <1>3, Zenon
<1>5. worker # <<>> => Len(worker) = 1
  <2>1. \A n \in Nat : n # 0 /\ n <= 1 => n = 1
    OBVIOUS
  <2> QED
    BY <1>2, <1>4, <2>1
<1>6. worker # <<>> => DOMAIN worker = {1}
  BY <1>1, <1>3, <1>5
<1> QED
  BY <1>1, <1>2, <1>3, <1>5, <1>6, Zenon

\* The calls of the program.
LEMMA CallAt ==
  ASSUME Typed, NEW x \in DOMAIN calls
  PROVE  calls[x] \in Calls /\ FitsProgram(calls[x])
<1>1. calls[x] \in Calls
  BY DEF Typed
<1>2. FitsProgram(calls[x])
  BY Zenon DEF Typed, FitsProgram
<1> QED
  BY <1>1, <1>2

\* The method the calling thread waits for is the one of its request.
LEMMA AskingParts ==
  ASSUME Calling, main.pc = "recv"
  PROVE  /\ Asking.mtype = "call" /\ Asking.fname = main.await /\ main.await \in Methods
         /\ ~IsAsync <=> main.await \in {"get", "put", "get_batch", "put_batch"}
         /\ ~IsAsync => Asking = SyncRequest(calls[main.sent])
         /\ main.await = "register_client_id" => Asking = send_register_client_id(1, main.id)
<1>1. main.await \in IF IsAsync THEN {"get_client_id", "register_client_id", "search"}
                                ELSE {"get", "put", "get_batch", "put_batch"}
  BY DEF Calling
<1>2. ~IsAsync => main.await = SyncMethod(calls[main.sent])
  BY DEF Calling
<1>3. CASE IsAsync
  BY <1>1, <1>3 DEF Asking, Methods, send_get_client_id, send_register_client_id, send_search,
                    Message
<1>4. CASE ~IsAsync
  <2>1. Asking = SyncRequest(calls[main.sent])
    BY <1>1, <1>4 DEF Asking
  <2> QED
    BY <1>1, <1>2, <1>4, <2>1, SyncRequestParts DEF Methods
<1> QED
  BY <1>3, <1>4

\* While the calling thread does not wait, no message of a two-way call is out.
LEMMA NothingAsked ==
  ASSUME ThriftInv, client = "up", main.pc # "recv"
  PROVE  ~TwoWayIn(toServer) /\ ~TwoWayIn(worker) /\ ~TwoWayIn(toClient)
<1>1. \A m, x : Request(m, x) => m.mtype = "oneway"
  BY DEF Request
<1>2. \A m, x : Response(m, x) => m.mtype = "oneway"
  BY DEF Response
<1>3. /\ \A n \in DOMAIN worker : Request(worker[n], Len(handled) + 1)
      /\ \A n \in DOMAIN toServer :
           Request(toServer[n], Len(handled) + Flow(worker) + Rank(toServer, n))
      /\ \A n \in DOMAIN toClient : Response(toClient[n], Len(answers) + Rank(toClient, n))
  BY DEF ThriftInv, Upstream, Downstream
<1> QED
  BY <1>1, <1>2, <1>3 DEF TwoWayIn

\* The message a worker serves for a two-way method.
LEMMA ServingTwoWay ==
  ASSUME ThriftInv, worker # <<>>, worker[1].fname \in Methods
  PROVE  /\ main.pc = "recv" /\ worker[1] = Asking /\ worker[1].fname = main.await
         /\ TwoWayIn(worker) /\ Flow(worker) = 0
         /\ ~TwoWayIn(toServer) /\ ~TwoWayIn(toClient)
<1>1. Len(worker) = 1 /\ 1 \in DOMAIN worker
  BY Lengths DEF ThriftInv
<1>2. Request(worker[1], Len(handled) + 1)
  BY <1>1 DEF ThriftInv, Upstream
<1>3. worker[1].mtype # "oneway"
  <2>1. SUFFICES ASSUME worker[1].mtype = "oneway"
                 PROVE  FALSE
    OBVIOUS
  <2>2. PICK call, seq : worker[1] = AsyncRequest(call, seq)
    BY <1>2, <2>1 DEF Request
  <2>3. worker[1].fname \in OneWayMethods
    BY <2>2, AsyncRequestParts
  <2> QED
    BY <2>3 DEF Methods, OneWayMethods
<1>4. main.pc = "recv" /\ worker[1] = Asking
  BY <1>2, <1>3 DEF Request
<1>5. worker[1].fname = main.await
  BY <1>4, AskingParts DEF ThriftInv
<1>6. TwoWayIn(worker)
  BY <1>1, <1>3 DEF TwoWayIn
<1>7. Flow(worker) = 0
  BY <1>1, <1>6 DEF Flow
<1> QED
  BY <1>4, <1>5, <1>6, <1>7 DEF ThriftInv, TwoWayOut

\* The message a worker serves for a one-way method.
LEMMA ServingOneWay ==
  ASSUME ThriftInv, worker # <<>>, worker[1].fname \in OneWayMethods
  PROVE  /\ IsAsync /\ Len(handled) + 1 \in DOMAIN calls
         /\ worker[1] = AsyncRequest(calls[Len(handled) + 1], SeqId(main.id, Len(handled)))
         /\ ~TwoWayIn(worker) /\ Flow(worker) = 1
<1>1. Len(worker) = 1 /\ DOMAIN worker = {1} /\ Len(handled) \in Nat
  BY Lengths DEF ThriftInv
<1>2. Request(worker[1], Len(handled) + 1)
  BY <1>1 DEF ThriftInv, Upstream
<1>3. worker[1].mtype = "oneway"
  <2>1. SUFFICES ASSUME worker[1].mtype # "oneway"
                 PROVE  FALSE
    OBVIOUS
  <2>2. main.pc = "recv" /\ worker[1] = Asking
    BY <1>2, <2>1 DEF Request
  <2>3. worker[1].fname \in Methods
    BY <2>2, AskingParts DEF ThriftInv
  <2> QED
    BY <2>3 DEF Methods, OneWayMethods
<1>4. /\ IsAsync /\ Len(handled) + 1 \in DOMAIN calls
      /\ worker[1] = AsyncRequest(calls[Len(handled) + 1], SeqId(main.id, (Len(handled) + 1) - 1))
  BY <1>2, <1>3 DEF Request
<1>5. (Len(handled) + 1) - 1 = Len(handled)
  BY <1>1
<1>6. ~TwoWayIn(worker)
  BY <1>1, <1>3 DEF TwoWayIn
<1> QED
  BY <1>1, <1>4, <1>5, <1>6 DEF Flow

-----------------------------------------------------------------------------
(* The steps.  First, what a message keeps to be when the state changes.     *)

\* A request stays the one of its call while the client keeps its id, and the request of
\* the two-way call while the calling thread waits for it.
LEMMA RequestStays ==
  ASSUME NEW m, NEW x, Request(m, x), UNCHANGED <<program, calls>>,
         m.mtype = "oneway" => main'.id = main.id,
         m.mtype # "oneway" => UNCHANGED main
  PROVE  Request(m, x)'
<1>1. CASE m.mtype = "oneway"
  BY <1>1 DEF Request, IsAsync, AsyncRequest
<1>2. CASE m.mtype # "oneway"
  BY <1>2 DEF Request, Asking, SyncRequest, SyncMethod
<1> QED
  BY <1>1, <1>2

\* A response stays the one of its call while the outcomes it depends on are kept.
LEMMA ResponseStays ==
  ASSUME NEW m, NEW x, Response(m, x), UNCHANGED program, m.mtype = "oneway",
         main'.id = main.id,
         \A n \in DOMAIN outcomes : n \in DOMAIN outcomes' /\ outcomes'[n] = outcomes[n]
  PROVE  Response(m, x)'
BY DEF Response, IsAsync

\* A reply stays the one that the calling thread waits for.
LEMMA ReplyStays ==
  ASSUME NEW m, NEW x, Response(m, x), UNCHANGED <<program, main>>, m.mtype # "oneway",
         clients_ \subseteq clients_', ~IsAsync => UNCHANGED outcomes
  PROVE  Response(m, x)'
<1>1. RecvOf(main.await, m)' = RecvOf(main.await, m)
  OBVIOUS
<1> QED
  BY <1>1 DEF Response, IsAsync

\* Upstream, from what it says of each message.
LEMMA UpstreamFrom ==
  ASSUME NEW W, NEW T, NEW H, worker' = W, toServer' = T, handled' = H,
         \A n \in DOMAIN W : Request(W[n], Len(H) + 1)',
         \A n \in DOMAIN T : Request(T[n], Len(H) + Flow(W) + Rank(T, n))',
         main'.sent = Len(H) + Flow(W) + Flow(T)
                        + (IF ~IsAsync' /\ (TwoWayIn(W) \/ TwoWayIn(T)) THEN 1 ELSE 0),
         \A n \in DOMAIN H : H[n] = calls'[n]
  PROVE  Upstream'
BY DEF Upstream, Request

\* Downstream, from what it says of each message.
LEMMA DownstreamFrom ==
  ASSUME NEW C, NEW A, toClient' = C, answers' = A,
         \A n \in DOMAIN A : A[n] = [no |-> n - 1, result |-> outcomes'[n]],
         Len(A) <= Len(outcomes'),
         client' = "up" =>
           /\ \A n \in DOMAIN C : Response(C[n], Len(A) + Rank(C, n))'
           /\ IsAsync' /\ main'.id # -1 => Len(outcomes') = Len(A) + Flow(C)
           /\ IsAsync' /\ main'.id = -1 => A = <<>>
           /\ IsAsync' => Requests' = main'.sent - Len(A)
           /\ ~IsAsync' => Len(A) = main'.sent - (IF main'.pc = "recv" THEN 1 ELSE 0)
  PROVE  Downstream'
BY DEF Downstream, Response

\* A two-way call is sent: nothing else of one is out.
LEMMA SendTwoWay ==
  ASSUME ThriftInv, client = "up", main.pc \notin {"recv", "push"},
         NEW m, m.mtype # "oneway", Send(m), m = Asking', main'.pc = "recv",
         main'.id = main.id, main'.sent = main.sent + (IF IsAsync THEN 0 ELSE 1),
         UNCHANGED <<inputVars, readerVars, answers, client, toClient, serverVars>>
  PROVE  TwoWayOut' /\ Upstream' /\ Answering' /\ Downstream'
<1>1. ~TwoWayIn(toServer) /\ ~TwoWayIn(worker) /\ ~TwoWayIn(toClient)
  BY NothingAsked
<1>2. /\ Typed /\ IsSeq(toServer) /\ IsSeq(toClient) /\ IsSeq(worker)
      /\ TwoWayOut /\ Upstream /\ Answering /\ Downstream
  BY DEF ThriftInv, Typed
<1>3. /\ UNCHANGED <<program, calls, requests_, response_thread, answers, client, toClient, worker,
                     handled, outcomes, respond_queue_, sequence_queue_>>
      /\ IsAsync' = IsAsync
  BY DEF inputVars, readerVars, serverVars, queueVars, IsAsync
<1> PICK T : T = toServer'
  OBVIOUS
<1>4. /\ T = Append(toServer, m) /\ DOMAIN T = 1 .. Len(toServer) + 1
      /\ T[Len(toServer) + 1] = m /\ \A n \in 1 .. Len(toServer) : T[n] = toServer[n]
      /\ Len(toServer) \in Nat /\ DOMAIN toServer = 1 .. Len(toServer)
  BY <1>2, AppendSeq, Lengths DEF Send
<1>5. /\ TwoWayIn(T) /\ OneAtMost(T) /\ Flow(T) = Flow(toServer)
      /\ \A n \in 1 .. Len(toServer) : Rank(T, n) = Rank(toServer, n)
  BY <1>1, <1>2, <1>4, AppendTwoWay
<1>6. TwoWayOut'
  BY <1>1, <1>2, <1>3, <1>5 DEF TwoWayOut
<1>7. Upstream'
  <2> PICK W : W = worker
    OBVIOUS
  <2> PICK H : H = handled
    OBVIOUS
  <2>1. ASSUME NEW n \in DOMAIN W
        PROVE  Request(W[n], Len(H) + 1)'
    <3>1. Request(W[n], Len(H) + 1)
      BY <1>2 DEF Upstream
    <3>2. W[n].mtype = "oneway"
      BY <1>1 DEF TwoWayIn
    <3> QED
      BY <1>3, <3>1, <3>2, RequestStays
  <2>2. ASSUME NEW n \in DOMAIN T
        PROVE  Request(T[n], Len(H) + Flow(W) + Rank(T, n))'
    <3>1. CASE n \in DOMAIN toServer
      <4>1. T[n] = toServer[n] /\ Rank(T, n) = Rank(toServer, n) /\ T[n].mtype = "oneway"
        BY <1>1, <1>4, <1>5, <3>1 DEF TwoWayIn
      <4>2. Request(T[n], Len(H) + Flow(W) + Rank(T, n))
        BY <1>2, <3>1, <4>1 DEF Upstream
      <4> QED
        BY <1>3, <4>1, <4>2, RequestStays
    <3>2. CASE n \notin DOMAIN toServer
      <4>1. T[n] = m
        BY <1>4, <3>2
      <4> QED
        BY <4>1 DEF Request
    <3> QED
      BY <3>1, <3>2
  <2>3. main'.sent = Len(H) + Flow(W) + Flow(T)
                       + (IF ~IsAsync' /\ (TwoWayIn(W) \/ TwoWayIn(T)) THEN 1 ELSE 0)
    <3>1. main.sent = Len(H) + Flow(W) + Flow(T) + 0
      BY <1>1, <1>2, <1>5 DEF Upstream
    <3>2. Len(H) \in Nat /\ Flow(W) \in Nat /\ Flow(T) \in Nat
      BY <1>2, <1>5, FlowRank, Lengths
    <3> QED
      BY <1>3, <1>5, <3>1, <3>2
  <2>4. \A n \in DOMAIN H : H[n] = calls'[n]
    BY <1>2, <1>3 DEF Upstream
  <2>5. worker' = W /\ toServer' = T /\ handled' = H
    BY <1>3
  <2> QED
    BY <2>1, <2>2, <2>3, <2>4, <2>5, UpstreamFrom
<1>8. Answering'
  BY <1>2, <1>3 DEF Answering, Fits, Sums, Successes
<1>9. Downstream'
  <2> PICK C : C = toClient
    OBVIOUS
  <2> PICK A : A = answers
    OBVIOUS
  <2>1. ASSUME NEW n \in DOMAIN C
        PROVE  Response(C[n], Len(A) + Rank(C, n))'
    <3>1. Response(C[n], Len(A) + Rank(C, n))
      BY <1>2 DEF Downstream
    <3>2. C[n].mtype = "oneway"
      BY <1>1 DEF TwoWayIn
    <3> QED
      BY <1>3, <3>1, <3>2, ResponseStays
  <2>2. Requests' = Requests
    BY <1>3 DEF Requests
  <2>3. IsAsync' => Requests' = main'.sent - Len(A)
    <3>1. main.sent \in Nat
      BY <1>2 DEF Typed, TypeOK
    <3> QED
      BY <1>2, <1>3, <2>2, <3>1 DEF Downstream
  <2>4. ~IsAsync' => Len(A) = main'.sent - (IF main'.pc = "recv" THEN 1 ELSE 0)
    <3>1. main.sent \in Nat
      BY <1>2 DEF Typed, TypeOK
    <3> QED
      BY <1>2, <1>3, <3>1 DEF Downstream
  <2>5. /\ toClient' = C /\ answers' = A
        /\ \A n \in DOMAIN A : A[n] = [no |-> n - 1, result |-> outcomes'[n]]
        /\ Len(A) <= Len(outcomes')
        /\ IsAsync' /\ main'.id # -1 => Len(outcomes') = Len(A) + Flow(C)
        /\ IsAsync' /\ main'.id = -1 => A = <<>>
    BY <1>2, <1>3 DEF Downstream
  <2> QED
    BY <2>1, <2>3, <2>4, <2>5, DownstreamFrom
<1> QED
  BY <1>6, <1>7, <1>8, <1>9

\* The calling thread sends m.
LEMMA SendTyped ==
  ASSUME Typed, NEW m, m.fname \in DOMAIN processMap_, Send(m),
         main' \in [pc : {"push", "recv"}, await : Methods \cup {"none"}, sent : 0 .. Len(calls),
                    id : Int, searches : 0 .. MaxSearches, overlap : BOOLEAN],
         UNCHANGED <<inputVars, readerVars, answers, client, toClient, serverVars>>
  PROVE  Typed'
<1>1. UNCHANGED <<program, lines, calls, proxy, requests_, response_thread, answers, client, toClient,
                  worker, client_id_gen_, clients_, handled, outcomes, respond_queue_,
                  sequence_queue_>>
  BY DEF inputVars, readerVars, serverVars, queueVars, registryVars
<1> PICK T : T = toServer'
  OBVIOUS
<1>2. /\ T = Append(toServer, m) /\ DOMAIN T = 1 .. Len(toServer) + 1 /\ IsSeq(T)
      /\ T[Len(toServer) + 1] = m /\ \A n \in 1 .. Len(toServer) : T[n] = toServer[n]
      /\ Len(toServer) \in Nat /\ DOMAIN toServer = 1 .. Len(toServer)
  BY AppendSeq, Lengths DEF Send, Typed
<1>3. \A n \in DOMAIN T : T[n].fname \in DOMAIN processMap_
  BY <1>2 DEF Typed, TypeOK
<1>4. /\ main'.pc \in {"push", "recv"} /\ main'.sent \in 0 .. Len(calls)
      /\ main'.searches \in 0 .. MaxSearches /\ main'.overlap \in BOOLEAN
      /\ main' \in [pc : Places, await : Methods \cup {"none"}, sent : Nat, id : Int,
                    searches : Nat, overlap : BOOLEAN]
  <2>1. \A n \in 0 .. Len(calls) : n \in Nat
    BY Lengths
  <2>2. \A n \in 0 .. MaxSearches : n \in Nat
    BY ConnectionAssumption
  <2> QED
    BY <2>1, <2>2 DEF Places
<1>5. TypeOK'
  BY <1>1, <1>3, <1>4 DEF Typed, TypeOK
<1> QED
  BY <1>1, <1>2, <1>4, <1>5 DEF Typed

\* async_proxy_client::get_client_id, the first call.
LEMMA GetClientIdInv ==
  ASSUME ThriftInv, GetClientId
  PROVE  ThriftInv'
<1>1. /\ Typed /\ Calling /\ MessagesUnderstood /\ client = "up" /\ main.pc = "get_client_id"
      /\ IsAsync /\ main.sent = 0
  BY DEF ThriftInv, GetClientId, Calling, Joining
<1>2. /\ main' = [main EXCEPT !.pc = "recv", !.await = "get_client_id"]
      /\ UNCHANGED <<inputVars, readerVars, answers, client, toClient, serverVars>>
      /\ Send(send_get_client_id)
  BY DEF GetClientId
<1>3. /\ main'.pc = "recv" /\ main'.await = "get_client_id" /\ main'.sent = main.sent
      /\ main'.id = main.id /\ main'.searches = main.searches /\ main'.overlap = main.overlap
      /\ main' \in [pc : {"push", "recv"}, await : Methods \cup {"none"}, sent : 0 .. Len(calls),
                    id : Int, searches : 0 .. MaxSearches, overlap : BOOLEAN]
  BY <1>1, <1>2 DEF Typed, TypeOK, Methods
<1>4. send_get_client_id.mtype = "call" /\ send_get_client_id.fname \in DOMAIN processMap_
  BY ProcessParts DEF send_get_client_id, Message, Methods
<1>5. Typed'
  BY <1>1, <1>2, <1>3, <1>4, SendTyped
<1>6. send_get_client_id = Asking'
  BY <1>3 DEF Asking
<1>7. TwoWayOut' /\ Upstream' /\ Answering' /\ Downstream'
  BY <1>1, <1>2, <1>3, <1>4, <1>6, SendTwoWay DEF Typed
<1>8. Calling'
  <2>1. UNCHANGED <<program, requests_, response_thread, clients_>>
    BY <1>2 DEF inputVars, readerVars, serverVars, registryVars
  <2>2. Requests = 0 - Len(answers) /\ Len(answers) \in Nat
    BY <1>1, Lengths DEF ThriftInv, Downstream
  <2>3. requests_ \in Nat
    BY <1>1 DEF Typed, TypeOK
  <2>4. requests_ = 0 /\ response_thread = "pop"
    BY <1>1, <2>2, <2>3 DEF Requests, Typed, TypeOK
  <2> QED
    BY <1>1, <1>3, <2>1, <2>4 DEF Calling, Joining, IsAsync, Quiet
<1>9. MessagesUnderstood'
  BY <1>1, <1>2, <1>3 DEF MessagesUnderstood
<1> QED
  BY <1>5, <1>7, <1>8, <1>9 DEF ThriftInv

\* The second call, with the id.
LEMMA RegisterClientIdInv ==
  ASSUME ThriftInv, RegisterClientId
  PROVE  ThriftInv'
<1>1. /\ Typed /\ Calling /\ MessagesUnderstood /\ client = "up" /\ main.pc = "register_client_id"
      /\ IsAsync /\ main.sent = 0
  BY DEF ThriftInv, RegisterClientId, Calling, Joining
<1>2. /\ main' = [main EXCEPT !.pc = "recv", !.await = "register_client_id"]
      /\ UNCHANGED <<inputVars, readerVars, answers, client, toClient, serverVars>>
      /\ Send(send_register_client_id(1, main.id))
  BY DEF RegisterClientId
<1>3. /\ main'.pc = "recv" /\ main'.await = "register_client_id" /\ main'.sent = main.sent
      /\ main'.id = main.id /\ main'.searches = main.searches /\ main'.overlap = main.overlap
      /\ main' \in [pc : {"push", "recv"}, await : Methods \cup {"none"}, sent : 0 .. Len(calls),
                    id : Int, searches : 0 .. MaxSearches, overlap : BOOLEAN]
  BY <1>1, <1>2 DEF Typed, TypeOK, Methods
<1> PICK m : m = send_register_client_id(1, main.id)
  OBVIOUS
<1>4. m.mtype = "call" /\ m.fname \in DOMAIN processMap_
  BY ProcessParts DEF send_register_client_id, Message, Methods
<1>5. Typed'
  BY <1>1, <1>2, <1>3, <1>4, SendTyped
<1>6. m = Asking'
  BY <1>3 DEF Asking
<1>7. TwoWayOut' /\ Upstream' /\ Answering' /\ Downstream'
  BY <1>1, <1>2, <1>3, <1>4, <1>6, SendTwoWay DEF Typed
<1>8. Calling'
  <2>1. UNCHANGED <<program, requests_, response_thread, clients_>>
    BY <1>2 DEF inputVars, readerVars, serverVars, registryVars
  <2>2. Requests = 0 - Len(answers) /\ Len(answers) \in Nat
    BY <1>1, Lengths DEF ThriftInv, Downstream
  <2>3. requests_ \in Nat
    BY <1>1 DEF Typed, TypeOK
  <2>4. requests_ = 0 /\ response_thread = "pop"
    BY <1>1, <2>2, <2>3 DEF Requests, Typed, TypeOK
  <2> QED
    BY <1>1, <1>3, <2>1, <2>4 DEF Calling, Joining, IsAsync, Quiet
<1>9. MessagesUnderstood'
  BY <1>1, <1>2, <1>3 DEF MessagesUnderstood
<1> QED
  BY <1>5, <1>7, <1>8, <1>9 DEF ThriftInv

\* search() of async_proxy_client.
LEMMA SearchInv ==
  ASSUME ThriftInv, Search
  PROVE  ThriftInv'
<1>1. /\ Typed /\ Calling /\ MessagesUnderstood /\ client = "up" /\ main.pc = "run"
      /\ IsAsync /\ main.searches < MaxSearches
  BY DEF ThriftInv, Search, IsAsync, AsyncPrograms
<1>2. /\ main' = [main EXCEPT !.pc = "recv", !.await = "search", !.searches = @ + 1,
                              !.overlap = @ \/ ~Quiet]
      /\ UNCHANGED <<inputVars, readerVars, answers, client, toClient, serverVars>>
      /\ Send(send_search("item"))
  BY DEF Search
<1>3. /\ main'.pc = "recv" /\ main'.await = "search" /\ main'.sent = main.sent
      /\ main'.id = main.id /\ main'.searches = main.searches + 1
      /\ main'.overlap = (main.overlap \/ ~Quiet)
  BY <1>1, <1>2 DEF Typed
<1>4. main' \in [pc : {"push", "recv"}, await : Methods \cup {"none"}, sent : 0 .. Len(calls),
                 id : Int, searches : 0 .. MaxSearches, overlap : BOOLEAN]
  <2>1. main.searches \in Nat /\ main.searches + 1 \in 0 .. MaxSearches /\ main.sent \in 0 .. Len(calls)
    BY <1>1, ConnectionAssumption DEF Typed, TypeOK
  <2>2. (main.overlap \/ ~Quiet) \in BOOLEAN /\ "search" \in Methods
    BY DEF Methods
  <2> HIDE DEF Quiet
  <2> QED
    BY <1>1, <1>2, <2>1, <2>2 DEF Typed
<1>5. send_search("item").mtype = "call" /\ send_search("item").fname \in DOMAIN processMap_
  BY ProcessParts DEF send_search, Message, Methods
<1>6. Typed'
  BY <1>1, <1>2, <1>4, <1>5, SendTyped
<1>7. send_search("item") = Asking'
  BY <1>3 DEF Asking
<1>8. TwoWayOut' /\ Upstream' /\ Answering' /\ Downstream'
  BY <1>1, <1>2, <1>3, <1>5, <1>7, SendTwoWay DEF Typed
<1>9. Calling'
  <2>1. UNCHANGED <<program, requests_, response_thread, clients_>>
    BY <1>2 DEF inputVars, readerVars, serverVars, registryVars
  <2>2. main.id \in clients_
    BY <1>1 DEF Calling, Joining
  <2> QED
    BY <1>1, <1>3, <2>1, <2>2 DEF Calling, Joining, IsAsync, Quiet
<1>10. MessagesUnderstood'
  BY <1>1, <1>2, <1>3 DEF MessagesUnderstood
<1> QED
  BY <1>6, <1>8, <1>9, <1>10 DEF ThriftInv

\* The calls of proxy_client.
LEMMA CallSyncInv ==
  ASSUME ThriftInv, CallSync
  PROVE  ThriftInv'
<1>1. /\ Typed /\ Calling /\ MessagesUnderstood /\ client = "up" /\ main.pc = "run"
      /\ ~IsAsync /\ main.sent < Len(calls)
  BY DEF ThriftInv, CallSync, IsAsync, AsyncPrograms, SyncPrograms
<1> PICK call : call = calls[main.sent + 1]
  OBVIOUS
<1>2. /\ main' = [main EXCEPT !.pc = "recv", !.await = SyncMethod(call), !.sent = @ + 1]
      /\ UNCHANGED <<inputVars, readerVars, answers, client, toClient, serverVars>>
      /\ Send(SyncRequest(call))
  BY DEF CallSync
<1>3. /\ main'.pc = "recv" /\ main'.await = SyncMethod(call) /\ main'.sent = main.sent + 1
      /\ main'.id = main.id /\ main'.searches = main.searches /\ main'.overlap = main.overlap
  BY <1>1, <1>2 DEF Typed
<1>4. SyncMethod(call) \in {"get", "put", "get_batch", "put_batch"}
  BY SyncRequestParts
<1>5. main' \in [pc : {"push", "recv"}, await : Methods \cup {"none"}, sent : 0 .. Len(calls),
                 id : Int, searches : 0 .. MaxSearches, overlap : BOOLEAN]
  <2>1. main.sent + 1 \in 0 .. Len(calls) /\ main.searches \in 0 .. MaxSearches
    BY <1>1, Lengths DEF Typed, TypeOK
  <2>2. SyncMethod(call) \in Methods
    BY <1>4 DEF Methods
  <2> QED
    BY <1>1, <1>2, <2>1, <2>2 DEF Typed
<1> PICK m : m = SyncRequest(call)
  OBVIOUS
<1>6. m.mtype = "call" /\ m.fname \in DOMAIN processMap_
  BY <1>4, SyncRequestParts, ProcessParts DEF Methods
<1>7. Typed'
  BY <1>1, <1>2, <1>5, <1>6, SendTyped
<1>8. UNCHANGED <<program, calls, requests_, response_thread>>
  BY <1>2 DEF inputVars, readerVars
<1>9. main'.sent \in Nat /\ calls'[main'.sent] = call /\ SyncMethod(call)' = SyncMethod(call)
  BY <1>3, <1>5, <1>8, Lengths DEF SyncMethod
<1>10. m = Asking'
  BY <1>3, <1>4, <1>8, <1>9 DEF Asking, SyncRequest, SyncMethod
<1>11. TwoWayOut' /\ Upstream' /\ Answering' /\ Downstream'
  BY <1>1, <1>2, <1>3, <1>6, <1>10, SendTwoWay DEF Typed
<1>12. Calling'
  <2>1. main'.await = SyncMethod(calls[main.sent])'
    BY <1>3, <1>8, <1>9 DEF SyncMethod
  <2>2. main'.sent > 0
    BY <1>1, <1>3 DEF Typed
  <2> QED
    BY <1>1, <1>3, <1>4, <1>8, <2>1, <2>2 DEF Calling, Joining, IsAsync, Quiet
<1>13. MessagesUnderstood'
  BY <1>1, <1>2, <1>3 DEF MessagesUnderstood
<1> QED
  BY <1>7, <1>11, <1>12, <1>13 DEF ThriftInv

\* The calls of async_proxy_client, up to the send.
LEMMA CallAsyncInv ==
  ASSUME ThriftInv, CallAsync
  PROVE  ThriftInv'
<1>1. /\ Typed /\ Calling /\ MessagesUnderstood /\ client = "up" /\ main.pc = "run"
      /\ IsAsync /\ main.sent < Len(calls) /\ requests_ < in_flight_limit_
      /\ TwoWayOut /\ Upstream /\ Answering /\ Downstream
  BY DEF ThriftInv, CallAsync, IsAsync
<1> PICK m : m = AsyncRequest(calls[main.sent + 1], SeqId(main.id, main.sent))
  OBVIOUS
<1>2. /\ main' = [main EXCEPT !.pc = "push", !.sent = @ + 1]
      /\ UNCHANGED <<inputVars, readerVars, answers, client, toClient, serverVars>>
      /\ Send(m)
  BY DEF CallAsync
<1>3. /\ main'.pc = "push" /\ main'.await = main.await /\ main'.sent = main.sent + 1
      /\ main'.id = main.id /\ main'.searches = main.searches /\ main'.overlap = main.overlap
  BY <1>1, <1>2 DEF Typed
<1>4. /\ main.sent \in Nat /\ main.sent + 1 \in DOMAIN calls /\ main.sent + 1 \in 0 .. Len(calls)
      /\ main.searches \in 0 .. MaxSearches
  BY <1>1, Lengths DEF Typed, TypeOK
<1>5. main' \in [pc : {"push", "recv"}, await : Methods \cup {"none"}, sent : 0 .. Len(calls),
                 id : Int, searches : 0 .. MaxSearches, overlap : BOOLEAN]
  BY <1>1, <1>2, <1>4 DEF Typed
<1>6. m.mtype = "oneway" /\ m.fname \in DOMAIN processMap_
  BY AsyncRequestParts, ProcessParts
<1>7. Typed'
  BY <1>1, <1>2, <1>5, <1>6, SendTyped
<1>8. /\ UNCHANGED <<program, calls, requests_, response_thread, answers, client, toClient, worker,
                     handled, outcomes, respond_queue_, sequence_queue_, clients_>>
      /\ IsAsync'
  BY <1>1, <1>2 DEF inputVars, readerVars, serverVars, queueVars, registryVars, IsAsync
<1>9. ~TwoWayIn(toServer) /\ ~TwoWayIn(worker) /\ ~TwoWayIn(toClient)
  BY <1>1, NothingAsked
<1>10. IsSeq(toServer) /\ IsSeq(worker) /\ IsSeq(toClient)
  BY <1>1 DEF Typed
<1> PICK T : T = toServer'
  OBVIOUS
<1>11. /\ T = Append(toServer, m) /\ DOMAIN T = 1 .. Len(toServer) + 1
       /\ T[Len(toServer) + 1] = m /\ \A n \in 1 .. Len(toServer) : T[n] = toServer[n]
       /\ Len(toServer) \in Nat /\ DOMAIN toServer = 1 .. Len(toServer)
  BY <1>1, <1>2, <1>10, AppendSeq, Lengths DEF Send
<1>12. /\ ~TwoWayIn(T) /\ OneAtMost(T) /\ Flow(T) = Flow(toServer) + 1
       /\ \A n \in 1 .. Len(toServer) : Rank(T, n) = Rank(toServer, n)
       /\ Rank(T, Len(toServer) + 1) = Flow(toServer) + 1
  BY <1>1, <1>6, <1>9, <1>10, <1>11, AppendOneWay DEF TwoWayOut
<1>13. TwoWayOut'
  BY <1>1, <1>8, <1>12 DEF TwoWayOut
<1>14. Upstream'
  <2> PICK W : W = worker
    OBVIOUS
  <2> PICK H : H = handled
    OBVIOUS
  <2>1. ASSUME NEW n \in DOMAIN W
        PROVE  Request(W[n], Len(H) + 1)'
    <3>1. Request(W[n], Len(H) + 1) /\ W[n].mtype = "oneway"
      BY <1>1, <1>9 DEF Upstream, TwoWayIn
    <3> QED
      BY <1>3, <1>8, <3>1, RequestStays
  <2>2. /\ Len(H) \in Nat /\ Flow(W) \in Nat /\ Flow(toServer) \in Nat
        /\ main.sent = Len(H) + Flow(W) + Flow(toServer)
    BY <1>1, <1>10, FlowRank, Lengths DEF Upstream
  <2>3. ASSUME NEW n \in DOMAIN T
        PROVE  Request(T[n], Len(H) + Flow(W) + Rank(T, n))'
    <3>1. CASE n \in DOMAIN toServer
      <4>1. T[n] = toServer[n] /\ Rank(T, n) = Rank(toServer, n) /\ T[n].mtype = "oneway"
        BY <1>9, <1>11, <1>12, <3>1 DEF TwoWayIn
      <4>2. Request(T[n], Len(H) + Flow(W) + Rank(T, n))
        BY <1>1, <3>1, <4>1 DEF Upstream
      <4> QED
        BY <1>3, <1>8, <4>1, <4>2, RequestStays
    <3>2. CASE n \notin DOMAIN toServer
      <4>1. T[n] = m /\ n = Len(toServer) + 1
        BY <1>11, <3>2
      <4>2. Len(H) + Flow(W) + Rank(T, n) = main.sent + 1
        BY <1>12, <2>2, <4>1
      <4>3. (main.sent + 1) - 1 = main.sent
        BY <1>4
      <4>4. Request(m, main.sent + 1)
        BY <1>1, <1>4, <1>6, <4>3 DEF Request
      <4> PICK x : x = Len(H) + Flow(W) + Rank(T, n)
        OBVIOUS
      <4>5. Request(m, x)
        BY <4>2, <4>4
      <4>6. Request(m, x)'
        BY <1>3, <1>6, <1>8, <4>5, RequestStays
      <4> QED
        BY <4>1, <4>6
    <3> QED
      BY <3>1, <3>2
  <2>4. main'.sent = Len(H) + Flow(W) + Flow(T)
                       + (IF ~IsAsync' /\ (TwoWayIn(W) \/ TwoWayIn(T)) THEN 1 ELSE 0)
    BY <1>3, <1>8, <1>12, <2>2
  <2>5. \A n \in DOMAIN H : H[n] = calls'[n]
    BY <1>1, <1>8 DEF Upstream
  <2>6. worker' = W /\ toServer' = T /\ handled' = H
    BY <1>8
  <2> QED
    BY <2>1, <2>3, <2>4, <2>5, <2>6, UpstreamFrom
<1>15. Answering'
  BY <1>1, <1>3, <1>8 DEF Answering, Fits, Sums, Successes
<1>16. Downstream'
  <2> PICK C : C = toClient
    OBVIOUS
  <2> PICK A : A = answers
    OBVIOUS
  <2>1. ASSUME NEW n \in DOMAIN C
        PROVE  Response(C[n], Len(A) + Rank(C, n))'
    <3>1. Response(C[n], Len(A) + Rank(C, n)) /\ C[n].mtype = "oneway"
      BY <1>1, <1>9 DEF Downstream, TwoWayIn
    <3> QED
      BY <1>3, <1>8, <3>1, ResponseStays
  <2>2. Requests' = main'.sent - Len(A)
    <3>1. Requests = main.sent - Len(A) /\ requests_ \in Nat
      BY <1>1, ConnectionAssumption DEF Downstream, Typed, TypeOK
    <3>2. Requests' = Requests + 1
      BY <1>1, <1>3, <1>8, <3>1 DEF Requests
    <3>3. Len(A) \in Nat
      BY <1>1, Lengths
    <3> QED
      BY <1>3, <1>4, <3>1, <3>2, <3>3
  <2>3. /\ toClient' = C /\ answers' = A
        /\ \A n \in DOMAIN A : A[n] = [no |-> n - 1, result |-> outcomes'[n]]
        /\ Len(A) <= Len(outcomes')
        /\ IsAsync' /\ main'.id # -1 => Len(outcomes') = Len(A) + Flow(C)
        /\ IsAsync' /\ main'.id = -1 => A = <<>>
    BY <1>1, <1>3, <1>8 DEF Downstream
  <2> QED
    BY <1>8, <2>1, <2>2, <2>3, DownstreamFrom
<1>17. Calling'
  BY <1>1, <1>3, <1>8 DEF Calling, Joining, Quiet
<1>18. MessagesUnderstood'
  BY <1>1, <1>2, <1>3 DEF MessagesUnderstood
<1> QED
  BY <1>7, <1>13, <1>14, <1>15, <1>16, <1>17, <1>18 DEF ThriftInv

\* A step of the client that moves only its counters: no message is touched.
LEMMA CountersOnly ==
  ASSUME ThriftInv, client = "up", main.pc # "recv" \/ UNCHANGED main,
         main'.pc = "recv" <=> main.pc = "recv", main'.id = main.id, main'.sent = main.sent,
         Requests' = Requests,
         UNCHANGED <<inputVars, answers, client, toServer, toClient, serverVars>>
  PROVE  TwoWayOut' /\ Upstream' /\ Answering' /\ Downstream'
<1>1. Typed /\ TwoWayOut /\ Upstream /\ Answering /\ Downstream
  BY DEF ThriftInv
<1>2. /\ UNCHANGED <<program, calls, answers, client, toServer, toClient, worker,
                     handled, outcomes, respond_queue_, sequence_queue_, clients_>>
      /\ IsAsync' = IsAsync
  BY DEF inputVars, serverVars, queueVars, registryVars, IsAsync
<1>3. ASSUME NEW m, m.mtype # "oneway"
      PROVE  /\ \A x : Request(m, x) => UNCHANGED main
             /\ \A x : Response(m, x) => UNCHANGED main
  BY <1>3 DEF Request, Response
<1>4. TwoWayOut'
  BY <1>1, <1>2 DEF TwoWayOut
<1>5. Upstream'
  <2> PICK W : W = worker
    OBVIOUS
  <2> PICK H : H = handled
    OBVIOUS
  <2> PICK T : T = toServer
    OBVIOUS
  <2>1. ASSUME NEW n \in DOMAIN W
        PROVE  Request(W[n], Len(H) + 1)'
    <3>1. Request(W[n], Len(H) + 1)
      BY <1>1 DEF Upstream
    <3> QED
      BY <1>2, <1>3, <3>1, RequestStays
  <2>2. ASSUME NEW n \in DOMAIN T
        PROVE  Request(T[n], Len(H) + Flow(W) + Rank(T, n))'
    <3>1. Request(T[n], Len(H) + Flow(W) + Rank(T, n))
      BY <1>1 DEF Upstream
    <3> QED
      BY <1>2, <1>3, <3>1, RequestStays
  <2>3. /\ main'.sent = Len(H) + Flow(W) + Flow(T)
                          + (IF ~IsAsync' /\ (TwoWayIn(W) \/ TwoWayIn(T)) THEN 1 ELSE 0)
        /\ \A n \in DOMAIN H : H[n] = calls'[n]
        /\ worker' = W /\ toServer' = T /\ handled' = H
    BY <1>1, <1>2 DEF Upstream
  <2> QED
    BY <2>1, <2>2, <2>3, UpstreamFrom
<1>6. Answering'
  BY <1>1, <1>2 DEF Answering, Fits, Sums, Successes
<1>7. Downstream'
  <2> PICK C : C = toClient
    OBVIOUS
  <2> PICK A : A = answers
    OBVIOUS
  <2>1. ASSUME NEW n \in DOMAIN C
        PROVE  Response(C[n], Len(A) + Rank(C, n))'
    <3>1. Response(C[n], Len(A) + Rank(C, n))
      BY <1>1 DEF Downstream
    <3>2. CASE C[n].mtype = "oneway"
      BY <1>2, <3>1, <3>2, ResponseStays
    <3>3. CASE C[n].mtype # "oneway"
      BY <1>2, <1>3, <3>1, <3>3, ReplyStays
    <3> QED
      BY <3>2, <3>3
  <2>2. /\ toClient' = C /\ answers' = A
        /\ \A n \in DOMAIN A : A[n] = [no |-> n - 1, result |-> outcomes'[n]]
        /\ Len(A) <= Len(outcomes')
        /\ IsAsync' /\ main'.id # -1 => Len(outcomes') = Len(A) + Flow(C)
        /\ IsAsync' /\ main'.id = -1 => A = <<>>
        /\ IsAsync' => Requests' = main'.sent - Len(A)
        /\ ~IsAsync' => Len(A) = main'.sent - (IF main'.pc = "recv" THEN 1 ELSE 0)
    BY <1>1, <1>2 DEF Downstream
  <2> QED
    BY <2>1, <2>2, DownstreamFrom
<1> QED
  BY <1>4, <1>5, <1>6, <1>7

\* requests_->push.
LEMMA PushRequestInv ==
  ASSUME ThriftInv, PushRequest
  PROVE  ThriftInv'
<1>1. /\ Typed /\ Calling /\ MessagesUnderstood /\ client = "up" /\ main.pc = "push"
      /\ IsAsync /\ requests_ < in_flight_limit_
  BY DEF ThriftInv, PushRequest, Calling
<1>2. /\ main' = [main EXCEPT !.pc = "run"] /\ requests_' = requests_ + 1
      /\ UNCHANGED <<inputVars, response_thread, answers, client, toServer, toClient, serverVars>>
  BY DEF PushRequest
<1>3. /\ main'.pc = "run" /\ main'.await = main.await /\ main'.sent = main.sent
      /\ main'.id = main.id /\ main'.searches = main.searches /\ main'.overlap = main.overlap
      /\ main' \in [pc : Places, await : Methods \cup {"none"}, sent : Nat, id : Int,
                    searches : Nat, overlap : BOOLEAN]
  BY <1>1, <1>2 DEF Typed, Places
<1>4. requests_ \in Nat /\ requests_ + 1 \in 0 .. in_flight_limit_
  BY <1>1, ConnectionAssumption DEF Typed, TypeOK
<1>5. UNCHANGED <<program, lines, calls, proxy, response_thread, answers, client, toServer, toClient,
                  worker, client_id_gen_, clients_, handled, outcomes, respond_queue_,
                  sequence_queue_>>
  BY <1>2 DEF inputVars, serverVars, queueVars, registryVars
<1>6. Typed'
  <2>1. TypeOK'
    BY <1>1, <1>2, <1>3, <1>4, <1>5 DEF Typed, TypeOK
  <2> QED
    BY <1>1, <1>3, <1>5, <2>1 DEF Typed
<1>7. Requests' = Requests
  BY <1>1, <1>2, <1>3, <1>4 DEF Requests
<1>8. TwoWayOut' /\ Upstream' /\ Answering' /\ Downstream'
  BY <1>1, <1>2, <1>3, <1>7, CountersOnly
<1>9. Calling'
  BY <1>1, <1>3, <1>5 DEF Calling, Joining, IsAsync, Quiet
<1>10. MessagesUnderstood'
  BY <1>1, <1>3, <1>5 DEF MessagesUnderstood
<1> QED
  BY <1>6, <1>8, <1>9, <1>10 DEF ThriftInv

\* run_benchmark stops.
LEMMA TimeUpInv ==
  ASSUME ThriftInv, TimeUp
  PROVE  ThriftInv'
<1>1. Typed /\ Calling /\ MessagesUnderstood /\ client = "up" /\ main.pc = "run"
  BY DEF ThriftInv, TimeUp
<1>2. /\ main' = [main EXCEPT !.pc = "end"]
      /\ UNCHANGED <<inputVars, readerVars, answers, client, toServer, toClient, serverVars>>
  BY DEF TimeUp
<1>3. /\ main'.pc = "end" /\ main'.await = main.await /\ main'.sent = main.sent
      /\ main'.id = main.id /\ main'.searches = main.searches /\ main'.overlap = main.overlap
      /\ main' \in [pc : Places, await : Methods \cup {"none"}, sent : Nat, id : Int,
                    searches : Nat, overlap : BOOLEAN]
  BY <1>1, <1>2 DEF Typed, Places
<1>4. UNCHANGED <<program, lines, calls, proxy, requests_, response_thread, answers, client, toServer,
                  toClient, worker, client_id_gen_, clients_, handled, outcomes, respond_queue_,
                  sequence_queue_>>
  BY <1>2 DEF inputVars, readerVars, serverVars, queueVars, registryVars
<1>5. Typed'
  <2>1. TypeOK'
    BY <1>1, <1>3, <1>4 DEF Typed, TypeOK
  <2> QED
    BY <1>1, <1>3, <1>4, <2>1 DEF Typed
<1>6. Requests' = Requests
  BY <1>1, <1>3, <1>4 DEF Requests
<1>7. TwoWayOut' /\ Upstream' /\ Answering' /\ Downstream'
  BY <1>1, <1>2, <1>3, <1>6, CountersOnly
<1>8. Calling'
  BY <1>1, <1>3, <1>4 DEF Calling, Joining, IsAsync, Quiet
<1>9. MessagesUnderstood'
  BY <1>1, <1>3, <1>4 DEF MessagesUnderstood
<1> QED
  BY <1>5, <1>7, <1>8, <1>9 DEF ThriftInv

\* The response thread takes a request.
LEMMA PopRequestInv ==
  ASSUME ThriftInv, PopRequest
  PROVE  ThriftInv'
<1>1. /\ Typed /\ Calling /\ MessagesUnderstood /\ client = "up"
      /\ response_thread = "pop" /\ requests_ > 0
  BY DEF ThriftInv, PopRequest
<1>2. /\ requests_' = requests_ - 1 /\ response_thread' = "recv"
      /\ UNCHANGED <<inputVars, main, answers, client, toServer, toClient, serverVars>>
  BY DEF PopRequest
<1>3. requests_ \in Nat /\ requests_ - 1 \in 0 .. in_flight_limit_
  BY <1>1, ConnectionAssumption DEF Typed, TypeOK
<1>4. UNCHANGED <<program, lines, calls, proxy, main, answers, client, toServer, toClient,
                  worker, client_id_gen_, clients_, handled, outcomes, respond_queue_,
                  sequence_queue_>>
  BY <1>2 DEF inputVars, serverVars, queueVars, registryVars
<1>5. Typed'
  <2>1. TypeOK'
    BY <1>1, <1>2, <1>3, <1>4 DEF Typed, TypeOK
  <2> QED
    BY <1>1, <1>4, <2>1 DEF Typed
<1>6. Requests' = Requests
  BY <1>1, <1>2, <1>3, <1>4 DEF Requests
<1>7. TwoWayOut' /\ Upstream' /\ Answering' /\ Downstream'
  BY <1>1, <1>2, <1>6, CountersOnly
<1>8. Calling'
  <2>1. IsAsync /\ ~(main.pc = "recv" /\ ~main.overlap)
    BY <1>1 DEF Calling, Quiet
  <2>2. main.pc = "push" => requests_ - 1 < in_flight_limit_
    BY <1>1, <1>3, ConnectionAssumption DEF Calling
  <2> QED
    BY <1>1, <1>2, <1>4, <2>1, <2>2 DEF Calling, Joining, IsAsync
<1>9. MessagesUnderstood'
  BY <1>1, <1>4 DEF MessagesUnderstood
<1> QED
  BY <1>5, <1>7, <1>8, <1>9 DEF ThriftInv

\* The client reads a message as what it is not: nothing of its state is used after that.
LEMMA ReadUndefined ==
  ASSUME ThriftInv, client = "up", toClient # <<>>, toClient' = Tail(toClient),
         client' = "undefined", response_thread' \in {"pop", "recv"},
         response_thread' = response_thread \/ (IsAsync /\ response_thread = "recv"), main.overlap,
         UNCHANGED <<inputVars, main, requests_, answers, toServer, serverVars>>
  PROVE  ThriftInv'
<1>1. /\ Typed /\ Calling /\ TwoWayOut /\ Upstream /\ Answering /\ Downstream
      /\ IsSeq(toClient)
  BY DEF ThriftInv, Typed
<1>2. /\ UNCHANGED <<program, lines, calls, proxy, main, requests_, answers, toServer, worker,
                     client_id_gen_, clients_, handled, outcomes, respond_queue_,
                     sequence_queue_>>
      /\ IsAsync' = IsAsync
  BY DEF inputVars, serverVars, queueVars, registryVars, IsAsync
<1>3. /\ IsSeq(toClient') /\ DOMAIN toClient' = 1 .. Len(toClient) - 1
      /\ Len(toClient) \in Nat /\ DOMAIN toClient = 1 .. Len(toClient)
      /\ \A n \in 1 .. Len(toClient) - 1 : toClient'[n] = toClient[n + 1]
  BY <1>1, TailSeq, Lengths
<1>4. OneAtMost(toClient') /\ (TwoWayIn(toClient') => TwoWayIn(toClient))
  BY <1>1, TailOneAtMost DEF TwoWayOut
<1>5. Typed'
  <2>1. ASSUME NEW n \in DOMAIN toClient'
        PROVE  toClient'[n].mtype \in {"reply", "exception", "oneway"}
    <3>1. n + 1 \in DOMAIN toClient /\ toClient'[n] = toClient[n + 1]
      BY <1>3
    <3> QED
      BY <1>1, <3>1 DEF Typed, TypeOK
  <2>2. TypeOK'
    BY <1>1, <1>2, <2>1 DEF Typed, TypeOK
  <2> QED
    BY <1>1, <1>2, <1>3, <2>2 DEF Typed
<1>6. Calling'
  BY <1>1, <1>2 DEF Calling, Joining, SyncMethod, Quiet
<1>7. TwoWayOut'
  BY <1>1, <1>2, <1>4 DEF TwoWayOut
<1>8. Upstream'
  BY <1>1, <1>2 DEF Upstream, Request, AsyncRequest, Asking, SyncRequest, SyncMethod
<1>9. Answering'
  BY <1>1, <1>2 DEF Answering, Fits, Sums, Successes
<1>10. Downstream'
  BY <1>1, <1>2 DEF Downstream
<1>11. MessagesUnderstood'
  BY <1>2 DEF MessagesUnderstood
<1> QED
  BY <1>5, <1>6, <1>7, <1>8, <1>9, <1>10, <1>11 DEF ThriftInv

\* The first message for the client, and what it is.
LEMMA FirstMessage ==
  ASSUME ThriftInv, client = "up", toClient # <<>>
  PROVE  /\ Response(toClient[1], Len(answers) + 1) /\ Head(toClient) = toClient[1]
         /\ 1 \in DOMAIN toClient
<1>1. IsSeq(toClient) /\ Typed
  BY DEF ThriftInv, Typed
<1>2. Head(toClient) = toClient[1] /\ 1 \in DOMAIN toClient /\ Rank(toClient, 1) = 1
  BY <1>1, TailSeq, Lengths, FlowRank
<1> QED
  BY <1>2 DEF ThriftInv, Downstream

\* Requests are not negative, and if there is none nothing is on its way.
LEMMA NoRequests ==
  ASSUME ThriftInv, client = "up", IsAsync, Quiet, main.pc # "push"
  PROVE  /\ Len(answers) = main.sent /\ Len(outcomes) = main.sent
         /\ main.id # -1 => Flow(toClient) = 0
<1>1. /\ Len(handled) \in Nat /\ Len(outcomes) \in Nat /\ Len(respond_queue_) \in Nat
      /\ Len(answers) \in Nat /\ main.sent \in Nat
      /\ Flow(toClient) \in Nat /\ Flow(toServer) \in Nat /\ Flow(worker) \in Nat
  BY Lengths, FlowRank DEF ThriftInv, Typed
<1>2. Requests = 0
  BY DEF Quiet, Requests
<1>3. /\ Requests = main.sent - Len(answers) /\ Len(answers) <= Len(outcomes)
      /\ main.id # -1 => Len(outcomes) = Len(answers) + Flow(toClient)
  BY DEF ThriftInv, Downstream
<1>4. /\ main.sent = Len(handled) + Flow(worker) + Flow(toServer) + 0
      /\ Len(handled) = Len(outcomes) + Len(respond_queue_)
  BY DEF ThriftInv, Upstream, Answering
<1>5. Len(answers) = main.sent
  <2>1. 0 = main.sent - Len(answers)
    BY <1>2, <1>3
  <2> QED
    BY <1>1, <2>1
<1>6. Len(outcomes) <= main.sent
  BY <1>1, <1>4
<1>7. Len(outcomes) = main.sent
  <2>1. \A a, b \in Nat : a <= b /\ b <= a => a = b
    OBVIOUS
  <2> QED
    BY <1>1, <1>3, <1>5, <1>6, <2>1
<1> QED
  BY <1>1, <1>3, <1>5, <1>7

\* The caller takes its reply.
LEMMA TakeReply ==
  ASSUME ThriftInv, client = "up", main.pc = "recv", toClient # <<>>,
         toClient[1].mtype # "oneway", toClient' = Tail(toClient),
         main'.id = IF main.await = "get_client_id" THEN RecvOf(main.await, toClient[1]).value
                                                    ELSE main.id,
         main'.sent = main.sent, main'.pc \in {"register_client_id", "run"},
         answers' = IF IsAsync THEN answers
                    ELSE Append(answers, [no |-> main.sent - 1, result |-> outcomes[main.sent]]),
         UNCHANGED <<inputVars, readerVars, client, toServer, serverVars>>
  PROVE  TwoWayOut' /\ Upstream' /\ Answering' /\ Downstream'
<1>1. /\ Typed /\ Calling /\ TwoWayOut /\ Upstream /\ Answering /\ Downstream
      /\ IsSeq(toClient) /\ IsSeq(answers) /\ IsSeq(toServer) /\ IsSeq(worker)
  BY DEF ThriftInv, Typed
<1>2. /\ UNCHANGED <<program, calls, requests_, response_thread, client, toServer, worker,
                     handled, outcomes, respond_queue_, sequence_queue_, clients_>>
      /\ IsAsync' = IsAsync
  BY DEF inputVars, readerVars, serverVars, queueVars, registryVars, IsAsync
<1> PICK C : C = toClient'
  OBVIOUS
<1>3. /\ DOMAIN C = 1 .. Len(toClient) - 1
      /\ Len(toClient) \in Nat /\ DOMAIN toClient = 1 .. Len(toClient)
      /\ \A n \in 1 .. Len(toClient) - 1 : C[n] = toClient[n + 1]
  BY <1>1, TailSeq, Lengths
<1>4. /\ TwoWayIn(toClient) /\ ~TwoWayIn(C) /\ Flow(C) = Flow(toClient)
      /\ \A n \in 1 .. Len(toClient) - 1 : Rank(C, n) = Rank(toClient, n + 1)
  BY <1>1, TailTwoWay DEF TwoWayOut
<1>5. ~TwoWayIn(toServer) /\ ~TwoWayIn(worker)
  BY <1>1, <1>4 DEF TwoWayOut
<1>6. OneAtMost(C)
  BY <1>4 DEF OneAtMost, TwoWayIn
<1>7. TwoWayOut'
  BY <1>1, <1>2, <1>4, <1>6 DEF TwoWayOut
\* While the id is being asked for no call has been made.
<1>8. main.await = "get_client_id" =>
        /\ IsAsync /\ main.sent = 0 /\ toServer = <<>> /\ worker = <<>> /\ handled = <<>>
        /\ outcomes = <<>> /\ respond_queue_ = <<>> /\ sequence_queue_ = <<>> /\ answers = <<>>
        /\ Flow(toClient) = 0 /\ \A n \in DOMAIN toClient : toClient[n].mtype # "oneway"
  <2> SUFFICES ASSUME main.await = "get_client_id"
               PROVE  /\ IsAsync /\ main.sent = 0 /\ toServer = <<>> /\ worker = <<>>
                      /\ handled = <<>> /\ outcomes = <<>> /\ respond_queue_ = <<>>
                      /\ sequence_queue_ = <<>> /\ answers = <<>> /\ Flow(toClient) = 0
                      /\ \A n \in DOMAIN toClient : toClient[n].mtype # "oneway"
    OBVIOUS
  <2>1. IsAsync /\ main.sent = 0
    BY <1>1 DEF Calling, Joining
  <2>2. /\ Len(handled) \in Nat /\ Len(outcomes) \in Nat /\ Len(respond_queue_) \in Nat
        /\ Len(answers) \in Nat /\ Len(sequence_queue_) \in Nat
        /\ Flow(toServer) \in Nat /\ Flow(worker) \in Nat
        /\ Flow(toServer) = Len(toServer) /\ Flow(worker) = Len(worker)
    BY <1>1, <1>5, Lengths, FlowRank
  <2>3. /\ 0 = Len(handled) + Flow(worker) + Flow(toServer) + 0
        /\ Len(handled) = Len(outcomes) + Len(respond_queue_) /\ Len(answers) <= Len(outcomes)
        /\ (program = "async_batch" => Len(sequence_queue_) = Len(respond_queue_))
        /\ (program # "async_batch" => sequence_queue_ = <<>>)
    BY <1>1, <2>1 DEF Upstream, Answering, Downstream
  <2>4. /\ Len(handled) = 0 /\ Len(worker) = 0 /\ Len(toServer) = 0 /\ Len(outcomes) = 0
        /\ Len(respond_queue_) = 0 /\ Len(answers) = 0
        /\ program = "async_batch" => Len(sequence_queue_) = 0
    BY <2>2, <2>3
  <2>5. \A s : IsSeq(s) /\ Len(s) = 0 => s = <<>>
    BY ShortSeq
  <2>6. /\ toServer = <<>> /\ worker = <<>> /\ handled = <<>> /\ outcomes = <<>>
        /\ respond_queue_ = <<>> /\ sequence_queue_ = <<>> /\ answers = <<>>
    BY <1>1, <2>3, <2>4, <2>5 DEF Typed
  <2>7. ASSUME NEW n \in DOMAIN toClient
        PROVE  toClient[n].mtype # "oneway"
    <3>1. Response(toClient[n], Len(answers) + Rank(toClient, n))
      BY <1>1 DEF Downstream
    <3>2. DOMAIN outcomes = {}
      BY <2>6
    <3> QED
      BY <3>1, <3>2 DEF Response
  <2>8. Flow(toClient) = 0
    <3>1. Len(toClient) = 1
      <4>1. \A n \in DOMAIN toClient : n = 1
        BY <1>1, <1>3, <2>7, FirstMessage DEF TwoWayOut, OneAtMost
      <4>2. Len(toClient) \in DOMAIN toClient
        BY <1>3, FirstMessage
      <4> QED
        BY <4>1, <4>2
    <3> QED
      BY <1>4, <3>1 DEF Flow
  <2> QED
    BY <2>1, <2>6, <2>7, <2>8
<1>9. Upstream'
  <2> PICK W : W = worker
    OBVIOUS
  <2> PICK H : H = handled
    OBVIOUS
  <2> PICK T : T = toServer
    OBVIOUS
  <2>1. ASSUME NEW n \in DOMAIN W
        PROVE  Request(W[n], Len(H) + 1)'
    <3>1. Request(W[n], Len(H) + 1) /\ W[n].mtype = "oneway"
      BY <1>1, <1>5 DEF Upstream, TwoWayIn
    <3>2. main'.id = main.id
      BY <1>8, ShortSeq
    <3> QED
      BY <1>2, <3>1, <3>2, RequestStays
  <2>2. ASSUME NEW n \in DOMAIN T
        PROVE  Request(T[n], Len(H) + Flow(W) + Rank(T, n))'
    <3>1. Request(T[n], Len(H) + Flow(W) + Rank(T, n)) /\ T[n].mtype = "oneway"
      BY <1>1, <1>5 DEF Upstream, TwoWayIn
    <3>2. main'.id = main.id
      BY <1>8, ShortSeq
    <3> QED
      BY <1>2, <3>1, <3>2, RequestStays
  <2>3. /\ main'.sent = Len(H) + Flow(W) + Flow(T)
                          + (IF ~IsAsync' /\ (TwoWayIn(W) \/ TwoWayIn(T)) THEN 1 ELSE 0)
        /\ \A n \in DOMAIN H : H[n] = calls'[n]
        /\ worker' = W /\ toServer' = T /\ handled' = H
    BY <1>1, <1>2, <1>5 DEF Upstream
  <2> QED
    BY <2>1, <2>2, <2>3, UpstreamFrom
<1>10. Answering'
  <2>1. \A n \in DOMAIN sequence_queue_ : main'.id = main.id
    BY <1>8, ShortSeq
  <2> QED
    BY <1>1, <1>2, <2>1 DEF Answering, Fits, Sums, Successes
<1>11. Downstream'
  <2> PICK A : A = answers'
    OBVIOUS
  <2>1. Len(answers) \in Nat /\ Len(outcomes) \in Nat /\ DOMAIN answers = 1 .. Len(answers)
        /\ main.sent \in Nat
    BY <1>1, Lengths DEF Typed
  <2>2. Requests' = Requests
    BY <1>2 DEF Requests
  <2>3. CASE IsAsync
    <3>1. A = answers
      BY <2>3
    <3>2. ASSUME NEW n \in DOMAIN C
          PROVE  Response(C[n], Len(A) + Rank(C, n))'
      <4>1. n + 1 \in DOMAIN toClient /\ C[n] = toClient[n + 1] /\ Rank(C, n) = Rank(toClient, n + 1)
        BY <1>3, <1>4
      <4>2. Response(C[n], Len(A) + Rank(C, n))
        BY <1>1, <3>1, <4>1 DEF Downstream
      <4>3. C[n].mtype = "oneway"
        BY <1>4 DEF TwoWayIn
      <4>4. main'.id = main.id
        BY <1>8, <4>1, <4>3
      <4> QED
        BY <1>2, <4>2, <4>3, <4>4, ResponseStays
    <3>3. /\ toClient' = C /\ answers' = A
          /\ \A n \in DOMAIN A : A[n] = [no |-> n - 1, result |-> outcomes'[n]]
          /\ Len(A) <= Len(outcomes') /\ IsAsync'
          /\ Requests' = main'.sent - Len(A)
      BY <1>1, <1>2, <2>2, <2>3, <3>1 DEF Downstream
    <3>4. main'.id # -1 => Len(outcomes') = Len(A) + Flow(C)
      <4>1. CASE main.await = "get_client_id"
        BY <1>2, <1>4, <1>8, <3>1, <4>1, ShortSeq
      <4>2. CASE main.await # "get_client_id"
        BY <1>1, <1>2, <1>4, <2>3, <3>1, <4>2 DEF Downstream
      <4> QED
        BY <4>1, <4>2
    <3>5. main'.id = -1 => A = <<>>
      <4>1. CASE main.await = "get_client_id"
        BY <1>8, <3>1, <4>1
      <4>2. CASE main.await # "get_client_id"
        BY <1>1, <2>3, <3>1, <4>2 DEF Downstream
      <4> QED
        BY <4>1, <4>2
    <3>6. /\ \A n \in DOMAIN C : Response(C[n], Len(A) + Rank(C, n))'
          /\ IsAsync' /\ main'.id # -1 => Len(outcomes') = Len(A) + Flow(C)
          /\ IsAsync' /\ main'.id = -1 => A = <<>>
          /\ IsAsync' => Requests' = main'.sent - Len(A)
          /\ ~IsAsync' => Len(A) = main'.sent - (IF main'.pc = "recv" THEN 1 ELSE 0)
      BY <3>2, <3>3, <3>4, <3>5, Zenon
    <3> QED
      BY <3>3, <3>6, DownstreamFrom, Zenon
  <2>4. CASE ~IsAsync
    <3>1. Len(answers) = main.sent - 1
      BY <1>1, <2>4 DEF Downstream
    <3>2. Response(toClient[1], Len(answers) + 1)
      BY FirstMessage
    <3>3. Len(outcomes) = main.sent
      BY <2>4, <3>2 DEF Response
    <3> DEFINE a == [no |-> main.sent - 1, result |-> outcomes[main.sent]]
    <3>4. A = Append(answers, a)
      BY <2>4
    <3>5. /\ Len(A) = Len(answers) + 1 /\ DOMAIN A = 1 .. Len(answers) + 1
          /\ A[Len(answers) + 1] = a /\ \A n \in 1 .. Len(answers) : A[n] = answers[n]
      BY <1>1, <3>4, AppendSeq
    <3>6. \A n \in DOMAIN A : A[n] = [no |-> n - 1, result |-> outcomes'[n]]
      <4> SUFFICES ASSUME NEW n \in DOMAIN A
                   PROVE  A[n] = [no |-> n - 1, result |-> outcomes[n]]
        BY <1>2
      <4>1. CASE n \in DOMAIN answers
        BY <1>1, <2>1, <3>5, <4>1 DEF Downstream
      <4>2. CASE n \notin DOMAIN answers
        BY <2>1, <3>1, <3>5, <4>2
      <4> QED
        BY <4>1, <4>2
    <3>7. ASSUME NEW n \in DOMAIN C
          PROVE  FALSE
      <4>1. n + 1 \in DOMAIN toClient /\ C[n] = toClient[n + 1] /\ C[n].mtype = "oneway"
        BY <1>3, <1>4 DEF TwoWayIn
      <4>2. Response(C[n], Len(answers) + Rank(toClient, n + 1))
        BY <1>1, <4>1 DEF Downstream
      <4> QED
        BY <2>4, <4>1, <4>2 DEF Response
    <3>8. /\ Len(A) <= Len(outcomes') /\ Len(A) = main'.sent - (IF main'.pc = "recv" THEN 1 ELSE 0)
          /\ ~IsAsync'
      BY <1>2, <2>1, <2>4, <3>1, <3>3, <3>5
    <3> QED
      BY <3>6, <3>7, <3>8, DownstreamFrom
  <2> QED
    BY <2>3, <2>4
<1> QED
  BY <1>7, <1>9, <1>10, <1>11

\* The caller reads the next message.
LEMMA RecvReplyInv ==
  ASSUME ThriftInv, RecvReply
  PROVE  ThriftInv'
<1>1. /\ Typed /\ Calling /\ MessagesUnderstood /\ client = "up" /\ main.pc = "recv"
      /\ toClient # <<>> /\ IsSeq(toClient) /\ IsSeq(answers)
  BY DEF ThriftInv, RecvReply, Typed
<1>2. Head(toClient) = toClient[1] /\ Response(toClient[1], Len(answers) + 1) /\ 1 \in DOMAIN toClient
  BY <1>1, FirstMessage
<1> PICK out : out = RecvOf(main.await, toClient[1])
  OBVIOUS
<1>3. /\ toClient' = Tail(toClient)
      /\ UNCHANGED <<inputVars, readerVars, toServer, serverVars>>
      /\ out.kind = "undefined" => client' = "undefined" /\ UNCHANGED <<main, answers>>
      /\ out.kind # "undefined" =>
           /\ main' = [main EXCEPT
                         !.await = "none",
                         !.id = IF main.await = "get_client_id" THEN out.value ELSE @,
                         !.pc = IF main.await = "get_client_id" THEN "register_client_id"
                                ELSE "run"]
           /\ answers' = IF main.await \in {"get", "put", "get_batch", "put_batch"}
                           THEN Append(answers, [no     |-> main.sent - 1,
                                                 result |-> ResultOf(main.await, out)])
                           ELSE answers
           /\ UNCHANGED client
  BY <1>2 DEF RecvReply
<1>4. UNCHANGED <<program, lines, calls, proxy, requests_, response_thread, toServer, worker,
                  client_id_gen_, clients_, handled, outcomes, respond_queue_, sequence_queue_>>
  BY <1>3 DEF inputVars, readerVars, serverVars, queueVars, registryVars
<1>5. CASE toClient[1].mtype = "oneway"
  <2>1. out.kind = "undefined"
    BY <1>1, <1>5, AskingParts, OneWayIsNoReply
  <2>2. IsAsync /\ main.id # -1
    BY <1>2, <1>5 DEF Response
  <2>3. main.overlap
    <3>1. SUFFICES ASSUME ~main.overlap
                   PROVE  FALSE
      OBVIOUS
    <3>2. Quiet
      BY <1>1, <2>2, <3>1 DEF Calling
    <3>3. Flow(toClient) = 0
      BY <1>1, <2>2, <3>2, NoRequests
    <3>4. Rank(toClient, 1) \in 1 .. Flow(toClient)
      BY <1>1, <1>2, <1>5, FlowRank
    <3> QED
      BY <3>3, <3>4
  <2>4. response_thread' \in {"pop", "recv"} /\ response_thread' = response_thread
    BY <1>1, <1>4 DEF Typed, TypeOK
  <2> QED
    BY <1>1, <1>3, <1>4, <2>1, <2>3, <2>4, ReadUndefined DEF readerVars
<1>6. CASE toClient[1].mtype # "oneway"
  <2>1. /\ out.kind \in {"return", "throw"}
        /\ main.await = "get_client_id" => out.value \in Int
        /\ main.await = "register_client_id" => main.id \in clients_
        /\ ~IsAsync => ResultOf(main.await, out) = outcomes[main.sent]
    BY <1>2, <1>6 DEF Response
  <2>2. /\ main' = [main EXCEPT
                      !.await = "none",
                      !.id = IF main.await = "get_client_id" THEN out.value ELSE @,
                      !.pc = IF main.await = "get_client_id" THEN "register_client_id" ELSE "run"]
        /\ answers' = IF main.await \in {"get", "put", "get_batch", "put_batch"}
                        THEN Append(answers, [no     |-> main.sent - 1,
                                              result |-> ResultOf(main.await, out)])
                        ELSE answers
        /\ UNCHANGED client
    BY <1>3, <2>1
  <2>3. /\ main'.pc = IF main.await = "get_client_id" THEN "register_client_id" ELSE "run"
        /\ main'.id = IF main.await = "get_client_id" THEN out.value ELSE main.id
        /\ main'.await = "none" /\ main'.sent = main.sent
        /\ main'.searches = main.searches /\ main'.overlap = main.overlap
    BY <1>1, <2>2 DEF Typed
  <2>4. main' \in [pc : Places, await : Methods \cup {"none"}, sent : Nat, id : Int,
                   searches : Nat, overlap : BOOLEAN]
    <3>1. (IF main.await = "get_client_id" THEN out.value ELSE main.id) \in Int
      BY <1>1, <2>1 DEF Typed
    <3> QED
      BY <1>1, <2>2, <3>1 DEF Typed, Places
  <2>5. main.await \in {"get", "put", "get_batch", "put_batch"} <=> ~IsAsync
    BY <1>1, AskingParts
  <2>6. answers' = IF IsAsync THEN answers
                   ELSE Append(answers, [no |-> main.sent - 1, result |-> outcomes[main.sent]])
    BY <2>1, <2>2, <2>5
  <2>7. TwoWayOut' /\ Upstream' /\ Answering' /\ Downstream'
    BY <1>1, <1>3, <1>6, <2>2, <2>3, <2>6, TakeReply
  <2>8. Typed'
    <3>1. /\ IsSeq(toClient') /\ DOMAIN toClient' = 1 .. Len(toClient) - 1
          /\ Len(toClient) \in Nat /\ DOMAIN toClient = 1 .. Len(toClient)
          /\ \A n \in 1 .. Len(toClient) - 1 : toClient'[n] = toClient[n + 1]
      BY <1>1, <1>3, TailSeq, Lengths
    <3>2. ASSUME NEW n \in DOMAIN toClient'
          PROVE  toClient'[n].mtype \in {"reply", "exception", "oneway"}
      <4>1. n + 1 \in DOMAIN toClient /\ toClient'[n] = toClient[n + 1]
        BY <3>1
      <4> QED
        BY <1>1, <4>1 DEF Typed, TypeOK
    <3>3. TypeOK'
      BY <1>1, <1>4, <2>2, <2>3, <3>2 DEF Typed, TypeOK
    <3>4. IsSeq(answers')
      BY <1>1, <2>6, AppendSeq
    <3> QED
      BY <1>1, <1>4, <2>4, <3>1, <3>3, <3>4 DEF Typed
  <2>9. Calling'
    <3>1. CASE main.await = "get_client_id"
      <4>1. IsAsync /\ main.sent = 0
        BY <1>1, <3>1 DEF Calling, Joining
      <4> QED
        BY <1>1, <1>4, <2>3, <3>1, <4>1 DEF Calling, Joining, IsAsync, Quiet
    <3>2. CASE main.await # "get_client_id"
      <4>1. IsAsync => main.id \in clients_
        BY <1>1, <2>1, <3>2 DEF Calling, Joining
      <4> QED
        BY <1>1, <1>4, <2>3, <3>2, <4>1 DEF Calling, Joining, IsAsync, Quiet
    <3> QED
      BY <3>1, <3>2
  <2>10. MessagesUnderstood'
    BY <1>1, <2>2 DEF MessagesUnderstood
  <2> QED
    BY <2>7, <2>8, <2>9, <2>10 DEF ThriftInv
<1> QED
  BY <1>5, <1>6

\* The response thread reads the next message.
LEMMA RecvResponseInv ==
  ASSUME ThriftInv, RecvResponse
  PROVE  ThriftInv'
<1>1. /\ Typed /\ Calling /\ MessagesUnderstood /\ client = "up" /\ response_thread = "recv"
      /\ TwoWayOut /\ Upstream /\ Answering /\ Downstream
      /\ toClient # <<>> /\ IsSeq(toClient) /\ IsSeq(answers) /\ IsAsync
  BY DEF ThriftInv, RecvResponse, Typed, Calling
<1>2. Head(toClient) = toClient[1] /\ Response(toClient[1], Len(answers) + 1) /\ 1 \in DOMAIN toClient
  BY <1>1, FirstMessage
<1> PICK out : out = recv_response(toClient[1])
  OBVIOUS
<1>3. /\ toClient' = Tail(toClient) /\ response_thread' = "pop"
      /\ UNCHANGED <<inputVars, main, requests_, toServer, serverVars>>
      /\ out.kind = "return" /\ out.value.result # <<>> =>
           answers' = Append(answers, out.value) /\ UNCHANGED client
      /\ ~(out.kind = "return" /\ out.value.result # <<>>) =>
           client' = "undefined" /\ UNCHANGED answers
  BY <1>2 DEF RecvResponse
<1>4. /\ UNCHANGED <<program, lines, calls, proxy, main, requests_, toServer, worker,
                     client_id_gen_, clients_, handled, outcomes, respond_queue_, sequence_queue_>>
      /\ IsAsync' = IsAsync
  BY <1>3 DEF inputVars, serverVars, queueVars, registryVars, IsAsync
<1>5. CASE toClient[1].mtype # "oneway"
  <2>1. main.pc = "recv" /\ out.kind # "return"
    BY <1>2, <1>5 DEF Response
  <2>2. main.overlap
    BY <1>1, <2>1 DEF Calling, Quiet
  <2> QED
    BY <1>1, <1>3, <2>1, <2>2, ReadUndefined
<1>6. CASE toClient[1].mtype = "oneway"
  <2>1. /\ main.id # -1 /\ Len(answers) + 1 \in DOMAIN outcomes
        /\ out = Return([no |-> (Len(answers) + 1) - 1, result |-> outcomes[Len(answers) + 1]])
    BY <1>2, <1>6 DEF Response
  <2>2. /\ out.kind = "return"
        /\ out.value = [no |-> (Len(answers) + 1) - 1, result |-> outcomes[Len(answers) + 1]]
        /\ out.value.result = outcomes[Len(answers) + 1]
    BY <2>1 DEF Return
  <2>3. outcomes[Len(answers) + 1] # <<>>
    BY <1>1, <2>1 DEF Answering
  <2>4. answers' = Append(answers, out.value) /\ UNCHANGED client
    BY <1>3, <2>2, <2>3
  <2>5. /\ Len(answers) \in Nat /\ DOMAIN answers = 1 .. Len(answers) /\ main.sent \in Nat
        /\ Len(outcomes) \in Nat /\ DOMAIN outcomes = 1 .. Len(outcomes)
        /\ Len(toClient) \in Nat /\ DOMAIN toClient = 1 .. Len(toClient)
        /\ requests_ \in Nat /\ Flow(toClient) \in Nat
    BY <1>1, Lengths, ConnectionAssumption, FlowRank DEF Typed, TypeOK
  <2> PICK C : C = toClient'
    OBVIOUS
  <2> PICK A : A = answers'
    OBVIOUS
  <2>6. /\ DOMAIN C = 1 .. Len(toClient) - 1 /\ IsSeq(C)
        /\ \A n \in 1 .. Len(toClient) - 1 : C[n] = toClient[n + 1]
    BY <1>1, <1>3, TailSeq
  <2>7. /\ TwoWayIn(C) <=> TwoWayIn(toClient)
        /\ Flow(C) = Flow(toClient) - 1
        /\ \A n \in 1 .. Len(toClient) - 1 : Rank(C, n) = Rank(toClient, n + 1) - 1
    BY <1>1, <1>3, <1>6, TailOneWay
  <2>8. OneAtMost(C)
    BY <1>1, <1>3, TailOneAtMost DEF TwoWayOut
  <2>9. /\ Len(A) = Len(answers) + 1 /\ DOMAIN A = 1 .. Len(answers) + 1 /\ IsSeq(A)
        /\ A[Len(answers) + 1] = out.value /\ \A n \in 1 .. Len(answers) : A[n] = answers[n]
    BY <1>1, <2>4, AppendSeq
  <2>10. TwoWayOut'
    BY <1>1, <1>4, <2>7, <2>8 DEF TwoWayOut
  <2>11. Upstream'
    BY <1>1, <1>4 DEF Upstream, Request, AsyncRequest, Asking, SyncRequest, SyncMethod
  <2>12. Answering'
    BY <1>1, <1>4 DEF Answering, Fits, Sums, Successes
  <2>13. Downstream'
    <3>1. ASSUME NEW n \in DOMAIN C
          PROVE  Response(C[n], Len(A) + Rank(C, n))'
      <4>1. /\ n + 1 \in DOMAIN toClient /\ C[n] = toClient[n + 1]
            /\ Rank(C, n) = Rank(toClient, n + 1) - 1
        BY <2>5, <2>6, <2>7
      <4>2. Response(C[n], Len(answers) + Rank(toClient, n + 1))
        BY <1>1, <4>1 DEF Downstream
      <4>3. Len(A) + Rank(C, n) = Len(answers) + Rank(toClient, n + 1)
        <5>1. Rank(toClient, n + 1) \in Int
          BY <2>5, <4>1 DEF Rank
        <5> QED
          BY <2>5, <2>9, <4>1, <5>1
      <4> PICK x : x = Len(A) + Rank(C, n)
        OBVIOUS
      <4>4. Response(C[n], x)
        BY <4>2, <4>3
      <4>5. Response(C[n], x)'
        <5>1. CASE C[n].mtype = "oneway"
          BY <1>4, <4>4, <5>1, ResponseStays
        <5>2. CASE C[n].mtype # "oneway"
          BY <1>4, <4>4, <5>2, ReplyStays
        <5> QED
          BY <5>1, <5>2
      <4> QED
        BY <4>5
    <3>2. ASSUME NEW n \in DOMAIN A
          PROVE  A[n] = [no |-> n - 1, result |-> outcomes'[n]]
      <4>1. CASE n \in DOMAIN answers
        <5>1. answers[n] = [no |-> n - 1, result |-> outcomes[n]]
          BY <1>1, <4>1 DEF Downstream
        <5> QED
          BY <1>4, <2>5, <2>9, <4>1, <5>1
      <4>2. CASE n \notin DOMAIN answers
        <5>1. n = Len(answers) + 1
          BY <2>5, <2>9, <4>2
        <5> QED
          BY <1>4, <2>2, <2>9, <5>1
      <4> QED
        BY <4>1, <4>2
    <3>3. Len(A) <= Len(outcomes')
      BY <1>4, <2>1, <2>5, <2>9
    <3>4. Len(outcomes') = Len(A) + Flow(C)
      <4>1. Len(outcomes) = Len(answers) + Flow(toClient)
        BY <1>1, <2>1 DEF Downstream
      <4> QED
        BY <1>4, <2>5, <2>7, <2>9, <4>1
    <3>5. Requests' = main'.sent - Len(A)
      <4>1. Requests = main.sent - Len(answers)
        BY <1>1 DEF Downstream
      <4>2. Requests' = Requests - 1
        <5>1. PICK r : r = requests_
          OBVIOUS
        <5>2. PICK p : p = IF main.pc = "push" THEN 1 ELSE 0
          OBVIOUS
        <5>3. r \in Int /\ p \in Int
          BY <2>5, <5>1, <5>2
        <5>4. Requests = r + 1 + p
          BY <1>1, <5>1, <5>2, Zenon DEF Requests
        <5>5. requests_' = requests_ /\ main' = main /\ response_thread' = "pop"
          BY <1>3, <1>4, Zenon
        <5>6. Requests' = r + 0 + p
          <6>1. response_thread' # "recv"
            BY <5>5
          <6> QED
            BY <5>1, <5>2, <5>5, <6>1, Zenon DEF Requests
        <5> QED
          BY <5>3, <5>4, <5>6
      <4>3. \A a, s \in Nat : (s - a) - 1 = s - (a + 1)
        OBVIOUS
      <4>4. Requests' = main.sent - (Len(answers) + 1)
        BY <2>5, <4>1, <4>2, <4>3
      <4>5. main'.sent = main.sent /\ Len(A) = Len(answers) + 1
        BY <1>4, <2>9, Zenon
      <4> QED
        BY <4>4, <4>5, Zenon
    <3> QED
      BY <1>1, <1>4, <2>1, <3>1, <3>2, <3>3, <3>4, <3>5, DownstreamFrom
  <2>14. Typed'
    <3>1. ASSUME NEW n \in DOMAIN C
          PROVE  C[n].mtype \in {"reply", "exception", "oneway"}
      <4>1. n + 1 \in DOMAIN toClient /\ C[n] = toClient[n + 1]
        BY <2>5, <2>6
      <4> QED
        BY <1>1, <4>1 DEF Typed, TypeOK
    <3>2. TypeOK'
      BY <1>1, <1>3, <1>4, <2>4, <3>1 DEF Typed, TypeOK
    <3> QED
      BY <1>1, <1>4, <2>6, <2>9, <3>2 DEF Typed
  <2>15. Calling'
    BY <1>1, <1>4 DEF Calling, Joining, Quiet
  <2>16. MessagesUnderstood'
    BY <1>1, <2>4 DEF MessagesUnderstood
  <2> QED
    BY <2>10, <2>11, <2>12, <2>13, <2>14, <2>15, <2>16 DEF ThriftInv
<1> QED
  BY <1>5, <1>6

\* The worker takes the next message.
LEMMA TakeInv ==
  ASSUME ThriftInv, Take
  PROVE  ThriftInv'
<1>1. /\ Typed /\ Calling /\ MessagesUnderstood /\ TwoWayOut /\ Upstream /\ Answering /\ Downstream
      /\ worker = <<>> /\ toServer # <<>> /\ IsSeq(toServer)
  BY DEF ThriftInv, Take, Typed
<1>2. /\ UNCHANGED <<program, lines, calls, proxy, main, requests_, response_thread, answers, client,
                     toClient, client_id_gen_, clients_, handled, outcomes, respond_queue_,
                     sequence_queue_>>
      /\ IsAsync' = IsAsync
  BY DEF Take, inputVars, readerVars, queueVars, registryVars, IsAsync
<1> PICK W : W = worker'
  OBVIOUS
<1> PICK T : T = toServer'
  OBVIOUS
<1> PICK m : m = toServer[1]
  OBVIOUS
<1>3. /\ Len(toServer) \in Nat \ {0} /\ DOMAIN toServer = 1 .. Len(toServer)
      /\ W = <<m>> /\ T = Tail(toServer)
      /\ IsSeq(T) /\ DOMAIN T = 1 .. Len(toServer) - 1
      /\ \A n \in 1 .. Len(toServer) - 1 : T[n] = toServer[n + 1]
  BY <1>1, TailSeq, Lengths DEF Take
<1>4. /\ IsSeq(W) /\ Len(W) = 1 /\ DOMAIN W = {1} /\ W[1] = m
      /\ TwoWayIn(W) <=> m.mtype # "oneway"
      /\ OneAtMost(W) /\ Flow(W) = IF m.mtype = "oneway" THEN 1 ELSE 0
  BY <1>3, ShortSeq, ShortFlow
<1>5. OneAtMost(T) /\ (TwoWayIn(T) => TwoWayIn(toServer))
  BY <1>1, <1>3, TailOneAtMost DEF TwoWayOut
\* The message moves on; the others move up by what it counts for.
<1>6. /\ Flow(toServer) = Flow(W) + Flow(T)
      /\ TwoWayIn(toServer) <=> TwoWayIn(W) \/ TwoWayIn(T)
      /\ ~(TwoWayIn(W) /\ TwoWayIn(T))
      /\ \A n \in 1 .. Len(toServer) - 1 : Flow(W) + Rank(T, n) = Rank(toServer, n + 1)
  <2>1. Flow(toServer) \in Nat /\ \A n \in 1 .. Len(toServer) - 1 : Rank(toServer, n + 1) \in Int
    BY <1>1, <1>3, FlowRank DEF Rank
  <2>2. CASE m.mtype = "oneway"
    <3>1. /\ TwoWayIn(T) <=> TwoWayIn(toServer)
          /\ Flow(T) = Flow(toServer) - 1
          /\ \A n \in 1 .. Len(toServer) - 1 : Rank(T, n) = Rank(toServer, n + 1) - 1
      BY <1>1, <1>3, <2>2, TailOneWay
    <3>2. Flow(W) = 1 /\ ~TwoWayIn(W)
      BY <1>4, <2>2
    <3>3. Flow(toServer) = Flow(W) + Flow(T)
      BY <2>1, <3>1, <3>2
    <3>4. \A n \in 1 .. Len(toServer) - 1 : Flow(W) + Rank(T, n) = Rank(toServer, n + 1)
      BY <2>1, <3>1, <3>2
    <3> QED
      BY <3>1, <3>2, <3>3, <3>4
  <2>3. CASE m.mtype # "oneway"
    <3>1. /\ TwoWayIn(toServer) /\ ~TwoWayIn(T) /\ Flow(T) = Flow(toServer)
          /\ \A n \in 1 .. Len(toServer) - 1 : Rank(T, n) = Rank(toServer, n + 1)
      BY <1>1, <1>3, <2>3, TailTwoWay DEF TwoWayOut
    <3> QED
      BY <1>4, <2>1, <2>3, <3>1
  <2> QED
    BY <2>2, <2>3
<1>7. ~TwoWayIn(worker) /\ Flow(worker) = 0
  BY <1>1, ShortFlow
<1>8. Typed'
  <2>1. \A n \in DOMAIN T : T[n].fname \in DOMAIN processMap_
    <3> TAKE n \in DOMAIN T
    <3>1. n + 1 \in DOMAIN toServer /\ T[n] = toServer[n + 1]
      BY <1>3
    <3> QED
      BY <1>1, <3>1 DEF Typed, TypeOK
  <2>2. TypeOK'
    BY <1>1, <1>2, <1>4, <2>1 DEF Typed, TypeOK
  <2> QED
    BY <1>1, <1>2, <1>3, <1>4, <2>2 DEF Typed
<1>9. Calling'
  BY <1>1, <1>2 DEF Calling, Joining, SyncMethod, Quiet
<1>10. TwoWayOut'
  BY <1>1, <1>2, <1>4, <1>5, <1>6 DEF TwoWayOut
<1>11. Upstream'
  <2> PICK H : H = handled
    OBVIOUS
  <2>1. Len(H) \in Nat /\ Flow(W) \in Nat /\ Flow(T) \in Nat /\ Flow(toServer) \in Nat
    BY <1>1, <1>3, <1>4, Lengths, FlowRank
  <2>2. \A n \in DOMAIN toServer : Rank(toServer, n) \in Int
    BY <1>3 DEF Rank
  <2>3. ASSUME NEW n \in DOMAIN toServer
        PROVE  Request(toServer[n], Len(H) + Rank(toServer, n))
    <3>1. Request(toServer[n], Len(H) + Flow(worker) + Rank(toServer, n))
      BY <1>1 DEF Upstream
    <3>2. Len(H) + Flow(worker) + Rank(toServer, n) = Len(H) + Rank(toServer, n)
      BY <1>7, <2>1, <2>2
    <3> QED
      BY <3>1, <3>2
  <2>4. ASSUME NEW n \in DOMAIN W
        PROVE  Request(W[n], Len(H) + 1)'
    <3>1. Rank(toServer, 1) = 1 /\ W[n] = toServer[1] /\ 1 \in DOMAIN toServer
      BY <1>1, <1>3, <1>4, FlowRank
    <3>2. Request(W[n], Len(H) + 1)
      BY <2>3, <3>1
    <3> QED
      BY <1>2, <3>2, RequestStays
  <2>5. ASSUME NEW n \in DOMAIN T
        PROVE  Request(T[n], Len(H) + Flow(W) + Rank(T, n))'
    <3>1. n + 1 \in DOMAIN toServer /\ T[n] = toServer[n + 1] /\ Rank(T, n) \in Int
      BY <1>3 DEF Rank
    <3>2. Len(H) + Flow(W) + Rank(T, n) = Len(H) + Rank(toServer, n + 1)
      BY <1>3, <1>6, <2>1, <3>1
    <3> PICK x : x = Len(H) + Flow(W) + Rank(T, n)
      OBVIOUS
    <3>3. Request(T[n], x)
      BY <2>3, <3>1, <3>2
    <3>4. Request(T[n], x)'
      BY <1>2, <3>3, RequestStays
    <3> QED
      BY <3>4
  <2>6. main'.sent = Len(H) + Flow(W) + Flow(T)
                       + (IF ~IsAsync' /\ (TwoWayIn(W) \/ TwoWayIn(T)) THEN 1 ELSE 0)
    <3>1. main.sent = Len(H) + Flow(worker) + Flow(toServer)
                        + (IF ~IsAsync /\ (TwoWayIn(worker) \/ TwoWayIn(toServer)) THEN 1 ELSE 0)
      BY <1>1 DEF Upstream
    <3> QED
      BY <1>2, <1>6, <1>7, <2>1, <3>1
  <2>7. \A n \in DOMAIN H : H[n] = calls'[n]
    BY <1>1, <1>2 DEF Upstream
  <2>8. worker' = W /\ toServer' = T /\ handled' = H
    BY <1>2
  <2> QED
    BY <2>4, <2>5, <2>6, <2>7, <2>8, UpstreamFrom
<1>12. Answering'
  BY <1>1, <1>2 DEF Answering, Fits, Sums, Successes
<1>13. Downstream'
  BY <1>1, <1>2 DEF Downstream, Response, Requests
<1>14. MessagesUnderstood'
  BY <1>1, <1>2 DEF MessagesUnderstood
<1> QED
  BY <1>8, <1>9, <1>10, <1>11, <1>12, <1>13, <1>14 DEF ThriftInv

\* The worker writes the reply of the two-way call it served.
LEMMA SendReply ==
  ASSUME ThriftInv, worker # <<>>, worker[1].fname \in Methods,
         NEW out, out = Throw \/ \E v : out = Return(v), Done(out),
         UNCHANGED <<inputVars, main, readerVars, answers, client, toServer>>,
         Response(Reply(main.await, out), 0)',
         clients_ \subseteq clients_',
         \A n \in DOMAIN outcomes : n \in DOMAIN outcomes' /\ outcomes'[n] = outcomes[n],
         Len(outcomes) <= Len(outcomes'),
         IsAsync => UNCHANGED outcomes
  PROVE  /\ TwoWayOut' /\ Downstream'
         /\ IsSeq(toClient') /\ IsSeq(worker') /\ Len(worker') <= 1
         /\ \A n \in DOMAIN toClient' : toClient'[n].mtype \in {"reply", "exception", "oneway"}
         /\ toServer' = toServer /\ worker' = <<>>
         /\ \A n \in DOMAIN toServer : toServer[n].mtype = "oneway"
<1>1. /\ Typed /\ Calling /\ TwoWayOut /\ Upstream /\ Answering /\ Downstream
      /\ IsSeq(toClient) /\ IsSeq(toServer)
  BY DEF ThriftInv, Typed
<1>2. /\ main.pc = "recv" /\ worker[1] = Asking /\ worker[1].fname = main.await
      /\ TwoWayIn(worker) /\ Flow(worker) = 0
      /\ ~TwoWayIn(toServer) /\ ~TwoWayIn(toClient)
  BY ServingTwoWay
<1>3. /\ UNCHANGED <<program, calls, main, requests_, response_thread, answers, client, toServer>>
      /\ IsAsync' = IsAsync /\ Requests' = Requests
  BY DEF inputVars, readerVars, IsAsync, Requests
<1> PICK r : r = Reply(main.await, out)
  OBVIOUS
<1>4. r.mtype \in {"reply", "exception"} /\ r.mtype # "oneway"
  BY <1>2, ReplyParts
<1> PICK C : C = toClient'
  OBVIOUS
<1>5. C = Append(toClient, r) /\ worker' = <<>>
  <2>1. Replies(worker[1], out) = <<r>>
    BY <1>2, OneReply
  <2> QED
    BY <1>1, <2>1, ConcatSeq DEF Done
<1>6. /\ IsSeq(C) /\ DOMAIN C = 1 .. Len(toClient) + 1 /\ C[Len(toClient) + 1] = r
      /\ \A n \in 1 .. Len(toClient) : C[n] = toClient[n]
      /\ Len(toClient) \in Nat /\ DOMAIN toClient = 1 .. Len(toClient)
  BY <1>1, <1>5, AppendSeq, Lengths
<1>7. /\ TwoWayIn(C) /\ OneAtMost(C) /\ Flow(C) = Flow(toClient)
      /\ \A n \in 1 .. Len(toClient) : Rank(C, n) = Rank(toClient, n)
  BY <1>1, <1>2, <1>4, <1>5, AppendTwoWay
<1>8. TwoWayOut'
  BY <1>1, <1>2, <1>3, <1>5, <1>7, ShortFlow DEF TwoWayOut
<1>9. \A n \in DOMAIN C : C[n].mtype \in {"reply", "exception", "oneway"}
  BY <1>1, <1>4, <1>6 DEF Typed, TypeOK
<1>10. Downstream'
  <2> PICK A : A = answers
    OBVIOUS
  <2>1. /\ Len(A) \in Nat /\ DOMAIN A = 1 .. Len(A) /\ Len(outcomes) \in Nat
        /\ DOMAIN outcomes = 1 .. Len(outcomes)
    BY <1>1, Lengths
  <2>2. \A n \in DOMAIN A : A[n] = [no |-> n - 1, result |-> outcomes'[n]]
    <3> TAKE n \in DOMAIN A
    <3>1. n \in DOMAIN outcomes /\ A[n] = [no |-> n - 1, result |-> outcomes[n]]
      BY <1>1, <2>1 DEF Downstream
    <3> QED
      BY <3>1
  <2>3. Len(A) <= Len(outcomes')
    <3>1. Len(A) <= Len(outcomes)
      BY <1>1 DEF Downstream
    <3>2. \A n \in Nat : Len(A) <= Len(outcomes) /\ Len(outcomes) <= n => Len(A) <= n
      BY <2>1
    <3>3. Len(outcomes') \in Nat
      <4>1. CASE IsAsync
        BY <2>1, <4>1
      <4>2. CASE ~IsAsync
        <5>1. Len(outcomes') = main.sent
          BY <1>3, <1>4, <4>2 DEF Response
        <5> QED
          BY <1>1, <5>1 DEF Typed
      <4> QED
        BY <4>1, <4>2
    <3> QED
      BY <3>1, <3>2, <3>3
  <2>4. client' = "up" => \A n \in DOMAIN C : Response(C[n], Len(A) + Rank(C, n))'
    <3> SUFFICES ASSUME client = "up", NEW n \in DOMAIN C
                 PROVE  Response(C[n], Len(A) + Rank(C, n))'
      BY <1>3
    <3>1. CASE n \in DOMAIN toClient
      <4>1. C[n] = toClient[n] /\ Rank(C, n) = Rank(toClient, n) /\ C[n].mtype = "oneway"
        BY <1>2, <1>6, <1>7, <3>1 DEF TwoWayIn
      <4>2. Response(C[n], Len(A) + Rank(C, n))
        BY <1>1, <3>1, <4>1 DEF Downstream
      <4> QED
        BY <1>3, <4>1, <4>2, ResponseStays
    <3>2. CASE n \notin DOMAIN toClient
      <4>1. C[n] = r
        BY <1>6, <3>2
      <4> QED
        BY <1>4, <4>1 DEF Response
    <3> QED
      BY <3>1, <3>2
  <2>5. client' = "up" =>
          /\ IsAsync' /\ main'.id # -1 => Len(outcomes') = Len(A) + Flow(C)
          /\ IsAsync' /\ main'.id = -1 => A = <<>>
          /\ IsAsync' => Requests' = main'.sent - Len(A)
          /\ ~IsAsync' => Len(A) = main'.sent - (IF main'.pc = "recv" THEN 1 ELSE 0)
    BY <1>1, <1>3, <1>7 DEF Downstream
  <2>6. toClient' = C /\ answers' = A
    BY <1>3
  <2> QED
    BY <2>2, <2>3, <2>4, <2>5, <2>6, DownstreamFrom
<1>11. \A n \in DOMAIN toServer : toServer[n].mtype = "oneway"
  BY <1>2 DEF TwoWayIn
<1>12. IsSeq(worker') /\ Len(worker') <= 1
  BY <1>5, ShortSeq
<1> QED
  BY <1>3, <1>5, <1>6, <1>8, <1>9, <1>10, <1>11, <1>12

\* The worker serves a two-way call of the asynchronous client: no call of the trace is
\* touched, and the reply is what the caller waits for.
LEMMA ServeAsyncClient ==
  ASSUME ThriftInv, NEW f \in {"get_client_id", "register_client_id", "search"}, Serving({f}),
         NEW v, Done(Return(v)), f = "get_client_id" => v \in Int,
         f = "register_client_id" => main.id \in clients_',
         client_id_gen_' \in Int, clients_ \subseteq clients_', clients_' \subseteq Int,
         UNCHANGED <<inputVars, proxy, main, readerVars, answers, client, toServer, queueVars, handled,
                     outcomes>>
  PROVE  ThriftInv'
<1>1. /\ Typed /\ Calling /\ TwoWayOut /\ Upstream /\ Answering /\ Downstream
      /\ MessagesUnderstood /\ IsSeq(toServer)
  BY DEF ThriftInv, Typed
<1>2. worker # <<>> /\ worker[1].fname = f /\ worker[1].fname \in Methods
  BY DEF Serving, Methods
<1>3. /\ main.pc = "recv" /\ main.await = f /\ Flow(worker) = 0 /\ ~TwoWayIn(toServer)
  BY <1>2, ServingTwoWay
<1>4. IsAsync
  BY <1>1, <1>3, AskingParts
<1>5. /\ UNCHANGED <<program, lines, calls, proxy, main, requests_, response_thread, answers, client,
                     toServer, handled, outcomes, respond_queue_, sequence_queue_>>
      /\ IsAsync'
  BY <1>4 DEF inputVars, readerVars, queueVars, IsAsync
<1> PICK out : out = Return(v)
  OBVIOUS
<1> PICK r : r = Reply(f, out)
  OBVIOUS
<1>6. f \in Methods /\ r.mtype # "oneway" /\ recv_response(r).kind # "return"
  BY ReplyParts, ReplyIsNoResponse DEF Methods
<1>7. out.kind = "return" /\ out.value = v /\ out # Throw /\ Return(<<>>).kind = "return"
  BY DEF Return, Throw
<1>8. RecvOf(f, r) = IF f \in VoidMethods THEN Return(<<>>) ELSE out
  BY <1>6, <1>7, ReplyRead
<1>9. /\ RecvOf(f, r).kind = "return"
      /\ f = "get_client_id" => RecvOf(f, r).value \in Int
  BY <1>7, <1>8 DEF VoidMethods
<1>10. Response(r, 0)'
  BY <1>3, <1>5, <1>6, <1>9 DEF Response
<1>11. Response(Reply(main.await, out), 0)'
  BY <1>3, <1>5, <1>10 DEF Response
<1>12. \A n \in DOMAIN outcomes : n \in DOMAIN outcomes' /\ outcomes'[n] = outcomes[n]
  BY <1>5
<1>13. Len(outcomes) <= Len(outcomes')
  BY <1>1, <1>5, Lengths
<1>14. /\ TwoWayOut' /\ Downstream'
       /\ IsSeq(toClient') /\ IsSeq(worker') /\ Len(worker') <= 1
       /\ \A n \in DOMAIN toClient' : toClient'[n].mtype \in {"reply", "exception", "oneway"}
       /\ worker' = <<>>
       /\ \A n \in DOMAIN toServer : toServer[n].mtype = "oneway"
  BY <1>2, <1>5, <1>11, <1>12, <1>13, SendReply
<1>15. Typed'
  <2>1. TypeOK'
    BY <1>1, <1>5, <1>14 DEF Typed, TypeOK
  <2> QED
    BY <1>1, <1>5, <1>14, <2>1 DEF Typed
<1>16. Calling'
  BY <1>1, <1>4, <1>5 DEF Calling, Joining, Quiet
<1>17. Upstream'
  <2> PICK W : W = worker'
    OBVIOUS
  <2> PICK H : H = handled
    OBVIOUS
  <2> PICK T : T = toServer
    OBVIOUS
  <2>1. W = <<>> /\ DOMAIN W = {} /\ Flow(W) = 0 /\ ~TwoWayIn(W)
    BY <1>14, ShortSeq, ShortFlow
  <2>2. ASSUME NEW n \in DOMAIN T
        PROVE  Request(T[n], Len(H) + Flow(W) + Rank(T, n))'
    <3>1. Request(T[n], Len(H) + Flow(W) + Rank(T, n)) /\ T[n].mtype = "oneway"
      BY <1>1, <1>3, <1>14, <2>1 DEF Upstream
    <3> QED
      BY <1>5, <3>1, RequestStays
  <2>3. /\ main'.sent = Len(H) + Flow(W) + Flow(T)
                          + (IF ~IsAsync' /\ (TwoWayIn(W) \/ TwoWayIn(T)) THEN 1 ELSE 0)
        /\ \A n \in DOMAIN H : H[n] = calls'[n]
    BY <1>1, <1>3, <1>4, <1>5, <2>1 DEF Upstream
  <2>4. worker' = W /\ toServer' = T /\ handled' = H
    BY <1>5
  <2> QED
    BY <2>1, <2>2, <2>3, <2>4, UpstreamFrom
<1>18. Answering'
  BY <1>1, <1>5 DEF Answering, Fits, Sums, Successes, IsAsync
<1>19. MessagesUnderstood'
  BY <1>1, <1>5 DEF MessagesUnderstood
<1> QED
  BY <1>14, <1>15, <1>16, <1>17, <1>18, <1>19 DEF ThriftInv

\* get_client_id of the handler.
LEMMA ServeGetClientIdInv ==
  ASSUME ThriftInv, ServeGetClientId
  PROVE  ThriftInv'
<1>1. client_id_gen_ \in Int /\ clients_ \subseteq Int
  BY DEF ThriftInv, Typed, TypeOK
<1> PICK v : v = client_id_gen_
  OBVIOUS
<1>2. /\ Serving({"get_client_id"}) /\ Done(Return(v)) /\ v \in Int /\ client_id_gen_' \in Int
      /\ clients_' = clients_
      /\ UNCHANGED <<inputVars, proxy, main, readerVars, answers, client, toServer, queueVars, handled,
                     outcomes>>
  BY <1>1 DEF ServeGetClientId
<1> QED
  BY <1>1, <1>2, ServeAsyncClient

\* register_client_id of the handler.
LEMMA ServeRegisterClientIdInv ==
  ASSUME ThriftInv, ServeRegisterClientId
  PROVE  ThriftInv'
<1>1. client_id_gen_ \in Int /\ clients_ \subseteq Int /\ main.id \in Int
  BY DEF ThriftInv, Typed, TypeOK
<1>2. worker # <<>> /\ worker[1].fname = "register_client_id" /\ "register_client_id" \in Methods
  BY DEF ServeRegisterClientId, Serving, Methods
<1>3. main.pc = "recv" /\ worker[1] = Asking /\ main.await = "register_client_id"
  BY <1>2, ServingTwoWay
<1>4. worker[1] = send_register_client_id(1, main.id)
  BY <1>3, AskingParts DEF ThriftInv
<1>5. Args.client_id = main.id
  BY <1>2, <1>4, ProcessParts, SyncRead DEF Args
<1>6. /\ Serving({"register_client_id"}) /\ Done(Return(<<>>)) /\ client_id_gen_' = client_id_gen_
      /\ clients_' = clients_ \cup {main.id}
      /\ UNCHANGED <<inputVars, proxy, main, readerVars, answers, client, toServer, queueVars, handled,
                     outcomes>>
  BY <1>5 DEF ServeRegisterClientId
<1> QED
  BY <1>1, <1>6, ServeAsyncClient

\* search of the handler.
LEMMA ServeSearchInv ==
  ASSUME ThriftInv, NEW results, ServeSearch(results)
  PROVE  ThriftInv'
<1>1. client_id_gen_ \in Int /\ clients_ \subseteq Int
  BY DEF ThriftInv, Typed, TypeOK
<1>2. /\ Serving({"search"}) /\ Done(Return(results))
      /\ UNCHANGED <<inputVars, proxy, main, readerVars, answers, client, toServer, client_id_gen_,
                     clients_, queueVars, handled, outcomes>>
  BY DEF ServeSearch, registryVars
<1> QED
  BY <1>1, <1>2, ServeAsyncClient

\* The results of a call have one entry for each of its keys.
LEMMA ResultParts ==
  ASSUME NEW call \in Calls, FitsProgram(call)
  PROVE  /\ Sums(call.keys) # <<>> /\ Successes(call.keys) # <<>>
         /\ program \in {"async_single", "sync_single"} => Sums(call.keys) = <<Sums(call.keys)[1]>>
<1>1. /\ Len(call.keys) \in Nat \ {0} /\ DOMAIN call.keys = 1 .. Len(call.keys)
      /\ program \in {"async_single", "sync_single"} => call.keys = <<call.keys[1]>>
  BY CallParts
<1>2. DOMAIN Sums(call.keys) = DOMAIN call.keys /\ DOMAIN Successes(call.keys) = DOMAIN call.keys
  BY DEF Sums, Successes
<1>3. 1 \in DOMAIN call.keys /\ DOMAIN <<>> = {}
  BY <1>1
<1>4. ASSUME program \in {"async_single", "sync_single"}
      PROVE  Sums(call.keys) = <<Sums(call.keys)[1]>>
  <2>1. DOMAIN call.keys = {1}
    <3>1. \E k : call.keys = <<k>>
      BY <1>1, <1>4, Zenon
    <3> QED
      BY <3>1, ShortSeq, Zenon
  <2> PICK z : z = Sums(call.keys)[1]
    OBVIOUS
  <2>2. Sums(call.keys) = [n \in {1} |-> z]
    BY <2>1 DEF Sums
  <2>3. [n \in {1} |-> z] = <<z>>
    OBVIOUS
  <2> QED
    BY <2>2, <2>3
<1> QED
  BY <1>2, <1>3, <1>4

\* What the handler of a two-way call returns is a fitting result, and what the caller
\* makes of the reply.
LEMMA SyncResult ==
  ASSUME NEW call \in Calls, FitsProgram(call), program \in SyncPrograms,
         NEW f, f = SyncMethod(call), NEW throws \in BOOLEAN,
         throws => f \in {"get", "get_batch"}, NEW out,
         out = IF throws THEN Throw
               ELSE CASE f = "get"       -> Return(Sums(call.keys)[1])
                      [] f = "get_batch" -> Return(Sums(call.keys))
                      [] OTHER           -> Return(<<>>)
  PROVE  /\ out = Throw \/ \E v : out = Return(v)
         /\ f \in Methods /\ RecvOf(f, Reply(f, out)).kind \in {"return", "throw"}
         /\ ResultOf(f, RecvOf(f, Reply(f, out))) = ResultOf(f, out)
         /\ Fits(ResultOf(f, out), call)
<1>1. f \in {"get", "put", "get_batch", "put_batch"} /\ f \in Methods
  BY SyncRequestParts DEF Methods
<1>2. /\ Throw.kind = "throw" /\ \A v : Return(v).kind = "return" /\ Return(v).value = v
      /\ \A v : Return(v) # Throw
  BY DEF Throw, Return
<1>3. out = Throw \/ \E v : out = Return(v)
  <2>1. CASE throws
    BY <2>1
  <2>2. CASE ~throws
    BY <1>1, <2>2
  <2> QED
    BY <2>1, <2>2
<1>4. RecvOf(f, Reply(f, out)) = IF out # Throw /\ f \in VoidMethods THEN Return(<<>>) ELSE out
  BY <1>1, <1>3, ReplyRead
<1>5. CASE throws
  <2>1. out = Throw /\ ResultOf(f, out) = Failure
    BY <1>2, <1>5 DEF ResultOf
  <2> QED
    BY <1>1, <1>2, <1>3, <1>4, <2>1 DEF Fits
<1>6. CASE ~throws /\ f = "get"
  <2>1. out = Return(Sums(call.keys)[1]) /\ call.values = <<>> /\ program = "sync_single"
    BY <1>6 DEF SyncMethod, SyncPrograms
  <2>2. ResultOf(f, out) = <<Sums(call.keys)[1]>>
    BY <1>2, <1>6, <2>1 DEF ResultOf
  <2>3. ResultOf(f, out) = Sums(call.keys)
    BY <2>1, <2>2, ResultParts
  <2>4. RecvOf(f, Reply(f, out)) = out
    BY <1>4, <1>6 DEF VoidMethods
  <2> QED
    BY <1>1, <1>2, <1>3, <2>1, <2>3, <2>4 DEF Fits
<1>7. CASE ~throws /\ f = "get_batch"
  <2>1. out = Return(Sums(call.keys)) /\ call.values = <<>>
    BY <1>7 DEF SyncMethod
  <2>2. ResultOf(f, out) = Sums(call.keys)
    BY <1>2, <1>7, <2>1 DEF ResultOf
  <2>3. RecvOf(f, Reply(f, out)) = out
    BY <1>4, <1>7 DEF VoidMethods
  <2> QED
    BY <1>1, <1>2, <1>3, <2>1, <2>2, <2>3 DEF Fits
<1>8. CASE ~throws /\ f \in {"put", "put_batch"}
  <2>1. out = Return(<<>>) /\ call.values # <<>>
    BY <1>8 DEF SyncMethod
  <2>2. ResultOf(f, out) = <<>>
    BY <1>2, <1>8, <2>1 DEF ResultOf
  <2>3. RecvOf(f, Reply(f, out)) = out
    BY <1>4, <1>8, <2>1
  <2> QED
    BY <1>1, <1>2, <1>3, <2>1, <2>2, <2>3 DEF Fits
<1> QED
  BY <1>1, <1>5, <1>6, <1>7, <1>8

\* get, put, get_batch and put_batch of the handler.
LEMMA ServeSyncInv ==
  ASSUME ThriftInv, NEW throws \in BOOLEAN, ServeSync(throws)
  PROVE  ThriftInv'
<1>1. /\ Typed /\ Calling /\ TwoWayOut /\ Upstream /\ Answering /\ Downstream
      /\ MessagesUnderstood /\ IsSeq(toServer) /\ IsSeq(handled) /\ IsSeq(outcomes)
  BY DEF ThriftInv, Typed
<1> PICK f : f = worker[1].fname
  OBVIOUS
<1>2. /\ worker # <<>> /\ f \in {"get", "put", "get_batch", "put_batch"}
      /\ worker[1].fname \in Methods
      /\ throws => f \in {"get", "get_batch"}
  BY DEF ServeSync, Serving, Methods
<1>3. /\ main.pc = "recv" /\ main.await = f /\ worker[1] = Asking
      /\ TwoWayIn(worker) /\ Flow(worker) = 0 /\ ~TwoWayIn(toServer)
  BY <1>2, ServingTwoWay
<1>4. ~IsAsync /\ worker[1] = SyncRequest(calls[main.sent])
  BY <1>1, <1>2, <1>3, AskingParts
<1>5. program \in SyncPrograms
  BY <1>1, <1>4, ConnectionAssumption DEF IsAsync, Typed, TypeOK
<1> PICK call : call = calls[main.sent]
  OBVIOUS
<1>6. main.sent \in DOMAIN calls /\ f = SyncMethod(call)
  BY <1>1, <1>3, <1>4, Lengths DEF Calling, Typed, TypeOK
<1>7. call \in Calls /\ FitsProgram(call)
  BY <1>1, <1>6, CallAt
<1>8. Given = call
  BY <1>4, <1>5, <1>7, SyncGiven
<1> PICK out : out = IF throws THEN Throw
                     ELSE CASE f = "get"       -> Return(Sums(call.keys)[1])
                            [] f = "get_batch" -> Return(Sums(call.keys))
                            [] OTHER           -> Return(<<>>)
  OBVIOUS
<1> PICK res : res = ResultOf(f, out)
  OBVIOUS
<1>9. /\ Done(out) /\ outcomes' = Append(outcomes, res) /\ handled' = Append(handled, call)
      /\ UNCHANGED <<inputVars, proxy, main, readerVars, answers, client, toServer, registryVars,
                     queueVars>>
  BY <1>8 DEF ServeSync
<1>10. /\ out = Throw \/ \E v : out = Return(v)
       /\ f \in Methods /\ RecvOf(f, Reply(f, out)).kind \in {"return", "throw"}
       /\ ResultOf(f, RecvOf(f, Reply(f, out))) = res
       /\ Fits(res, call)
  BY <1>2, <1>5, <1>6, <1>7, SyncResult
<1>11. /\ UNCHANGED <<program, lines, calls, proxy, main, requests_, response_thread, answers, client,
                      toServer, respond_queue_, sequence_queue_, client_id_gen_, clients_>>
       /\ ~IsAsync'
  BY <1>4, <1>9 DEF inputVars, readerVars, queueVars, registryVars, IsAsync
<1>12. toServer = <<>>
  <2>1. \A n \in DOMAIN toServer : FALSE
    <3> TAKE n \in DOMAIN toServer
    <3>1. Request(toServer[n], Len(handled) + Flow(worker) + Rank(toServer, n))
      BY <1>1 DEF Upstream
    <3>2. toServer[n].mtype = "oneway"
      BY <1>3 DEF TwoWayIn
    <3> QED
      BY <1>4, <3>1, <3>2 DEF Request
  <2>2. Len(toServer) = 0
    <3>1. Len(toServer) \in Nat /\ 1 \notin 1 .. Len(toServer)
      BY <1>1, <2>1, Lengths
    <3> QED
      BY <3>1
  <2> QED
    BY <1>1, <2>2, ShortSeq
<1>13. /\ Len(handled) \in Nat /\ Len(outcomes) \in Nat /\ DOMAIN outcomes = 1 .. Len(outcomes)
       /\ main.sent \in Nat /\ main.sent = Len(handled) + 1 /\ Len(handled) = Len(outcomes)
       /\ DOMAIN handled = 1 .. Len(handled)
  <2>1. main.sent = Len(handled) + Flow(worker) + Flow(toServer) + 1
    BY <1>1, <1>3, <1>4 DEF Upstream
  <2>2. Len(handled) = Len(outcomes) + Len(respond_queue_) /\ respond_queue_ = <<>>
    BY <1>1, <1>4 DEF Answering
  <2>3. Flow(toServer) = 0 /\ Len(respond_queue_) = 0
    BY <1>12, <2>2, ShortFlow, ShortSeq
  <2>4. /\ Len(handled) \in Nat /\ Len(outcomes) \in Nat /\ DOMAIN outcomes = 1 .. Len(outcomes)
        /\ main.sent \in Nat /\ DOMAIN handled = 1 .. Len(handled)
    BY <1>1, Lengths DEF Typed
  <2> QED
    BY <1>3, <2>1, <2>2, <2>3, <2>4
<1> PICK O : O = outcomes'
  OBVIOUS
<1> PICK H : H = handled'
  OBVIOUS
<1>14. /\ IsSeq(O) /\ Len(O) = main.sent /\ DOMAIN O = 1 .. main.sent /\ O[main.sent] = res
       /\ \A n \in 1 .. Len(outcomes) : O[n] = outcomes[n]
  BY <1>1, <1>9, <1>13, AppendSeq
<1>15. /\ IsSeq(H) /\ Len(H) = main.sent /\ DOMAIN H = 1 .. main.sent /\ H[main.sent] = call
       /\ \A n \in 1 .. Len(handled) : H[n] = handled[n]
  BY <1>1, <1>9, <1>13, AppendSeq
<1>16. Response(Reply(main.await, out), 0)'
  <2> PICK r : r = Reply(f, out)
    OBVIOUS
  <2>1. r.mtype # "oneway" /\ recv_response(r).kind # "return"
    <3>1. r.mtype \in {"reply", "exception"}
      BY <1>10, ReplyParts
    <3>2. recv_response(r).kind # "return"
      BY <1>10, ReplyIsNoResponse
    <3> QED
      BY <3>1, <3>2
  <2>2. /\ RecvOf(main'.await, r).kind \in {"return", "throw"}
        /\ ResultOf(main'.await, RecvOf(main'.await, r)) = outcomes'[main'.sent]
        /\ Len(outcomes') = main'.sent
    BY <1>3, <1>10, <1>11, <1>14
  <2>3. main'.pc = "recv" /\ main'.await \notin {"get_client_id", "register_client_id"}
    BY <1>2, <1>3, <1>11
  <2>4. Response(r, 0)'
    BY <1>11, <2>1, <2>2, <2>3 DEF Response
  <2> QED
    BY <1>3, <1>11, <2>4 DEF Response
<1>17. \A n \in DOMAIN outcomes : n \in DOMAIN outcomes' /\ outcomes'[n] = outcomes[n]
  BY <1>13, <1>14
<1>18. Len(outcomes) <= Len(outcomes')
  BY <1>13, <1>14
<1>19. clients_ \subseteq clients_'
  BY <1>11
<1>20. /\ TwoWayOut' /\ Downstream'
       /\ IsSeq(toClient') /\ IsSeq(worker') /\ Len(worker') <= 1
       /\ \A n \in DOMAIN toClient' : toClient'[n].mtype \in {"reply", "exception", "oneway"}
       /\ worker' = <<>>
  BY <1>2, <1>4, <1>9, <1>10, <1>16, <1>17, <1>18, <1>19, SendReply
<1>21. Typed'
  <2>1. TypeOK'
    BY <1>1, <1>11, <1>20 DEF Typed, TypeOK
  <2> QED
    BY <1>1, <1>11, <1>14, <1>15, <1>20, <2>1 DEF Typed
<1>22. Calling'
  BY <1>1, <1>4, <1>11 DEF Calling, Joining, SyncMethod, Quiet
<1>23. Upstream'
  <2> PICK W : W = worker'
    OBVIOUS
  <2> PICK T : T = toServer'
    OBVIOUS
  <2>1. /\ DOMAIN W = {} /\ Flow(W) = 0 /\ ~TwoWayIn(W)
        /\ DOMAIN T = {} /\ Flow(T) = 0 /\ ~TwoWayIn(T)
    BY <1>11, <1>12, <1>20, ShortSeq, ShortFlow
  <2>2. main'.sent = Len(H) + Flow(W) + Flow(T)
                       + (IF ~IsAsync' /\ (TwoWayIn(W) \/ TwoWayIn(T)) THEN 1 ELSE 0)
    BY <1>11, <1>13, <1>15, <2>1
  <2>3. \A n \in DOMAIN H : H[n] = calls'[n]
    <3>1. \A n \in DOMAIN handled : handled[n] = calls[n]
      BY <1>1 DEF Upstream
    <3> QED
      BY <1>11, <1>13, <1>15, <3>1
  <2> QED
    BY <2>1, <2>2, <2>3, UpstreamFrom
<1>24. Answering'
  <2>1. respond_queue_ = <<>> /\ sequence_queue_ = <<>> /\ program # "async_batch"
    BY <1>1, <1>4 DEF Answering, IsAsync, AsyncPrograms
  <2>2. Len(respond_queue_') = 0 /\ DOMAIN respond_queue_' = {} /\ DOMAIN sequence_queue_' = {}
    BY <1>11, <2>1, ShortSeq
  <2>3. Len(handled') = Len(outcomes') + Len(respond_queue_')
    BY <1>13, <1>14, <1>15, <2>2
  <2>4. \A n \in DOMAIN outcomes' : Fits(outcomes'[n], calls'[n])
    <3> SUFFICES ASSUME NEW n \in DOMAIN O
                 PROVE  Fits(O[n], calls[n])
      BY <1>11
    <3>1. CASE n \in DOMAIN outcomes
      BY <1>1, <1>13, <1>14, <3>1 DEF Answering
    <3>2. CASE n \notin DOMAIN outcomes
      <4>1. n = main.sent
        BY <1>13, <1>14, <3>2
      <4> QED
        BY <1>10, <1>14, <4>1
    <3> QED
      BY <3>1, <3>2
  <2> QED
    BY <1>11, <2>1, <2>2, <2>3, <2>4 DEF Answering
<1>25. MessagesUnderstood'
  BY <1>1, <1>11 DEF MessagesUnderstood
<1> QED
  BY <1>20, <1>21, <1>22, <1>23, <1>24, <1>25 DEF ThriftInv

\* async_get, async_put, async_get_batch and async_put_batch of the handler.
LEMMA ServeAsyncInv ==
  ASSUME ThriftInv, ServeAsync
  PROVE  ThriftInv'
<1>1. /\ Typed /\ Calling /\ TwoWayOut /\ Upstream /\ Answering /\ Downstream
      /\ MessagesUnderstood /\ IsSeq(toServer) /\ IsSeq(toClient) /\ IsSeq(handled)
      /\ IsSeq(respond_queue_) /\ IsSeq(sequence_queue_)
  BY DEF ThriftInv, Typed
<1> PICK f : f = worker[1].fname
  OBVIOUS
<1>2. worker # <<>> /\ f \in OneWayMethods
  BY DEF ServeAsync, Serving, OneWayMethods
<1> PICK x : x = Len(handled) + 1
  OBVIOUS
<1> PICK call : call = calls[x]
  OBVIOUS
<1>3. /\ IsAsync /\ x \in DOMAIN calls
      /\ worker[1] = AsyncRequest(call, SeqId(main.id, Len(handled)))
      /\ ~TwoWayIn(worker) /\ Flow(worker) = 1
  BY <1>2, ServingOneWay
<1>4. call \in Calls /\ FitsProgram(call)
  BY <1>1, <1>3, CallAt
<1>5. Given = call /\ Args.seq_id = SeqId(main.id, Len(handled))
  BY <1>3, <1>4, AsyncGiven
<1>6. f = IF program = "async_batch"
            THEN IF call.values = <<>> THEN "async_get_batch" ELSE "async_put_batch"
            ELSE IF call.values = <<>> THEN "async_get" ELSE "async_put"
  BY <1>3, AsyncRequestParts
<1> PICK seq : seq = Read(sequence_id, Args.seq_id)
  OBVIOUS
<1>7. seq.client_id = main.id /\ seq.client_seq_no = Len(handled)
  BY <1>5, SeqIdRead
<1> PICK e : e = [op   |-> IF f = "async_get_batch" THEN 2 ELSE IF f = "async_put_batch" THEN 3 ELSE 0,
                  call |-> call]
  OBVIOUS
<1>8. /\ respond_queue_' = Append(respond_queue_, e)
      /\ sequence_queue_' = IF f \in {"async_get_batch", "async_put_batch"}
                              THEN Append(sequence_queue_, seq) ELSE sequence_queue_
      /\ handled' = Append(handled, call) /\ Done(Return(<<>>))
      /\ UNCHANGED <<inputVars, proxy, main, readerVars, answers, client, toServer, registryVars,
                     outcomes>>
  BY <1>5 DEF ServeAsync
<1>9. /\ e.call = call /\ e.op \in {0, 2, 3}
      /\ program = "async_batch" => e.op = IF call.values = <<>> THEN 2 ELSE 3
  BY <1>6
<1>10. worker' = <<>> /\ toClient' = toClient
  <2>1. Replies(worker[1], Return(<<>>)) = <<>>
    BY <1>2, NoReply
  <2> QED
    BY <1>1, <1>8, <2>1, ConcatSeq DEF Done
<1>11. /\ UNCHANGED <<program, lines, calls, proxy, main, requests_, response_thread, answers, client,
                      toServer, toClient, outcomes, client_id_gen_, clients_>>
       /\ IsAsync'
  BY <1>3, <1>8, <1>10 DEF inputVars, readerVars, registryVars, IsAsync
<1>12. /\ Len(handled) \in Nat /\ DOMAIN handled = 1 .. Len(handled) /\ Len(outcomes) \in Nat
       /\ Len(respond_queue_) \in Nat /\ DOMAIN respond_queue_ = 1 .. Len(respond_queue_)
       /\ Len(sequence_queue_) \in Nat /\ DOMAIN sequence_queue_ = 1 .. Len(sequence_queue_)
       /\ Flow(toServer) \in Nat
  BY <1>1, Lengths, FlowRank
<1> PICK H : H = handled'
  OBVIOUS
<1> PICK R : R = respond_queue_'
  OBVIOUS
<1> PICK Q : Q = sequence_queue_'
  OBVIOUS
<1>13. /\ IsSeq(H) /\ Len(H) = x /\ DOMAIN H = 1 .. x /\ H[x] = call
       /\ \A n \in 1 .. Len(handled) : H[n] = handled[n]
  BY <1>1, <1>8, AppendSeq
<1>14. /\ IsSeq(R) /\ Len(R) = Len(respond_queue_) + 1 /\ DOMAIN R = 1 .. Len(respond_queue_) + 1
       /\ R[Len(respond_queue_) + 1] = e
       /\ \A n \in 1 .. Len(respond_queue_) : R[n] = respond_queue_[n]
  BY <1>1, <1>8, AppendSeq
<1>15. IsSeq(worker') /\ Len(worker') <= 1 /\ Flow(worker') = 0 /\ ~TwoWayIn(worker')
       /\ OneAtMost(worker') /\ DOMAIN worker' = {}
  BY <1>10, ShortSeq, ShortFlow
<1>16. IsSeq(Q)
  BY <1>1, <1>8, AppendSeq
<1>17. Typed'
  <2>1. ASSUME NEW n \in DOMAIN R
        PROVE  R[n].op \in {0, 2, 3}
    <3>1. CASE n \in DOMAIN respond_queue_
      BY <1>1, <1>12, <1>14, <3>1 DEF Typed, TypeOK
    <3>2. CASE n \notin DOMAIN respond_queue_
      BY <1>9, <1>12, <1>14, <3>2
    <3> QED
      BY <3>1, <3>2
  <2>2. Len(worker') <= 1 /\ \A n \in DOMAIN respond_queue_' : respond_queue_'[n].op \in {0, 2, 3}
    BY <1>15, <2>1
  <2>3. TypeOK'
    BY <1>1, <1>11, <2>2 DEF Typed, TypeOK
  <2> QED
    BY <1>1, <1>11, <1>13, <1>14, <1>15, <1>16, <2>3 DEF Typed
<1>18. Calling'
  BY <1>1, <1>3, <1>11 DEF Calling, Joining, Quiet
<1>19. TwoWayOut'
  BY <1>1, <1>11, <1>15 DEF TwoWayOut
<1>20. Upstream'
  <2> PICK W : W = worker'
    OBVIOUS
  <2> PICK T : T = toServer
    OBVIOUS
  <2>1. DOMAIN W = {} /\ Flow(W) = 0 /\ ~TwoWayIn(W)
    BY <1>15
  <2>2. ASSUME NEW n \in DOMAIN T
        PROVE  Request(T[n], Len(H) + Flow(W) + Rank(T, n))'
    <3>1. Request(T[n], Len(handled) + Flow(worker) + Rank(T, n))
      BY <1>1 DEF Upstream
    <3>2. n \in Nat /\ Rank(T, n) \in Int
      BY <1>1, Lengths DEF Rank
    <3>3. Len(H) + Flow(W) + Rank(T, n) = Len(handled) + Flow(worker) + Rank(T, n)
      BY <1>3, <1>12, <1>13, <2>1, <3>2
    <3> PICK y : y = Len(H) + Flow(W) + Rank(T, n)
      OBVIOUS
    <3>4. Request(T[n], y)
      BY <3>1, <3>3
    <3>5. Request(T[n], y)'
      BY <1>11, <3>4, RequestStays
    <3> QED
      BY <3>5
  <2>3. main'.sent = Len(H) + Flow(W) + Flow(T)
                       + (IF ~IsAsync' /\ (TwoWayIn(W) \/ TwoWayIn(T)) THEN 1 ELSE 0)
    <3>1. main.sent = Len(handled) + Flow(worker) + Flow(T) + 0
      BY <1>1, <1>3 DEF Upstream
    <3> QED
      BY <1>3, <1>11, <1>12, <1>13, <2>1, <3>1
  <2>4. \A n \in DOMAIN H : H[n] = calls'[n]
    <3>1. \A n \in DOMAIN handled : handled[n] = calls[n]
      BY <1>1 DEF Upstream
    <3> QED
      BY <1>11, <1>12, <1>13, <3>1
  <2>5. worker' = W /\ toServer' = T /\ handled' = H
    BY <1>11
  <2> QED
    BY <2>1, <2>2, <2>3, <2>4, <2>5, UpstreamFrom
<1>21. Answering'
  <2>1. Len(handled) = Len(outcomes) + Len(respond_queue_)
    BY <1>1 DEF Answering
  <2>2. Len(H) = Len(outcomes) + Len(R) /\ x = Len(outcomes) + (Len(respond_queue_) + 1)
    BY <1>12, <1>13, <1>14, <2>1
  <2>3. ASSUME NEW n \in DOMAIN R
        PROVE  /\ R[n].call = calls[Len(outcomes) + n]
               /\ program = "async_batch" => R[n].op = IF R[n].call.values = <<>> THEN 2 ELSE 3
    <3>1. CASE n \in DOMAIN respond_queue_
      <4>1. R[n] = respond_queue_[n]
        BY <1>12, <1>14, <3>1
      <4> QED
        BY <1>1, <3>1, <4>1 DEF Answering
    <3>2. CASE n \notin DOMAIN respond_queue_
      <4>1. n = Len(respond_queue_) + 1 /\ R[n] = e
        BY <1>12, <1>14, <3>2
      <4>2. calls[Len(outcomes) + n] = call
        BY <2>2, <4>1
      <4> QED
        BY <1>9, <4>1, <4>2
    <3> QED
      BY <3>1, <3>2
  <2>4. CASE program = "async_batch"
    <3>1. Q = Append(sequence_queue_, seq)
      BY <1>6, <1>8, <2>4
    <3>2. /\ Len(Q) = Len(sequence_queue_) + 1 /\ DOMAIN Q = 1 .. Len(sequence_queue_) + 1
          /\ Q[Len(sequence_queue_) + 1] = seq
          /\ \A n \in 1 .. Len(sequence_queue_) : Q[n] = sequence_queue_[n]
      BY <1>1, <3>1, AppendSeq
    <3>3. Len(sequence_queue_) = Len(respond_queue_)
      BY <1>1, <2>4 DEF Answering
    <3>4. ASSUME NEW n \in DOMAIN Q
          PROVE  Q[n].client_id = main.id /\ Q[n].client_seq_no = Len(outcomes) + n - 1
      <4>1. CASE n \in DOMAIN sequence_queue_
        BY <1>1, <1>12, <3>2, <4>1 DEF Answering
      <4>2. CASE n \notin DOMAIN sequence_queue_
        <5>1. n = Len(sequence_queue_) + 1 /\ Q[n] = seq
          <6>1. Len(sequence_queue_) \in Nat /\ DOMAIN sequence_queue_ = 1 .. Len(sequence_queue_)
            BY <1>12
          <6>2. n = Len(sequence_queue_) + 1
            BY <3>2, <4>2, <6>1, Indexes
          <6> QED
            BY <3>2, <6>2
        <5>2. Len(outcomes) + n - 1 = Len(handled)
          BY <1>12, <2>1, <3>3, <5>1
        <5> QED
          BY <1>7, <5>1, <5>2
      <4> QED
        BY <4>1, <4>2
    <3>5. Len(Q) = Len(R)
      BY <1>14, <3>2, <3>3
    <3>6. \A n \in DOMAIN outcomes' : Fits(outcomes'[n], calls'[n]) /\ outcomes'[n] # <<>>
      BY <1>1, <1>3, <1>11 DEF Answering
    <3> QED
      BY <1>11, <2>2, <2>3, <2>4, <3>4, <3>5, <3>6 DEF Answering
  <2>5. CASE program # "async_batch"
    <3>1. Q = sequence_queue_
      BY <1>6, <1>8, <2>5
    <3>2. Q = <<>> /\ DOMAIN Q = {}
      BY <1>1, <2>5, <3>1, ShortSeq DEF Answering
    <3>3. \A n \in DOMAIN outcomes' : Fits(outcomes'[n], calls'[n]) /\ outcomes'[n] # <<>>
      BY <1>1, <1>3, <1>11 DEF Answering
    <3> QED
      BY <1>11, <2>2, <2>3, <2>5, <3>2, <3>3 DEF Answering
  <2> QED
    BY <2>4, <2>5
<1>22. Downstream'
  BY <1>1, <1>11 DEF Downstream, Response, Requests, IsAsync
<1>23. MessagesUnderstood'
  BY <1>1, <1>11 DEF MessagesUnderstood
<1> QED
  BY <1>17, <1>18, <1>19, <1>20, <1>21, <1>22, <1>23 DEF ThriftInv

\* The responder answers the oldest request.
LEMMA RespondInv ==
  ASSUME ThriftInv, Respond
  PROVE  ThriftInv'
<1>1. /\ Typed /\ Calling /\ TwoWayOut /\ Upstream /\ Answering /\ Downstream
      /\ MessagesUnderstood /\ IsSeq(toClient) /\ IsSeq(outcomes)
      /\ IsSeq(respond_queue_) /\ IsSeq(sequence_queue_)
      /\ respond_queue_ # <<>> /\ sequence_queue_ # <<>>
  BY DEF ThriftInv, Typed, Respond
<1>2. /\ program = "async_batch" /\ IsAsync
      /\ Len(sequence_queue_) = Len(respond_queue_)
      /\ Len(handled) = Len(outcomes) + Len(respond_queue_)
  BY <1>1 DEF Answering, IsAsync, AsyncPrograms
<1>3. /\ Len(handled) \in Nat /\ Len(outcomes) \in Nat /\ Len(answers) \in Nat /\ main.sent \in Nat
      /\ DOMAIN handled = 1 .. Len(handled) /\ DOMAIN outcomes = 1 .. Len(outcomes)
      /\ DOMAIN answers = 1 .. Len(answers)
      /\ Len(respond_queue_) \in Nat \ {0} /\ DOMAIN respond_queue_ = 1 .. Len(respond_queue_)
      /\ DOMAIN sequence_queue_ = 1 .. Len(respond_queue_)
      /\ Len(toClient) \in Nat /\ DOMAIN toClient = 1 .. Len(toClient)
      /\ Len(calls) \in Nat /\ DOMAIN calls = 1 .. Len(calls) /\ main.sent \in 0 .. Len(calls)
      /\ Flow(toServer) \in Nat /\ Flow(worker) \in Nat /\ Flow(toClient) \in Nat
      /\ Head(respond_queue_) = respond_queue_[1] /\ Head(sequence_queue_) = sequence_queue_[1]
  BY <1>1, <1>2, Lengths, FlowRank, TailSeq DEF Typed, TypeOK
<1> PICK x : x = Len(outcomes) + 1
  OBVIOUS
<1> PICK call : call = calls[x]
  OBVIOUS
<1> PICK e : e = respond_queue_[1]
  OBVIOUS
<1> PICK seq : seq = sequence_queue_[1]
  OBVIOUS
<1>4. x \in DOMAIN calls
  <2>1. main.sent = Len(handled) + Flow(worker) + Flow(toServer) + 0
    BY <1>1, <1>2 DEF Upstream
  <2>2. x <= main.sent
    BY <1>2, <1>3, <2>1
  <2> QED
    BY <1>3, <2>2
<1>5. call \in Calls /\ FitsProgram(call)
  BY <1>1, <1>4, CallAt
<1>6. e.call = call /\ e.op = IF call.values = <<>> THEN 2 ELSE 3
  <2>1. 1 \in DOMAIN respond_queue_
    BY <1>3
  <2>2. /\ respond_queue_[1].call = calls[Len(outcomes) + 1]
        /\ respond_queue_[1].op = IF respond_queue_[1].call.values = <<>> THEN 2 ELSE 3
    BY <1>1, <1>2, <2>1 DEF Answering
  <2> QED
    BY <2>2
<1>7. seq.client_id = main.id /\ seq.client_seq_no = Len(outcomes)
  <2>1. seq.client_id = main.id /\ seq.client_seq_no = Len(outcomes) + 1 - 1
    BY <1>1, <1>3 DEF Answering
  <2> QED
    BY <1>3, <2>1
<1> PICK res : res = IF e.op = 3 THEN Successes(call.keys) ELSE Sums(call.keys)
  OBVIOUS
<1>8. Fits(res, call) /\ res # <<>>
  BY <1>5, <1>6, ResultParts DEF Fits
\* The client's id is registered once it has made a call.
<1>9. main.id \in clients_
  <2>1. main.sent > 0
    <3>1. main.sent = Len(handled) + Flow(worker) + Flow(toServer) + 0
      BY <1>1, <1>2 DEF Upstream
    <3> QED
      BY <1>2, <1>3, <3>1
  <2> QED
    BY <1>1, <1>2, <2>1 DEF Calling
<1> PICK m : m = send_async_response(SeqId(main.id, Len(outcomes)), e.op, res)
  OBVIOUS
<1>10. /\ outcomes' = Append(outcomes, res)
       /\ toClient' = IF main.id # -1 THEN Append(toClient, m) ELSE toClient
       /\ respond_queue_' = Tail(respond_queue_) /\ sequence_queue_' = Tail(sequence_queue_)
       /\ UNCHANGED <<inputVars, proxy, main, readerVars, answers, client, toServer, worker,
                      registryVars, handled>>
  BY <1>3, <1>6, <1>7, <1>9 DEF Respond
<1>11. /\ UNCHANGED <<program, lines, calls, proxy, main, requests_, response_thread, answers, client,
                      toServer, worker, handled, client_id_gen_, clients_>>
       /\ IsAsync' /\ program' = "async_batch"
  BY <1>2, <1>10 DEF inputVars, readerVars, registryVars, IsAsync
<1> PICK O : O = outcomes'
  OBVIOUS
<1> PICK R : R = respond_queue_'
  OBVIOUS
<1> PICK Q : Q = sequence_queue_'
  OBVIOUS
<1> PICK C : C = toClient'
  OBVIOUS
<1>12. /\ IsSeq(O) /\ Len(O) = x /\ DOMAIN O = 1 .. x /\ O[x] = res
       /\ \A n \in 1 .. Len(outcomes) : O[n] = outcomes[n]
  BY <1>1, <1>10, AppendSeq
<1>13. /\ IsSeq(R) /\ Len(R) = Len(respond_queue_) - 1 /\ DOMAIN R = 1 .. Len(respond_queue_) - 1
       /\ \A n \in 1 .. Len(respond_queue_) - 1 : R[n] = respond_queue_[n + 1]
  BY <1>1, <1>10, TailSeq
<1>14. /\ IsSeq(Q) /\ Len(Q) = Len(respond_queue_) - 1 /\ DOMAIN Q = 1 .. Len(respond_queue_) - 1
       /\ \A n \in 1 .. Len(respond_queue_) - 1 : Q[n] = sequence_queue_[n + 1]
  BY <1>1, <1>2, <1>10, TailSeq
<1>15. m.mtype = "oneway" /\ recv_response(m) = Return([no |-> Len(outcomes), result |-> res])
  BY ResponseRead
<1>16. /\ IsSeq(C) /\ OneAtMost(C) /\ (TwoWayIn(C) <=> TwoWayIn(toClient))
       /\ \A n \in DOMAIN C : \/ /\ n \in DOMAIN toClient /\ C[n] = toClient[n]
                                 /\ Rank(C, n) = Rank(toClient, n)
                              \/ /\ main.id # -1 /\ C[n] = m
                                 /\ Rank(C, n) = Flow(toClient) + 1
       /\ Flow(C) = IF main.id # -1 THEN Flow(toClient) + 1 ELSE Flow(toClient)
  <2>1. CASE main.id # -1
    <3>1. C = Append(toClient, m)
      BY <1>10, <2>1
    <3>2. /\ IsSeq(C) /\ DOMAIN C = 1 .. Len(toClient) + 1 /\ C[Len(toClient) + 1] = m
          /\ \A n \in 1 .. Len(toClient) : C[n] = toClient[n]
      BY <1>1, <3>1, AppendSeq
    <3>3. /\ TwoWayIn(C) <=> TwoWayIn(toClient)
          /\ OneAtMost(C) /\ Flow(C) = Flow(toClient) + 1
          /\ \A n \in 1 .. Len(toClient) : Rank(C, n) = Rank(toClient, n)
          /\ Rank(C, Len(toClient) + 1) = Flow(toClient) + 1
      BY <1>1, <1>15, <3>1, AppendOneWay DEF TwoWayOut
    <3>4. ASSUME NEW n \in DOMAIN C
          PROVE  \/ /\ n \in DOMAIN toClient /\ C[n] = toClient[n]
                    /\ Rank(C, n) = Rank(toClient, n)
                 \/ /\ main.id # -1 /\ C[n] = m
                    /\ Rank(C, n) = Flow(toClient) + 1
      <4>1. n \in 1 .. Len(toClient) \/ n = Len(toClient) + 1
        BY <1>3, <3>2, Indexes
      <4> QED
        BY <1>3, <2>1, <3>2, <3>3, <4>1
    <3> QED
      BY <2>1, <3>2, <3>3, <3>4
  <2>2. CASE main.id = -1
    BY <1>1, <1>10, <2>2 DEF TwoWayOut
  <2> QED
    BY <2>1, <2>2
<1>17. Typed'
  <2>1. \A n \in DOMAIN C : C[n].mtype \in {"reply", "exception", "oneway"}
    BY <1>1, <1>15, <1>16 DEF Typed, TypeOK
  <2>2. ASSUME NEW n \in DOMAIN R
        PROVE  R[n].op \in {0, 2, 3}
    <3>1. n + 1 \in DOMAIN respond_queue_ /\ R[n] = respond_queue_[n + 1]
      BY <1>3, <1>13, Indexes
    <3> QED
      BY <1>1, <3>1 DEF Typed, TypeOK
  <2>3. TypeOK'
    BY <1>1, <1>11, <2>1, <2>2 DEF Typed, TypeOK
  <2> QED
    BY <1>1, <1>11, <1>12, <1>13, <1>14, <1>16, <2>3 DEF Typed
<1>18. Calling'
  BY <1>1, <1>2, <1>11 DEF Calling, Joining, Quiet
<1>19. TwoWayOut'
  BY <1>1, <1>11, <1>16 DEF TwoWayOut
<1>20. Upstream'
  BY <1>1, <1>11 DEF Upstream, Request, AsyncRequest, Asking, SyncRequest, SyncMethod, IsAsync
<1>21. Answering'
  <2>1. Len(handled) = Len(O) + Len(R)
    BY <1>2, <1>3, <1>12, <1>13
  <2>2. ASSUME NEW n \in DOMAIN R
        PROVE  /\ R[n].call = calls[Len(O) + n]
               /\ R[n].op = IF R[n].call.values = <<>> THEN 2 ELSE 3
    <3>1. n + 1 \in DOMAIN respond_queue_ /\ R[n] = respond_queue_[n + 1]
      BY <1>3, <1>13, Indexes
    <3>2. Len(O) + n = Len(outcomes) + (n + 1)
      BY <1>3, <1>12, <1>13
    <3> QED
      BY <1>1, <1>2, <3>1, <3>2 DEF Answering
  <2>3. ASSUME NEW n \in DOMAIN Q
        PROVE  Q[n].client_id = main.id /\ Q[n].client_seq_no = Len(O) + n - 1
    <3>1. n + 1 \in DOMAIN sequence_queue_ /\ Q[n] = sequence_queue_[n + 1]
      BY <1>3, <1>14, Indexes
    <3>2. Len(O) + n - 1 = Len(outcomes) + (n + 1) - 1
      <4>1. n \in Int /\ Len(O) = Len(outcomes) + 1
        BY <1>12, <1>14
      <4>2. \A a \in Nat : \A k \in Int : (a + 1) + k - 1 = a + (k + 1) - 1
        OBVIOUS
      <4> QED
        BY <1>3, <4>1, <4>2
    <3> QED
      BY <1>1, <3>1, <3>2 DEF Answering
  <2>4. ASSUME NEW n \in DOMAIN O
        PROVE  Fits(O[n], calls[n]) /\ O[n] # <<>>
    <3>1. CASE n \in DOMAIN outcomes
      BY <1>1, <1>2, <1>3, <1>12, <3>1 DEF Answering
    <3>2. CASE n \notin DOMAIN outcomes
      <4>1. n = x
        BY <1>3, <1>12, <3>2
      <4> QED
        BY <1>8, <1>12, <4>1
    <3> QED
      BY <3>1, <3>2
  <2>5. Len(Q) = Len(R)
    BY <1>13, <1>14
  <2> QED
    BY <1>11, <2>1, <2>2, <2>3, <2>4, <2>5 DEF Answering
<1>22. Downstream'
  <2> PICK A : A = answers
    OBVIOUS
  <2>1. Len(A) <= Len(outcomes)
    BY <1>1 DEF Downstream
  <2>2. \A n \in DOMAIN A : A[n] = [no |-> n - 1, result |-> outcomes'[n]]
    <3> TAKE n \in DOMAIN A
    <3>1. n \in 1 .. Len(outcomes)
      BY <1>3, <2>1
    <3>2. A[n] = [no |-> n - 1, result |-> outcomes[n]]
      BY <1>1 DEF Downstream
    <3> QED
      BY <1>12, <3>1, <3>2
  <2>3. Len(A) <= Len(outcomes')
    BY <1>3, <1>12, <2>1
  <2>4. client' = "up" =>
          /\ IsAsync' /\ main'.id # -1 => Len(outcomes') = Len(A) + Flow(C)
          /\ IsAsync' /\ main'.id = -1 => A = <<>>
          /\ IsAsync' => Requests' = main'.sent - Len(A)
    <3> SUFFICES ASSUME client = "up"
                 PROVE  /\ main.id # -1 => Len(O) = Len(A) + Flow(C)
                        /\ main.id = -1 => A = <<>>
                        /\ Requests' = main.sent - Len(A)
      BY <1>11
    <3>1. /\ main.id # -1 => Len(outcomes) = Len(A) + Flow(toClient)
          /\ main.id = -1 => A = <<>> /\ Requests = main.sent - Len(A)
          /\ Requests = main.sent - Len(A)
      BY <1>1, <1>2 DEF Downstream
    <3>2. Requests' = Requests
      BY <1>11 DEF Requests
    <3>3. ASSUME main.id # -1
          PROVE  Len(O) = Len(A) + Flow(C)
      <4>1. Len(outcomes) = Len(A) + Flow(toClient) /\ Flow(C) = Flow(toClient) + 1
        BY <1>16, <3>1, <3>3
      <4>2. \A a, b, c \in Nat : a = b + c => a + 1 = b + (c + 1)
        OBVIOUS
      <4> QED
        BY <1>3, <1>12, <4>1, <4>2
    <3> QED
      BY <3>1, <3>2, <3>3
  <2>5. client' = "up" => \A n \in DOMAIN C : Response(C[n], Len(A) + Rank(C, n))'
    <3> SUFFICES ASSUME client = "up", NEW n \in DOMAIN C
                 PROVE  Response(C[n], Len(A) + Rank(C, n))'
      BY <1>11
    <3>1. \A k \in DOMAIN outcomes : k \in DOMAIN outcomes' /\ outcomes'[k] = outcomes[k]
      BY <1>3, <1>12
    <3>2. CASE n \in DOMAIN toClient /\ C[n] = toClient[n] /\ Rank(C, n) = Rank(toClient, n)
      <4>1. Response(C[n], Len(A) + Rank(C, n))
        BY <1>1, <3>2 DEF Downstream
      <4>2. CASE C[n].mtype = "oneway"
        BY <1>11, <3>1, <4>1, <4>2, ResponseStays
      <4>3. CASE C[n].mtype # "oneway"
        BY <1>2, <1>11, <4>1, <4>3, ReplyStays
      <4> QED
        BY <4>2, <4>3
    <3>3. CASE main.id # -1 /\ C[n] = m /\ Rank(C, n) = Flow(toClient) + 1
      <4>1. Len(outcomes) = Len(A) + Flow(toClient)
        BY <1>1, <1>2, <3>3 DEF Downstream
      <4>2. Len(A) + Rank(C, n) = x /\ x - 1 = Len(outcomes) /\ x \in DOMAIN O
        <5>1. \A a, c \in Nat : a + (c + 1) = (a + c) + 1 /\ ((a + c) + 1) - 1 = a + c
          OBVIOUS
        <5>2. x \in DOMAIN O
          BY <1>3, <1>12
        <5>3. Len(A) \in Nat /\ Flow(toClient) \in Nat
          BY <1>3
        <5> QED
          BY <3>3, <4>1, <5>1, <5>2, <5>3
      <4>3. recv_response(C[n]) = Return([no |-> x - 1, result |-> O[x]]) /\ C[n].mtype = "oneway"
        BY <1>12, <1>15, <3>3, <4>2
      <4>4. Response(C[n], x)'
        BY <1>11, <3>3, <4>2, <4>3 DEF Response
      <4> QED
        BY <4>2, <4>4
    <3> QED
      BY <1>16, <3>2, <3>3
  <2>6. toClient' = C /\ answers' = A
    BY <1>11
  <2> QED
    BY <1>11, <2>2, <2>3, <2>4, <2>5, <2>6, DownstreamFrom
<1>23. MessagesUnderstood'
  BY <1>1, <1>11 DEF MessagesUnderstood
<1> QED
  BY <1>17, <1>18, <1>19, <1>20, <1>21, <1>22, <1>23 DEF ThriftInv

-----------------------------------------------------------------------------
(* The beginning                                                             *)

\* A program of single calls makes calls of one key and at most one value.
LEMMA SingleCallsParts ==
  ASSUME NEW file \in Seq(TraceLines)
  PROVE  /\ SingleCalls(file) \in Seq(Calls)
         /\ \A n \in DOMAIN SingleCalls(file) : /\ Len(SingleCalls(file)[n].keys) = 1
                                                /\ Len(SingleCalls(file)[n].values) <= 1
<1> DEFINE s == SingleCalls(file)
<1>1. Len(file) \in Nat /\ DOMAIN file = 1 .. Len(file)
  OBVIOUS
<1>2. ASSUME NEW n \in 1 .. Len(file)
      PROVE  s[n] \in Calls /\ Len(s[n].keys) = 1 /\ Len(s[n].values) <= 1
  <2>1. file[n].key \in TraceKeys /\ file[n].value \in TraceValues
    <3>1. file[n] \in TraceLines
      BY <1>1
    <3> QED
      BY <3>1 DEF TraceLines
  <2>2. Keys(<<file[n]>>) = <<file[n].key>> /\ Values(<<file[n]>>) = <<file[n].value>>
    BY DEF Keys, Values
  <2>3. s[n] \in {GetCall(<<file[n]>>), PutCall(<<file[n]>>)}
    <3>1. n \in DOMAIN file
      BY <1>1
    <3>2. s[n] = IF file[n].value = "" THEN GetCall(<<file[n]>>) ELSE PutCall(<<file[n]>>)
      BY <3>1, Zenon DEF SingleCalls
    <3> QED
      BY <3>2, Zenon
  <2> HIDE DEF s
  <2>4. s[n].keys = <<file[n].key>> /\ s[n].values \in {<<>>, <<file[n].value>>}
    BY <2>2, <2>3 DEF GetCall, PutCall
  <2>5. s[n] = [keys |-> s[n].keys, values |-> s[n].values]
    BY <2>3 DEF GetCall, PutCall
  <2>6. \A T : \A v \in T : <<v>> \in Seq(T) /\ <<v>> # <<>> /\ Len(<<v>>) = 1
    OBVIOUS
  <2>7. <<>> \in Seq(TraceValues) /\ Len(<<>>) = 0
    OBVIOUS
  <2>8. s[n].keys \in Seq(TraceKeys) /\ s[n].keys # <<>> /\ Len(s[n].keys) = 1
    BY <2>1, <2>4, <2>6
  <2>9. s[n].values \in Seq(TraceValues) /\ Len(s[n].values) <= 1
    <3>1. <<file[n].value>> \in Seq(TraceValues) /\ Len(<<file[n].value>>) = 1
      BY <2>1, <2>6, Zenon
    <3>2. \A k \in {0, 1} : k <= 1
      OBVIOUS
    <3>3. s[n].values \in Seq(TraceValues) /\ Len(s[n].values) \in {0, 1}
      BY <2>4, <2>7, <3>1, Zenon
    <3> QED
      BY <3>2, <3>3, Zenon
  <2> QED
    BY <2>5, <2>8, <2>9 DEF Calls
<1>3. s = [n \in 1 .. Len(file) |-> s[n]] /\ DOMAIN s = 1 .. Len(file)
  BY <1>1 DEF SingleCalls
<1> HIDE DEF s
<1>4. s \in [1 .. Len(file) -> Calls]
  BY <1>2, <1>3
<1>5. s \in Seq(Calls)
  BY <1>1, <1>4
<1> QED
  BY <1>2, <1>3, <1>5 DEF s

\* Nothing is on the way at first.
LEMMA InitThrift ==
  ASSUME TraceSound, Init
  PROVE  ThriftInv
<1>1. /\ lines \in Seq(TraceLines) /\ load_trace(lines) \in Seq(Calls)
  BY DEF Init, TraceSound
<1>2. /\ calls \in Seq(Calls)
      /\ program \in {"async_single", "sync_single"} =>
           \A n \in DOMAIN calls : Len(calls[n].keys) = 1 /\ Len(calls[n].values) <= 1
  <2>1. CASE program \in {"async_batch", "sync_batch"}
    BY <1>1, <2>1 DEF Init
  <2>2. CASE program \notin {"async_batch", "sync_batch"}
    BY <1>1, <2>2, SingleCallsParts DEF Init
  <2> QED
    BY <2>1, <2>2
<1>3. /\ program \in Programs /\ program \in AsyncPrograms \cup SyncPrograms
      /\ main = [pc |-> IF program \in AsyncPrograms THEN "get_client_id" ELSE "run",
                 await |-> "none", sent |-> 0, id |-> 0, searches |-> 0, overlap |-> FALSE]
      /\ requests_ = 0 /\ response_thread = "pop" /\ answers = <<>> /\ client = "up"
      /\ toServer = <<>> /\ toClient = <<>> /\ proxy = "up" /\ worker = <<>>
      /\ client_id_gen_ \in Int /\ clients_ = {}
      /\ respond_queue_ = <<>> /\ sequence_queue_ = <<>> /\ handled = <<>> /\ outcomes = <<>>
      /\ MaxSearches \in Nat /\ in_flight_limit_ \in Nat /\ Len(calls) \in Nat
  BY <1>2, ConnectionAssumption DEF Init
<1>4. IsSeq(<<>>) /\ Len(<<>>) = 0 /\ DOMAIN <<>> = {}
  BY ShortSeq
<1>5. ~TwoWayIn(<<>>) /\ OneAtMost(<<>>) /\ Flow(<<>>) = 0
  BY <1>4 DEF TwoWayIn, OneAtMost, Flow
<1>6. /\ main.pc = (IF IsAsync THEN "get_client_id" ELSE "run") /\ main.await = "none"
      /\ main.sent = 0 /\ main.id = 0 /\ main.searches = 0 /\ main.overlap = FALSE
  BY <1>3 DEF IsAsync
<1>7. Typed
  <2>1. TypeOK
    BY <1>3, <1>4, <1>6 DEF TypeOK
  <2>2. main \in [pc : Places, await : Methods \cup {"none"}, sent : Nat, id : Int, searches : Nat,
                  overlap : BOOLEAN]
    BY <1>3 DEF Places
  <2> QED
    BY <1>2, <1>3, <1>4, <2>1, <2>2 DEF Typed
<1>8. Calling
  BY <1>3, <1>6 DEF Calling, Joining, IsAsync
<1>9. TwoWayOut
  BY <1>3, <1>5 DEF TwoWayOut
<1>10. Upstream
  BY <1>3, <1>4, <1>5, <1>6 DEF Upstream
<1>11. Answering
  BY <1>3, <1>4 DEF Answering
<1>12. Downstream
  BY <1>3, <1>4, <1>5, <1>6 DEF Downstream, Requests
<1>13. MessagesUnderstood
  BY <1>3 DEF MessagesUnderstood
<1> QED
  BY <1>7, <1>8, <1>9, <1>10, <1>11, <1>12, <1>13 DEF ThriftInv

-----------------------------------------------------------------------------
(* Every step                                                                *)

\* Whether the proxy is up is said nowhere else: a broken promise ends the proxy with every
\* message where it is.
LEMMA OnlyProxyChanges ==
  ASSUME ThriftInv, proxy' \in {"up", "crashed"},
         UNCHANGED <<program, lines, calls, main, requests_, response_thread, answers, client,
                     toServer, toClient, worker, client_id_gen_, clients_, respond_queue_,
                     sequence_queue_, handled, outcomes>>
  PROVE  ThriftInv'
<1>1. Typed'
  BY DEF ThriftInv, Typed, TypeOK
<1>2. Calling'
  BY DEF ThriftInv, Calling, Joining, Quiet, IsAsync, SyncMethod
<1>3. TwoWayOut'
  BY DEF ThriftInv, TwoWayOut
<1>4. Upstream'
  BY DEF ThriftInv, Upstream, Request, AsyncRequest, Asking, SyncRequest, SyncMethod, IsAsync
<1>5. Answering'
  BY DEF ThriftInv, Answering, IsAsync
<1>6. Downstream'
  BY DEF ThriftInv, Downstream, Response, Requests, IsAsync
<1>7. MessagesUnderstood'
  BY DEF ThriftInv, MessagesUnderstood
<1> QED
  BY <1>1, <1>2, <1>3, <1>4, <1>5, <1>6, <1>7 DEF ThriftInv

\* One step of any thread of the client or of the server.
LEMMA NextThrift ==
  ASSUME ThriftInv, [Next]_vars
  PROVE  ThriftInv'
<1>1. CASE GetClientId
  BY <1>1, GetClientIdInv
<1>2. CASE RegisterClientId
  BY <1>2, RegisterClientIdInv
<1>3. CASE CallAsync
  BY <1>3, CallAsyncInv
<1>4. CASE PushRequest
  BY <1>4, PushRequestInv
<1>5. CASE CallSync
  BY <1>5, CallSyncInv
<1>6. CASE RecvReply
  BY <1>6, RecvReplyInv
<1>7. CASE Search
  BY <1>7, SearchInv
<1>8. CASE TimeUp
  BY <1>8, TimeUpInv
<1>9. CASE PopRequest
  BY <1>9, PopRequestInv
<1>10. CASE RecvResponse
  BY <1>10, RecvResponseInv
<1>11. CASE Take
  BY <1>11, TakeInv
<1>12. CASE ServeGetClientId
  BY <1>12, ServeGetClientIdInv
<1>13. CASE ServeRegisterClientId
  BY <1>13, ServeRegisterClientIdInv
<1>14. CASE ServeAsync
  BY <1>14, ServeAsyncInv
<1>15. ASSUME NEW results \in {<<>>, <<"key">>}, ServeSearch(results)
       PROVE  ThriftInv'
  BY <1>15, ServeSearchInv
<1>16. ASSUME NEW throws \in BOOLEAN, ServeSync(throws)
       PROVE  ThriftInv'
  BY <1>16, ServeSyncInv
<1>17. CASE Respond
  BY <1>17, RespondInv
<1>18. CASE RespondThrows
  <2>1. /\ UNCHANGED <<program, lines, calls, main, requests_, response_thread, answers, client,
                       toServer, toClient, worker, client_id_gen_, clients_, respond_queue_,
                       sequence_queue_, handled, outcomes>>
        /\ proxy' = "crashed"
    BY <1>18 DEF RespondThrows, inputVars, readerVars, registryVars, queueVars
  <2> QED
    BY <2>1, OnlyProxyChanges
<1>19. CASE UNCHANGED vars
  <2>1. /\ UNCHANGED <<program, lines, calls, main, requests_, response_thread, answers, client,
                       toServer, toClient, worker, client_id_gen_, clients_, respond_queue_,
                       sequence_queue_, handled, outcomes>>
        /\ UNCHANGED proxy
    BY <1>19 DEF vars
  <2>2. proxy' \in {"up", "crashed"}
    BY <2>1 DEF ThriftInv, Typed, TypeOK
  <2> QED
    BY <2>1, <2>2, OnlyProxyChanges
<1> QED
  BY <1>1, <1>2, <1>3, <1>4, <1>5, <1>6, <1>7, <1>8, <1>9, <1>10, <1>11, <1>12, <1>13, <1>14,
     <1>15, <1>16, <1>17, <1>18, <1>19
     DEF Next, Main, InCall, ResponseThread, Server, Responder

\* The invariant holds in every reachable state, whatever the trace, the limit, the number
\* of searches and the first client id.
THEOREM ThriftInvariance ==
  ASSUME TraceSound
  PROVE  Spec => []ThriftInv
<1>1. Init => ThriftInv
  BY InitThrift
<1>2. ThriftInv /\ [Next]_vars => ThriftInv'
  BY NextThrift
<1> QED
  BY <1>1, <1>2, PTL DEF Spec

-----------------------------------------------------------------------------
(* What the invariant says                                                   *)

\* Leaving out the message of a two-way call counts the others.
LEMMA OneWaysFlow ==
  ASSUME NEW s, IsSeq(s), OneAtMost(s)
  PROVE  OneWays(s) = Flow(s)
<1>1. Len(s) \in Nat /\ DOMAIN s = 1 .. Len(s)
  BY ShortSeq
<1>2. IsFiniteSet(1 .. Len(s)) /\ Cardinality(1 .. Len(s)) = Len(s)
  <2> PICK k : k = Len(s)
    OBVIOUS
  <2>1. k \in Nat /\ k \in Int /\ 1 \in Int
    BY <1>1
  <2>2. IsFiniteSet(1 .. k) /\ Cardinality(1 .. k) = IF 1 > k THEN 0 ELSE k - 1 + 1
    BY <2>1, FS_Interval
  <2>3. (IF 1 > k THEN 0 ELSE k - 1 + 1) = k
    BY <2>1
  <2> QED
    BY <2>2, <2>3
<1> DEFINE W == {n \in DOMAIN s : s[n].mtype = "oneway"}
<1>3. CASE TwoWayIn(s)
  <2>1. PICK k \in 1 .. Len(s) : s[k].mtype # "oneway"
    BY <1>1, <1>3 DEF TwoWayIn
  <2>2. W = (1 .. Len(s)) \ {k}
    BY <1>1, <2>1 DEF OneAtMost
  <2>3. Cardinality((1 .. Len(s)) \ {k}) = Len(s) - 1
    BY <1>2, <2>1, FS_RemoveElement
  <2> QED
    BY <1>3, <2>2, <2>3 DEF OneWays, Flow
<1>4. CASE ~TwoWayIn(s)
  <2>1. W = 1 .. Len(s)
    BY <1>1, <1>4 DEF TwoWayIn
  <2>2. Flow(s) = Len(s)
    BY <1>4, FlowRank
  <2> QED
    BY <1>2, <2>1, <2>2 DEF OneWays
<1> QED
  BY <1>3, <1>4

\* Each request is in one place, and the limit bounds them.
LEMMA ConservedFrom ==
  ASSUME ThriftInv
  PROVE  Conserved
<1> SUFFICES ASSUME client = "up", IsAsync
             PROVE  /\ Requests = OneWays(toServer) + OneWays(worker) + Len(respond_queue_)
                                    + OneWays(toClient) + Discarded
                    /\ Requests <= in_flight_limit_ + 1
  BY DEF Conserved, IsAsync
<1>1. /\ Typed /\ Calling /\ TwoWayOut /\ Upstream /\ Answering /\ Downstream
  BY DEF ThriftInv
<1>2. /\ IsSeq(toServer) /\ IsSeq(worker) /\ IsSeq(toClient)
      /\ Len(handled) \in Nat /\ Len(outcomes) \in Nat /\ Len(answers) \in Nat
      /\ Len(respond_queue_) \in Nat
  BY <1>1, Lengths DEF Typed
<1>3. /\ OneWays(toServer) = Flow(toServer) /\ OneWays(worker) = Flow(worker)
      /\ OneWays(toClient) = Flow(toClient)
  BY <1>1, <1>2, OneWaysFlow DEF TwoWayOut
<1>4. Flow(toServer) \in Nat /\ Flow(worker) \in Nat /\ Flow(toClient) \in Nat
  BY <1>2, FlowRank
<1>5. main.sent = Len(handled) + Flow(worker) + Flow(toServer) + 0
  BY <1>1 DEF Upstream
<1>6. Len(handled) = Len(outcomes) + Len(respond_queue_)
  BY <1>1 DEF Answering
<1>7. Requests = main.sent - Len(answers)
  BY <1>1 DEF Downstream
<1>8. Discarded \in Nat /\ Len(outcomes) = Len(answers) + Flow(toClient) + Discarded
  <2>1. CASE main.id # -1
    BY <1>1, <1>2, <1>4, <2>1 DEF Downstream, Discarded
  <2>2. CASE main.id = -1
    <3>1. Len(answers) = 0 /\ Discarded = Len(outcomes)
      BY <1>1, <2>2, ShortSeq DEF Downstream, Discarded
    <3>2. OneWays(toClient) = 0
      <4>1. \A n \in DOMAIN toClient : toClient[n].mtype # "oneway"
        BY <1>1, <2>2 DEF Downstream, Response
      <4>2. {n \in DOMAIN toClient : toClient[n].mtype = "oneway"} = {}
        BY <4>1
      <4> QED
        BY <4>2, FS_EmptySet DEF OneWays
    <3> QED
      BY <1>2, <1>3, <3>1, <3>2
  <2> QED
    BY <2>1, <2>2
<1>10. Requests = OneWays(toServer) + OneWays(worker) + Len(respond_queue_) + OneWays(toClient)
                    + Discarded
  <2>1. PICK a : a = Len(answers)
    OBVIOUS
  <2>2. PICK c : c = Flow(toClient)
    OBVIOUS
  <2>3. PICK d : d = Discarded
    OBVIOUS
  <2>4. PICK q : q = Len(respond_queue_)
    OBVIOUS
  <2>5. PICK w : w = Flow(worker)
    OBVIOUS
  <2>6. PICK s : s = Flow(toServer)
    OBVIOUS
  <2>7. a \in Nat /\ c \in Nat /\ d \in Nat /\ q \in Nat /\ w \in Nat /\ s \in Nat
    BY <1>2, <1>4, <1>8, <2>1, <2>2, <2>3, <2>4, <2>5, <2>6, Zenon
  <2>8. main.sent = ((a + c + d) + q) + w + s + 0
    BY <1>5, <1>6, <1>8, <2>1, <2>2, <2>3, <2>4, <2>5, <2>6, Zenon
  <2>9. (((a + c + d) + q) + w + s + 0) - a = s + w + q + c + d
    BY <2>7
  <2>10. Requests = s + w + q + c + d
    BY <1>7, <2>1, <2>8, <2>9, Zenon
  <2> QED
    BY <1>3, <2>2, <2>3, <2>4, <2>5, <2>6, <2>10, Zenon
<1>9. Requests <= in_flight_limit_ + 1
  <2>1. requests_ \in 0 .. in_flight_limit_ /\ in_flight_limit_ \in Nat
    BY <1>1, ConnectionAssumption DEF Typed, TypeOK
  <2>2. main.pc = "push" => requests_ < in_flight_limit_
    BY <1>1 DEF Calling
  <2> QED
    BY <2>1, <2>2 DEF Requests
<1> QED
  BY <1>9, <1>10

\* The answers fit the calls they are paired with.
LEMMA AnswersMatchFrom ==
  ASSUME ThriftInv
  PROVE  AnswersMatch
<1>1. Typed /\ Answering /\ Downstream
  BY DEF ThriftInv
<1>2. /\ Len(outcomes) \in Nat /\ DOMAIN outcomes = 1 .. Len(outcomes)
      /\ Len(answers) \in Nat /\ DOMAIN answers = 1 .. Len(answers)
  BY <1>1, Lengths
<1>3. ASSUME NEW n \in DOMAIN answers
      PROVE  /\ answers[n] = [no |-> n - 1, result |-> outcomes[n]]
             /\ Fits(answers[n].result, calls[n])
  <2>1. answers[n] = [no |-> n - 1, result |-> outcomes[n]] /\ Len(answers) <= Len(outcomes)
    BY <1>1 DEF Downstream
  <2>2. n \in DOMAIN outcomes
    BY <1>2, <2>1
  <2>3. Fits(outcomes[n], calls[n])
    BY <1>1, <2>2 DEF Answering
  <2> QED
    BY <2>1, <2>3
<1> QED
  BY <1>3 DEF AnswersMatch

\* The handler has been given a prefix of the calls, each as the program made it.
CallsArrive == Len(handled) <= main.sent /\ \A n \in DOMAIN handled : handled[n] = calls[n]

\* A call is handled after it is sent.
LEMMA CallsArriveFrom ==
  ASSUME ThriftInv
  PROVE  CallsArrive
<1>1. Typed /\ Upstream
  BY DEF ThriftInv
<1>2. Len(handled) \in Nat /\ IsSeq(toServer) /\ IsSeq(worker)
  BY <1>1, Lengths DEF Typed
<1>3. Flow(toServer) \in Nat /\ Flow(worker) \in Nat
  BY <1>2, FlowRank
<1> PICK z : z = IF ~IsAsync /\ (TwoWayIn(worker) \/ TwoWayIn(toServer)) THEN 1 ELSE 0
  OBVIOUS
<1>4. main.sent = Len(handled) + Flow(worker) + Flow(toServer) + z /\ z \in Nat
  BY <1>1 DEF Upstream
<1>5. \A a, b, c, d \in Nat : a <= a + b + c + d
  OBVIOUS
<1> QED
  BY <1>1, <1>2, <1>3, <1>4, <1>5 DEF CallsArrive, Upstream

\* TypeOK: the queue of requests stays within in_flight_limit_, and nothing but methods of
\* the service and messages of the three kinds is on the connection.
THEOREM ConnectionTypes ==
  ASSUME TraceSound
  PROVE  Spec => []TypeOK
<1>1. ThriftInv => TypeOK
  BY DEF ThriftInv, Typed
<1> QED
  BY <1>1, ThriftInvariance, PTL

\* MessagesUnderstood: recv_response and the recv_X of a caller read from one socket and
\* check no name, and still neither reads what is meant for the other, for a program that
\* calls search() only when nothing is unanswered.
THEOREM ReadersDoNotMix ==
  ASSUME TraceSound
  PROVE  Spec => []MessagesUnderstood
<1>1. ThriftInv => MessagesUnderstood
  BY DEF ThriftInv
<1> QED
  BY <1>1, ThriftInvariance, PTL

\* AnswersMatch: read_responses pairs the answers with the calls by position, and the
\* position is right: the n-th answer is what the proxy computed for the n-th call.
THEOREM AnswersInOrder ==
  ASSUME TraceSound
  PROVE  Spec => []AnswersMatch
<1>1. ThriftInv => AnswersMatch
  BY AnswersMatchFrom
<1> QED
  BY <1>1, ThriftInvariance, PTL

\* Conserved: the requests a client counts are exactly the messages and queue entries
\* between it and the responder, and the responses thrown away if its id is -1; they are
\* at most one more than in_flight_limit_.
THEOREM RequestsConserved ==
  ASSUME TraceSound
  PROVE  Spec => []Conserved
<1>1. ThriftInv => Conserved
  BY ConservedFrom
<1> QED
  BY <1>1, ThriftInvariance, PTL

\* CallsArrive: what process_X hands to the handler is what send_X was given, call by call
\* and in the order of the calls, for the four kinds of program.
THEOREM CallsInOrder ==
  ASSUME TraceSound
  PROVE  Spec => []CallsArrive
<1>1. ThriftInv => CallsArrive
  BY CallsArriveFrom
<1> QED
  BY <1>1, ThriftInvariance, PTL
=============================================================================
