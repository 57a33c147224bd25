--------------------------- MODULE CallChannelProofs ----------------------------
(***************************************************************************)
(* The library's calls implement RemoteCall over both transports, and the  *)
(* polling thread leaves the ZeroMQ socket to the main thread, for every   *)
(* number of calls and of restarts of the caller.                          *)
(***************************************************************************)
EXTENDS CallChannel, SequenceTheorems, TLAPS

(***************************************************************************)
(* The socket's owner.  m_allowZmqPoll is cleared before zmq_poll is       *)
(* entered and set only when an answer is sent, so it is clear from the    *)
(* moment the main thread is woken until it has answered; as long as no    *)
(* handler answers twice.                                                  *)
(***************************************************************************)
PollInv ==
    Zmq /\ twice = {} /\ main # "exited" =>
    /\ poll = "poll" => ~m_allowZmqPoll
    /\ m_selectableEvent => poll = "spin" /\ ~m_allowZmqPoll
    /\ main = "handling" => poll = "spin" /\ ~m_allowZmqPoll /\ ~m_selectableEvent

\* The polling thread and the main thread never use the ZeroMQ socket together,
\* up to the second answer to an INSPECT_ASIC of the very first run
\* (ZeroMQSelectableChannel::zmqPollThread, m_allowZmqPoll).
THEOREM SocketHasOneThread == Spec => []OneThreadOnSocket
  <1>1. Init => PollInv
    BY DEF Init, PollInv
  <1>2. PollInv /\ [Next]_vars => PollInv'
    <2> SUFFICES ASSUME PollInv, [Next]_vars PROVE PollInv'
      OBVIOUS
    <2> USE DEF PollInv, Zmq
    <2>1. CASE ClientNext
      BY <2>1 DEF ClientNext, Send, TakeAnswer, TimeOut, ClientRestarts, pollVars, firstRunVars
    <2>2. CASE PollNext
      BY <2>2 DEF PollNext, PollArm, PollIn, PollAgain, PollStep, firstRunVars
    <2>3. CASE TakeNext
      BY <2>3 DEF TakeNext, Take, Redis, pollVars, firstRunVars
    <2>4. CASE Answers \/ Refuses
      BY <2>4 DEF Answers, Refuses, Respond, firstRunVars
    <2>5. CASE Returns \/ Throws \/ Exits \/ Aborts
      BY <2>5 DEF Returns, Throws, Fails, Exits, Aborts, pollVars, firstRunVars
    <2>6. CASE AnswersAgain
      <3>1. twice' # {}
        BY <2>6 DEF AnswersAgain
      <3> QED
        BY <3>1
    <2>7. CASE UNCHANGED vars
      BY <2>7 DEF vars, pollVars, firstRunVars
    <2> QED
      BY <2>1, <2>2, <2>3, <2>4, <2>5, <2>6, <2>7 DEF Next, HandlerNext
  <1>3. PollInv => OneThreadOnSocket
    BY DEF PollInv, OneThreadOnSocket
  <1> QED
    BY <1>1, <1>2, <1>3, PTL DEF Spec

--------------------------------------------------------------------------------
(***************************************************************************)
(* The inductive invariant of the calls.                                   *)
(*                                                                         *)
(* CallsInOrder: calls are made one after the other, none is made while    *)
(* one is pending, and only a call that returned has an answer.            *)
(* TakenOnce: what waits at syncd is no longer there once it is taken, and *)
(* what is answered was handled; a second answer is one syncd has sent.    *)
(* RedisInOrder: answers used, answers queued, the request in hand and the *)
(* requests queued are numbered in this order, a second answer after the   *)
(* first one to the same request.                                          *)
(* ZmqOneInFlight: the current socket carries the request or the answer of *)
(* the pending call, once, and nothing else.                               *)
(***************************************************************************)
Made(i) == call[i].state # "unused"
Rank(j, again) == 2 * j + again
CallRank(i) == Rank(call[i].answer, call[i].again)
AnswerRank(n) == Rank(answers[n].id, answers[n].again)

CallsInOrder ==
    /\ \A i, j \in Ids : i < j /\ call[i].state \in {"unused", "pending"} =>
            call[j].state = "unused"
    /\ \A i \in Ids : call[i].answer <= i
    /\ \A i \in Ids : call[i].state # "answered" => call[i].answer = 0 /\ call[i].again = 0

TakenOnce ==
    /\ \A i \in handled : Made(i)
    /\ twice \subseteq handled
    /\ job # 0 => Made(job)
    /\ \A n \in 1..Len(requests) : /\ Made(requests[n].id)
                                   /\ requests[n].id \notin handled
                                   /\ requests[n].id # job
    /\ \A m, n \in 1..Len(requests) : requests[m].id = requests[n].id => m = n
    /\ \A n \in 1..Len(answers) : /\ answers[n].id \in handled
                                  /\ answers[n].again = 1 => answers[n].id \in twice
    /\ main = "answered" => job # 0 /\ job \in handled
    /\ main = "handling" => /\ job # 0
                            /\ ~inShutdownWaitMode \/ call[job].kind = "notify" => job \in handled

RedisInOrder ==
    Redis =>
    /\ \A m, n \in 1..Len(answers) : m < n => AnswerRank(m) < AnswerRank(n)
    /\ \A m, n \in 1..Len(requests) : m < n => requests[m].id < requests[n].id
    /\ \A i \in Ids : \A n \in 1..Len(answers) : CallRank(i) < AnswerRank(n)
    /\ \A i \in Ids : \A n \in 1..Len(requests) : call[i].answer < requests[n].id
    /\ \A m \in 1..Len(answers), n \in 1..Len(requests) : answers[m].id < requests[n].id
    /\ main = "handling" =>
        /\ \A i \in Ids : call[i].answer < job
        /\ \A n \in 1..Len(answers) : answers[n].id < job
        /\ \A n \in 1..Len(requests) : job < requests[n].id
    /\ main = "answered" =>
        /\ \A i \in Ids : CallRank(i) < Rank(job, 1)
        /\ \A n \in 1..Len(answers) : AnswerRank(n) < Rank(job, 1)
        /\ \A n \in 1..Len(requests) : job < requests[n].id

ZmqOneInFlight ==
    Zmq =>
    /\ m_socket = "recv" => \E i \in Ids : Pending(i)
    /\ \A n \in 1..Len(requests) : requests[n].conn = conn =>
            Pending(requests[n].id) /\ answers = <<>> /\ peer # conn
    /\ peer = conn => job # 0 /\ Pending(job) /\ answers = <<>>
    /\ answers # <<>> => Len(answers) = 1 /\ Pending(answers[1].id) /\ answers[1].again = 0

CallInv == TypeOK /\ CallsInOrder /\ TakenOnce /\ RedisInOrder /\ ZmqOneInFlight

\* What appending and taking the head do to a sequence.
LEMMA AppendFacts ==
    ASSUME NEW S, NEW q \in Seq(S), NEW e \in S
    PROVE  /\ Append(q, e) \in Seq(S)
           /\ Len(Append(q, e)) = Len(q) + 1
           /\ \A i \in 1..Len(q) : Append(q, e)[i] = q[i]
           /\ Append(q, e)[Len(q) + 1] = e
  OBVIOUS

\* What taking the head leaves.
LEMMA TailFacts ==
    ASSUME NEW S, NEW q \in Seq(S), q # << >>
    PROVE  /\ Tail(q) \in Seq(S)
           /\ Len(Tail(q)) = Len(q) - 1
           /\ \A i \in 1..Len(q) - 1 : Tail(q)[i] = q[i + 1]
           /\ Head(q) = q[1]
           /\ 1 \in 1..Len(q)
           /\ q[1] \in S
  OBVIOUS

\* Taking the n-th element out of a sequence leaves the others in their order.
LEMMA RemoveFacts ==
    ASSUME NEW S, NEW q \in Seq(S), NEW n \in 1..Len(q)
    PROVE  /\ RemoveAt(q, n) \in Seq(S)
           /\ Len(RemoveAt(q, n)) = Len(q) - 1
           /\ \A m \in 1..Len(q) - 1 : RemoveAt(q, n)[m] = q[IF m < n THEN m ELSE m + 1]
  <1> DEFINE a == SubSeq(q, 1, n - 1)
             b == SubSeq(q, n + 1, Len(q))
  <1>1. /\ a \in Seq(S)
        /\ Len(a) = n - 1
        /\ \A m \in 1..n - 1 : a[m] = q[m]
    OBVIOUS
  <1>2. /\ b \in Seq(S)
        /\ Len(b) = Len(q) - n
        /\ \A m \in 1..Len(q) - n : b[m] = q[m + n]
    OBVIOUS
  <1>3. RemoveAt(q, n) = a \o b
    BY DEF RemoveAt
  <1> HIDE DEF a, b
  <1>4. /\ a \o b \in Seq(S)
        /\ Len(a \o b) = Len(a) + Len(b)
        /\ \A m \in 1..Len(a) + Len(b) :
              (a \o b)[m] = IF m <= Len(a) THEN a[m] ELSE b[m - Len(a)]
    BY <1>1, <1>2, ConcatProperties
  <1>5. Len(q) \in Nat /\ n \in Nat /\ Len(a) + Len(b) = Len(q) - 1
    BY <1>1, <1>2
  <1>6. ASSUME NEW m \in 1..Len(q) - 1
        PROVE  (a \o b)[m] = q[IF m < n THEN m ELSE m + 1]
    <2>1. CASE m < n
      BY <1>1, <1>4, <1>5, <2>1
    <2>2. CASE ~(m < n)
      <3>1. m - Len(a) \in 1..Len(q) - n /\ (m - Len(a)) + n = m + 1 /\ ~(m <= Len(a))
        BY <1>1, <1>5, <2>2
      <3>2. (a \o b)[m] = b[m - Len(a)] /\ b[m - Len(a)] = q[(m - Len(a)) + n]
        BY <1>2, <1>4, <1>5, <3>1
      <3> QED
        BY <2>2, <3>1, <3>2
    <2> QED
      BY <2>1, <2>2
  <1> QED
    BY <1>3, <1>4, <1>5, <1>6

\* The elements of the two queues.
LEMMA QueueElements ==
    ASSUME TypeOK
    PROVE  /\ Len(requests) \in Nat
           /\ Len(answers) \in Nat
           /\ \A n \in 1..Len(requests) :
                requests[n].id \in Ids /\ requests[n].conn \in 0..conn
           /\ \A n \in 1..Len(answers) :
                /\ answers[n].id \in Ids
                /\ answers[n].id \in Nat
                /\ answers[n].conn \in 0..conn
                /\ answers[n].again \in {0, 1}
  <1> DEFINE Item == [id : Ids, conn : 0..conn]
             AItem == [id : Ids, conn : 0..conn, again : {0, 1}]
  <1>1. requests \in Seq(Item) /\ answers \in Seq(AItem)
    BY DEF TypeOK
  <1>2. /\ \A e \in Item : e.id \in Ids /\ e.conn \in 0..conn
        /\ \A e \in AItem : /\ e.id \in Ids
                            /\ e.id \in Nat
                            /\ e.conn \in 0..conn
                            /\ e.again \in {0, 1}
    BY DEF Ids
  <1> HIDE DEF Item, AItem
  <1>3. \A n \in 1..Len(requests) : requests[n] \in Item
    BY <1>1
  <1>4. \A n \in 1..Len(answers) : answers[n] \in AItem
    BY <1>1
  <1> QED
    BY <1>1, <1>2, <1>3, <1>4

\* The fields of a call.
LEMMA CallElements ==
    ASSUME TypeOK, NEW i \in Ids
    PROVE  /\ i \in Nat \ {0}
           /\ call[i].kind \in Kinds
           /\ call[i].state \in {"unused", "pending", "answered", "gaveup"}
           /\ call[i].answer \in 0..MaxCalls
           /\ call[i].answer \in Nat
           /\ call[i].again \in {0, 1}
  BY BoundAssumption DEF TypeOK, Calls, Ids

\* At most one call is pending.
LEMMA OnePending ==
    ASSUME TypeOK, CallsInOrder, NEW i \in Ids, NEW j \in Ids, Pending(i), Pending(j)
    PROVE  i = j
  BY BoundAssumption DEF CallsInOrder, Pending, Ids

--------------------------------------------------------------------------------
(* set() and wait()                                                        *)

\* set() sends the request of a call with a new number: no call is pending, so
\* over ZeroMQ the REQ socket may send.
LEMMA SendFacts ==
    ASSUME CallInv, NEW i \in Ids, NEW k \in Kinds, Send(i, k)
    PROVE  /\ \A j \in Ids : ~Pending(j)
           /\ \A j \in Ids : Made(j) <=> j < i
           /\ call' = [call EXCEPT ![i] = [kind |-> k, state |-> "pending", answer |-> 0, again |-> 0]]
           /\ requests' = Append(requests, Request(i))
           /\ m_socket' = "recv"
           /\ UNCHANGED <<transport, handled, restarts, conn, answers, main, job, peer, pollVars,
                          m_selectableEvent, modeVars, firstRunVars>>
  BY DEF CallInv, ZmqOneInFlight, Send, Waiting, Made

\* A new call keeps the invariant: its request is the newest of all.
LEMMA SendKeeps ==
    ASSUME CallInv, NEW i \in Ids, NEW k \in Kinds, Send(i, k)
    PROVE  CallInv'
  <1> USE DEF CallInv
  <1>0. /\ \A j \in Ids : ~Pending(j)
        /\ \A j \in Ids : Made(j) <=> j < i
        /\ call' = [call EXCEPT ![i] = [kind |-> k, state |-> "pending", answer |-> 0, again |-> 0]]
        /\ requests' = Append(requests, Request(i))
        /\ m_socket' = "recv"
        /\ UNCHANGED <<transport, handled, restarts, conn, answers, main, job, peer, pollVars,
                       m_selectableEvent, modeVars, firstRunVars>>
    BY SendFacts
  <1> DEFINE item == Request(i)
  <1>1. /\ item \in [id : Ids, conn : 0..conn]
        /\ item.id = i
        /\ Zmq => item.conn = conn
    BY DEF TypeOK, Request
  <1> HIDE DEF item
  <1>2. /\ Len(requests') = Len(requests) + 1
        /\ requests' \in Seq([id : Ids, conn : 0..conn])
        /\ \A n \in 1..Len(requests) : requests'[n] = requests[n]
        /\ requests'[Len(requests) + 1] = item
        /\ \A n \in 1..Len(requests') : n \in 1..Len(requests) \/ n = Len(requests) + 1
    BY <1>0, <1>1, AppendFacts DEF TypeOK, item
  <1>3. /\ call'[i].state = "pending"
        /\ call'[i].answer = 0
        /\ call'[i].again = 0
        /\ \A j \in Ids : j # i => call'[j] = call[j]
        /\ call[i].state = "unused"
    BY <1>0 DEF TypeOK, Ids, Made
  <1>4. TypeOK'
    <2>1. call' \in [Ids -> Calls]
      BY <1>0, BoundAssumption DEF TypeOK, Calls
    <2> QED
      BY <1>2, <2>1, <1>0 DEF TypeOK, pollVars, modeVars, firstRunVars
  <1>5. CallsInOrder'
    BY <1>3, <1>0, BoundAssumption DEF CallsInOrder, Ids, Made, Pending
  <1>6. TakenOnce'
    <2>1. /\ \A j \in Ids : Made(j) => call'[j].state # "unused" /\ j # i /\ call'[j] = call[j]
          /\ call'[i].state # "unused"
      BY <1>3 DEF Made
    <2>2. \A n \in 1..Len(requests) : requests[n].id \in Ids /\ Made(requests[n].id)
      BY QueueElements DEF TakenOnce
    <2>3. i \notin handled /\ i # job /\ i # 0
      BY <1>3 DEF TakenOnce, TypeOK, Made, Ids
    <2>4. \A n \in 1..Len(requests') : /\ call'[requests'[n].id].state # "unused"
                                       /\ requests'[n].id \notin handled'
                                       /\ requests'[n].id # job'
      <3> SUFFICES ASSUME NEW n \in 1..Len(requests')
                   PROVE  /\ call'[requests'[n].id].state # "unused"
                          /\ requests'[n].id \notin handled'
                          /\ requests'[n].id # job'
        OBVIOUS
      <3>1. CASE n \in 1..Len(requests)
        BY <1>0, <1>2, <2>1, <2>2, <3>1 DEF TakenOnce
      <3>2. CASE n = Len(requests) + 1
        BY <1>0, <1>1, <1>2, <2>1, <2>3, <3>2
      <3> QED
        BY <1>2, <3>1, <3>2, QueueElements
    <2>5. \A m, n \in 1..Len(requests') : requests'[m].id = requests'[n].id => m = n
      <3>1. \A n \in 1..Len(requests) : requests[n].id # item.id
        BY <1>1, <1>3, <2>2 DEF Made
      <3>2. \A m, n \in 1..Len(requests) : requests[m].id = requests[n].id => m = n
        BY DEF TakenOnce
      <3> QED
        BY <1>2, <3>1, <3>2
    <2>6. (job # 0 => Made(job))' /\ (\A j \in handled : Made(j))' /\ UNCHANGED twice
      BY <2>1, <1>0 DEF TakenOnce, TypeOK, Ids, Made, firstRunVars
    <2>7. (main = "handling" =>
              /\ job # 0
              /\ ~inShutdownWaitMode \/ call[job].kind = "notify" => job \in handled)'
      BY <2>1, <1>0 DEF TakenOnce, TypeOK, Ids, modeVars
    <2> QED
      BY <2>4, <2>5, <2>6, <2>7, <1>0 DEF TakenOnce, Made
  <1>7. RedisInOrder'
    <2> SUFFICES ASSUME Redis PROVE RedisInOrder'
      BY <1>0 DEF RedisInOrder, Redis
    <2>1. \A n \in 1..Len(requests) : requests[n].id \in Ids /\ requests[n].id < i
      BY <1>0, QueueElements DEF TakenOnce, Made
    <2>2. \A n \in 1..Len(answers) : answers[n].id \in Ids /\ answers[n].id < i
      BY <1>0, QueueElements DEF TakenOnce, Made
    <2>3. \A j \in Ids : call[j].answer \in Nat /\ call[j].answer < i
      BY <1>0, CallElements DEF CallsInOrder, Made
    <2>4. \A j \in Ids : call'[j].answer = call[j].answer /\ call'[j].again = call[j].again
      BY <1>3 DEF CallsInOrder
    <2>5. main = "handling" => job \in Ids /\ job < i
      BY <1>0 DEF TakenOnce, TypeOK, Ids, Made
    <2>6. \A m, n \in 1..Len(requests') : m < n => requests'[m].id < requests'[n].id
      <3> SUFFICES ASSUME NEW m \in 1..Len(requests'), NEW n \in 1..Len(requests'), m < n
                   PROVE  requests'[m].id < requests'[n].id
        OBVIOUS
      <3>1. m \in 1..Len(requests)
        BY <1>2, QueueElements
      <3>2. CASE n \in 1..Len(requests)
        BY <1>2, <3>1, <3>2 DEF RedisInOrder
      <3>3. CASE n = Len(requests) + 1
        BY <1>1, <1>2, <2>1, <3>1, <3>3
      <3> QED
        BY <1>2, <3>2, <3>3
    <2>7. \A j \in Ids : \A n \in 1..Len(requests') : call'[j].answer < requests'[n].id
      <3> SUFFICES ASSUME NEW j \in Ids, NEW n \in 1..Len(requests')
                   PROVE  call'[j].answer < requests'[n].id
        OBVIOUS
      <3>1. CASE n \in 1..Len(requests)
        BY <1>2, <2>4, <3>1 DEF RedisInOrder
      <3>2. CASE n = Len(requests) + 1
        BY <1>1, <1>2, <2>3, <2>4, <3>2
      <3> QED
        BY <1>2, <3>1, <3>2
    <2>8. /\ \A j \in Ids : CallRank(j)' = CallRank(j)
          /\ \A n \in 1..Len(answers) : AnswerRank(n)' = AnswerRank(n)
      BY <2>4, <1>0 DEF CallRank, AnswerRank
    <2>9. \A m \in 1..Len(answers), n \in 1..Len(requests') : answers[m].id < requests'[n].id
      BY <1>1, <1>2, <2>2, QueueElements DEF RedisInOrder
    <2>10. main = "handling" =>
              /\ \A j \in Ids : call'[j].answer < job
              /\ \A n \in 1..Len(requests') : job < requests'[n].id
      <3>1. main = "handling" => \A j \in Ids : call'[j].answer < job
        BY <2>3, <2>4, <2>5 DEF RedisInOrder, Ids
      <3>2. main = "handling" => \A n \in 1..Len(requests') : job < requests'[n].id
        BY <1>1, <1>2, <2>5 DEF RedisInOrder
      <3> QED
        BY <3>1, <3>2
    <2>11. main = "answered" => \A n \in 1..Len(requests') : job < requests'[n].id
      BY <1>0, <1>1, <1>2 DEF RedisInOrder, TakenOnce, TypeOK, Made
    <2> QED
      BY <2>6, <2>7, <2>8, <2>9, <2>10, <2>11, <1>0 DEF RedisInOrder, Rank
  <1>8. ZmqOneInFlight'
    <2> SUFFICES ASSUME Zmq PROVE ZmqOneInFlight'
      BY <1>0 DEF ZmqOneInFlight, Zmq
    <2>1. \A n \in 1..Len(requests) : requests[n].conn # conn
      BY <1>0, QueueElements DEF ZmqOneInFlight
    <2>2. peer # conn
      BY <1>0 DEF ZmqOneInFlight, TypeOK, Ids
    <2>3. answers = <<>>
      BY <1>0, QueueElements DEF ZmqOneInFlight
    <2>4. call'[i].state = "pending"
      BY <1>3
    <2>5. \A n \in 1..Len(requests') : requests'[n].conn = conn =>
              call'[requests'[n].id].state = "pending" /\ answers = <<>> /\ peer # conn
      BY <1>1, <1>2, <2>1, <2>2, <2>3, <2>4, QueueElements
    <2> QED
      BY <2>2, <2>3, <2>4, <2>5, <1>0 DEF ZmqOneInFlight, Pending
  <1> QED
    BY <1>4, <1>5, <1>6, <1>7, <1>8

\* wait() returns with the oldest answer queued, or drops it over redis because
\* it is of another kind.  Over ZeroMQ it is the answer to the pending call.
LEMMA TakeAnswerFacts ==
    ASSUME CallInv, NEW i \in Ids, TakeAnswer(i)
    PROVE  LET j == answers[1].id IN
           /\ Pending(i)
           /\ 1 \in 1..Len(answers)
           /\ j \in handled
           /\ j \in Ids
           /\ j <= i
           /\ answers[1].again \in {0, 1}
           /\ answers[1].again = 1 => j \in twice
           /\ Zmq => j = i /\ answers[1].again = 0
           /\ \/ /\ call[j].kind = call[i].kind
                 /\ call' = [call EXCEPT ![i].state = "answered", ![i].answer = j,
                                         ![i].again = answers[1].again]
              \/ /\ Redis
                 /\ call' = call
  <1> USE DEF CallInv
  <1> DEFINE j == answers[1].id
  <1>1. Pending(i) /\ answers # <<>>
    BY DEF TakeAnswer
  <1>2. 1 \in 1..Len(answers) /\ Head(answers) = answers[1]
    BY <1>1, TailFacts DEF TypeOK
  <1>3. /\ j \in handled
        /\ j \in Ids
        /\ Made(j)
        /\ answers[1].again \in {0, 1}
        /\ answers[1].again = 1 => j \in twice
    BY <1>2, QueueElements DEF TakenOnce
  <1>4. j <= i
    BY <1>1, <1>3, BoundAssumption DEF CallsInOrder, Pending, Made, Ids
  <1>5. Zmq => j = i /\ answers[1].again = 0
    BY <1>1, <1>3, OnePending DEF ZmqOneInFlight
  <1>6. CASE call[j].kind = call[i].kind
    <2>1. call' = [call EXCEPT ![i].state = "answered", ![i].answer = j,
                               ![i].again = answers[1].again]
      BY <1>2, <1>6 DEF TakeAnswer
    <2> QED
      BY <1>1, <1>2, <1>3, <1>4, <1>5, <1>6, <2>1
  <1>7. CASE call[j].kind # call[i].kind
    <2>1. Redis
      BY <1>5, <1>7 DEF TypeOK, Zmq, Redis
    <2>2. call' = [call EXCEPT ![i].state = "pending", ![i].answer = 0, ![i].again = 0]
      BY <1>2, <1>7, <2>1 DEF TakeAnswer
    <2>3. call[i].state = "pending" /\ call[i].answer = 0 /\ call[i].again = 0
      BY <1>1 DEF CallsInOrder, Pending
    <2>4. call' = call
      BY <2>2, <2>3 DEF TypeOK, Calls
    <2> QED
      BY <1>1, <1>2, <1>3, <1>4, <1>5, <2>1, <2>4
  <1> QED
    BY <1>6, <1>7

\* An answer that is taken leaves the newer ones.
LEMMA TakeAnswerKeeps ==
    ASSUME CallInv, NEW i \in Ids, TakeAnswer(i)
    PROVE  CallInv'
  <1> USE DEF CallInv
  <1> DEFINE j == answers[1].id
             again == answers[1].again
  <1>0. /\ Pending(i)
        /\ 1 \in 1..Len(answers)
        /\ j \in handled
        /\ j \in Ids
        /\ j <= i
        /\ again \in {0, 1}
        /\ \/ call' = [call EXCEPT ![i].state = "answered", ![i].answer = j, ![i].again = again]
           \/ Redis /\ call' = call
    BY TakeAnswerFacts
  <1>1. /\ answers # <<>>
        /\ answers' = Tail(answers)
        /\ m_socket' = "send"
        /\ UNCHANGED <<transport, handled, restarts, conn, requests, main, job, peer, pollVars,
                       m_selectableEvent, modeVars, firstRunVars>>
    BY DEF TakeAnswer
  <1>2. /\ answers' \in Seq([id : Ids, conn : 0..conn, again : {0, 1}])
        /\ Len(answers') = Len(answers) - 1
        /\ \A n \in 1..Len(answers') : answers'[n] = answers[n + 1] /\ n + 1 \in 1..Len(answers)
    BY <1>1, TailFacts DEF TypeOK
  <1>3. /\ call' \in [Ids -> Calls]
        /\ \A x \in Ids : /\ call'[x].kind = call[x].kind
                          /\ x # i => call'[x] = call[x]
        /\ \/ call'[i].state = "answered" /\ call'[i].answer = j /\ call'[i].again = again
           \/ Redis /\ call'[i].state = "pending" /\ call'[i].answer = 0 /\ call'[i].again = 0
    <2> HIDE DEF j, again
    <2>1. CASE call' = [call EXCEPT ![i].state = "answered", ![i].answer = j, ![i].again = again]
      <3>1. j \in 0..MaxCalls
        BY <1>0, BoundAssumption DEF Ids
      <3>2. call \in [Ids -> Calls] /\ again \in {0, 1}
        BY <1>0 DEF TypeOK
      <3> QED
        BY <2>1, <3>1, <3>2 DEF Calls
    <2>2. CASE Redis /\ call' = call
      BY <1>0, <2>2 DEF TypeOK, CallsInOrder, Pending
    <2> QED
      BY <1>0, <2>1, <2>2
  <1> HIDE DEF j, again
  <1>4. TypeOK'
    BY <1>1, <1>2, <1>3 DEF TypeOK, pollVars, modeVars, firstRunVars
  <1>5. CallsInOrder'
    <2>1. \A x \in Ids : x # i => call'[x] = call[x]
      BY <1>3
    <2>2. /\ call[i].state = "pending"
          /\ call'[i].state \in {"pending", "answered"}
          /\ call'[i].answer <= i
          /\ call'[i].state # "answered" => call'[i].answer = 0 /\ call'[i].again = 0
      BY <1>0, <1>3, CallElements DEF Pending
    <2> QED
      BY <2>1, <2>2 DEF CallsInOrder
  <1>6. TakenOnce'
    <2>1. \A x \in Ids : Made(x) => call'[x].state # "unused"
      BY <1>3 DEF Made
    <2>2. job \in Ids \/ job = 0
      BY DEF TypeOK, Ids
    <2>3. \A n \in 1..Len(answers') : /\ answers'[n].id \in handled
                                      /\ answers'[n].again = 1 => answers'[n].id \in twice
      BY <1>2 DEF TakenOnce
    <2>4. \A n \in 1..Len(requests) : call'[requests[n].id].state # "unused"
      BY <2>1, QueueElements DEF TakenOnce
    <2>5. \A x \in handled : call'[x].state # "unused"
      BY <2>1 DEF TakenOnce, TypeOK
    <2>6. job # 0 => call'[job].state # "unused" /\ call'[job].kind = call[job].kind
      BY <2>1, <2>2, <1>3 DEF TakenOnce
    <2> QED
      BY <1>1, <2>3, <2>4, <2>5, <2>6 DEF TakenOnce, Made, modeVars, firstRunVars
  <1>7. RedisInOrder'
    <2> SUFFICES ASSUME Redis PROVE RedisInOrder'
      BY <1>1 DEF RedisInOrder, Redis
    <2>1. \A x \in Ids : \/ /\ call'[x].answer = call[x].answer
                          /\ call'[x].again = call[x].again
                       \/ /\ call'[x].answer = j
                          /\ call'[x].again = again
      BY <1>0, <1>3 DEF CallsInOrder, Pending
    <2>2. /\ \A x \in Ids : CallRank(x)' = CallRank(x) \/ CallRank(x)' = AnswerRank(1)
          /\ \A n \in 1..Len(answers') : AnswerRank(n)' = AnswerRank(n + 1)
      BY <1>2, <2>1 DEF CallRank, AnswerRank, j, again
    <2>3. \A m, n \in 1..Len(answers') : m < n => AnswerRank(m)' < AnswerRank(n)'
      <3> SUFFICES ASSUME NEW m \in 1..Len(answers'), NEW n \in 1..Len(answers'), m < n
                   PROVE  AnswerRank(m + 1) < AnswerRank(n + 1)
        BY <2>2
      <3> QED
        BY <1>2 DEF RedisInOrder
    <2>4. \A x \in Ids : \A n \in 1..Len(answers') : CallRank(x)' < AnswerRank(n)'
      <3> SUFFICES ASSUME NEW x \in Ids, NEW n \in 1..Len(answers')
                   PROVE  CallRank(x)' < AnswerRank(n + 1)
        BY <2>2
      <3>1. n + 1 \in 1..Len(answers) /\ 1 < n + 1
        BY <1>2
      <3>2. AnswerRank(1) < AnswerRank(n + 1) /\ CallRank(x) < AnswerRank(n + 1)
        BY <1>0, <3>1 DEF RedisInOrder
      <3> QED
        BY <2>2, <3>2
    <2>5. \A x \in Ids : \A n \in 1..Len(requests) : call'[x].answer < requests[n].id
      BY <1>0, <2>1 DEF RedisInOrder, j
    <2>6. \A m \in 1..Len(answers'), n \in 1..Len(requests) : answers'[m].id < requests[n].id
      BY <1>2 DEF RedisInOrder
    <2>7. main = "handling" =>
              /\ \A x \in Ids : call'[x].answer < job
              /\ \A n \in 1..Len(answers') : answers'[n].id < job
      BY <1>0, <1>2, <2>1 DEF RedisInOrder, j
    <2>8. main = "answered" =>
              /\ \A x \in Ids : CallRank(x)' < Rank(job, 1)
              /\ \A n \in 1..Len(answers') : AnswerRank(n)' < Rank(job, 1)
      BY <1>0, <1>2, <2>2 DEF RedisInOrder
    <2> QED
      BY <1>1, <2>3, <2>4, <2>5, <2>6, <2>7, <2>8 DEF RedisInOrder, Rank
  <1>8. ZmqOneInFlight'
    <2> SUFFICES ASSUME Zmq PROVE ZmqOneInFlight'
      BY <1>1 DEF ZmqOneInFlight, Zmq
    <2>1. answers' = <<>>
      <3>1. Len(answers') = 0
        BY <1>1, <1>2 DEF ZmqOneInFlight
      <3> QED
        BY <1>2, <3>1, EmptySeq
    <2>2. peer # conn /\ \A n \in 1..Len(requests) : requests[n].conn # conn
      BY <1>1 DEF ZmqOneInFlight
    <2> QED
      BY <1>1, <2>1, <2>2 DEF ZmqOneInFlight
  <1> QED
    BY <1>4, <1>5, <1>6, <1>7, <1>8

\* A timeout and a restart of the caller give the pending call up, and over
\* ZeroMQ open a socket to which nothing is on its way.
GivesUp ==
    /\ call' \in [Ids -> Calls]
    /\ \A x \in Ids : /\ call'[x].kind = call[x].kind
                      /\ call'[x].answer = call[x].answer
                      /\ call'[x].again = call[x].again
                      /\ call'[x].state = IF Pending(x) THEN "gaveup" ELSE call[x].state
    /\ NewSocket
    /\ restarts' \in 0..MaxRestart
    /\ UNCHANGED <<transport, handled, requests, main, job, peer, pollVars, m_selectableEvent,
                   modeVars, firstRunVars>>

\* What a timeout and a restart of the caller have in common.
LEMMA GiveUpFacts ==
    ASSUME CallInv, ClientRestarts \/ \E i \in Ids : TimeOut(i)
    PROVE  GivesUp
  <1> USE DEF CallInv
  <1>1. CASE ClientRestarts
    <2>1. /\ call' \in [Ids -> Calls]
          /\ \A x \in Ids : /\ call'[x].kind = call[x].kind
                            /\ call'[x].answer = call[x].answer
                            /\ call'[x].again = call[x].again
                            /\ call'[x].state = IF Pending(x) THEN "gaveup" ELSE call[x].state
      BY <1>1 DEF ClientRestarts, TypeOK, Calls
    <2>2. restarts' \in 0..MaxRestart
      BY <1>1, BoundAssumption DEF ClientRestarts, TypeOK
    <2> QED
      BY <1>1, <2>1, <2>2 DEF ClientRestarts, GivesUp
  <1>2. ASSUME NEW i \in Ids, TimeOut(i) PROVE GivesUp
    <2>1. call' = [call EXCEPT ![i].state = "gaveup"]
      BY <1>2 DEF TimeOut
    <2>2. \A x \in Ids : Pending(x) <=> x = i
      BY <1>2, OnePending DEF TimeOut
    <2>3. /\ call' \in [Ids -> Calls]
          /\ \A x \in Ids : /\ call'[x].kind = call[x].kind
                            /\ call'[x].answer = call[x].answer
                            /\ call'[x].again = call[x].again
                            /\ call'[x].state = IF x = i THEN "gaveup" ELSE call[x].state
      BY <2>1 DEF TypeOK, Calls
    <2>4. restarts' \in 0..MaxRestart
      BY <1>2 DEF TimeOut, TypeOK
    <2> QED
      BY <1>2, <2>2, <2>3, <2>4 DEF TimeOut, GivesUp
  <1> QED
    BY <1>1, <1>2

\* Giving up keeps the invariant: what is still under way is late from now on.
LEMMA GiveUpKeeps ==
    ASSUME CallInv, GivesUp
    PROVE  CallInv'
  <1> USE DEF CallInv
  <1>1. /\ \A x \in Ids : /\ call'[x].kind = call[x].kind
                          /\ call'[x].answer = call[x].answer
                          /\ call'[x].again = call[x].again
                          /\ call'[x].state = IF Pending(x) THEN "gaveup" ELSE call[x].state
        /\ conn' \in Nat \ {0}
        /\ conn' >= conn
        /\ Zmq => conn' > conn
        /\ m_socket' = "send"
        /\ Zmq => answers' = <<>>
        /\ Redis => answers' = answers
        /\ UNCHANGED <<transport, handled, requests, main, job, peer, modeVars, firstRunVars>>
    BY DEF GivesUp, NewSocket, TypeOK, Redis, Zmq
  <1>2. answers' = answers \/ answers' = <<>>
    BY <1>1 DEF TypeOK, Redis, Zmq
  <1>3. TypeOK'
    <2> DEFINE Old == [id : Ids, conn : 0..conn]
               New == [id : Ids, conn : 0..conn']
               OldAnswer == [id : Ids, conn : 0..conn, again : {0, 1}]
               NewAnswer == [id : Ids, conn : 0..conn', again : {0, 1}]
    <2>1. Old \subseteq New /\ OldAnswer \subseteq NewAnswer
      BY <1>1 DEF TypeOK
    <2>2. requests \in Seq(Old) /\ answers \in Seq(OldAnswer)
      BY DEF TypeOK
    <2> HIDE DEF Old, New, OldAnswer, NewAnswer
    <2>3. requests \in Seq(New) /\ answers \in Seq(NewAnswer) /\ <<>> \in Seq(NewAnswer)
      BY <2>1, <2>2, SeqMonotonic
    <2>4. requests' \in Seq([id : Ids, conn : 0..conn'])
      BY <1>1, <2>3 DEF New
    <2>5. answers' \in Seq([id : Ids, conn : 0..conn', again : {0, 1}])
      BY <1>2, <2>3 DEF NewAnswer
    <2>6. peer' \in 0..conn'
      BY <1>1 DEF TypeOK
    <2> QED
      BY <1>1, <2>4, <2>5, <2>6 DEF GivesUp, TypeOK, pollVars, modeVars, firstRunVars
  <1>4. CallsInOrder'
    BY <1>1, CallElements DEF CallsInOrder, Pending
  <1>5. TakenOnce'
    <2>1. \A x \in Ids : Made(x) => call'[x].state # "unused"
      BY <1>1 DEF Made
    <2>2. job \in Ids \/ job = 0
      BY DEF TypeOK, Ids
    <2>3. \A n \in 1..Len(answers') : /\ answers'[n].id \in handled
                                      /\ answers'[n].again = 1 => answers'[n].id \in twice
      BY <1>2 DEF TakenOnce
    <2>4. \A n \in 1..Len(requests) : call'[requests[n].id].state # "unused"
      BY <2>1, QueueElements DEF TakenOnce
    <2>5. \A x \in handled : call'[x].state # "unused"
      BY <2>1 DEF TakenOnce, TypeOK
    <2>6. job # 0 => call'[job].state # "unused" /\ call'[job].kind = call[job].kind
      BY <2>1, <2>2, <1>1 DEF TakenOnce
    <2> QED
      BY <1>1, <2>3, <2>4, <2>5, <2>6 DEF TakenOnce, Made, modeVars, firstRunVars
  <1>6. RedisInOrder'
    <2>1. /\ \A x \in Ids : CallRank(x)' = CallRank(x)
          /\ Redis => \A n \in 1..Len(answers) : AnswerRank(n)' = AnswerRank(n)
      BY <1>1 DEF CallRank, AnswerRank
    <2> QED
      BY <1>1, <2>1 DEF RedisInOrder, Redis, Rank
  <1>7. ZmqOneInFlight'
    <2> SUFFICES ASSUME Zmq PROVE ZmqOneInFlight'
      BY <1>1 DEF ZmqOneInFlight, Zmq
    <2>1. peer # conn'
      BY <1>1 DEF TypeOK
    <2>2. \A n \in 1..Len(requests) : requests[n].conn # conn'
      BY <1>1, QueueElements DEF TypeOK
    <2> QED
      BY <1>1, <2>1, <2>2 DEF ZmqOneInFlight
  <1> QED
    BY <1>3, <1>4, <1>5, <1>6, <1>7

--------------------------------------------------------------------------------
(* readData(), pop() and set() in syncd                                    *)

\* Taking a request out of the queue leaves the others in their order; over
\* ZeroMQ at most one of them is for the current socket.
LEMMA TakeKeeps ==
    ASSUME CallInv, NEW n \in Ids, Take(n)
    PROVE  CallInv'
  <1> USE DEF CallInv
  <1> DEFINE place(m) == IF m < n THEN m ELSE m + 1
  <1>0. /\ n \in 1..Len(requests)
        /\ Redis => n = 1
        /\ job' = requests[n].id
        /\ peer' = requests[n].conn
        /\ requests' = RemoveAt(requests, n)
        /\ handled' = IF inShutdownWaitMode /\ call[requests[n].id].kind # "notify" THEN handled
                      ELSE handled \cup {requests[n].id}
        /\ m_selectableEvent' = FALSE
        /\ main' = "handling"
        /\ UNCHANGED <<transport, clientVars, answers, pollVars, modeVars, firstRunVars>>
    BY DEF Take
  <1>1. /\ requests' \in Seq([id : Ids, conn : 0..conn])
        /\ Len(requests') = Len(requests) - 1
        /\ \A m \in 1..Len(requests) - 1 : requests'[m] = requests[place(m)]
    BY <1>0, RemoveFacts DEF TypeOK
  <1>2. \A m \in 1..Len(requests') :
            /\ place(m) \in 1..Len(requests)
            /\ place(m) # n
            /\ requests'[m] = requests[place(m)]
            /\ \A k \in 1..Len(requests') : /\ m < k <=> place(m) < place(k)
                                            /\ m = k <=> place(m) = place(k)
    <2> SUFFICES ASSUME NEW m \in 1..Len(requests')
                 PROVE  /\ place(m) \in 1..Len(requests)
                        /\ place(m) # n
                        /\ requests'[m] = requests[place(m)]
                        /\ \A k \in 1..Len(requests') : /\ m < k <=> place(m) < place(k)
                                                        /\ m = k <=> place(m) = place(k)
      OBVIOUS
    <2>1. Len(requests) \in Nat /\ n \in Nat /\ m \in 1..Len(requests) - 1
      BY <1>0, <1>1, QueueElements
    <2>2. requests'[m] = requests[place(m)]
      BY <1>1, <2>1
    <2>3. place(m) \in 1..Len(requests) /\ place(m) # n
      BY <1>0, <2>1
    <2>4. \A k \in 1..Len(requests') : /\ m < k <=> place(m) < place(k)
                                       /\ m = k <=> place(m) = place(k)
      BY <1>1, <2>1
    <2> QED
      BY <2>2, <2>3, <2>4
  <1> HIDE DEF place
  <1>3. requests[n].id \in Ids /\ requests[n].conn \in 0..conn /\ Made(requests[n].id)
    BY <1>0, QueueElements DEF TakenOnce
  <1>4. TypeOK'
    <2>1. requests' \in Seq([id : Ids, conn : 0..conn'])
      BY <1>0, <1>1 DEF clientVars
    <2>2. answers' \in Seq([id : Ids, conn : 0..conn', again : {0, 1}])
      BY <1>0 DEF clientVars, TypeOK
    <2>3. handled' \subseteq Ids /\ job' \in 0..MaxCalls /\ peer' \in 0..conn'
      <3>1. handled' = handled \/ handled' = handled \cup {requests[n].id}
        BY <1>0
      <3>2. job' \in 0..MaxCalls
        BY <1>0, <1>3, BoundAssumption DEF Ids
      <3>3. handled' \subseteq Ids
        BY <1>3, <3>1 DEF TypeOK
      <3> QED
        BY <1>0, <1>3, <3>2, <3>3 DEF clientVars
    <2> QED
      BY <1>0, <2>1, <2>2, <2>3 DEF TypeOK, clientVars, pollVars, modeVars, firstRunVars
  <1>5. CallsInOrder'
    BY <1>0 DEF CallsInOrder, clientVars
  <1>6. TakenOnce'
    <2>1. \A m \in 1..Len(requests') : /\ Made(requests'[m].id)
                                       /\ requests'[m].id \notin handled
                                       /\ requests'[m].id # requests[n].id
      BY <1>0, <1>2 DEF TakenOnce
    <2>2. \A m, k \in 1..Len(requests') : requests'[m].id = requests'[k].id => m = k
      BY <1>2 DEF TakenOnce
    <2>3. job' # 0
      BY <1>0, <1>3 DEF Ids
    <2>4. \A x \in handled' : Made(x)
      BY <1>0, <1>3 DEF TakenOnce
    <2> QED
      BY <1>0, <1>3, <2>1, <2>2, <2>3, <2>4 DEF TakenOnce, Made, clientVars, modeVars, firstRunVars
  <1>7. RedisInOrder'
    <2> SUFFICES ASSUME Redis PROVE RedisInOrder'
      BY <1>0 DEF RedisInOrder, Redis
    <2>1. n = 1 /\ \A m \in 1..Len(requests') : n < place(m)
      BY <1>0, <1>2
    <2>2. \A m \in 1..Len(requests') : requests[n].id < requests'[m].id
      BY <1>0, <1>2, <2>1 DEF RedisInOrder
    <2>3. \A m, k \in 1..Len(requests') : m < k => requests'[m].id < requests'[k].id
      <3>0. \A m \in 1..Len(requests') : requests'[m] = requests[place(m)]
        BY <1>2
      <3> SUFFICES ASSUME NEW m \in 1..Len(requests'), NEW k \in 1..Len(requests'), m < k
                   PROVE  requests[place(m)].id < requests[place(k)].id
        BY <3>0
      <3>1. /\ place(m) \in 1..Len(requests)
            /\ place(k) \in 1..Len(requests)
            /\ place(m) < place(k)
        BY <1>2
      <3> QED
        BY <3>1 DEF RedisInOrder
    <2>4. \A x \in Ids : \A m \in 1..Len(requests') : call[x].answer < requests'[m].id
      BY <1>2 DEF RedisInOrder
    <2>5. \A k \in 1..Len(answers), m \in 1..Len(requests') : answers[k].id < requests'[m].id
      BY <1>2 DEF RedisInOrder
    <2>6. /\ \A x \in Ids : CallRank(x)' = CallRank(x)
          /\ \A m \in 1..Len(answers) : AnswerRank(m)' = AnswerRank(m)
      BY <1>0 DEF CallRank, AnswerRank, clientVars
    <2> QED
      BY <1>0, <2>2, <2>3, <2>4, <2>5, <2>6 DEF RedisInOrder, clientVars
  <1>8. ZmqOneInFlight'
    <2> SUFFICES ASSUME Zmq PROVE ZmqOneInFlight'
      BY <1>0 DEF ZmqOneInFlight, Zmq
    <2>1. ASSUME NEW m \in 1..Len(requests'), requests'[m].conn = conn
          PROVE  Pending(requests'[m].id) /\ answers = <<>> /\ requests[n].conn # conn
      <3>1. Pending(requests'[m].id) /\ answers = <<>>
        BY <1>2, <2>1 DEF ZmqOneInFlight
      <3>2. requests'[m].id # requests[n].id /\ requests'[m].id \in Ids
        BY <1>0, <1>2, QueueElements DEF TakenOnce
      <3>3. requests[n].conn = conn => Pending(requests[n].id)
        BY <1>0 DEF ZmqOneInFlight
      <3> QED
        BY <1>3, <3>1, <3>2, <3>3, OnePending
    <2>2. requests[n].conn = conn => Pending(requests[n].id) /\ answers = <<>>
      BY <1>0 DEF ZmqOneInFlight
    <2>3. requests[n].id # 0
      BY <1>3 DEF Ids
    <2> QED
      BY <1>0, <2>1, <2>2, <2>3 DEF ZmqOneInFlight, Pending, clientVars
  <1> QED
    BY <1>4, <1>5, <1>6, <1>7, <1>8

\* While syncd handles a request over redis, all answers are to older ones.
LEMMA RanksBelow ==
    ASSUME TypeOK, RedisInOrder, Redis, main = "handling"
    PROVE  /\ \A x \in Ids : CallRank(x) < Rank(job, 0) /\ CallRank(x) < Rank(job, 1)
           /\ \A n \in 1..Len(answers) : AnswerRank(n) < Rank(job, 0) /\ AnswerRank(n) < Rank(job, 1)
  <1>0. job \in Nat
    BY DEF TypeOK
  <1>1. ASSUME NEW x \in Ids
        PROVE  CallRank(x) < Rank(job, 0) /\ CallRank(x) < Rank(job, 1)
    <2>1. call[x].answer < job /\ call[x].answer \in Nat /\ call[x].again \in {0, 1}
      BY CallElements DEF RedisInOrder
    <2> QED
      BY <1>0, <2>1 DEF CallRank, Rank
  <1>2. ASSUME NEW n \in 1..Len(answers)
        PROVE  AnswerRank(n) < Rank(job, 0) /\ AnswerRank(n) < Rank(job, 1)
    <2>1. answers[n].id < job /\ answers[n].id \in Nat /\ answers[n].again \in {0, 1}
      BY QueueElements DEF RedisInOrder
    <2> QED
      BY <1>0, <2>1 DEF AnswerRank, Rank
  <1> QED
    BY <1>1, <1>2

\* An answer is queued behind the older ones over redis, and goes to an empty
\* socket over ZeroMQ.
LEMMA RespondKeeps ==
    ASSUME CallInv, main = "handling", job \in handled, Respond,
           main' \in {"select", "answered"}, m_veryFirstRun' \in BOOLEAN,
           UNCHANGED <<transport, clientVars, handled, twice, requests, job, poll,
                       m_selectableEvent, modeVars>>
    PROVE  CallInv'
  <1> USE DEF CallInv
  <1> DEFINE item == Answer(0)
  <1>0. /\ \/ answers' = Append(answers, item) /\ (Zmq => peer = conn)
           \/ answers' = answers
        /\ peer' = 0
        /\ m_allowZmqPoll' \in BOOLEAN
    BY DEF Respond, TypeOK
  <1>1. item \in [id : Ids, conn : 0..conn, again : {0, 1}] /\ item.id = job /\ item.again = 0
    BY DEF TypeOK, Answer
  <1>2. \A x \in Ids : CallRank(x)' = CallRank(x)
    BY DEF CallRank, clientVars
  <1>3. job \in Nat /\ job # 0
    BY DEF TypeOK, Ids
  <1> HIDE DEF item
  <1>4. CASE answers' = Append(answers, item) /\ (Zmq => peer = conn)
    <2>1. /\ answers' \in Seq([id : Ids, conn : 0..conn, again : {0, 1}])
          /\ Len(answers') = Len(answers) + 1
          /\ \A n \in 1..Len(answers) : answers'[n] = answers[n]
          /\ answers'[Len(answers) + 1] = item
          /\ \A n \in 1..Len(answers') : n \in 1..Len(answers) \/ n = Len(answers) + 1
      BY <1>1, <1>4, AppendFacts DEF TypeOK
    <2>2. TypeOK'
      BY <1>0, <2>1 DEF TypeOK, clientVars, modeVars
    <2>3. CallsInOrder'
      BY DEF CallsInOrder, clientVars
    <2>4. TakenOnce'
      <3>1. \A n \in 1..Len(answers') : /\ answers'[n].id \in handled
                                        /\ answers'[n].again = 1 => answers'[n].id \in twice
        BY <1>1, <2>1 DEF TakenOnce
      <3> QED
        BY <3>1 DEF TakenOnce, Made, clientVars
    <2>5. RedisInOrder'
      <3> SUFFICES ASSUME Redis PROVE RedisInOrder'
        BY DEF RedisInOrder, Redis
      <3>0. /\ \A n \in 1..Len(answers) : AnswerRank(n)' = AnswerRank(n)
            /\ \A n \in 1..Len(answers') : n = Len(answers) + 1 => AnswerRank(n)' = Rank(job, 0)
        BY <1>1, <2>1 DEF AnswerRank
      <3>1. /\ \A x \in Ids : CallRank(x) < Rank(job, 0)
            /\ \A n \in 1..Len(answers) : AnswerRank(n) < Rank(job, 0)
        BY RanksBelow
      <3>2. \A m, n \in 1..Len(answers') : m < n => AnswerRank(m)' < AnswerRank(n)'
        <4> SUFFICES ASSUME NEW m \in 1..Len(answers'), NEW n \in 1..Len(answers'), m < n
                     PROVE  AnswerRank(m)' < AnswerRank(n)'
          OBVIOUS
        <4>1. m \in 1..Len(answers)
          BY <2>1, QueueElements
        <4>2. CASE n \in 1..Len(answers)
          BY <3>0, <4>1, <4>2 DEF RedisInOrder
        <4>3. CASE n = Len(answers) + 1
          BY <3>0, <3>1, <4>1, <4>3
        <4> QED
          BY <2>1, <4>2, <4>3
      <3>3. \A x \in Ids : \A n \in 1..Len(answers') : CallRank(x)' < AnswerRank(n)'
        BY <1>2, <2>1, <3>0, <3>1 DEF RedisInOrder
      <3>4. \A m \in 1..Len(answers'), n \in 1..Len(requests) : answers'[m].id < requests[n].id
        BY <1>1, <2>1 DEF RedisInOrder
      <3>5. /\ \A x \in Ids : CallRank(x)' < Rank(job, 1)
            /\ \A n \in 1..Len(answers') : AnswerRank(n)' < Rank(job, 1)
        <4>1. Rank(job, 0) < Rank(job, 1)
          BY <1>3 DEF Rank
        <4> QED
          BY <1>2, <2>1, <3>0, <4>1, RanksBelow
      <3> QED
        BY <3>2, <3>3, <3>4, <3>5 DEF RedisInOrder, clientVars, Rank
    <2>6. ZmqOneInFlight'
      <3> SUFFICES ASSUME Zmq PROVE ZmqOneInFlight'
        BY DEF ZmqOneInFlight, Zmq
      <3>1. peer = conn /\ Pending(job) /\ answers = <<>>
        BY <1>4 DEF ZmqOneInFlight
      <3>2. \A n \in 1..Len(requests) : requests[n].conn # conn
        BY <3>1 DEF ZmqOneInFlight
      <3>3. Len(answers') = 1 /\ answers'[1].id = job /\ answers'[1].again = 0
        BY <1>1, <2>1, <3>1
      <3>4. peer' # conn
        BY <1>0 DEF TypeOK
      <3> QED
        BY <3>1, <3>2, <3>3, <3>4 DEF ZmqOneInFlight, Pending, clientVars
    <2> QED
      BY <2>2, <2>3, <2>4, <2>5, <2>6
  <1>5. CASE answers' = answers
    <2>1. peer' # conn
      BY <1>0 DEF TypeOK
    <2>2. TypeOK'
      BY <1>0, <1>5 DEF TypeOK, clientVars, modeVars
    <2>3. CallsInOrder' /\ TakenOnce'
      BY <1>3, <1>5 DEF CallsInOrder, TakenOnce, Made, clientVars
    <2>5. RedisInOrder'
      <3> SUFFICES ASSUME Redis PROVE RedisInOrder'
        BY DEF RedisInOrder, Redis
      <3>1. \A n \in 1..Len(answers) : AnswerRank(n)' = AnswerRank(n)
        BY <1>5 DEF AnswerRank
      <3>2. /\ \A x \in Ids : CallRank(x) < Rank(job, 1)
            /\ \A n \in 1..Len(answers) : AnswerRank(n) < Rank(job, 1)
        BY RanksBelow
      <3> QED
        BY <1>2, <1>5, <3>1, <3>2 DEF RedisInOrder, clientVars, Rank
    <2>4. ZmqOneInFlight'
      BY <1>5, <2>1 DEF ZmqOneInFlight, Zmq, Pending, clientVars
    <2> QED
      BY <2>2, <2>3, <2>4, <2>5
  <1> QED
    BY <1>0, <1>4, <1>5

\* A second answer is queued behind the first one over redis; over ZeroMQ it
\* never gets to the library.
LEMMA AnswersAgainKeeps ==
    ASSUME CallInv, AnswersAgain
    PROVE  CallInv'
  <1> USE DEF CallInv
  <1>0. /\ main = "answered"
        /\ twice' = twice \cup {job}
        /\ main' \in {"select", "exited"}
        /\ UNCHANGED <<transport, clientVars, handled, requests, job, peer, poll, m_selectableEvent,
                       m_veryFirstRun>>
    BY DEF AnswersAgain, Fails
  <1>1. job \in Ids /\ job \in Nat /\ job \in handled
    BY <1>0 DEF TakenOnce, TypeOK, Ids
  <1>2. \A x \in Ids : CallRank(x)' = CallRank(x)
    BY <1>0 DEF CallRank, clientVars
  <1>3. CASE Redis
    <2> DEFINE item == Answer(1)
    <2>0. answers' = Append(answers, item) /\ UNCHANGED <<m_allowZmqPoll, modeVars>>
      BY <1>3 DEF AnswersAgain, Redis, Zmq
    <2>1. item \in [id : Ids, conn : 0..conn, again : {0, 1}] /\ item.id = job /\ item.again = 1
      BY <1>1 DEF TypeOK, Answer
    <2> HIDE DEF item
    <2>2. /\ answers' \in Seq([id : Ids, conn : 0..conn, again : {0, 1}])
          /\ Len(answers') = Len(answers) + 1
          /\ \A n \in 1..Len(answers) : answers'[n] = answers[n]
          /\ answers'[Len(answers) + 1] = item
          /\ \A n \in 1..Len(answers') : n \in 1..Len(answers) \/ n = Len(answers) + 1
      BY <2>0, <2>1, AppendFacts DEF TypeOK
    <2>3. TypeOK'
      BY <1>0, <1>1, <2>0, <2>2 DEF TypeOK, clientVars, modeVars
    <2>4. CallsInOrder'
      BY <1>0 DEF CallsInOrder, clientVars
    <2>5. TakenOnce'
      <3>1. \A n \in 1..Len(answers') : /\ answers'[n].id \in handled
                                        /\ answers'[n].again = 1 => answers'[n].id \in twice'
        BY <1>0, <1>1, <2>1, <2>2 DEF TakenOnce
      <3>2. twice' \subseteq handled
        BY <1>0, <1>1 DEF TakenOnce
      <3> QED
        BY <1>0, <3>1, <3>2 DEF TakenOnce, Made, clientVars
    <2>6. RedisInOrder'
      <3>0. /\ \A n \in 1..Len(answers) : AnswerRank(n)' = AnswerRank(n)
            /\ \A n \in 1..Len(answers') : n = Len(answers) + 1 => AnswerRank(n)' = Rank(job, 1)
        BY <2>1, <2>2 DEF AnswerRank
      <3>1. /\ \A x \in Ids : CallRank(x) < Rank(job, 1)
            /\ \A n \in 1..Len(answers) : AnswerRank(n) < Rank(job, 1)
            /\ \A n \in 1..Len(requests) : job < requests[n].id
        BY <1>0, <1>3 DEF RedisInOrder
      <3>2. \A m, n \in 1..Len(answers') : m < n => AnswerRank(m)' < AnswerRank(n)'
        <4> SUFFICES ASSUME NEW m \in 1..Len(answers'), NEW n \in 1..Len(answers'), m < n
                     PROVE  AnswerRank(m)' < AnswerRank(n)'
          OBVIOUS
        <4>1. m \in 1..Len(answers)
          BY <2>2, QueueElements
        <4>2. CASE n \in 1..Len(answers)
          BY <1>3, <3>0, <4>1, <4>2 DEF RedisInOrder
        <4>3. CASE n = Len(answers) + 1
          BY <3>0, <3>1, <4>1, <4>3
        <4> QED
          BY <2>2, <4>2, <4>3
      <3>3. \A x \in Ids : \A n \in 1..Len(answers') : CallRank(x)' < AnswerRank(n)'
        BY <1>2, <1>3, <2>2, <3>0, <3>1 DEF RedisInOrder
      <3>4. \A m \in 1..Len(answers'), n \in 1..Len(requests) : answers'[m].id < requests[n].id
        BY <1>3, <2>1, <2>2, <3>1 DEF RedisInOrder
      <3> QED
        BY <1>0, <1>3, <3>2, <3>3, <3>4 DEF RedisInOrder, clientVars
    <2>7. ZmqOneInFlight'
      BY <1>0, <1>3 DEF ZmqOneInFlight, Zmq, Redis
    <2> QED
      BY <2>3, <2>4, <2>5, <2>6, <2>7
  <1>4. CASE Zmq
    <2>0. /\ UNCHANGED answers
          /\ m_allowZmqPoll' = TRUE
          /\ inShutdownWaitMode' = TRUE
          /\ m_disableExitSleep' = TRUE
      BY <1>4 DEF AnswersAgain, Fails, Redis, Zmq
    <2>1. TypeOK'
      BY <1>0, <1>1, <2>0 DEF TypeOK, clientVars
    <2>2. CallsInOrder' /\ ZmqOneInFlight'
      BY <1>0, <2>0 DEF CallsInOrder, ZmqOneInFlight, Zmq, Pending, clientVars
    <2>3. TakenOnce'
      <3>1. twice' \subseteq handled /\ twice \subseteq twice'
        BY <1>0, <1>1 DEF TakenOnce
      <3> QED
        BY <1>0, <2>0, <3>1 DEF TakenOnce, Made, clientVars
    <2>4. RedisInOrder'
      BY <1>0, <1>4 DEF RedisInOrder, Zmq, Redis
    <2> QED
      BY <2>1, <2>2, <2>3, <2>4
  <1> QED
    BY <1>3, <1>4 DEF TypeOK, Redis, Zmq

\* The other steps leave the calls, the two queues and the sockets alone; a
\* handler is left, never entered.
LEMMA OtherStepsKeep ==
    ASSUME CallInv,
           UNCHANGED <<transport, clientVars, handled, requests, answers, job, peer, firstRunVars>>,
           main' \in {"select", "exited"} \/ UNCHANGED <<main, modeVars>>,
           poll' \in {"arm", "poll", "spin"},
           m_allowZmqPoll' \in BOOLEAN, m_selectableEvent' \in BOOLEAN,
           inShutdownWaitMode' \in BOOLEAN, m_disableExitSleep' \in BOOLEAN
    PROVE  CallInv'
  <1> USE DEF CallInv
  <1>1. TypeOK'
    BY DEF TypeOK, clientVars, modeVars, firstRunVars
  <1>2. CallsInOrder' /\ ZmqOneInFlight'
    BY DEF CallsInOrder, ZmqOneInFlight, Zmq, Pending, clientVars
  <1>3. main' \in {"handling", "answered"} => UNCHANGED <<main, modeVars>>
    OBVIOUS
  <1>4. TakenOnce' /\ RedisInOrder'
    BY <1>3 DEF TakenOnce, RedisInOrder, Redis, Made, CallRank, AnswerRank, Rank, clientVars,
                modeVars, firstRunVars
  <1> QED
    BY <1>1, <1>2, <1>4

--------------------------------------------------------------------------------
\* The invariant of the calls holds for every number of calls and restarts; in
\* particular no call of the library ever throws (Calls has no such state).
THEOREM CallsInvariant == Spec => []CallInv
  <1>1. Init => CallInv
    <2> SUFFICES ASSUME Init PROVE CallInv
      OBVIOUS
    <2>1. /\ Abstract!Unused \in Calls
          /\ Abstract!Unused.state = "unused"
          /\ Abstract!Unused.answer = 0
          /\ Abstract!Unused.again = 0
      BY BoundAssumption DEF Abstract!Unused, Calls, Kinds
    <2>2. TypeOK
      <3>1. /\ m_allowZmqPoll \in BOOLEAN
            /\ m_selectableEvent \in BOOLEAN
            /\ m_veryFirstRun \in BOOLEAN
            /\ inShutdownWaitMode \in BOOLEAN
            /\ m_disableExitSleep \in BOOLEAN
        BY DEF Init
      <3>2. call \in [Ids -> Calls]
        BY <2>1 DEF Init
      <3>3. job \in 0..MaxCalls /\ restarts \in 0..MaxRestart /\ conn \in Nat \ {0} /\ peer \in 0..conn
        BY BoundAssumption DEF Init
      <3> QED
        BY <3>1, <3>2, <3>3 DEF Init, TypeOK
    <2>3. CallsInOrder
      BY <2>1, BoundAssumption DEF Init, CallsInOrder, Ids
    <2>4. TakenOnce /\ RedisInOrder /\ ZmqOneInFlight
      BY DEF Init, TakenOnce, RedisInOrder, ZmqOneInFlight
    <2> QED
      BY <2>2, <2>3, <2>4 DEF CallInv
  <1>2. CallInv /\ [Next]_vars => CallInv'
    <2> SUFFICES ASSUME CallInv, [Next]_vars PROVE CallInv'
      OBVIOUS
    <2>1. CASE ClientNext
      BY <2>1, SendKeeps, TakeAnswerKeeps, GiveUpFacts, GiveUpKeeps DEF ClientNext
    <2>2. CASE PollNext
      <3>1. /\ UNCHANGED <<transport, clientVars, handled, requests, answers, main, job, peer, modeVars,
                           firstRunVars>>
            /\ poll' \in {"arm", "poll", "spin"}
        BY <2>2 DEF PollNext, PollArm, PollIn, PollAgain, PollStep
      <3>2. m_allowZmqPoll' \in BOOLEAN /\ m_selectableEvent' \in BOOLEAN
        BY <2>2 DEF PollNext, PollArm, PollIn, PollAgain, CallInv, TypeOK
      <3>3. inShutdownWaitMode' \in BOOLEAN /\ m_disableExitSleep' \in BOOLEAN
        BY <3>1 DEF CallInv, TypeOK, modeVars
      <3> QED
        BY <3>1, <3>2, <3>3, OtherStepsKeep
    <2>3. CASE TakeNext
      BY <2>3, TakeKeeps DEF TakeNext
    <2>4. CASE Answers
      BY <2>4, RespondKeeps DEF Answers, CallInv, TakenOnce, TypeOK
    <2>5. CASE Refuses
      <3>1. CASE call[job].kind = "notify"
        BY <2>5, <3>1, RespondKeeps DEF Refuses, CallInv, TakenOnce, TypeOK, firstRunVars
      <3>2. CASE call[job].kind # "notify"
        BY <2>5, <3>2, OtherStepsKeep DEF Refuses, CallInv, TypeOK, modeVars
      <3> QED
        BY <3>1, <3>2
    <2>6. CASE Returns \/ Throws \/ Exits \/ Aborts
      BY <2>6, OtherStepsKeep
         DEF Returns, Throws, Fails, Exits, Aborts, CallInv, TypeOK, pollVars, modeVars
    <2>7. CASE UNCHANGED vars
      BY <2>7, OtherStepsKeep DEF vars, CallInv, TypeOK, pollVars, modeVars
    <2>8. CASE AnswersAgain
      BY <2>8, AnswersAgainKeeps
    <2> QED
      BY <2>1, <2>2, <2>3, <2>4, <2>5, <2>6, <2>7, <2>8 DEF Next, HandlerNext
  <1> QED
    BY <1>1, <1>2, PTL DEF Spec

--------------------------------------------------------------------------------
(***************************************************************************)
(* The refinement.  set() is Invoke, an answer used is Return, a timeout   *)
(* or a restart is GiveUp, a request taken and not refused is Handle;      *)
(* everything else changes nothing a caller can see.                       *)
(***************************************************************************)
LEMMA SendIsInvoke ==
    ASSUME CallInv, NEW i \in Ids, NEW k \in Kinds, Send(i, k)
    PROVE  Abstract!Invoke(i, k)
  BY SendFacts DEF Abstract!Invoke, Abstract!Made, Abstract!Pending, Abstract!Ids, Ids, Pending,
                   Made, firstRunVars

\* An answer that is used is newer than all that were used before.
LEMMA TakeAnswerIsReturn ==
    ASSUME CallInv, NEW i \in Ids, TakeAnswer(i)
    PROVE  \/ \E j \in Ids, again \in {0, 1} : Abstract!Return(i, j, again)
           \/ UNCHANGED Abstract!vars
  <1> USE DEF CallInv
  <1> DEFINE j == answers[1].id
             again == answers[1].again
  <1>1. /\ Pending(i)
        /\ 1 \in 1..Len(answers)
        /\ j \in handled
        /\ j \in Ids
        /\ again \in {0, 1}
        /\ again = 1 => j \in twice
        /\ Zmq => j = i /\ again = 0
        /\ \/ /\ call[j].kind = call[i].kind
              /\ call' = [call EXCEPT ![i].state = "answered", ![i].answer = j, ![i].again = again]
           \/ call' = call
    BY TakeAnswerFacts
  <1>2. UNCHANGED <<transport, handled, twice>>
    BY DEF TakeAnswer, firstRunVars
  <1>3. \A m \in Ids : Rank(call[m].answer, call[m].again) < Rank(j, again)
    <2>1. CASE Redis
      BY <1>1, <2>1 DEF RedisInOrder, CallRank, AnswerRank
    <2>2. CASE Zmq
      <3> SUFFICES ASSUME NEW m \in Ids PROVE call[m].answer < i
        BY <1>1, <2>2, CallElements DEF Rank
      <3>1. CASE m < i
        BY <3>1, CallElements DEF CallsInOrder
      <3>2. CASE m >= i
        <4>1. call[m].state \in {"unused", "pending"}
          BY <1>1, <3>2, CallElements DEF CallsInOrder, Pending
        <4> QED
          BY <4>1, CallElements DEF CallsInOrder
      <3> QED
        BY <3>1, <3>2, CallElements
    <2> QED
      BY <2>1, <2>2 DEF TypeOK, Redis, Zmq
  <1>4. ~(transport = "redis") => j = i /\ again = 0
    BY <1>1 DEF TypeOK, Zmq
  <1> HIDE DEF j, again
  <1>5. CASE call' = call
    BY <1>2, <1>5 DEF Abstract!vars
  <1>6. CASE /\ call[j].kind = call[i].kind
             /\ call' = [call EXCEPT ![i].state = "answered", ![i].answer = j, ![i].again = again]
    <2>1. Abstract!Return(i, j, again)
      BY <1>1, <1>2, <1>3, <1>4, <1>6
         DEF Abstract!Return, Abstract!Pending, Abstract!Ids, Abstract!Rank, Rank, Ids, Pending
    <2> QED
      BY <1>1, <2>1
  <1> QED
    BY <1>1, <1>5, <1>6

\* Giving up is a step of RemoteCall.
LEMMA GiveUpIsGiveUp ==
    ASSUME CallInv, ClientRestarts \/ \E i \in Ids : TimeOut(i)
    PROVE  (\E i \in Ids : Abstract!GiveUp(i)) \/ UNCHANGED Abstract!vars
  <1> USE DEF CallInv
  <1>1. ASSUME NEW i \in Ids, TimeOut(i) PROVE Abstract!GiveUp(i)
    BY <1>1 DEF TimeOut, Abstract!GiveUp, Abstract!Pending, Pending, firstRunVars
  <1>2. CASE ClientRestarts
    <2>1. /\ UNCHANGED <<transport, handled, twice>>
          /\ call' = [x \in Ids |-> IF Pending(x) THEN [call[x] EXCEPT !.state = "gaveup"] ELSE call[x]]
      BY <1>2 DEF ClientRestarts, firstRunVars
    <2>2. CASE \A x \in Ids : ~Pending(x)
      <3>1. call' = call
        BY <2>1, <2>2 DEF TypeOK
      <3> QED
        BY <2>1, <3>1 DEF Abstract!vars
    <2>3. ASSUME NEW i \in Ids, Pending(i) PROVE Abstract!GiveUp(i)
      <3>1. \A x \in Ids : Pending(x) <=> x = i
        BY <2>3, OnePending
      <3>2. call' = [call EXCEPT ![i].state = "gaveup"]
        BY <2>1, <3>1 DEF TypeOK
      <3> QED
        BY <2>1, <2>3, <3>2 DEF Abstract!GiveUp, Abstract!Pending, Pending
    <2> QED
      BY <2>2, <2>3
  <1> QED
    BY <1>1, <1>2

\* A request is handled at most once.
LEMMA TakeIsHandle ==
    ASSUME CallInv, NEW n \in Ids, Take(n)
    PROVE  (\E i \in Ids : Abstract!Handle(i)) \/ UNCHANGED Abstract!vars
  <1> USE DEF CallInv
  <1> DEFINE i == requests[n].id
  <1>1. n \in 1..Len(requests) /\ UNCHANGED <<transport, call, twice>>
    BY DEF Take, clientVars, firstRunVars
  <1>2. handled' = handled \/ handled' = handled \cup {i}
    BY DEF Take
  <1>3. i \in Ids /\ i \notin handled /\ Made(i)
    BY <1>1, QueueElements DEF TakenOnce
  <1> HIDE DEF i
  <1>4. CASE handled' = handled
    BY <1>1, <1>4 DEF Abstract!vars
  <1>5. CASE handled' = handled \cup {i}
    BY <1>1, <1>3, <1>5 DEF Abstract!Handle, Abstract!Made, Abstract!Ids, Ids, Made
  <1> QED
    BY <1>2, <1>4, <1>5

\* The library's calls implement RemoteCall over both transports: over ZeroMQ a
\* call returns its own answer or none, over redis an answer may be a late one
\* of the same kind but none is used out of order, and none twice but the one
\* syncd sends twice; no request is handled twice (RedisChannel::wait,
\* ZeroMQChannel::wait, processNotifySyncd).
THEOREM ImplementsCalls == Spec => ImplementsRemoteCall
  <1>1. Init => Abstract!Init
    BY DEF Init, Abstract!Init, Abstract!Ids, Ids
  <1>2. CallInv /\ [Next]_vars => [Abstract!Next]_(Abstract!vars)
    <2> SUFFICES ASSUME CallInv, [Next]_vars
                 PROVE  Abstract!Next \/ UNCHANGED Abstract!vars
      OBVIOUS
    <2>0. Abstract!Ids = Ids
      BY DEF Abstract!Ids, Ids
    <2>1. ASSUME NEW i \in Ids, NEW k \in Kinds, Send(i, k) PROVE Abstract!Next
      BY <2>0, <2>1, SendIsInvoke DEF Abstract!Next
    <2>2. ASSUME NEW i \in Ids, TakeAnswer(i) PROVE Abstract!Next \/ UNCHANGED Abstract!vars
      BY <2>0, <2>2, TakeAnswerIsReturn DEF Abstract!Next
    <2>3. CASE ClientRestarts \/ \E i \in Ids : TimeOut(i)
      BY <2>0, <2>3, GiveUpIsGiveUp DEF Abstract!Next
    <2>4. ASSUME NEW n \in Ids, Take(n) PROVE Abstract!Next \/ UNCHANGED Abstract!vars
      BY <2>0, <2>4, TakeIsHandle DEF Abstract!Next
    <2>5. CASE \/ PollNext \/ Answers \/ Returns \/ Throws \/ Refuses
               \/ Exits \/ Aborts \/ UNCHANGED vars
      BY <2>5 DEF PollNext, PollArm, PollIn, PollAgain, PollStep, Answers, Returns, Throws, Refuses,
                  Exits, Aborts, vars, clientVars, firstRunVars, Abstract!vars
    <2>6. CASE AnswersAgain
      <3>1. job \in Ids /\ job \in handled
        BY <2>6 DEF AnswersAgain, CallInv, TypeOK, TakenOnce, Ids
      <3>2. Abstract!AnswerTwice(job)
        BY <2>6, <3>1 DEF AnswersAgain, clientVars, Abstract!AnswerTwice
      <3> QED
        BY <2>0, <3>1, <3>2 DEF Abstract!Next
    <2> QED
      BY <2>1, <2>2, <2>3, <2>4, <2>5, <2>6 DEF Next, ClientNext, TakeNext, HandlerNext
  <1> QED
    BY <1>1, <1>2, CallsInvariant, PTL DEF Spec, ImplementsRemoteCall, Abstract!Spec
================================================================================
