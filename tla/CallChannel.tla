------------------------------ MODULE CallChannel ------------------------------
(***************************************************************************)
(* A call of the sairedis library and its answer, over the two transports  *)
(* the library has: queues in redis (RedisChannel, RedisSelectableChannel) *)
(* or a pair of ZeroMQ sockets (ZeroMQChannel, ZeroMQSelectableChannel).   *)
(* The library waits with a timeout; syncd takes requests in its main      *)
(* loop, and after an exception it stays in shutdown-wait mode, where it   *)
(* only refuses notify requests.                                           *)
(*                                                                         *)
(* With redis, an answer that comes after its call has timed out, or after *)
(* its caller has died, stays in the queue.  With ZeroMQ the timeout opens *)
(* a new socket, and an answer to the old one goes nowhere; on syncd's     *)
(* side a thread polls the socket and hands it to the main thread until    *)
(* the answer is sent.                                                     *)
(*                                                                         *)
(* A request is named by the number of its call, and its answer by the     *)
(* same number.  Calls that do not wait (asynchronous mode) are left out.  *)
(*                                                                         *)
(* On the very first run of syncd the handler of INSPECT_ASIC, one of the  *)
(* notify requests, answers twice.  Over redis the second answer waits for *)
(* some later call; over ZeroMQ it cannot be sent, but it lets the polling *)
(* thread go once more.                                                    *)
(***************************************************************************)
EXTENDS Naturals, Sequences, SequencesExt

CONSTANTS MaxCalls,   \* bound: calls made
          MaxRestart  \* bound: restarts of the calling process

ASSUME BoundAssumption == MaxCalls \in Nat \ {0} /\ MaxRestart \in Nat

Kinds == {"getresponse", "notify"}   \* op of an answer
Ids == 1..MaxCalls

VARIABLES
    transport,       \* SAI_REDIS_SWITCH_ATTR_REDIS_COMMUNICATION_MODE
    call,            \* the calls of the library
    handled,         \* history: requests syncd has handled
    twice,           \* history: requests syncd has answered twice
    restarts,
    conn,            \* ZeroMQ: number of the library's current socket
    m_socket,        \* ZeroMQ: what the REQ socket may do next
    requests,        \* redis: numbers in a list; ZeroMQ: what waits at the REP socket
    answers,         \* redis: numbers in a list; ZeroMQ: answer at the REQ socket
    \* syncd
    main, job,       \* main thread, the request it works on
    peer,            \* ZeroMQ: socket the REP socket has to answer, 0 for none
    poll,            \* ZeroMQ: zmqPollThread
    m_allowZmqPoll, m_selectableEvent,
    m_veryFirstRun,  \* no view has been applied yet
    inShutdownWaitMode, m_disableExitSleep

clientVars == <<call, restarts, conn, m_socket>>
pollVars == <<poll, m_allowZmqPoll>>
modeVars == <<inShutdownWaitMode, m_disableExitSleep>>
firstRunVars == <<twice, m_veryFirstRun>>
vars == <<transport, clientVars, handled, requests, answers, main, job, peer, pollVars,
          m_selectableEvent, modeVars, firstRunVars>>

Abstract == INSTANCE RemoteCall WITH late <- (transport = "redis")

Redis == transport = "redis"
Zmq == transport = "zmq"
Pending(i) == call[i].state = "pending"
Waiting == {i \in Ids : Pending(i)}
\* A call that throws is no member: neither an answer of the wrong kind nor a
\* socket in the wrong state ever gets to the library.
Calls == [kind : Kinds, state : {"unused", "pending", "answered", "gaveup"}, answer : 0..MaxCalls,
          again : {0, 1}]

\* The main loop may start in shutdown-wait mode (an exception in onSyncdStart).
Init ==
    /\ transport \in {"redis", "zmq"}
    /\ call = [i \in Ids |-> Abstract!Unused]
    /\ handled = {}
    /\ twice = {}
    /\ restarts = 0
    /\ conn = 1
    /\ m_socket = "send"
    /\ requests = <<>>
    /\ answers = <<>>
    /\ main = "select"
    /\ job = 0
    /\ peer = 0
    /\ poll = "arm"
    /\ m_allowZmqPoll = FALSE
    /\ m_selectableEvent = FALSE
    /\ m_veryFirstRun \in BOOLEAN
    /\ inShutdownWaitMode \in BOOLEAN
    /\ m_disableExitSleep \in BOOLEAN
    /\ ~(inShutdownWaitMode /\ m_disableExitSleep)

--------------------------------------------------------------------------------
(* The library: RedisChannel and ZeroMQChannel, set() and wait()           *)

Request(i) == [id |-> i, conn |-> IF Zmq THEN conn ELSE 0]

\* A REQ socket that still owes an answer refuses to send (EFSM), set() throws.
Send(i, k) ==
    /\ Waiting = {}
    /\ \A j \in Ids : call[j].state # "unused" <=> j < i
    /\ \A j \in Ids : call[j].state # "thrown"
    /\ IF Zmq /\ m_socket = "recv"
       THEN /\ call' = [call EXCEPT ![i] = [kind |-> k, state |-> "thrown", answer |-> 0, again |-> 0]]
            /\ UNCHANGED <<requests, m_socket>>
       ELSE /\ call' = [call EXCEPT ![i] = [kind |-> k, state |-> "pending", answer |-> 0, again |-> 0]]
            /\ requests' = Append(requests, Request(i))
            /\ m_socket' = "recv"
    /\ UNCHANGED <<transport, handled, restarts, conn, answers, main, job, peer, pollVars,
                   m_selectableEvent, modeVars, firstRunVars>>

\* Variant: wait() takes whatever answer comes first.
TakeFirstAnswer(i) ==
    /\ Pending(i)
    /\ answers # <<>>
    /\ call' = [call EXCEPT ![i].state = "answered", ![i].answer = Head(answers).id,
                            ![i].again = Head(answers).again]
    /\ answers' = Tail(answers)
    /\ m_socket' = "send"
    /\ UNCHANGED <<transport, handled, restarts, conn, requests, main, job, peer, pollVars,
                   m_selectableEvent, modeVars, firstRunVars>>

\* wait(): an answer of another kind is dropped (redis) or makes it throw (ZeroMQ).
TakeAnswer(i) ==
    /\ Pending(i)
    /\ answers # <<>>
    /\ LET j == Head(answers).id
           expected == call[j].kind = call[i].kind IN
       call' = [call EXCEPT ![i].state = IF expected THEN "answered"
                                         ELSE IF Redis THEN "pending" ELSE "thrown",
                            ![i].answer = IF expected THEN j ELSE 0,
                            ![i].again = IF expected THEN Head(answers).again ELSE 0]
    /\ answers' = Tail(answers)
    /\ m_socket' = "send"
    /\ UNCHANGED <<transport, handled, restarts, conn, requests, main, job, peer, pollVars,
                   m_selectableEvent, modeVars, firstRunVars>>

\* A new socket: what is on its way to the old one is lost.
NewSocket ==
    /\ conn' = IF Zmq THEN conn + 1 ELSE conn
    /\ m_socket' = "send"
    /\ answers' = IF Zmq THEN <<>> ELSE answers

TimeOut(i) ==
    /\ Pending(i)
    /\ answers = <<>>
    /\ call' = [call EXCEPT ![i].state = "gaveup"]
    /\ NewSocket
    /\ UNCHANGED <<transport, handled, restarts, requests, main, job, peer, pollVars,
                   m_selectableEvent, modeVars, firstRunVars>>

\* The process dies and another one takes its place (external).
ClientRestarts ==
    /\ restarts < MaxRestart
    /\ restarts' = restarts + 1
    /\ call' = [i \in Ids |-> IF Pending(i) THEN [call[i] EXCEPT !.state = "gaveup"] ELSE call[i]]
    /\ NewSocket
    /\ UNCHANGED <<transport, handled, requests, main, job, peer, pollVars, m_selectableEvent,
                   modeVars, firstRunVars>>

--------------------------------------------------------------------------------
(* ZeroMQSelectableChannel::zmqPollThread                                  *)

PollStep(from, to) ==
    /\ Zmq
    /\ main # "exited"
    /\ poll = from
    /\ poll' = to
    /\ UNCHANGED <<transport, clientVars, handled, requests, answers, main, job, peer, modeVars,
                   firstRunVars>>

PollArm ==
    /\ PollStep("arm", "poll")
    /\ m_allowZmqPoll' = FALSE
    /\ UNCHANGED m_selectableEvent

\* A REP socket that owes an answer has nothing to read.
PollIn ==
    /\ PollStep("poll", "spin")
    /\ requests # <<>>
    /\ peer = 0
    /\ m_selectableEvent' = TRUE
    /\ UNCHANGED m_allowZmqPoll

\* Variant: the thread does not wait for the answer to be sent.
PollAgainAtOnce ==
    /\ PollStep("spin", "arm")
    /\ UNCHANGED <<m_allowZmqPoll, m_selectableEvent>>

PollAgain ==
    /\ PollStep("spin", "arm")
    /\ m_allowZmqPoll
    /\ UNCHANGED <<m_allowZmqPoll, m_selectableEvent>>

--------------------------------------------------------------------------------
(* syncd's main loop: Syncd::run, processEvent                             *)

\* What readData() and pop() do: position n of the waiting requests is taken.
\* redis keeps their order, a REP socket takes turns between its connections.
Take(n) ==
    /\ main = "select"
    /\ n \in 1..Len(requests)
    /\ IF Redis THEN n = 1 ELSE m_selectableEvent
    /\ job' = requests[n].id
    /\ peer' = requests[n].conn
    /\ requests' = RemoveAt(requests, n)
    /\ m_selectableEvent' = FALSE
    /\ main' = "handling"
    /\ handled' = IF inShutdownWaitMode /\ call[requests[n].id].kind # "notify" THEN handled
                  ELSE handled \cup {requests[n].id}
    /\ UNCHANGED <<transport, clientVars, answers, pollVars, modeVars, firstRunVars>>

Answer(again) == [id |-> job, conn |-> peer, again |-> again]

\* Variant: set() leaves m_allowZmqPoll alone.
RespondQuietly ==
    /\ answers' = IF peer = (IF Zmq THEN conn ELSE 0)
                  THEN Append(answers, Answer(0)) ELSE answers
    /\ peer' = 0
    /\ UNCHANGED m_allowZmqPoll

\* SelectableChannel::set: an answer to a socket that is gone is dropped.
Respond ==
    /\ answers' = IF peer = (IF Zmq THEN conn ELSE 0)
                  THEN Append(answers, Answer(0)) ELSE answers
    /\ peer' = 0
    /\ m_allowZmqPoll' = IF Zmq THEN TRUE ELSE m_allowZmqPoll

\* A handler answers, and may go on to write to redis.  On the very first run
\* APPLY_VIEW and the second INIT_VIEW end it.
Answers ==
    /\ main = "handling"
    /\ ~inShutdownWaitMode
    /\ Respond
    /\ main' = "answered"
    /\ \/ UNCHANGED m_veryFirstRun
       \/ call[job].kind = "notify" /\ m_veryFirstRun' = FALSE
    /\ UNCHANGED <<transport, clientVars, handled, twice, requests, job, poll, m_selectableEvent,
                   modeVars>>

\* What the catch block of run() does.  The second exception ends the loop.
Fails ==
    /\ inShutdownWaitMode' = TRUE
    /\ main' = IF m_disableExitSleep THEN "exited" ELSE "select"
    /\ m_disableExitSleep' = TRUE

\* INSPECT_ASIC on the very first run answers in its own branch and again after
\* it.  A REP socket that owes nothing refuses to send (EFSM), and set() throws
\* when it has set m_allowZmqPoll.
AnswersAgain ==
    /\ main = "answered"
    /\ ~inShutdownWaitMode
    /\ m_veryFirstRun
    /\ call[job].kind = "notify"
    /\ twice' = twice \cup {job}
    /\ \/ /\ Redis
          /\ answers' = Append(answers, Answer(1))
          /\ main' = "select"
          /\ UNCHANGED <<m_allowZmqPoll, modeVars>>
       \/ /\ Zmq
          /\ m_allowZmqPoll' = TRUE
          /\ Fails
          /\ UNCHANGED answers
    /\ UNCHANGED <<transport, clientVars, handled, requests, job, peer, poll, m_selectableEvent,
                   m_veryFirstRun>>

\* A ZeroMQ socket that two threads use at once may end the process.
Aborts ==
    /\ Zmq
    /\ twice # {}
    /\ main # "exited"
    /\ poll = "poll"
    /\ main' = "exited"
    /\ UNCHANGED <<transport, clientVars, handled, requests, answers, job, peer, pollVars,
                   m_selectableEvent, modeVars, firstRunVars>>

Returns ==
    /\ main = "answered"
    /\ main' = "select"
    /\ UNCHANGED <<transport, clientVars, handled, requests, answers, job, peer, pollVars,
                   m_selectableEvent, modeVars, firstRunVars>>

\* An exception, before or after the answer.
Throws ==
    /\ main \in {"handling", "answered"}
    /\ ~inShutdownWaitMode
    /\ Fails
    /\ UNCHANGED <<transport, clientVars, handled, requests, answers, job, peer, pollVars,
                   m_selectableEvent, firstRunVars>>

\* processEventInShutdownWaitMode
Refuses ==
    /\ main = "handling"
    /\ inShutdownWaitMode
    /\ IF call[job].kind = "notify" THEN Respond
       ELSE UNCHANGED <<answers, peer, m_allowZmqPoll>>
    /\ main' = "select"
    /\ UNCHANGED <<transport, clientVars, handled, requests, job, poll, m_selectableEvent, modeVars,
                   firstRunVars>>

\* A restart query ends the loop.
Exits ==
    /\ main = "select"
    /\ main' = "exited"
    /\ UNCHANGED <<transport, clientVars, handled, requests, answers, job, peer, pollVars,
                   m_selectableEvent, modeVars, firstRunVars>>

--------------------------------------------------------------------------------
ClientNext ==
    \/ \E i \in Ids, k \in Kinds : Send(i, k)
    \/ \E i \in Ids : TakeAnswer(i) \/ TimeOut(i)
    \/ ClientRestarts

PollNext == PollArm \/ PollIn \/ PollAgain
HandlerNext == Answers \/ AnswersAgain \/ Returns \/ Throws \/ Refuses
TakeNext == \E n \in Ids : Take(n)

Next == ClientNext \/ PollNext \/ TakeNext \/ HandlerNext \/ Exits \/ Aborts

Spec == Init /\ [][Next]_vars

\* syncd's threads run, and a handler ends one way or the other.  Nothing is
\* assumed of the library: it may wait, time out or make no call at all.
Fairness == WF_vars(PollNext) /\ WF_vars(TakeNext) /\ WF_vars(HandlerNext)

FairSpec == Spec /\ Fairness

--------------------------------------------------------------------------------
Queued(i) == \E n \in 1..Len(requests) : requests[n].id = i

TypeOK ==
    /\ transport \in {"redis", "zmq"}
    /\ call \in [Ids -> Calls]
    /\ handled \subseteq Ids
    /\ twice \subseteq Ids
    /\ restarts \in 0..MaxRestart
    /\ conn \in Nat \ {0}
    /\ m_socket \in {"send", "recv"}
    /\ requests \in Seq([id : Ids, conn : 0..conn])
    /\ answers \in Seq([id : Ids, conn : 0..conn, again : {0, 1}])
    /\ main \in {"select", "handling", "answered", "exited"}
    /\ job \in 0..MaxCalls
    /\ peer \in 0..conn
    /\ poll \in {"arm", "poll", "spin"}
    /\ m_allowZmqPoll \in BOOLEAN
    /\ m_selectableEvent \in BOOLEAN
    /\ m_veryFirstRun \in BOOLEAN
    /\ inShutdownWaitMode \in BOOLEAN
    /\ m_disableExitSleep \in BOOLEAN

\* The library over ZeroMQ gives every call its own answer or none, whatever
\* timed out before and however late syncd was; over redis an answer may be a
\* late one of the same kind, but none is used out of order, and none is used
\* twice except the answer to INSPECT_ASIC on the very first run, which syncd
\* sends twice (RedisChannel::wait, ZeroMQChannel::wait, processNotifySyncd).
ImplementsRemoteCall == Abstract!Spec

\* The polling thread is out of zmq_poll from the moment it has woken the main
\* thread until the answer is sent: the two never use the socket together
\* (m_allowZmqPoll).  That holds until syncd answers INSPECT_ASIC for the second
\* time: set() then uses the socket while the thread may poll it again, and
\* m_allowZmqPoll is one answer ahead from then on.
OneThreadOnSocket ==
    Zmq /\ twice = {} /\ main # "exited" /\ (m_selectableEvent \/ main = "handling") => poll = "spin"

\* A request that reaches a syncd in normal operation is taken in the end,
\* also when the answer to the one before it went to a socket that is gone;
\* over redis that holds in shutdown-wait mode too.
RequestIsTaken ==
    \A i \in Ids : Queued(i) ~> \/ ~Queued(i)
                                \/ main = "exited"
                                \/ Zmq /\ inShutdownWaitMode

\* Syncd::processEventInShutdownWaitMode: syncd must respond to INIT_VIEW with
\* FAILURE to avoid deadlock with OA.  So a notify request that is waiting is
\* taken, unless syncd ends.
NotifyIsTakenInShutdownWait ==
    \A i \in Ids : /\ inShutdownWaitMode
                   /\ Queued(i)
                   /\ call[i].kind = "notify"
                   ~> ~Queued(i) \/ main = "exited"
================================================================================
