------------------------------ MODULE RemoteCall ------------------------------
(***************************************************************************)
(* What a caller of the sairedis library may rely on, whatever carries its *)
(* calls: one call at a time; a request is handled at most once; a call    *)
(* that gives up may still be handled afterwards; and a call that returns  *)
(* has the answer to its own request.                                      *)
(*                                                                         *)
(* Where answers may be late, a call may return the answer a call of the   *)
(* same kind gave up waiting for.  Even then no answer is older than one   *)
(* that was used before, and none is used twice, unless the other side has *)
(* answered twice; the second answer is then one that comes too late.      *)
(***************************************************************************)
EXTENDS Naturals

CONSTANTS MaxCalls,  \* bound: calls made
          Kinds      \* kinds of answers

VARIABLES late,      \* whether the transport may deliver late answers
          call,      \* call[i]: the i-th call
          handled,   \* requests the other side has handled
          twice      \* requests it has answered twice

vars == <<late, call, handled, twice>>

Ids == 1..MaxCalls
Unused == [kind |-> CHOOSE k \in Kinds : TRUE, state |-> "unused", answer |-> 0, again |-> 0]
\* Answers in the order of their requests, the second one after the first.
Rank(j, again) == 2 * j + again
Made(i) == i \in Ids /\ call[i].state # "unused"
Pending(i) == call[i].state = "pending"

Init ==
    /\ late \in BOOLEAN
    /\ call = [i \in Ids |-> Unused]
    /\ handled = {}
    /\ twice = {}

Invoke(i, k) ==
    /\ \A j \in Ids : ~Pending(j)
    /\ \A j \in Ids : Made(j) <=> j < i
    /\ call' = [call EXCEPT ![i] = [kind |-> k, state |-> "pending", answer |-> 0, again |-> 0]]
    /\ UNCHANGED <<late, handled, twice>>

Handle(i) ==
    /\ Made(i)
    /\ i \notin handled
    /\ handled' = handled \cup {i}
    /\ UNCHANGED <<late, call, twice>>

AnswerTwice(i) ==
    /\ i \in handled
    /\ twice' = twice \cup {i}
    /\ UNCHANGED <<late, call, handled>>

\* Call i returns with the answer to request j, the second one or not.
Return(i, j, again) ==
    /\ Pending(i)
    /\ j \in handled
    /\ call[j].kind = call[i].kind
    /\ again = 1 => j \in twice
    /\ \A m \in Ids : Rank(call[m].answer, call[m].again) < Rank(j, again)
    /\ ~late => j = i /\ again = 0
    /\ call' = [call EXCEPT ![i].state = "answered", ![i].answer = j, ![i].again = again]
    /\ UNCHANGED <<late, handled, twice>>

\* A timeout, or the end of the calling process.
GiveUp(i) ==
    /\ Pending(i)
    /\ call' = [call EXCEPT ![i].state = "gaveup"]
    /\ UNCHANGED <<late, handled, twice>>

Next ==
    \E i \in Ids :
        \/ \E k \in Kinds : Invoke(i, k)
        \/ Handle(i)
        \/ AnswerTwice(i)
        \/ \E j \in Ids, again \in {0, 1} : Return(i, j, again)
        \/ GiveUp(i)

Spec == Init /\ [][Next]_vars
================================================================================
