----------------------------- MODULE MessageFifo -----------------------------
(***************************************************************************)
(* What queue.h promises its callers: a call of push or front_pop takes    *)
(* effect at one instant between its call and its return, messages leave   *)
(* in the order they came, and a front_pop waits while there are none.     *)
(***************************************************************************)
EXTENDS Naturals, Sequences

CONSTANTS Producers, Consumers, Messages, Nothing

VARIABLES
    queue,
    phase,  \* of each thread's call: "idle", "called" or "done"
    value   \* the argument of a push, the result of a front_pop

vars == <<queue, phase, value>>

Init ==
    /\ queue = <<>>
    /\ phase = [t \in Producers \cup Consumers |-> "idle"]
    /\ value = [t \in Producers \cup Consumers |-> Nothing]

\* A call begins; a push with its message, a front_pop with nothing.
Call(t, m) ==
    /\ phase[t] = "idle"
    /\ m \in IF t \in Producers THEN Messages ELSE {Nothing}
    /\ phase' = [phase EXCEPT ![t] = "called"]
    /\ value' = [value EXCEPT ![t] = m]
    /\ UNCHANGED queue

Put(p) ==
    /\ phase[p] = "called"
    /\ queue' = Append(queue, value[p])
    /\ phase' = [phase EXCEPT ![p] = "done"]
    /\ UNCHANGED value

Take(c) ==
    /\ phase[c] = "called"
    /\ queue # <<>>
    /\ queue' = Tail(queue)
    /\ value' = [value EXCEPT ![c] = Head(queue)]
    /\ phase' = [phase EXCEPT ![c] = "done"]

Return(t) ==
    /\ phase[t] = "done"
    /\ phase' = [phase EXCEPT ![t] = "idle"]
    /\ UNCHANGED <<queue, value>>

Next ==
    \/ \E t \in Producers \cup Consumers :
         (\E m \in Messages \cup {Nothing} : Call(t, m)) \/ Return(t)
    \/ \E p \in Producers : Put(p)
    \/ \E c \in Consumers : Take(c)

SafeSpec == Init /\ [][Next]_vars

\* A push takes effect, and so does some front_pop while messages are there;
\* which of several waiting callers gets one is not promised.
Fairness ==
    /\ \A p \in Producers : WF_vars(Put(p))
    /\ WF_vars(\E c \in Consumers : Take(c))
    /\ \A t \in Producers \cup Consumers : WF_vars(Return(t))

Spec == SafeSpec /\ Fairness
=============================================================================
