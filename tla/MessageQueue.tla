---------------------------- MODULE MessageQueue ----------------------------
(***************************************************************************)
(* The blocking queue (queue.h) between the threads that have something to *)
(* show and the thread that shows it: a std::queue, a mutex and a          *)
(* condition variable.  push and front_pop are what the gateway calls;     *)
(* the class admits any number of callers of each.                         *)
(***************************************************************************)
EXTENDS Naturals, Sequences, FiniteSets

CONSTANTS
    Producers,  \* threads that call push
    Consumers,  \* threads that call front_pop
    Messages,
    Nothing,    \* no message
    Bound       \* so many messages are queued or about to be, at most

Threads == Producers \cup Consumers

ASSUME ThreadAssumption ==
    /\ IsFiniteSet(Producers) /\ IsFiniteSet(Consumers)
    /\ Producers \cap Consumers = {}
    /\ Nothing \notin Messages /\ Nothing \notin Threads
    /\ Bound \in Nat \ {0}

VARIABLES
    queue,
    mutex,  \* the thread that holds it, or Nothing
    pc,
    value   \* the argument of a push, returnValue of a front_pop

vars == <<queue, mutex, pc, value>>

-----------------------------------------------------------------------------

Init ==
    /\ queue = <<>>
    /\ mutex = Nothing
    /\ pc = [t \in Threads |-> "idle"]
    /\ value = [t \in Threads |-> Nothing]

\* The threads asleep in nonempty.wait.
Waiting == {c \in Consumers : pc[c] = "wait"}

Goto(t, where) == pc' = [pc EXCEPT ![t] = where]

\* Room in the model's bounded queue; the code's has no bound.
Room == Len(queue) + Cardinality({p \in Producers : pc[p] \in {"lock", "push"}}) < Bound

CallPush(p, m) ==
    /\ pc[p] = "idle" /\ Room
    /\ Goto(p, "lock")
    /\ value' = [value EXCEPT ![p] = m]
    /\ UNCHANGED <<queue, mutex>>

CallFrontPop(c) ==
    /\ pc[c] = "idle"
    /\ Goto(c, "lock")
    /\ value' = [value EXCEPT ![c] = Nothing]
    /\ UNCHANGED <<queue, mutex>>

\* The constructor of unique_lock, or the return of wait.
Lock(t) ==
    /\ pc[t] = "lock" /\ mutex = Nothing
    /\ mutex' = t
    /\ Goto(t, IF t \in Producers THEN "push" ELSE "test")
    /\ UNCHANGED <<queue, value>>

Push(p) ==
    /\ pc[p] = "push"
    /\ queue' = Append(queue, value[p])
    /\ Goto(p, "notify")
    /\ UNCHANGED <<mutex, value>>

\* Fault: only a push to an empty queue notifies.
NotifyFirstOnly(p) ==
    /\ pc[p] = "notify"
    /\ \/ Len(queue) = 1 /\ \E c \in Waiting : pc' = [pc EXCEPT ![p] = "unlock", ![c] = "lock"]
       \/ (Len(queue) # 1 \/ Waiting = {}) /\ Goto(p, "unlock")
    /\ UNCHANGED <<queue, mutex, value>>

\* notify_one wakes one of the sleeping threads, if there is one; it has to
\* take the mutex again.
Notify(p) ==
    /\ pc[p] = "notify"
    /\ \/ \E c \in Waiting : pc' = [pc EXCEPT ![p] = "unlock", ![c] = "lock"]
       \/ Waiting = {} /\ Goto(p, "unlock")
    /\ UNCHANGED <<queue, mutex, value>>

\* The condition of the loop holds: release the mutex and sleep, at once.
Wait(c) ==
    /\ pc[c] = "test" /\ queue = <<>>
    /\ mutex' = Nothing
    /\ Goto(c, "wait")
    /\ UNCHANGED <<queue, value>>

\* wait may return for no reason.
SpuriousWakeup(c) ==
    /\ pc[c] = "wait"
    /\ Goto(c, "lock")
    /\ UNCHANGED <<queue, mutex, value>>

\* Fault: the queue is not looked at.
FrontPopUntested(c) ==
    /\ pc[c] = "test"
    /\ queue' = IF queue = <<>> THEN queue ELSE Tail(queue)
    /\ value' = [value EXCEPT ![c] = IF queue = <<>> THEN Nothing ELSE Head(queue)]
    /\ Goto(c, "unlock")
    /\ UNCHANGED mutex

\* Fault: the message that came last is returned.
BackPop(c) ==
    /\ pc[c] = "test" /\ queue # <<>>
    /\ queue' = Tail(queue)
    /\ value' = [value EXCEPT ![c] = queue[Len(queue)]]
    /\ Goto(c, "unlock")
    /\ UNCHANGED mutex

\* The queue is not empty: take its front.
FrontPop(c) ==
    /\ pc[c] = "test" /\ queue # <<>>
    /\ queue' = Tail(queue)
    /\ value' = [value EXCEPT ![c] = Head(queue)]
    /\ Goto(c, "unlock")
    /\ UNCHANGED mutex

\* The destructor of unique_lock, and the return.
Unlock(t) ==
    /\ pc[t] = "unlock"
    /\ mutex' = Nothing
    /\ Goto(t, "idle")
    /\ UNCHANGED <<queue, value>>

Step(t) == Push(t) \/ Notify(t) \/ Wait(t) \/ FrontPop(t) \/ Unlock(t)

Next ==
    \/ \E p \in Producers, m \in Messages : CallPush(p, m)
    \/ \E p \in Producers : Push(p) \/ Notify(p)
    \/ \E c \in Consumers : CallFrontPop(c) \/ Wait(c) \/ SpuriousWakeup(c) \/ FrontPop(c)
    \/ \E t \in Threads : Lock(t) \/ Unlock(t)

\* Nobody sleeps with the mutex, and the threads of the gateway are asleep
\* most of the time between their calls: who waits for the mutex gets it.
Fairness == \A t \in Threads : WF_vars(Step(t)) /\ SF_vars(Lock(t))

Spec == Init /\ [][Next]_vars /\ Fairness

-----------------------------------------------------------------------------

TypeOK ==
    /\ queue \in Seq(Messages)
    /\ mutex \in Threads \cup {Nothing}
    /\ pc \in [Threads -> {"idle", "lock", "push", "notify", "test", "wait", "unlock"}]
    /\ \A p \in Producers : pc[p] \notin {"test", "wait"}
    /\ \A c \in Consumers : pc[c] \notin {"push", "notify"}
    /\ value \in [Threads -> Messages \cup {Nothing}]
    /\ \A t \in Threads : pc[t] = "unlock" => value[t] \in Messages
    /\ \A p \in Producers : pc[p] # "idle" => value[p] \in Messages

\* The consumers on their way to look at the queue, and the pushes that have
\* yet to notify.
Coming == {c \in Consumers : pc[c] \in {"lock", "test"}}
Notifying == {p \in Producers : pc[p] = "notify"}

\* While a consumer sleeps, every queued message has a consumer coming for
\* it or a push about to wake one: with notify_one, several consumers and
\* spurious wake-ups, no message lies unattended (lines 34-39 and 47-55).
NoLostWakeUp ==
    Waiting # {} => Len(queue) <= Cardinality(Coming) + Cardinality(Notifying)

\* Where a call is, for its caller.
CallPhase ==
    [t \in Threads |->
        IF pc[t] = "idle" THEN "idle"
        ELSE IF pc[t] \in {"notify", "unlock"} THEN "done" ELSE "called"]

Fifo == INSTANCE MessageFifo WITH phase <- CallPhase

\* Queue implements the first-in first-out queue of atomic calls, and its
\* liveness: a push gets in and queued messages are taken.
ImplementsFifo == Fifo!Spec
=============================================================================
