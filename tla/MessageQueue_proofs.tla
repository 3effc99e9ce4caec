------------------------- MODULE MessageQueue_proofs -------------------------
(***************************************************************************)
(* Proofs about the blocking queue for any finite sets of producers and    *)
(* consumers, any messages and any bound: its types, that no wake-up is    *)
(* lost, and that it implements the queue of atomic calls.                 *)
(***************************************************************************)
EXTENDS MessageQueue, FiniteSetTheorems, TLAPS

\* Every variable keeps its type, and what front_pop returns was pushed:
\* returnValue is a message whenever the call is on its way out (queue.h:34-55).
THEOREM TypeCorrect == Spec => []TypeOK
<1>1. Init => TypeOK
  BY DEF Init, TypeOK, Threads
<1>2. TypeOK /\ [Next]_vars => TypeOK'
  <2> SUFFICES ASSUME TypeOK, [Next]_vars PROVE TypeOK'
    OBVIOUS
  <2> USE ThreadAssumption DEF TypeOK, Threads, Goto
  <2>1. ASSUME NEW p \in Producers, NEW m \in Messages, CallPush(p, m) PROVE TypeOK'
    BY <2>1 DEF CallPush
  <2>2. ASSUME NEW p \in Producers, Push(p) PROVE TypeOK'
    BY <2>2 DEF Push
  <2>3. ASSUME NEW p \in Producers, Notify(p) PROVE TypeOK'
    <3>1. CASE Waiting = {} /\ Goto(p, "unlock")
      BY <2>3, <3>1 DEF Notify
    <3>2. ASSUME NEW c \in Waiting, pc' = [pc EXCEPT ![p] = "unlock", ![c] = "lock"]
          PROVE TypeOK'
      BY <2>3, <3>2 DEF Notify, Waiting
    <3> QED BY <2>3, <3>1, <3>2 DEF Notify
  <2>4. ASSUME NEW c \in Consumers, CallFrontPop(c) PROVE TypeOK'
    BY <2>4 DEF CallFrontPop
  <2>5. ASSUME NEW c \in Consumers, Wait(c) PROVE TypeOK'
    BY <2>5 DEF Wait
  <2>6. ASSUME NEW c \in Consumers, SpuriousWakeup(c) PROVE TypeOK'
    BY <2>6 DEF SpuriousWakeup
  <2>7. ASSUME NEW c \in Consumers, FrontPop(c) PROVE TypeOK'
    <3>1. Head(queue) \in Messages /\ Tail(queue) \in Seq(Messages)
      BY <2>7 DEF FrontPop
    <3> QED BY <2>7, <3>1 DEF FrontPop
  <2>8. ASSUME NEW t \in Threads, Lock(t) PROVE TypeOK'
    BY <2>8 DEF Lock
  <2>9. ASSUME NEW t \in Threads, Unlock(t) PROVE TypeOK'
    BY <2>9 DEF Unlock
  <2>10. CASE UNCHANGED vars
    BY <2>10 DEF vars
  <2> QED
    BY <2>1, <2>2, <2>3, <2>4, <2>5, <2>6, <2>7, <2>8, <2>9, <2>10 DEF Next
<1> QED BY <1>1, <1>2, PTL DEF Spec

-----------------------------------------------------------------------------

\* Coming and Notifying are finite, so that they can be counted.
LEMMA Countable ==
    /\ IsFiniteSet(Coming) /\ Cardinality(Coming) \in Nat
    /\ IsFiniteSet(Notifying) /\ Cardinality(Notifying) \in Nat
<1>1. Coming \subseteq Consumers /\ Notifying \subseteq Producers
  BY DEF Coming, Notifying
<1>2. IsFiniteSet(Coming) /\ IsFiniteSet(Notifying)
  BY <1>1, ThreadAssumption, FS_Subset
<1> QED BY <1>2, FS_CardinalityType

\* The same of the next state.
LEMMA CountableNext ==
    /\ IsFiniteSet(Coming') /\ Cardinality(Coming') \in Nat
    /\ IsFiniteSet(Notifying') /\ Cardinality(Notifying') \in Nat
<1>1. Coming' \subseteq Consumers /\ Notifying' \subseteq Producers
  BY DEF Coming, Notifying
<1>2. IsFiniteSet(Coming') /\ IsFiniteSet(Notifying')
  BY <1>1, ThreadAssumption, FS_Subset
<1> QED BY <1>2, FS_CardinalityType

\* One step changes each count by at most the one thread that moves.
LEMMA Counting ==
    ASSUME NEW S, NEW x, IsFiniteSet(S)
    PROVE  /\ x \in S => Cardinality(S \ {x}) = Cardinality(S) - 1
           /\ x \notin S => Cardinality(S \cup {x}) = Cardinality(S) + 1
BY FS_AddElement, FS_RemoveElement

\* A queued message always has a consumer coming for it, a push about to
\* wake one, or no consumer that sleeps: push appends before it notifies
\* and a consumer sleeps only on an empty queue (queue.h:34-39, 47-55).
THEOREM WakeUpsKept == Spec => []NoLostWakeUp
<1>1. Init => NoLostWakeUp
  BY DEF Init, NoLostWakeUp, Waiting, Threads
<1>2. TypeOK /\ TypeOK' /\ NoLostWakeUp /\ [Next]_vars => NoLostWakeUp'
  <2> SUFFICES ASSUME TypeOK, TypeOK', NoLostWakeUp, [Next]_vars PROVE NoLostWakeUp'
    OBVIOUS
  <2>0. Len(queue) \in Nat /\ Len(queue') \in Nat
    BY DEF TypeOK
  <2> USE ThreadAssumption, <2>0, Countable, CountableNext DEF Threads, Goto
  <2>1. ASSUME NEW p \in Producers, NEW m \in Messages, CallPush(p, m) PROVE NoLostWakeUp'
    <3>1. Waiting' = Waiting /\ Coming' = Coming /\ Notifying' = Notifying /\ queue' = queue
      BY <2>1 DEF CallPush, Waiting, Coming, Notifying, TypeOK
    <3> QED BY <3>1 DEF NoLostWakeUp
  <2>2. ASSUME NEW p \in Producers, Push(p) PROVE NoLostWakeUp'
    <3>1. Waiting' = Waiting /\ Coming' = Coming
      BY <2>2 DEF Push, Waiting, Coming, TypeOK
    <3>2. p \notin Notifying /\ Notifying' = Notifying \cup {p}
      BY <2>2 DEF Push, Notifying, TypeOK
    <3>3. Len(queue') = Len(queue) + 1
      BY <2>2 DEF Push, TypeOK
    <3>4. Cardinality(Notifying') = Cardinality(Notifying) + 1
      BY <3>2, Counting
    <3> QED BY <3>1, <3>3, <3>4 DEF NoLostWakeUp
  <2>3. ASSUME NEW p \in Producers, Notify(p) PROVE NoLostWakeUp'
    <3>1. CASE Waiting = {} /\ Goto(p, "unlock")
      <4>1. Waiting' = {}
        BY <2>3, <3>1 DEF Notify, Waiting, TypeOK
      <4> QED BY <4>1 DEF NoLostWakeUp
    <3>2. ASSUME NEW c \in Waiting, pc' = [pc EXCEPT ![p] = "unlock", ![c] = "lock"]
          PROVE NoLostWakeUp'
      <4>1. c \notin Coming /\ Coming' = Coming \cup {c}
        BY <2>3, <3>2 DEF Notify, Waiting, Coming, TypeOK
      <4>2. p \in Notifying /\ Notifying' = Notifying \ {p}
        BY <2>3, <3>2 DEF Notify, Waiting, Notifying, TypeOK
      <4>3. /\ Cardinality(Coming') = Cardinality(Coming) + 1
            /\ Cardinality(Notifying') = Cardinality(Notifying) - 1
        BY <4>1, <4>2, Counting
      <4>4. Waiting # {} /\ queue' = queue
        BY <2>3, <3>2 DEF Notify
      <4> QED BY <4>3, <4>4 DEF NoLostWakeUp
    <3> QED BY <2>3, <3>1, <3>2 DEF Notify
  <2>4. ASSUME NEW c \in Consumers, CallFrontPop(c) PROVE NoLostWakeUp'
    <3>1. Waiting' = Waiting /\ Notifying' = Notifying /\ queue' = queue
      BY <2>4 DEF CallFrontPop, Waiting, Notifying, TypeOK
    <3>2. c \notin Coming /\ Coming' = Coming \cup {c}
      BY <2>4 DEF CallFrontPop, Coming, TypeOK
    <3>3. Cardinality(Coming') = Cardinality(Coming) + 1
      BY <3>2, Counting
    <3> QED BY <3>1, <3>3 DEF NoLostWakeUp
  <2>5. ASSUME NEW c \in Consumers, Wait(c) PROVE NoLostWakeUp'
    <3>1. Len(queue') = 0
      BY <2>5 DEF Wait
    <3> QED BY <3>1 DEF NoLostWakeUp
  <2>6. ASSUME NEW c \in Consumers, SpuriousWakeup(c) PROVE NoLostWakeUp'
    <3>1. Waiting # {} /\ Notifying' = Notifying /\ queue' = queue
      BY <2>6 DEF SpuriousWakeup, Waiting, Notifying, TypeOK
    <3>2. c \notin Coming /\ Coming' = Coming \cup {c}
      BY <2>6 DEF SpuriousWakeup, Coming, TypeOK
    <3>3. Cardinality(Coming') = Cardinality(Coming) + 1
      BY <3>2, Counting
    <3> QED BY <3>1, <3>3 DEF NoLostWakeUp
  <2>7. ASSUME NEW c \in Consumers, FrontPop(c) PROVE NoLostWakeUp'
    <3>1. Waiting' = Waiting /\ Notifying' = Notifying
      BY <2>7 DEF FrontPop, Waiting, Notifying, TypeOK
    <3>2. c \in Coming /\ Coming' = Coming \ {c}
      BY <2>7 DEF FrontPop, Coming, TypeOK
    <3>3. Len(queue') = Len(queue) - 1
      BY <2>7 DEF FrontPop, TypeOK
    <3>4. Cardinality(Coming') = Cardinality(Coming) - 1
      BY <3>2, Counting
    <3> QED BY <3>1, <3>3, <3>4 DEF NoLostWakeUp
  <2>8. ASSUME NEW t \in Threads, Lock(t) PROVE NoLostWakeUp'
    <3>1. Waiting' = Waiting /\ Coming' = Coming /\ Notifying' = Notifying /\ queue' = queue
      BY <2>8 DEF Lock, Waiting, Coming, Notifying, TypeOK
    <3> QED BY <3>1 DEF NoLostWakeUp
  <2>9. ASSUME NEW t \in Threads, Unlock(t) PROVE NoLostWakeUp'
    <3>1. Waiting' = Waiting /\ Coming' = Coming /\ Notifying' = Notifying /\ queue' = queue
      BY <2>9 DEF Unlock, Waiting, Coming, Notifying, TypeOK
    <3> QED BY <3>1 DEF NoLostWakeUp
  <2>10. CASE UNCHANGED vars
    <3>1. Waiting' = Waiting /\ Coming' = Coming /\ Notifying' = Notifying /\ queue' = queue
      BY <2>10 DEF vars, Waiting, Coming, Notifying
    <3> QED BY <3>1 DEF NoLostWakeUp
  <2> QED
    BY <2>1, <2>2, <2>3, <2>4, <2>5, <2>6, <2>7, <2>8, <2>9, <2>10 DEF Next
<1> QED BY <1>1, <1>2, TypeCorrect, PTL DEF Spec

-----------------------------------------------------------------------------

\* Every step of the queue is a step of the atomic queue or changes nothing
\* its callers see: a push takes effect at queue.push, a front_pop where it
\* takes the front, and locking, sleeping and waking are invisible.
THEOREM ImplementsFifoSafely == Spec => Fifo!SafeSpec
<1>1. Init => Fifo!Init
  BY DEF Init, Fifo!Init, CallPhase, Threads
<1>2. TypeOK /\ [Next]_vars => [Fifo!Next]_(Fifo!vars)
  <2> SUFFICES ASSUME TypeOK, [Next]_vars PROVE [Fifo!Next]_(Fifo!vars)
    OBVIOUS
  <2> USE ThreadAssumption DEF TypeOK, Threads, Goto, CallPhase
  <2>1. ASSUME NEW p \in Producers, NEW m \in Messages, CallPush(p, m)
        PROVE Fifo!Call(p, m)
    BY <2>1 DEF CallPush, Fifo!Call
  <2>2. ASSUME NEW p \in Producers, Push(p) PROVE Fifo!Put(p)
    BY <2>2 DEF Push, Fifo!Put
  <2>3. ASSUME NEW p \in Producers, Notify(p) PROVE UNCHANGED Fifo!vars
    <3>1. CASE Waiting = {} /\ Goto(p, "unlock")
      BY <2>3, <3>1 DEF Notify, Fifo!vars
    <3>2. ASSUME NEW c \in Waiting, pc' = [pc EXCEPT ![p] = "unlock", ![c] = "lock"]
          PROVE UNCHANGED Fifo!vars
      BY <2>3, <3>2 DEF Notify, Waiting, Fifo!vars
    <3> QED BY <2>3, <3>1, <3>2 DEF Notify
  <2>4. ASSUME NEW c \in Consumers, CallFrontPop(c) PROVE Fifo!Call(c, Nothing)
    BY <2>4 DEF CallFrontPop, Fifo!Call
  <2>5. ASSUME NEW c \in Consumers, Wait(c) PROVE UNCHANGED Fifo!vars
    BY <2>5 DEF Wait, Fifo!vars
  <2>6. ASSUME NEW c \in Consumers, SpuriousWakeup(c) PROVE UNCHANGED Fifo!vars
    BY <2>6 DEF SpuriousWakeup, Fifo!vars
  <2>7. ASSUME NEW c \in Consumers, FrontPop(c) PROVE Fifo!Take(c)
    BY <2>7 DEF FrontPop, Fifo!Take
  <2>8. ASSUME NEW t \in Threads, Lock(t) PROVE UNCHANGED Fifo!vars
    BY <2>8 DEF Lock, Fifo!vars
  <2>9. ASSUME NEW t \in Threads, Unlock(t) PROVE Fifo!Return(t)
    BY <2>9 DEF Unlock, Fifo!Return
  <2>10. CASE UNCHANGED vars
    BY <2>10 DEF vars, Fifo!vars
  <2> QED
    BY <2>1, <2>2, <2>3, <2>4, <2>5, <2>6, <2>7, <2>8, <2>9, <2>10 DEF Next, Fifo!Next
<1> QED BY <1>1, <1>2, TypeCorrect, PTL DEF Spec, Fifo!SafeSpec
=============================================================================
