------------------------------ MODULE Ui_proofs ------------------------------
(***************************************************************************)
(* The safety invariants of Ui, for any number of threads, any texts and   *)
(* any bound of the queue.                                                 *)
(***************************************************************************)
EXTENDS Ui, TLAPS

\* The types of the messages in the queue.
Queued == Types \cup {"alarm"}

\* A message has at most two beeps.
LEMMA BeepsRange == ASSUME NEW type PROVE Beeps(type) \in 0 .. 2
  BY DEF Beeps

\* While it beeps or pauses, a message has a beep to finish.
BeepInv == uiPc \in {"beeping", "pausing"} => beeps > 0

\* The types and the count of the beeps, which is what makes them inductive.
TypeInv == TypeOK /\ BeepInv

\* The invariant of the types holds at the start ...
LEMMA TypeInit == Init => TypeInv
  <1> SUFFICES ASSUME Init PROVE TypeInv
    OBVIOUS
  <1>1. alarmOn \in BOOLEAN /\ buzzer \in BOOLEAN
    BY Zenon DEF Init
  <1>2. /\ mutex = "nobody" /\ alarmMessage = NoText /\ messageQueue = <<>>
        /\ uiPc = "loop" /\ beeps = 0 /\ screen = "clear"
        /\ callPc = [c \in Callers |-> "idle"]
        /\ callText = [c \in Callers |-> NoText]
    BY Zenon DEF Init
  <1> QED BY <1>1, <1>2 DEF TypeInv, BeepInv, TypeOK

\* ... and every step keeps it.
LEMMA TypeStep == TypeInv /\ [Next]_vars => TypeInv'
  <1> SUFFICES ASSUME TypeInv, [Next]_vars PROVE TypeInv'
    OBVIOUS
  <1> USE DEF TypeInv, BeepInv, TypeOK, alarm, devices, calls
  <1>1. CASE Acquire BY <1>1 DEF Acquire
  <1>2. CASE DrawDefault
    <2>1. buzzer' \in BOOLEAN BY <1>2, Zenon DEF DrawDefault
    <2>2. screen' \in AlarmTexts \cup {NoText, "clear", "message"}
      BY <1>2, Zenon DEF DrawDefault
    <2>3. mutex' = "nobody" /\ uiPc' \in {"loop", "pop"}
          /\ UNCHANGED <<alarm, messageQueue, beeps, calls>>
      BY <1>2, Zenon DEF DrawDefault
    <2> QED BY <2>1, <2>2, <2>3
  <1>3. CASE PopAlarm BY <1>3 DEF PopAlarm
  <1>4. CASE PopMessage
    <2>1. beeps' \in 0 .. 2 BY <1>4, BeepsRange DEF PopMessage
    <2>2. messageQueue' \in Seq(Queued) BY <1>4 DEF PopMessage, Queued
    <2>3. buzzer' \in BOOLEAN BY <1>4, Zenon DEF PopMessage
    <2>4. /\ screen' = "message"
          /\ uiPc' = IF beeps' > 0 THEN "beeping" ELSE "showing"
          /\ UNCHANGED <<mutex, alarm, calls>>
      BY <1>4, Zenon DEF PopMessage
    <2> QED BY <2>1, <2>2, <2>3, <2>4 DEF Queued
  <1>5. CASE BeepEnds
    <2>1. /\ uiPc = "beeping" /\ beeps' = beeps - 1
          /\ uiPc' = IF beeps > 1 THEN "pausing" ELSE "showing"
          /\ UNCHANGED <<mutex, alarm, messageQueue, screen, calls>>
      BY <1>5, Zenon DEF BeepEnds
    <2>2. buzzer' \in BOOLEAN BY <1>5, Zenon DEF BeepEnds
    <2> QED BY <2>1, <2>2
  <1>6. CASE NextBeep
    BY <1>6 DEF NextBeep
  <1>7. CASE ShowEnds BY <1>7 DEF ShowEnds
  <1>8. ASSUME NEW type \in Types, Message(type) PROVE TypeInv'
    BY <1>8 DEF Message
  <1>9. ASSUME NEW c \in Callers, NEW text \in AlarmTexts \cup {NoText}, Call(c, text)
        PROVE  TypeInv'
    BY <1>9 DEF Call
  <1>10. ASSUME NEW c \in Callers, Lock(c) PROVE TypeInv'
    BY <1>10 DEF Lock
  <1>11. ASSUME NEW c \in Callers, CallStep(c) PROVE TypeInv'
    <2>1. CASE SetFlag(c)
      <3>1. alarmOn' \in BOOLEAN BY <2>1, Zenon DEF SetFlag
      <3>2. callPc' = [callPc EXCEPT ![c] = "text"]
            /\ UNCHANGED <<mutex, alarmMessage, messageQueue, uiPc, devices, callText>>
        BY <2>1, Zenon DEF SetFlag
      <3> QED BY <3>1, <3>2
    <2>2. CASE SetText(c) BY <2>2 DEF SetText
    <2>3. CASE PushAlarm(c) BY <2>3 DEF PushAlarm
    <2>4. CASE Unlock(c) BY <2>4 DEF Unlock
    <2> QED BY <1>11, <2>1, <2>2, <2>3, <2>4 DEF CallStep
  <1>12. CASE UNCHANGED vars BY <1>12 DEF vars
  <1> QED
    BY <1>1, <1>2, <1>3, <1>4, <1>5, <1>6, <1>7, <1>8, <1>9, <1>10, <1>11, <1>12
    DEF Next, UiStep

\* Every variable keeps its type; a message never beeps more than it should.
THEOREM TypeCorrect == Spec => []TypeOK
  <1>1. TypeInv => TypeOK BY DEF TypeInv
  <1> QED BY TypeInit, TypeStep, <1>1, PTL DEF Spec

-----------------------------------------------------------------------------

\* The mutex is held by whoever is inside: the Ui thread while it draws, a
\* caller from its lock to its unlock.
MutexInv ==
    /\ uiPc \in {"shownHeld", "loopHeld"} <=> mutex = "ui"
    /\ \A c \in Callers :
         callPc[c] \in {"flag", "text", "push", "unlock"} <=> mutex = c

\* A caller that has written the flag finds it as written; between the writes
\* of the flag and of the text they disagree, and only then.
TextInv ==
    /\ \A c \in Callers :
         callPc[c] \in {"text", "push", "unlock"} => (alarmOn <=> callText[c] # NoText)
    /\ (\A c \in Callers : callPc[c] # "text") => (alarmOn <=> alarmMessage # NoText)
    /\ NoTornAlarm

\* No step breaks the mutual exclusion.
LEMMA MutexStep == TypeOK /\ MutexInv /\ [Next]_vars => MutexInv'
  <1> USE CallAssumption DEF MutexInv
  <1> SUFFICES ASSUME TypeOK, MutexInv, [Next]_vars PROVE MutexInv'
    OBVIOUS
  <1> USE DEF TypeOK, calls
  <1>1. CASE Acquire BY <1>1 DEF Acquire
  <1>2. CASE DrawDefault BY <1>2 DEF DrawDefault
  <1>3. CASE PopAlarm BY <1>3 DEF PopAlarm
  <1>4. CASE PopMessage
    <2>1. uiPc = "pop" /\ uiPc' \in {"beeping", "showing"} /\ UNCHANGED <<mutex, calls>>
      BY <1>4, Zenon DEF PopMessage
    <2> QED BY <2>1
  <1>5. CASE BeepEnds BY <1>5 DEF BeepEnds
  <1>6. CASE NextBeep BY <1>6 DEF NextBeep
  <1>7. CASE ShowEnds BY <1>7 DEF ShowEnds
  <1>8. ASSUME NEW type \in Types, Message(type) PROVE MutexInv'
    BY <1>8 DEF Message
  <1>9. ASSUME NEW c \in Callers, NEW text \in AlarmTexts \cup {NoText}, Call(c, text)
        PROVE  MutexInv'
    BY <1>9 DEF Call
  <1>10. ASSUME NEW c \in Callers, Lock(c) PROVE MutexInv'
    BY <1>10 DEF Lock
  <1>11. ASSUME NEW c \in Callers, CallStep(c) PROVE MutexInv'
    BY <1>11 DEF CallStep, SetFlag, SetText, PushAlarm, Unlock
  <1>12. CASE UNCHANGED vars BY <1>12 DEF vars
  <1> QED
    BY <1>1, <1>2, <1>3, <1>4, <1>5, <1>6, <1>7, <1>8, <1>9, <1>10, <1>11, <1>12
    DEF Next, UiStep

\* The critical sections exclude each other.
LEMMA MutexInvariant == Spec => []MutexInv
  <1>1. Init => MutexInv
    BY CallAssumption DEF Init, MutexInv
  <1> QED BY <1>1, MutexStep, TypeCorrect, PTL DEF Spec

\* No step tears the alarm.
LEMMA TextStep == TypeOK /\ MutexInv /\ TextInv /\ [Next]_vars => TextInv'
  <1> USE CallAssumption DEF TextInv, NoTornAlarm
  <1> SUFFICES ASSUME TypeOK, MutexInv, TextInv, [Next]_vars PROVE TextInv'
    OBVIOUS
  <1> USE DEF TypeOK, MutexInv, alarm, devices, calls
  <1>1. CASE Acquire BY <1>1 DEF Acquire
  <1>2. CASE DrawDefault
    <2>1. mutex = "ui" /\ UNCHANGED <<alarm, calls>>
      BY <1>2 DEF DrawDefault
    <2>2. \A c \in Callers : callPc[c] # "text"
      BY <2>1
    <2>3. screen' # NoText
      BY <1>2, <2>2 DEF DrawDefault, NoText
    <2> QED BY <2>1, <2>3
  <1>3. CASE PopAlarm BY <1>3 DEF PopAlarm
  <1>4. CASE PopMessage
    <2>1. screen' = "message" /\ UNCHANGED <<alarm, calls>>
      BY <1>4, Zenon DEF PopMessage
    <2> QED BY <2>1 DEF NoText
  <1>5. CASE BeepEnds BY <1>5 DEF BeepEnds
  <1>6. CASE NextBeep BY <1>6 DEF NextBeep
  <1>7. CASE ShowEnds BY <1>7 DEF ShowEnds
  <1>8. ASSUME NEW type \in Types, Message(type) PROVE TextInv'
    BY <1>8 DEF Message
  <1>9. ASSUME NEW c \in Callers, NEW text \in AlarmTexts \cup {NoText}, Call(c, text)
        PROVE  TextInv'
    BY <1>9 DEF Call
  <1>10. ASSUME NEW c \in Callers, Lock(c) PROVE TextInv'
    BY <1>10 DEF Lock
  <1>11. ASSUME NEW c \in Callers, CallStep(c) PROVE TextInv'
    <2>1. CASE SetFlag(c)
      <3>1. mutex = c /\ \A d \in Callers \ {c} : callPc[d] # "text"
        BY <2>1 DEF SetFlag
      <3>2. alarmOn' <=> callText[c] # NoText
        BY <2>1, Zenon DEF SetFlag
      <3>3. callPc' = [callPc EXCEPT ![c] = "text"] /\ callText' = callText /\ screen' = screen
        BY <2>1, Zenon DEF SetFlag, devices
      <3> QED BY <3>1, <3>2, <3>3
    <2>2. CASE SetText(c) BY <2>2 DEF SetText
    <2>3. CASE PushAlarm(c) BY <2>3 DEF PushAlarm
    <2>4. CASE Unlock(c) BY <2>4 DEF Unlock
    <2> QED BY <1>11, <2>1, <2>2, <2>3, <2>4 DEF CallStep
  <1>12. CASE UNCHANGED vars BY <1>12 DEF vars
  <1> QED
    BY <1>1, <1>2, <1>3, <1>4, <1>5, <1>6, <1>7, <1>8, <1>9, <1>10, <1>11, <1>12
    DEF Next, UiStep

\* An alarm is never shown without its text.
THEOREM TextSafe == Spec => []NoTornAlarm
  <1>1. Init => TextInv
    BY CallAssumption DEF Init, NoText, TextInv, NoTornAlarm
  <1>2. TextInv => NoTornAlarm
    BY DEF TextInv
  <1> QED BY <1>1, <1>2, TextStep, TypeCorrect, MutexInvariant, PTL DEF Spec

-----------------------------------------------------------------------------

\* The message of type alarm is in the queue.
AlarmQueued == \E i \in DOMAIN messageQueue : messageQueue[i] = "alarm"

\* A queue keeps what it holds when a message is added at its end.
LEMMA PushKeepsAlarm ==
    ASSUME TypeOK, NEW type \in Queued,
           messageQueue' = Append(messageQueue, type),
           AlarmQueued \/ type = "alarm"
    PROVE  AlarmQueued'
  <1>1. messageQueue \in Seq(Queued)
    BY DEF TypeOK, Queued
  <1>2. CASE AlarmQueued
    <2>1. PICK i \in DOMAIN messageQueue : messageQueue[i] = "alarm"
      BY <1>2 DEF AlarmQueued
    <2>2. i \in DOMAIN messageQueue' /\ messageQueue'[i] = "alarm"
      BY <1>1, <2>1
    <2> QED BY <2>2 DEF AlarmQueued
  <1>3. CASE type = "alarm"
    <2>1. Len(messageQueue) + 1 \in DOMAIN messageQueue'
          /\ messageQueue'[Len(messageQueue) + 1] = "alarm"
      BY <1>1, <1>3
    <2> QED BY <2>1 DEF AlarmQueued
  <1> QED BY <1>2, <1>3

\* No step loses a change of the alarm on a waiting Ui thread.
LEMMA IdleStep == TypeOK /\ MutexInv /\ IdleShowsAlarm /\ [Next]_vars => IdleShowsAlarm'
  <1> USE CallAssumption
  <1> SUFFICES ASSUME TypeOK, MutexInv, IdleShowsAlarm, [Next]_vars, uiPc' = "pop"
               PROVE  ShowsAlarm' \/ Unannounced' \/ AlarmQueued'
    BY DEF IdleShowsAlarm, AlarmQueued
  <1>0. uiPc = "pop" => ShowsAlarm \/ Unannounced \/ AlarmQueued
    BY DEF IdleShowsAlarm, AlarmQueued
  <1> USE DEF alarm, devices, calls
  <1>1. CASE Acquire BY <1>1 DEF Acquire
  <1>2. CASE DrawDefault
    <2>1. ShowsAlarm' BY <1>2, Zenon DEF DrawDefault, ShowsAlarm
    <2> QED BY <2>1
  <1>3. CASE PopAlarm BY <1>3 DEF PopAlarm
  <1>4. CASE PopMessage
    <2>1. uiPc' \in {"beeping", "showing"}
      BY <1>4, Zenon DEF PopMessage
    <2> QED BY <2>1
  <1>5. CASE BeepEnds BY <1>5 DEF BeepEnds
  <1>6. CASE NextBeep BY <1>6 DEF NextBeep
  <1>7. CASE ShowEnds BY <1>7 DEF ShowEnds
  <1>8. ASSUME NEW type \in Types, Message(type)
        PROVE  ShowsAlarm' \/ Unannounced' \/ AlarmQueued'
    <2>1. ShowsAlarm => ShowsAlarm'
      BY <1>8, Zenon DEF Message, ShowsAlarm
    <2>2. Unannounced => Unannounced'
      BY <1>8, Zenon DEF Message, Unannounced
    <2>3. AlarmQueued => AlarmQueued'
      BY <1>8, PushKeepsAlarm DEF Message, Queued
    <2>4. uiPc = "pop"
      BY <1>8 DEF Message
    <2> QED BY <1>0, <2>1, <2>2, <2>3, <2>4
  <1>9. ASSUME NEW c \in Callers, uiPc' = uiPc, messageQueue' = messageQueue,
               UNCHANGED <<alarm, devices>>,
               NEW pc, callPc' = [callPc EXCEPT ![c] = pc],
               callPc[c] \in {"text", "push"} => pc \in {"text", "push"}
        PROVE  ShowsAlarm' \/ Unannounced' \/ AlarmQueued'
    <2>1. ShowsAlarm => ShowsAlarm'
      BY <1>9, Zenon DEF ShowsAlarm
    <2>2. Unannounced => Unannounced'
      BY <1>9 DEF Unannounced, TypeOK
    <2>3. AlarmQueued => AlarmQueued'
      BY <1>9, Zenon DEF AlarmQueued
    <2> QED BY <1>0, <1>9, <2>1, <2>2, <2>3
  <1>10. ASSUME NEW c \in Callers, NEW text \in AlarmTexts \cup {NoText}, Call(c, text)
         PROVE  ShowsAlarm' \/ Unannounced' \/ AlarmQueued'
    BY <1>9, <1>10 DEF Call
  <1>11. ASSUME NEW c \in Callers, Lock(c)
         PROVE  ShowsAlarm' \/ Unannounced' \/ AlarmQueued'
    BY <1>9, <1>11 DEF Lock
  <1>12. ASSUME NEW c \in Callers, CallStep(c)
         PROVE  ShowsAlarm' \/ Unannounced' \/ AlarmQueued'
    <2>1. CASE SetFlag(c)
      <3>1. callPc'[c] = "text" BY <2>1 DEF SetFlag, TypeOK
      <3> QED BY <3>1 DEF Unannounced
    <2>2. CASE SetText(c)
      <3>1. callPc'[c] = "push" BY <2>2 DEF SetText, TypeOK
      <3> QED BY <3>1 DEF Unannounced
    <2>3. CASE PushAlarm(c)
      BY <2>3, PushKeepsAlarm DEF PushAlarm, Queued
    <2>4. CASE Unlock(c)
      BY <1>9, <2>4 DEF Unlock
    <2> QED BY <1>12, <2>1, <2>2, <2>3, <2>4 DEF CallStep
  <1>13. CASE UNCHANGED vars
    BY <1>0, <1>13, Zenon DEF vars, ShowsAlarm, Unannounced, AlarmQueued
  <1> QED
    BY <1>1, <1>2, <1>3, <1>4, <1>5, <1>6, <1>7, <1>8, <1>10, <1>11, <1>12, <1>13
    DEF Next, UiStep

\* No change of the alarm is lost on a waiting Ui thread.
THEOREM IdleSafe == Spec => []IdleShowsAlarm
  <1>1. Init => IdleShowsAlarm
    BY DEF Init, IdleShowsAlarm
  <1> QED BY <1>1, IdleStep, TypeCorrect, MutexInvariant, PTL DEF Spec
=============================================================================
