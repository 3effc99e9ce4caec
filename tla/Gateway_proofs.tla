---------------------------- MODULE Gateway_proofs ----------------------------
(***************************************************************************)
(* The gateway as one process, for every timing, every set of messages and *)
(* every bound of the queue: its types and its room in the queue, that it  *)
(* implements the door thread of DoorStateController, and that the devices *)
(* of a quiet gateway tell the truth about the door.                       *)
(*                                                                         *)
(* What is proved of Ui and of DoorStateController alone is cited here     *)
(* through instances of their proofs.  Every step of the gateway but the   *)
(* construction of the parts and the end of the process is a step of Ui,   *)
(* or leaves it alone, so Ui's inductive invariant survives it.            *)
(***************************************************************************)
EXTENDS Gateway, TLAPS

UP == INSTANCE Ui_proofs

DP == INSTANCE DoorStateController_proofs WITH
        alarmOn <- doorAlarm, uiAlarm <- Ordered,
        MaxSkew <- 0, skew <- 0, napSkew <- 0, openSkew <- 0

-----------------------------------------------------------------------------
\* The inductive invariant.

\* The types of what the gateway adds to its parts.
MainInv ==
    /\ stage \in Stages /\ scanner \in BOOLEAN
    /\ doorPc \in {"ready", "stop", "report"}
    /\ doorAlarm \in BOOLEAN

\* The invariant of Ui.
UiInv == UP!TypeInv /\ UP!MutexInv /\ UP!TextInv /\ UP!IdleShowsAlarm

\* What a process finds that starts: the Ui before its first step, no alarm,
\* no call; when the door thread starts, the greeting at most is queued.
FreshInv ==
    /\ stage \in {"off", "hardware", "build", "ui"} =>
         uiPc = "loop" /\ mutex = "nobody" /\ messageQueue = <<>>
    /\ stage = "greet" => messageQueue = <<>>
    /\ stage = "door" => Len(messageQueue) <= 1
    /\ ~DoorRunning => doorPc = "ready" /\ callPc["door"] = "idle" /\ ~alarmOn

\* The door thread's calls so far, the present and the due one included,
\* leave the Ui's alarm as the door thread's own.
OrderInv ==
    /\ Ordered <=> doorAlarm
    /\ doorPc = "stop" => callPc["door"] = "idle" /\ ~doorAlarm

Inv == MainInv /\ UiInv /\ FreshInv /\ OrderInv

\* Where the door thread's call can be.
CallPcs == [{"door"} -> {"idle", "lock", "flag", "text", "push", "unlock"}]

-----------------------------------------------------------------------------
\* The assumptions of Ui and DoorStateController hold here.

\* One caller, one text of an alarm.
LEMMA UiAssumed == UP!CallAssumption
  BY MessageAssumption
  DEF UP!CallAssumption, Callers, AlarmTexts, CloseDoor, UP!NoText

\* Both instances of Ui mean the same by no text.
LEMMA NoTexts == U!NoText = UP!NoText
  BY Zenon DEF U!NoText, UP!NoText

\* The clock is steady.
LEMMA DoorAssumed == DP!TimingAssumption
  BY TimingAssumption
  DEF DP!TimingAssumption, DP!AlarmBound, D!AlarmBound, DP!SampleBound,
      D!SampleBound

-----------------------------------------------------------------------------
\* Every step keeps the invariant.

\* What a step of the gateway is to the Ui.
LEMMA UiSteps == [Next]_vars => Build \/ Die \/ [UP!Next]_(UP!vars)
  <1> SUFFICES ASSUME [Next]_vars, ~Build, ~Die PROVE [UP!Next]_(UP!vars)
    OBVIOUS
  <1> USE DEF uiVars, memory, UP!vars, UP!alarm, UP!devices, UP!calls
  <1>1. ASSUME NEW type \in Types, U!Message(type) PROVE UP!Next
    <2>1. UP!Message(type)
      BY <1>1, Zenon
      DEF U!Message, UP!Message, U!Room, UP!Room, U!Pushing, UP!Pushing,
          U!Cardinality, UP!Cardinality, U!alarm, U!devices, U!calls
    <2> QED BY <2>1 DEF UP!Next
  <1>2. ASSUME NEW text \in {CloseDoor, U!NoText}, U!Call("door", text)
        PROVE  UP!Next
    <2>1. UP!Call("door", text)
      BY <1>2, Zenon
      DEF U!Call, UP!Call, U!Room, UP!Room, U!Pushing, UP!Pushing,
          U!Cardinality, UP!Cardinality, U!alarm, U!devices, U!calls
    <2> QED BY <2>1 DEF UP!Next, Callers, AlarmTexts, U!NoText, UP!NoText
  <1>3. CASE OnUi(U!Acquire)
    <2>1. UP!Acquire
      BY <1>3, Zenon
      DEF OnUi, U!Acquire, UP!Acquire, U!alarm, U!devices, U!calls
    <2> QED BY <2>1 DEF UP!Next
  <1>4. CASE OnUi(U!UiStep)
    <2>1. UP!UiStep
      BY <1>4, Zenon
      DEF OnUi, U!UiStep, UP!UiStep, U!DrawDefault, UP!DrawDefault, U!PopAlarm,
          UP!PopAlarm, U!PopMessage, UP!PopMessage, U!BeepEnds, UP!BeepEnds,
          U!NextBeep, UP!NextBeep, U!ShowEnds, UP!ShowEnds, U!Beeps, UP!Beeps,
          U!alarm, U!devices, U!calls
    <2> QED BY <2>1 DEF UP!Next
  <1>5. CASE OnUi(U!Lock("door"))
    <2>1. UP!Lock("door")
      BY <1>5, Zenon DEF OnUi, U!Lock, UP!Lock, U!alarm, U!devices, U!calls
    <2> QED BY <2>1 DEF UP!Next, Callers
  <1>6. CASE OnUi(U!CallStep("door"))
    <2>1. UP!CallStep("door")
      BY <1>6, Zenon
      DEF OnUi, U!CallStep, UP!CallStep, U!SetFlag, UP!SetFlag, U!SetText,
          UP!SetText, U!PushAlarm, UP!PushAlarm, U!Unlock, UP!Unlock, U!NoText,
          UP!NoText, U!alarm, U!devices, U!calls
    <2> QED BY <2>1 DEF UP!Next, Callers
  <1>7. CASE DoorStep
    BY <1>1, <1>2, <1>7, MessageAssumption
    DEF DoorStep, StaysClosed, Opens, Closes, StaysOpen, StartAlarm, StopAlarm,
        Report
  <1>8. CASE MainStep
    BY <1>1, <1>8, MessageAssumption
    DEF MainStep, InitHardware, StartUi, Greet, StartDoor, StartFingerprint
  <1>9. CASE FingerprintMessage BY <1>1, <1>9 DEF FingerprintMessage
  <1>10. CASE Launch \/ Tick \/ DoorMoves BY <1>10 DEF Launch, Tick, DoorMoves
  <1>11. CASE UNCHANGED vars BY <1>11 DEF vars
  <1> QED BY <1>3, <1>4, <1>5, <1>6, <1>7, <1>8, <1>9, <1>10, <1>11 DEF Next

\* The threads stay where they can be.
LEMMA MainStepKept == MainInv /\ [Next]_vars => MainInv'
  <1> SUFFICES ASSUME MainInv, [Next]_vars PROVE MainInv'
    OBVIOUS
  <1> USE DEF MainInv, Stages, doorVars, D!Started, D!Tick, D!DoorMoves
  <1>1. CASE MainStep
    BY <1>1, Zenon
    DEF MainStep, InitHardware, Build, StartUi, Greet, StartDoor,
        StartFingerprint
  <1>2. CASE DoorStep
    BY <1>2, Zenon
    DEF DoorStep, StaysClosed, Opens, Closes, StaysOpen, StartAlarm, StopAlarm,
        Report
  <1>3. CASE \/ OnUi(U!Acquire) \/ OnUi(U!UiStep)
             \/ OnUi(U!Lock("door")) \/ OnUi(U!CallStep("door"))
    BY <1>3, Zenon DEF OnUi
  <1>4. CASE Launch \/ FingerprintMessage \/ Die \/ Tick \/ DoorMoves
    BY <1>4, Zenon DEF Launch, FingerprintMessage, Die, Tick, DoorMoves
  <1>5. CASE UNCHANGED vars
    BY <1>5, Zenon DEF vars
  <1> QED BY <1>1, <1>2, <1>3, <1>4, <1>5 DEF Next

\* The Ui's invariant survives the construction of new devices and the loss
\* of its memory.
LEMMA UiStepKept == FreshInv /\ UiInv /\ [Next]_vars => UiInv'
  <1> SUFFICES ASSUME FreshInv, UiInv, [Next]_vars PROVE UiInv'
    OBVIOUS
  <1>0. UP!TypeOK
    BY DEF UiInv, UP!TypeInv
  <1>1. CASE [UP!Next]_(UP!vars)
    BY <1>0, <1>1, UiAssumed, UP!TypeStep, UP!MutexStep, UP!TextStep,
        UP!IdleStep DEF UiInv
  <1>2. CASE Build
    <2> USE DEF UiInv, UP!TypeInv, UP!TypeOK, UP!BeepInv, UP!MutexInv, UP!TextInv,
                UP!NoTornAlarm, UP!NoText, UP!IdleShowsAlarm, memory, FreshInv
    <2>0. /\ UNCHANGED <<mutex, alarmOn, alarmMessage, messageQueue, uiPc, beeps,
                        callPc, callText>>
          /\ screen' = "clear" /\ uiPc = "loop"
      BY <1>2 DEF Build
    <2>1. buzzer' \in BOOLEAN
      BY <1>2 DEF Build
    <2>2. UP!TypeInv'
      BY <2>0, <2>1, Zenon
    <2>3. UP!MutexInv'
      BY <2>0, Zenon
    <2> QED BY <2>0, <2>2, <2>3
  <1>3. CASE Die
    <2>1. /\ mutex' = "nobody" /\ alarmMessage' = UP!NoText
          /\ messageQueue' = <<>> /\ uiPc' = "loop" /\ beeps' = 0
          /\ callPc' = [c \in Callers |-> "idle"]
          /\ callText' = [c \in Callers |-> UP!NoText]
          /\ screen' = screen
      BY <1>3, NoTexts, Zenon DEF Die
    <2>2. alarmOn' = FALSE /\ buzzer' = buzzer
      BY <1>3, Zenon DEF Die
    <2>3. alarmOn' \in BOOLEAN /\ buzzer' \in BOOLEAN
      BY <1>0, <2>2, Zenon DEF UP!TypeOK
    <2>4. UP!TypeInv'
      BY <1>0, <2>1, <2>3 DEF UP!TypeInv, UP!TypeOK, UP!BeepInv
    <2>5. UP!MutexInv'
      BY UiAssumed, <2>1 DEF UP!MutexInv, UP!CallAssumption
    <2>6. UP!TextInv'
      BY <2>1, <2>2 DEF UiInv, UP!TextInv, UP!NoTornAlarm
    <2> QED BY <2>1, <2>4, <2>5, <2>6 DEF UiInv, UP!IdleShowsAlarm
  <1> QED BY <1>1, <1>2, <1>3, UiSteps

\* A process starts afresh, whatever state the last one died in.
LEMMA FreshStepKept == Inv /\ [Next]_vars => FreshInv'
  <1> SUFFICES ASSUME MainInv, UiInv, FreshInv, OrderInv, [Next]_vars
               PROVE  FreshInv'
    BY DEF Inv
  <1> USE DEF FreshInv, DoorRunning, UiRunning, memory, uiVars, MainInv, Stages
  <1>type. messageQueue \in Seq(Types \cup {"alarm"}) /\ callPc \in CallPcs
    BY DEF UiInv, UP!TypeInv, UP!TypeOK, Callers, CallPcs
  <1> USE DEF CallPcs
  <1>1. CASE MainStep
    <2>1. CASE Greet
      <3>1. /\ stage' = "door" /\ messageQueue = <<>>
            /\ messageQueue' = Append(messageQueue, "warning")
            /\ UNCHANGED <<doorPc, alarmOn, callPc>>
        BY <2>1 DEF Greet, U!Message, U!alarm, U!calls
      <3>2. Len(messageQueue') = 1
        BY <3>1
      <3> QED BY <2>1, <3>1, <3>2 DEF Greet
    <2>2. CASE StartDoor
      BY <1>type, <2>2 DEF StartDoor
    <2> QED BY <1>1, <2>1, <2>2
    DEF MainStep, InitHardware, Build, StartUi, StartFingerprint
  <1>2. CASE DoorStep
    BY <1>2 DEF DoorStep, Watching, StaysClosed, Opens, Closes, StaysOpen,
        StartAlarm, StopAlarm, Report
  <1>3. CASE OnUi(U!Acquire)
    BY <1>3 DEF OnUi, U!Acquire, U!alarm, U!calls
  <1>4. CASE OnUi(U!UiStep)
    <2>1. /\ UNCHANGED <<stage, doorPc, alarmOn, callPc>> /\ UiRunning
          /\ \/ messageQueue' = messageQueue
             \/ messageQueue # <<>> /\ messageQueue' = Tail(messageQueue)
      BY <1>4, Zenon
      DEF OnUi, U!UiStep, U!DrawDefault, U!PopAlarm, U!PopMessage, U!BeepEnds,
          U!NextBeep, U!ShowEnds, U!alarm, U!calls
    <2> QED BY <1>type, <2>1
  <1>5. CASE OnUi(U!Lock("door")) \/ OnUi(U!CallStep("door"))
    <2>1. callPc["door"] # "idle" /\ UNCHANGED <<stage, doorPc>>
      BY <1>5, Zenon
      DEF OnUi, U!Lock, U!CallStep, U!SetFlag, U!SetText, U!PushAlarm, U!Unlock
    <2> QED BY <2>1
  <1>6. CASE FingerprintMessage
    BY <1>6, Zenon DEF FingerprintMessage
  <1>7. CASE Die
    BY <1>7 DEF Die, Callers
  <1>8. CASE Launch \/ Tick \/ DoorMoves
    BY <1>8 DEF Launch, Tick, DoorMoves
  <1>9. CASE UNCHANGED vars
    BY <1>9 DEF vars
  <1> QED BY <1>1, <1>2, <1>3, <1>4, <1>5, <1>6, <1>7, <1>8, <1>9 DEF Next

\* The door thread and the Ui agree, call by call.
LEMMA OrderStepKept == Inv /\ [Next]_vars => OrderInv'
  <1> SUFFICES ASSUME MainInv, UiInv, FreshInv, OrderInv, [Next]_vars
               PROVE  OrderInv'
    BY DEF Inv
  <1> USE DEF OrderInv, Ordered, DoorRunning, memory, uiVars, doorVars,
      MainInv, Stages
  <1>type. callPc \in CallPcs /\ DOMAIN callText = {"door"}
    BY DEF UiInv, UP!TypeInv, UP!TypeOK, Callers, CallPcs
  <1> USE DEF CallPcs
  <1>flag. /\ callPc["door"] \in {"text", "push", "unlock"} =>
             (alarmOn <=> callText["door"] # U!NoText)
        /\ CloseDoor # U!NoText
    BY NoTexts, UiAssumed
    DEF UiInv, UP!TextInv, Callers, UP!CallAssumption, AlarmTexts
  <1>1. CASE MainStep
    <2>1. CASE StartDoor
      <3>1. /\ doorAlarm' = FALSE /\ ~alarmOn /\ alarmOn' = alarmOn
            /\ callPc["door"] = "idle" /\ doorPc = "ready"
            /\ UNCHANGED <<callPc, doorPc>>
        BY <2>1 DEF StartDoor, D!Started, FreshInv
      <3> QED BY <3>1
    <2>2. CASE InitHardware BY <2>2 DEF InitHardware
    <2>3. CASE Build BY <2>3 DEF Build
    <2>4. CASE StartUi BY <2>4 DEF StartUi
    <2>5. CASE Greet BY <2>5 DEF Greet, U!Message, U!alarm, U!calls
    <2>6. CASE StartFingerprint BY <2>6 DEF StartFingerprint
    <2> QED BY <1>1, <2>1, <2>2, <2>3, <2>4, <2>5, <2>6 DEF MainStep
  <1>2. CASE DoorStep
    <2> USE DEF Watching, U!Message, U!alarm, U!calls
    <2>1. CASE StaysClosed BY <2>1 DEF StaysClosed
    <2>2. CASE Opens BY <2>2 DEF Opens
    <2>3. CASE Closes BY <2>3 DEF Closes
    <2>4. CASE StaysOpen BY <2>4 DEF StaysOpen
    <2>5. CASE StartAlarm BY <1>type, <1>flag, <2>5 DEF StartAlarm, U!Call
    <2>6. CASE StopAlarm BY <1>type, <1>flag, <2>6 DEF StopAlarm, U!Call
    <2>7. CASE Report BY <2>7 DEF Report
    <2> QED BY <1>2, <2>1, <2>2, <2>3, <2>4, <2>5, <2>6, <2>7 DEF DoorStep
  <1>3. CASE OnUi(U!Acquire) \/ OnUi(U!UiStep)
    <2>1. UNCHANGED <<stage, doorPc, alarmOn, callPc, callText, doorAlarm>>
      BY <1>3, Zenon
      DEF OnUi, U!Acquire, U!UiStep, U!DrawDefault, U!PopAlarm, U!PopMessage,
         U!BeepEnds, U!NextBeep, U!ShowEnds, U!alarm, U!calls
    <2> QED BY <2>1
  <1>4. CASE OnUi(U!Lock("door"))
    BY <1>type, <1>4 DEF OnUi, U!Lock, U!alarm
  <1>5. CASE OnUi(U!CallStep("door"))
    <2> USE DEF OnUi
    <2>1. CASE U!SetFlag("door")  BY <1>type, <1>5, <2>1 DEF U!SetFlag
    <2>2. CASE U!SetText("door")  BY <1>type, <1>5, <2>2 DEF U!SetText
    <2>3. CASE U!PushAlarm("door")
      BY <1>type, <1>5, <2>3 DEF U!PushAlarm, U!alarm
    <2>4. CASE U!Unlock("door")
      BY <1>type, <1>flag, <1>5, <2>4 DEF U!Unlock, U!alarm
    <2> QED BY <1>5, <2>1, <2>2, <2>3, <2>4 DEF U!CallStep
  <1>6. CASE FingerprintMessage
    BY <1>6 DEF FingerprintMessage, U!Message, U!alarm, U!calls
  <1>7. CASE Die BY <1>7 DEF Die
  <1>8. CASE Launch \/ Tick \/ DoorMoves
    <2>1. /\ UNCHANGED <<doorPc, alarmOn, callPc, callText, doorAlarm>>
          /\ stage' = stage \/ {stage, stage'} = {"off", "hardware"}
      BY <1>8, Zenon DEF Launch, Tick, DoorMoves, D!Tick, D!DoorMoves
    <2> QED BY <2>1
  <1>9. CASE UNCHANGED vars
    BY <1>9 DEF vars
  <1> QED BY <1>1, <1>2, <1>3, <1>4, <1>5, <1>6, <1>7, <1>8, <1>9 DEF Next

\* The inductive invariant is one.
LEMMA Invariant == Spec => []Inv
  <1>1. Init => Inv
    <2> SUFFICES ASSUME Init PROVE Inv
      OBVIOUS
    <2>1. UP!Init
      BY NoTexts, Zenon DEF Init, U!Init, UP!Init
    <2>2. UP!TypeInv
      BY <2>1, UiAssumed, UP!TypeInit
    <2>3. UP!MutexInv /\ UP!TextInv /\ UP!IdleShowsAlarm
      BY <2>1, UiAssumed
      DEF UP!Init, UP!MutexInv, UP!TextInv, UP!NoTornAlarm, UP!IdleShowsAlarm,
          UP!CallAssumption
    <2>4. /\ stage = "off" /\ doorPc = "ready" /\ scanner = FALSE
          /\ alarmOn = FALSE /\ doorAlarm = FALSE /\ Ordered = FALSE
      BY Zenon DEF Init, D!Init, U!Init
    <2>5. callPc["door"] = "idle"
      BY <2>1 DEF UP!Init, Callers
    <2> QED
      BY <2>1, <2>2, <2>3, <2>4, <2>5
      DEF Inv, MainInv, UiInv, FreshInv, OrderInv, Stages, DoorRunning, UP!Init
  <1>2. Inv /\ [Next]_vars => Inv'
    BY MainStepKept, UiStepKept, FreshStepKept, OrderStepKept DEF Inv
  <1> QED BY <1>1, <1>2, PTL DEF Spec

-----------------------------------------------------------------------------
\* The door thread.

\* Each step is one of the door thread whose calls take effect at once, or
\* leaves it alone: a call takes effect there when it is ordered here.
LEMMA DoorStepRefined ==
    Inv /\ Inv' /\ [Next]_vars => [D!Next]_(D!vars)
  <1> SUFFICES ASSUME Inv, Inv', [Next]_vars PROVE [D!Next]_(D!vars)
    OBVIOUS
  <1>bool. doorAlarm \in BOOLEAN /\ doorAlarm' \in BOOLEAN
    BY DEF Inv, MainInv
  <1>type. Ordered = doorAlarm /\ Ordered' = doorAlarm'
    <2>1. alarmOn \in BOOLEAN /\ alarmOn' \in BOOLEAN
      BY DEF Inv, UiInv, UP!TypeInv, UP!TypeOK
    <2>2. Ordered \in BOOLEAN /\ Ordered' \in BOOLEAN
      BY <1>bool, <2>1, Zenon DEF Ordered
    <2>3. (Ordered <=> doorAlarm) /\ (Ordered' <=> doorAlarm')
      BY DEF Inv, OrderInv
    <2> QED BY <1>bool, <2>2, <2>3
  <1> USE <1>type DEF doorVars, D!vars, D!analysis, D!clock
  <1>still. UNCHANGED doorVars => UNCHANGED D!vars
    BY Zenon
  <1>1. CASE MainStep
    <2>1. CASE StartDoor
      <3>1. D!Restart BY <2>1, Zenon DEF StartDoor, D!Restart, D!Started
      <3> QED BY <3>1 DEF D!Next
    <2> QED BY <1>still, <1>1, <2>1, Zenon
    DEF MainStep, InitHardware, Build, StartUi, Greet, StartFingerprint
  <1>2. CASE DoorStep
    <2>1. CASE StaysClosed
      <3>1. D!ClosedClosed BY <2>1, Zenon DEF StaysClosed, D!ClosedClosed
      <3> QED BY <3>1 DEF D!Next
    <2>2. CASE Opens
      <3>1. D!ClosedOpen BY <2>2, Zenon DEF Opens, D!ClosedOpen
      <3> QED BY <3>1 DEF D!Next
    <2>3. CASE Closes
      <3>1. /\ doorAlarm' = FALSE /\ Ordered' = FALSE
            /\ Ordered' = IF doorAlarm THEN FALSE ELSE Ordered
        <4>1. doorAlarm' = FALSE
          BY <2>3, Zenon DEF Closes
        <4>2. doorAlarm = TRUE \/ doorAlarm = FALSE
          BY <1>bool
        <4> QED BY <4>1, <4>2, Zenon
      <3>2. D!OpenClosed BY <2>3, <3>1, Zenon DEF Closes, D!OpenClosed
      <3> QED BY <3>2 DEF D!Next
    <2>4. CASE StaysOpen
      <3>1. doorAlarm \/ ~(D!OpenTime > MaxOpenTime)
        BY <2>4, Zenon DEF StaysOpen, Overdue
      <3>2. (doorAlarm \/ D!OpenTime > MaxOpenTime) = doorAlarm
        BY <1>bool, <3>1, Zenon
      <3>3. (doorAlarm \/ (~doorAlarm /\ D!OpenTime > MaxOpenTime)) = doorAlarm
        BY <1>bool, <3>1, Zenon
      <3>4. D!OpenOpen
        BY <2>4, <3>2, <3>3, Zenon DEF StaysOpen, D!OpenOpen
      <3> QED BY <3>4 DEF D!Next
    <2>5. CASE StartAlarm
      <3>1. D!OpenOpen BY <2>5, Zenon DEF StartAlarm, Overdue, D!OpenOpen
      <3> QED BY <3>1 DEF D!Next
    <2>6. CASE StopAlarm \/ Report
      BY <1>still, <2>6, Zenon DEF StopAlarm, Report
    <2> QED BY <1>2, <2>1, <2>2, <2>3, <2>4, <2>5, <2>6 DEF DoorStep
  <1>3. CASE \/ OnUi(U!Acquire) \/ OnUi(U!UiStep)
             \/ OnUi(U!Lock("door")) \/ OnUi(U!CallStep("door"))
    BY <1>still, <1>3, Zenon DEF OnUi
  <1>4. CASE FingerprintMessage \/ Die \/ Launch
    BY <1>still, <1>4, Zenon DEF FingerprintMessage, Die, Launch
  <1>5. CASE Tick
    BY <1>5, Zenon DEF Tick, D!Next
  <1>6. CASE DoorMoves
    BY <1>6, Zenon DEF DoorMoves, D!Next
  <1>7. CASE UNCHANGED vars
    BY <1>still, <1>7, Zenon DEF vars
  <1> QED BY <1>1, <1>2, <1>3, <1>4, <1>5, <1>6, <1>7 DEF Next

\* The gateway implements the door thread of DoorStateController.
THEOREM DoorImplemented == Spec => ImplementsDoor
  <1>1. Init => D!Init
    BY DEF Init
  <1> QED BY <1>1, DoorStepRefined, Invariant, PTL
  DEF Spec, ImplementsDoor, D!Spec

\* Both instances of DoorStateController mean the same.
LEMMA DoorProved == ImplementsDoor => DP!Spec
  <1>1. D!Init => DP!Init
    BY Zenon DEF D!Init, DP!Init
  <1>2. [D!Next]_(D!vars) => [DP!Next]_(DP!vars)
    BY Zenon
    DEF D!Next, DP!Next, D!vars, DP!vars, D!analysis, DP!analysis, D!clock,
        DP!clock, D!ClosedClosed, DP!ClosedClosed, D!ClosedOpen, DP!ClosedOpen,
        D!OpenClosed, DP!OpenClosed, D!OpenOpen, DP!OpenOpen, D!Tick, DP!Tick,
        D!ClockStep, DP!ClockStep, D!DoorMoves, DP!DoorMoves, D!Restart,
        DP!Restart, D!Started, DP!Started, D!Cycle, DP!Cycle, D!BeginSession,
        DP!BeginSession, D!FinishAndReport, DP!FinishAndReport, D!Capped,
        DP!Capped, D!OpenTime, DP!OpenTime, D!Awake, DP!Awake, D!SampleBound,
        DP!SampleBound
  <1> QED BY <1>1, <1>2, PTL DEF ImplementsDoor, D!Spec, DP!Spec

\* So what is proved of the door thread alone holds in the gateway.
LEMMA DoorFacts ==
    Spec => [](DP!TypeOK /\ DP!FollowsSamples /\ DP!AlarmStopsInTime
               /\ DP!AlarmStartsInTime)
  BY DoorAssumed, DoorImplemented, DoorProved, DP!TypeCorrect, DP!SessionSafe,
      DP!AlarmInTime, PTL

\* The door thread's variables keep their types.
LEMMA DoorTypes == Spec => []D!TypeOK
  <1>1. DP!TypeOK => D!TypeOK
    BY Zenon DEF DP!TypeOK, D!TypeOK, DP!SampleBound, D!SampleBound
  <1> QED BY <1>1, DoorFacts, PTL

\* Under any interleaving with the Ui thread and any crash, the door thread
\* alarms within the time it has and about nothing else, and what it tells and
\* counts follows its samples.
THEOREM DoorInTime ==
    Spec => [](DP!FollowsSamples /\ DP!AlarmStopsInTime /\ DP!AlarmStartsInTime)
  BY DoorFacts, PTL

-----------------------------------------------------------------------------
\* The room in the queue.

\* What the door thread will send fits in the queue.
RoomInv == DoorRunning => Len(messageQueue) + Due <= QueueBound

\* Due is a number of messages.
LEMMA DueParts == Telling \in Nat /\ Calling \in Nat /\ Seeing \in Nat
  BY DEF Telling, Calling, Seeing

\* No step takes the room of another.
LEMMA RoomStepKept ==
    Inv /\ Inv' /\ D!TypeOK /\ RoomInv /\ [Next]_vars => RoomInv'
  <1> SUFFICES ASSUME Inv, Inv', D!TypeOK, RoomInv, [Next]_vars
               PROVE  RoomInv'
    OBVIOUS
  <1> DEFINE Fits == Len(messageQueue) + Telling + Calling + Seeing <= QueueBound
  <1> SUFFICES ASSUME DoorRunning' PROVE Fits'
    <2>1. (Telling \in Nat /\ Calling \in Nat /\ Seeing \in Nat)'
      BY DueParts, PTL
    <2>2. messageQueue' \in Seq(Types \cup {"alarm"})
      BY DEF Inv, UiInv, UP!TypeInv, UP!TypeOK
    <2> QED BY <2>1, <2>2 DEF RoomInv, Due
  <1> USE MessageAssumption, DueParts
  <1>type. /\ messageQueue \in Seq(Types \cup {"alarm"}) /\ callPc \in CallPcs
           /\ doorPc \in {"ready", "stop", "report"} /\ doorAlarm \in BOOLEAN
           /\ door \in {"open", "closed"} /\ state \in {"open", "closed"}
    BY DEF Inv, MainInv, UiInv, UP!TypeInv, UP!TypeOK, Callers, CallPcs, D!TypeOK
  <1> USE DEF CallPcs
  <1>room. DoorRunning => Fits
    BY <1>type DEF RoomInv, Due
  <1> USE DEF DoorRunning
  <1>1. CASE MainStep
    <2>1. CASE StartDoor
      <3>1. /\ Len(messageQueue) <= 1 /\ messageQueue' = messageQueue
            /\ doorPc' = "ready" /\ callPc'["door"] = "idle"
            /\ door' = door /\ state' = door
        BY <2>1, Zenon DEF StartDoor, Inv, FreshInv, uiVars, memory, D!Started
      <3> QED BY <1>type, <3>1 DEF Telling, Calling, Seeing
    <2>2. CASE StartFingerprint
      BY <1>room, <2>2
      DEF StartFingerprint, doorVars, uiVars, memory, Telling, Calling, Seeing
    <2> QED
      BY <1>1, <2>1, <2>2 DEF MainStep, InitHardware, Build, StartUi, Greet
  <1>2. CASE DoorStep
    <2> USE DEF Watching, Telling, Calling, Seeing
    <2>1. CASE StaysClosed
      BY <1>room, <2>1 DEF StaysClosed, D!Cycle, uiVars, memory
    <2>2. CASE Opens
      BY <1>type, <1>room, <2>2 DEF Opens, D!Cycle, U!Message, U!calls
    <2>3. CASE Closes
      BY <1>type, <1>room, <2>3 DEF Closes, D!Cycle, U!Message, U!calls
    <2>4. CASE StaysOpen BY <1>room, <2>4 DEF StaysOpen, D!Cycle, uiVars, memory
    <2>5. CASE StartAlarm
      BY <1>type, <1>room, <2>5 DEF StartAlarm, D!Cycle, Overdue, U!Call
    <2>6. CASE StopAlarm
      <3>1. callPc["door"] = "idle" BY <2>6 DEF StopAlarm, U!Call
      <3> QED BY <1>type, <1>room, <2>6, <3>1 DEF StopAlarm, U!Call, doorVars
    <2>7. CASE Report
      BY <1>type, <1>room, <2>7 DEF Report, U!Message, U!calls, doorVars
    <2> QED BY <1>2, <2>1, <2>2, <2>3, <2>4, <2>5, <2>6, <2>7 DEF DoorStep
  <1>3. ASSUME UNCHANGED <<stage, doorPc, callPc, doorVars>>,
               Len(messageQueue') <= Len(messageQueue), Len(messageQueue') \in Nat
        PROVE  Fits'
    <2>1. Telling' = Telling /\ Calling' = Calling /\ Seeing' = Seeing
      BY <1>3, Zenon DEF doorVars, Telling, Calling, Seeing
    <2>2. DoorRunning
      BY <1>3
    <2> QED BY <1>type, <1>room, <1>3, <2>1, <2>2
  <1>4. CASE OnUi(U!Acquire) \/ OnUi(U!UiStep)
    <2>1. /\ UNCHANGED <<stage, doorPc, callPc, doorVars>>
          /\ \/ messageQueue' = messageQueue
             \/ messageQueue # <<>> /\ messageQueue' = Tail(messageQueue)
      BY <1>4, Zenon
      DEF OnUi, U!Acquire, U!UiStep, U!DrawDefault, U!PopAlarm, U!PopMessage,
         U!BeepEnds, U!NextBeep, U!ShowEnds, U!calls
    <2>2. Len(messageQueue') <= Len(messageQueue) /\ Len(messageQueue') \in Nat
      BY <1>type, <2>1
    <2> QED BY <1>3, <2>1, <2>2
  <1>5. CASE OnUi(U!Lock("door")) \/ OnUi(U!CallStep("door"))
    <2>1. UNCHANGED <<stage, doorPc, doorVars>>
      BY <1>5 DEF OnUi
    <2>2. Telling' = Telling /\ Seeing' = Seeing /\ DoorRunning
      BY <2>1, Zenon DEF doorVars, Telling, Seeing
    <2>3. CASE U!PushAlarm("door")
      <3>1. Calling = 1 /\ Calling' = 0
        BY <1>type, <2>3 DEF U!PushAlarm, Calling
      <3>2. Len(messageQueue') = Len(messageQueue) + 1
        BY <1>type, <2>3 DEF U!PushAlarm
      <3> QED BY <1>type, <1>room, <2>2, <3>1, <3>2
    <2>4. CASE \/ U!Lock("door") \/ U!SetFlag("door")
               \/ U!SetText("door") \/ U!Unlock("door")
      <3>1. Calling' = Calling
        BY <1>type, <2>4 DEF U!Lock, U!SetFlag, U!SetText, U!Unlock, Calling
      <3>2. messageQueue' = messageQueue
        BY <2>4, Zenon DEF U!Lock, U!SetFlag, U!SetText, U!Unlock
      <3> QED BY <1>type, <1>room, <2>2, <3>1, <3>2
    <2> QED BY <1>5, <2>3, <2>4 DEF OnUi, U!CallStep
  <1>6. CASE FingerprintMessage
    <2>1. Telling' = Telling /\ Calling' = Calling /\ Seeing' = Seeing
      BY <1>6, Zenon
      DEF FingerprintMessage, U!Message, U!calls, doorVars, Telling, Calling,
          Seeing
    <2>2. /\ Len(messageQueue) + (Telling + Calling + Seeing) < QueueBound
          /\ Len(messageQueue') = Len(messageQueue) + 1
      BY <1>type, <1>6 DEF FingerprintMessage, U!Message, Due
    <2> QED BY <1>type, <2>1, <2>2
  <1>7. CASE Die \/ Launch BY <1>7 DEF Die, Launch
  <1>8. CASE Tick
    BY <1>type, <1>room, <1>8
    DEF Tick, D!Tick, uiVars, memory, Telling, Calling, Seeing
  <1>9. CASE DoorMoves
    <2>1. (Telling \in Nat /\ Calling \in Nat /\ Seeing \in Nat)'
      BY DueParts, PTL
    <2>2. Len(messageQueue) + Due' <= QueueBound /\ messageQueue' = messageQueue
      BY <1>9 DEF DoorMoves, uiVars, memory
    <2> QED BY <1>type, <2>1, <2>2 DEF Due
  <1>10. CASE UNCHANGED vars
    <2>1. UNCHANGED <<stage, doorPc, callPc, doorVars, messageQueue>>
      BY <1>10 DEF vars, uiVars, memory
    <2> QED BY <1>type, <1>3, <2>1
  <1> QED BY <1>1, <1>2, <1>4, <1>5, <1>6, <1>7, <1>8, <1>9, <1>10 DEF Next

\* The room is always there.
LEMMA Room == Spec => []RoomInv
  <1>1. Init => RoomInv
    BY DEF Init, RoomInv, DoorRunning
  <1> QED BY <1>1, RoomStepKept, Invariant, DoorTypes, PTL DEF Spec

\* Every variable keeps its type, and whatever the door thread has yet to send
\* fits in the queue: it is never held up by the bound of the model.
THEOREM TypeCorrect == Spec => []TypeOK
  <1>1. Inv /\ D!TypeOK /\ RoomInv => TypeOK
    <2> SUFFICES ASSUME Inv, D!TypeOK, RoomInv PROVE TypeOK
      OBVIOUS
    <2>1. U!TypeOK
      BY NoTexts, Zenon DEF Inv, UiInv, UP!TypeInv, UP!TypeOK, U!TypeOK
    <2> QED BY <2>1 DEF TypeOK, Inv, MainInv, RoomInv
  <1> QED BY <1>1, Invariant, DoorTypes, Room, PTL

-----------------------------------------------------------------------------
\* What the devices tell.

\* When the threads have nothing left to tell, the devices show what the door
\* thread means, after any crash and restart.
THEOREM QuietTold == Spec => []QuietTellsDoor
  <1>1. Inv => QuietTellsDoor
    <2> SUFFICES ASSUME Inv, Watching, uiPc = "pop", messageQueue = <<>>
                 PROVE  /\ buzzer = doorAlarm
                        /\ screen = IF doorAlarm THEN CloseDoor ELSE "clear"
      BY DEF QuietTellsDoor
    <2>1. callPc["door"] = "idle" /\ (alarmOn <=> doorAlarm)
      BY DEF Watching, Inv, OrderInv, Ordered
    <2>2. alarmOn \in BOOLEAN /\ doorAlarm \in BOOLEAN
      BY DEF Inv, MainInv, UiInv, UP!TypeInv, UP!TypeOK
    <2>3. alarmOn = doorAlarm
      BY <2>1, <2>2
    <2>4. UP!ShowsAlarm
      BY <2>1 DEF Inv, UiInv, UP!IdleShowsAlarm, UP!Unannounced, Callers
    <2>5. alarmOn => alarmMessage = CloseDoor
      BY <2>1 DEF Inv, UiInv, UP!TextInv, UP!TypeInv, UP!TypeOK, Callers,
          AlarmTexts
    <2> QED BY <2>3, <2>4, <2>5, Zenon DEF UP!ShowsAlarm
  <1> QED BY <1>1, Invariant, PTL

\* End to end: when the threads have nothing left to tell, a door closed for
\* longer than a sample takes leaves the devices silent and clear, and a door
\* open for longer than the alarm takes is sounded and shown.
QuietTellsTruth ==
    (Watching /\ uiPc = "pop" /\ messageQueue = <<>>) =>
        /\ (door = "closed" /\ still > D!SampleBound) =>
              ~buzzer /\ screen = "clear"
        /\ (door = "open" /\ still > D!AlarmBound) =>
              buzzer /\ screen = CloseDoor

\* The devices of a quiet gateway tell the truth about the door.
THEOREM QuietIsTrue == Spec => []QuietTellsTruth
  <1>1. /\ TypeOK /\ Inv /\ QuietTellsDoor
        /\ DP!AlarmStopsInTime /\ DP!AlarmStartsInTime
        => QuietTellsTruth
    <2> SUFFICES ASSUME TypeOK, Inv, QuietTellsDoor,
                        DP!AlarmStopsInTime, DP!AlarmStartsInTime,
                        Watching, uiPc = "pop", messageQueue = <<>>
                 PROVE  /\ (door = "closed" /\ still > D!SampleBound) =>
                              ~buzzer /\ screen = "clear"
                        /\ (door = "open" /\ still > D!AlarmBound) =>
                              buzzer /\ screen = CloseDoor
      BY DEF QuietTellsTruth
    <2>1. Ordered <=> doorAlarm
      BY DEF Inv, OrderInv
    <2>2. still \in Int /\ D!SampleBound \in Int /\ D!AlarmBound \in Int
      BY TimingAssumption DEF TypeOK, D!TypeOK, D!SampleBound, D!AlarmBound
    <2>3. (door = "closed" /\ still > D!SampleBound) => ~doorAlarm
      BY <2>1, <2>2 DEF DP!AlarmStopsInTime, DP!SampleBound, D!SampleBound
    <2>4. (door = "open" /\ still > D!AlarmBound) => doorAlarm
      BY <2>1, <2>2
      DEF DP!AlarmStartsInTime, DP!AlarmBound, D!AlarmBound, DP!SampleBound,
          D!SampleBound
    <2>5. /\ buzzer = doorAlarm
          /\ screen = IF doorAlarm THEN CloseDoor ELSE "clear"
      BY DEF QuietTellsDoor
    <2> QED BY <2>3, <2>4, <2>5, Zenon
  <1> QED BY <1>1, TypeCorrect, Invariant, QuietTold, DoorFacts, PTL
=============================================================================
