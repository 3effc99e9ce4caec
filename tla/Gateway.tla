------------------------------- MODULE Gateway -------------------------------
(***************************************************************************)
(* The gateway as one process: main starts the hardware, builds the parts  *)
(* and starts the threads one after the other (main.cpp, stdgateway.cpp);  *)
(* the door thread (DoorStateController) tells the Ui thread (Ui) of the   *)
(* door and of the alarm, call by call; the fingerprint thread             *)
(* (FingerprintController) is here what the others notice of it: the       *)
(* messages it sends, and the end of the process when a server call        *)
(* throws.  What the devices show outlives the process.                    *)
(*                                                                         *)
(* The wall clock is steady here; DoorStateController lets it step.        *)
(***************************************************************************)
EXTENDS Integers, Sequences

CONSTANTS
    MaxOpenTime, Period, MaxLate, Cap,  \* of DoorStateController
    Types,                              \* the types of the messages sent
    QueueBound,                         \* this many messages wait, at most
    SpiResults                          \* what wiringPiSPISetup may return

\* On success it returns a descriptor, and standard input is open.
ASSUME SpiAssumption == SpiResults \subseteq Int \ {0}

\* The threads send these among others; the queue holds at least the greeting
\* and the announcement of an alarm.
ASSUME MessageAssumption ==
    /\ {"info", "warning"} \subseteq Types
    /\ Types \subseteq {"info", "success", "prompt", "warning", "error"}
    /\ QueueBound \in Nat /\ QueueBound >= 2

\* What main.cpp starts in order, by what it does next.
Stages == {"off", "hardware", "build", "ui", "greet", "door", "fingerprint", "join"}

VARIABLES
    stage,     \* where main is; "off" when there is no process
    scanner,   \* whether this process finds a fingerprint scanner
    doorPc,    \* what the door thread has yet to tell the Ui in this cycle
    doorAlarm, \* the local alarmOn of the door thread
    door, state, said, sessionRunning, results, reported,
    nap, since, still, seenOpen, bootedOpen,
    mutex, alarmOn, alarmMessage, messageQueue, uiPc,
    beeps, buzzer, screen, callPc, callText

doorVars == <<doorAlarm, door, state, said, sessionRunning, results, reported,
              nap, since, still, seenOpen, bootedOpen>>
memory == <<mutex, alarmOn, alarmMessage, messageQueue, uiPc, beeps, callPc, callText>>
uiVars == <<memory, buzzer, screen>>
vars == <<stage, scanner, doorPc, doorVars, uiVars>>

Callers == {"door"}
CloseDoor == "Close door now"
AlarmTexts == {CloseDoor}

UiRunning == stage \in {"greet", "door", "fingerprint", "join"}
DoorRunning == stage \in {"fingerprint", "join"}

U == INSTANCE Ui

\* The alarm as the door thread's calls so far, the present one included,
\* leave it.
Ordered ==
    IF ~DoorRunning THEN doorAlarm
    ELSE IF doorPc = "stop" THEN FALSE
    ELSE IF callPc["door"] # "idle" THEN callText["door"] # U!NoText
    ELSE alarmOn

D == INSTANCE DoorStateController WITH
       alarmOn <- doorAlarm, uiAlarm <- Ordered,
       MaxSkew <- 0, skew <- 0, napSkew <- 0, openSkew <- 0

ASSUME TimingAssumption ==
    /\ MaxOpenTime \in Nat /\ Period \in Nat \ {0} /\ MaxLate \in Nat
    /\ Cap \in Nat /\ Cap > D!AlarmBound

Init ==
    /\ stage = "off" /\ scanner = FALSE /\ doorPc = "ready"
    /\ U!Init
    /\ D!Init

-----------------------------------------------------------------------------
\* The main thread.

\* The process is started, with or without a scanner attached.
Launch ==
    /\ stage = "off"
    /\ stage' = "hardware"
    /\ scanner' \in BOOLEAN
    /\ UNCHANGED <<doorPc, doorVars, uiVars>>

\* Fault: the descriptor is no longer taken for an error, and main still
\* goes on only after one.
HardwareStatusMended(fp, gpio, spi) ==
    IF gpio # 0 THEN -1 ELSE IF spi < 0 THEN -1 ELSE fp

\* initHardware: what fp_init returns, unless GPIO or SPI return other than 0.
HardwareStatus(fp, gpio, spi) ==
    IF gpio # 0 THEN -1 ELSE IF spi # 0 THEN -1 ELSE fp

\* main goes on when initHardware returns other than 0.
InitHardware ==
    /\ stage = "hardware"
    /\ \E fp \in {0, -1}, gpio \in {0, -1}, spi \in SpiResults :
         stage' = IF HardwareStatus(fp, gpio, spi) # 0 THEN "build" ELSE "off"
    /\ UNCHANGED <<scanner, doorPc, doorVars, uiVars>>

\* buildStdGateway constructs the parts.  The constructors of Buzzer and Ui
\* reset the devices; an assertion ends the process without a scanner.
Build ==
    /\ stage = "build"
    /\ buzzer' = FALSE /\ screen' = "clear"
    /\ stage' = IF scanner THEN "ui" ELSE "off"
    /\ UNCHANGED <<scanner, doorPc, doorVars, memory>>

\* StdGateway::operator() starts the threads and greets the user.
StartUi ==
    /\ stage = "ui" /\ stage' = "greet"
    /\ UNCHANGED <<scanner, doorPc, doorVars, uiVars>>

Greet ==
    /\ stage = "greet" /\ stage' = "door"
    /\ U!Message("warning")
    /\ UNCHANGED <<scanner, doorPc, doorVars>>

StartDoor ==
    /\ stage = "door" /\ stage' = "fingerprint"
    /\ UNCHANGED <<scanner, doorPc, door, uiVars>>
    /\ D!Started

StartFingerprint ==
    /\ stage = "fingerprint" /\ stage' = "join"
    /\ UNCHANGED <<scanner, doorPc, doorVars, uiVars>>

MainStep == InitHardware \/ Build \/ StartUi \/ Greet \/ StartDoor \/ StartFingerprint

-----------------------------------------------------------------------------
\* The door thread.

\* The messages that the door thread will send unless the door moves: what
\* the cycle has yet to tell, the call in progress, and what the next sample
\* will make it tell.
Telling == IF doorPc = "stop" THEN 2 ELSE IF doorPc = "report" THEN 1 ELSE 0
Calling == IF callPc["door"] \in {"lock", "flag", "text", "push"} THEN 1 ELSE 0
Seeing ==
    (IF state = "open" /\ door = "closed" THEN IF doorAlarm THEN 3 ELSE 2 ELSE 0)
    + (IF state = "closed" /\ door = "open" THEN 1 ELSE 0)
    + (IF door = "open" /\ ~doorAlarm THEN 1 ELSE 0)
Due == Telling + Calling + Seeing

\* The thread is between two cycles.
Watching == DoorRunning /\ doorPc = "ready" /\ callPc["door"] = "idle"

StaysClosed ==
    /\ Watching /\ D!Cycle("closed", "closed")
    /\ UNCHANGED <<stage, scanner, doorPc, doorAlarm, said, sessionRunning, results,
                   reported, since, bootedOpen, uiVars>>

Opens ==
    /\ Watching /\ D!Cycle("closed", "open")
    /\ since' = 0
    /\ U!Message("info") /\ said' = "open"
    /\ D!BeginSession
    /\ UNCHANGED <<stage, scanner, doorPc, doorAlarm, bootedOpen>>

\* Fault: the order to stop the alarm is forgotten.
ClosesOnly ==
    /\ Watching /\ D!Cycle("open", "closed")
    /\ U!Message("info") /\ said' = "closed"
    /\ doorPc' = "report"
    /\ doorAlarm' = FALSE
    /\ D!FinishAndReport
    /\ bootedOpen' = FALSE
    /\ UNCHANGED <<stage, scanner, since>>

\* "Door Closed", then stopAlarm when the alarm was on, then the results.
Closes ==
    /\ Watching /\ D!Cycle("open", "closed")
    /\ U!Message("info") /\ said' = "closed"
    /\ doorPc' = IF doorAlarm THEN "stop" ELSE "report"
    /\ doorAlarm' = FALSE
    /\ D!FinishAndReport
    /\ bootedOpen' = FALSE
    /\ UNCHANGED <<stage, scanner, since>>

StopAlarm ==
    /\ DoorRunning /\ doorPc = "stop"
    /\ U!Call("door", U!NoText)
    /\ doorPc' = "report"
    /\ UNCHANGED <<stage, scanner, doorVars>>

\* Fault: the results are reported again and again.
ReportForEver ==
    /\ DoorRunning /\ doorPc = "report" /\ callPc["door"] = "idle"
    /\ U!Message("info")
    /\ UNCHANGED <<stage, scanner, doorPc, doorVars>>

Report ==
    /\ DoorRunning /\ doorPc = "report" /\ callPc["door"] = "idle"
    /\ U!Message("info")
    /\ doorPc' = "ready"
    /\ UNCHANGED <<stage, scanner, doorVars>>

\* The alarm is due and not on.
Overdue == ~doorAlarm /\ D!OpenTime > MaxOpenTime

StaysOpen ==
    /\ Watching /\ ~Overdue /\ D!Cycle("open", "open")
    /\ UNCHANGED <<stage, scanner, doorPc, doorAlarm, said, sessionRunning, results,
                   reported, since, bootedOpen, uiVars>>

\* Fault: the Ui is not told.
StartAlarmUntold ==
    /\ Watching /\ Overdue /\ D!Cycle("open", "open")
    /\ doorAlarm' = TRUE
    /\ UNCHANGED <<stage, scanner, doorPc, said, sessionRunning, results,
                   reported, since, bootedOpen, uiVars>>

StartAlarm ==
    /\ Watching /\ Overdue /\ D!Cycle("open", "open")
    /\ doorAlarm' = TRUE
    /\ U!Call("door", CloseDoor)
    /\ UNCHANGED <<stage, scanner, doorPc, said, sessionRunning, results,
                   reported, since, bootedOpen>>

DoorStep == \/ StaysClosed \/ Opens \/ Closes \/ StaysOpen \/ StartAlarm
            \/ StopAlarm \/ Report

-----------------------------------------------------------------------------
\* The Ui thread, the alarm calls within the Ui, the fingerprint thread and
\* the world.

OnUi(Step) == UiRunning /\ Step /\ UNCHANGED <<stage, scanner, doorPc, doorVars>>

FingerprintMessage ==
    /\ stage = "join"
    /\ Len(messageQueue) + Due < QueueBound
    /\ \E type \in Types : U!Message(type)
    /\ UNCHANGED <<stage, scanner, doorPc, doorVars>>

\* An exception out of the fingerprint thread ends the process: the Ui's
\* memory is gone, and the devices stay as they are.
Die ==
    /\ stage = "join" /\ stage' = "off"
    /\ mutex' = "nobody" /\ alarmOn' = FALSE /\ alarmMessage' = U!NoText
    /\ messageQueue' = <<>> /\ uiPc' = "loop" /\ beeps' = 0
    /\ callPc' = [c \in Callers |-> "idle"]
    /\ callText' = [c \in Callers |-> U!NoText]
    /\ doorPc' = "ready"
    /\ UNCHANGED <<scanner, doorVars, buzzer, screen>>

Tick ==
    /\ DoorRunning
    /\ UNCHANGED <<stage, scanner, doorPc, uiVars>>
    /\ D!Tick

DoorMoves ==
    /\ UNCHANGED <<stage, scanner, doorPc, uiVars>>
    /\ D!DoorMoves
    /\ DoorRunning => Len(messageQueue) + Due' <= QueueBound

Next ==
    \/ Launch \/ MainStep
    \/ DoorStep
    \/ OnUi(U!Acquire) \/ OnUi(U!UiStep)
    \/ OnUi(U!Lock("door")) \/ OnUi(U!CallStep("door"))
    \/ FingerprintMessage \/ Die
    \/ Tick \/ DoorMoves

\* Main, the door thread, the Ui thread and time go on when they can; the
\* mutex is as in Ui.  The fingerprint thread may be stuck for ever, waiting
\* for a finger, a scanner that is gone or a server.
Fairness ==
    /\ WF_vars(MainStep) /\ WF_vars(DoorStep) /\ WF_vars(Tick)
    /\ WF_vars(OnUi(U!UiStep)) /\ SF_vars(OnUi(U!Acquire))
    /\ WF_vars(OnUi(U!CallStep("door"))) /\ SF_vars(OnUi(U!Lock("door")))

Spec == Init /\ [][Next]_vars /\ Fairness

-----------------------------------------------------------------------------

TypeOK ==
    /\ stage \in Stages
    /\ scanner \in BOOLEAN
    /\ doorPc \in {"ready", "stop", "report"}
    /\ U!TypeOK
    /\ D!TypeOK
    /\ DoorRunning => Len(messageQueue) + Due <= QueueBound

\* The door thread with its calls made step by step, while the Ui thread
\* draws and the process dies and starts again, implements the door thread
\* whose calls take effect at once, so that all that is said of the latter
\* holds here (doorstatecontroller.cpp:51-132, ui.cpp:222-241).
ImplementsDoor == D!Spec

\* End to end: when the threads have nothing left to tell, the buzzer and the
\* screen say whether the door thread's alarm is on, after any crash and
\* restart (main.cpp:266-269, stdgateway.cpp:31-126, ui.cpp:118-143).
QuietTellsDoor ==
    (Watching /\ uiPc = "pop" /\ messageQueue = <<>>) =>
        /\ buzzer = doorAlarm
        /\ screen = IF doorAlarm THEN CloseDoor ELSE "clear"

\* A door left open is announced and a closed door's alarm ends, whatever the
\* fingerprint thread sends or however long it is stuck, as long as its
\* exceptions do not end the process.
AlarmFollowsDoor ==
    /\ (DoorRunning /\ door = "open") ~> (U!Sounding \/ door = "closed" \/ ~DoorRunning)
    /\ (DoorRunning /\ door = "closed") ~>
         (screen \notin AlarmTexts \/ door = "open" \/ ~DoorRunning)

\* A process that finds a scanner gets all its threads running, although
\* main goes on only after a failure of initHardware (main.cpp:86): the
\* descriptor of SPI passes for one (main.cpp:201).
ThreadsStart == (stage = "hardware" /\ scanner) ~> (stage = "join")
=============================================================================
