------------------------ MODULE DoorStateController ------------------------
(***************************************************************************)
(* The thread that watches the door (doorstatecontroller.cpp): it samples  *)
(* the sensor, sounds the alarm of the Ui when the door is left open, and  *)
(* brackets each opening with a session of the TailgateAnalyzer            *)
(* (tailgateanalyzer.cpp), whose counting of people is abstracted to the   *)
(* session a result belongs to.                                            *)
(*                                                                         *)
(* Time is counted in ticks of real time.  The code reads the wall clock,  *)
(* which is skew ticks away from real time, at most MaxSkew either way.    *)
(***************************************************************************)
EXTENDS Integers

CONSTANTS
    MaxOpenTime,  \* maxOpenTime (60 s), in ticks
    Period,       \* period (10 ms), in ticks
    MaxLate,      \* the longest cycle and the longest late wake-up together
    MaxSkew,
    Cap           \* the histories of time stop counting here

\* The longest time between two samples of the door.
SampleBound == Period + 2 * MaxSkew + MaxLate

\* The longest time the door can stand open before the alarm sounds.
AlarmBound == MaxOpenTime + 2 * MaxSkew + 2 * SampleBound

ASSUME TimingAssumption ==
    /\ MaxOpenTime \in Nat /\ Period \in Nat \ {0}
    /\ MaxLate \in Nat /\ MaxSkew \in Nat
    /\ Cap \in Nat /\ Cap > AlarmBound

VARIABLES
    door,            \* the position of the door
    state,           \* the position at the last sample
    alarmOn,         \* the local flag of the thread
    uiAlarm,         \* Ui::Impl::alarmOn, which startAlarm and stopAlarm set
    said,            \* the last of "Door Open" and "Door Closed" sent to the Ui
    sessionRunning,  \* TailgateAnalyzer::sessionRunning
    results,         \* TailgateAnalyzer::results, by the session they are of
    reported,        \* the results last logged and displayed
    skew,            \* the wall clock less real time
    nap, napSkew,    \* ticks since startTime, and the skew when it was read
    since, openSkew, \* ticks since doorOpenTime, and the skew when it was read
    still,           \* history: ticks since the door moved or the boot
    seenOpen,        \* history: ticks that every sample has found it open
    bootedOpen       \* history: the door has been open in every sample

analysis == <<sessionRunning, results, reported>>
clock == <<skew, nap, napSkew, since, openSkew, still, seenOpen>>
vars == <<door, state, alarmOn, uiAlarm, said, analysis, clock, bootedOpen>>

-----------------------------------------------------------------------------

Capped(n) == IF n < Cap THEN n + 1 ELSE n

\* startTime - doorOpenTime, for a startTime read now.
OpenTime == since + skew - openSkew

\* sleep_until is over: the clock has reached startTime + period, or, where
\* the library turns the point in time into a duration once, that duration.
Awake == nap >= Period \/ nap + skew - napSkew >= Period

\* The thread, the Ui and the analyzer are constructed and the thread takes
\* its first sample; the members of results are not initialized.
Started ==
    /\ state' = door
    /\ alarmOn' = FALSE /\ uiAlarm' = FALSE
    /\ said' = "nothing"
    /\ sessionRunning' = FALSE
    /\ results' = "garbage" /\ reported' = "nothing"
    /\ nap' = Period /\ napSkew' = skew
    /\ since' = 0 /\ openSkew' = skew /\ still' = 0 /\ seenOpen' = 0
    /\ bootedOpen' = (door = "open")

Init ==
    /\ door \in {"closed", "open"}
    /\ skew \in -MaxSkew .. MaxSkew
    /\ state = door /\ bootedOpen = (door = "open")
    /\ alarmOn = FALSE /\ uiAlarm = FALSE /\ said = "nothing"
    /\ sessionRunning = FALSE /\ results = "garbage" /\ reported = "nothing"
    /\ nap = Period /\ napSkew = skew
    /\ since = 0 /\ openSkew = skew /\ still = 0 /\ seenOpen = 0

\* The process is killed and started again.
Restart == Started /\ UNCHANGED <<door, skew>>

\* Every cycle reads the clock, takes a sample and sleeps for the rest of
\* its period.
Cycle(from, to) ==
    /\ Awake
    /\ state = from /\ door = to
    /\ state' = to
    /\ nap' = 0 /\ napSkew' = skew
    /\ seenOpen' = IF from = "open" /\ to = "open" THEN seenOpen ELSE 0
    /\ UNCHANGED <<door, skew, still>>

\* Fault: the session is not begun.
BeginSessionForgotten == UNCHANGED <<sessionRunning, results, reported>>

\* TailgateAnalyzer::beginSession.
BeginSession ==
    /\ sessionRunning' = TRUE
    /\ results' = IF sessionRunning \/ results # "current" THEN results ELSE "previous"
    /\ UNCHANGED reported

\* Fault: the results are fetched before the session is finished.
ReportBeforeFinish ==
    /\ sessionRunning' = FALSE
    /\ results' = IF sessionRunning THEN "current" ELSE results
    /\ reported' = results

\* Fault: getResults is not called, and the local variable is reported.
FinishWithoutResults ==
    /\ sessionRunning' = FALSE
    /\ results' = IF sessionRunning THEN "current" ELSE results
    /\ reported' = "local"

\* finishSession, which fails without a session and leaves results alone,
\* and then getResults, whatever finishSession returned.
FinishAndReport ==
    /\ sessionRunning' = FALSE
    /\ results' = IF sessionRunning THEN "current" ELSE results
    /\ reported' = results'

ClosedClosed ==
    /\ Cycle("closed", "closed")
    /\ UNCHANGED <<alarmOn, uiAlarm, said, analysis, since, openSkew, bootedOpen>>

\* Fault: doorOpenTime keeps the time of the opening before.
ClosedOpenStaleTime ==
    /\ Cycle("closed", "open")
    /\ said' = "open"
    /\ BeginSession
    /\ UNCHANGED <<alarmOn, uiAlarm, since, openSkew, bootedOpen>>

ClosedOpen ==
    /\ Cycle("closed", "open")
    /\ since' = 0 /\ openSkew' = skew
    /\ said' = "open"
    /\ BeginSession
    /\ UNCHANGED <<alarmOn, uiAlarm, bootedOpen>>

\* Fault: the local flag is cleared and the Ui not told.
OpenClosedSilently ==
    /\ Cycle("open", "closed")
    /\ said' = "closed"
    /\ alarmOn' = FALSE
    /\ FinishAndReport
    /\ bootedOpen' = FALSE
    /\ UNCHANGED <<uiAlarm, since, openSkew>>

OpenClosed ==
    /\ Cycle("open", "closed")
    /\ said' = "closed"
    /\ alarmOn' = FALSE
    /\ uiAlarm' = IF alarmOn THEN FALSE ELSE uiAlarm
    /\ FinishAndReport
    /\ bootedOpen' = FALSE
    /\ UNCHANGED <<since, openSkew>>

\* Fault: the alarm sounds only at the very tick the time is exceeded.
OpenOpenMissable ==
    /\ Cycle("open", "open")
    /\ alarmOn' = (alarmOn \/ OpenTime = MaxOpenTime + 1)
    /\ uiAlarm' = (uiAlarm \/ (~alarmOn /\ OpenTime = MaxOpenTime + 1))
    /\ UNCHANGED <<said, analysis, since, openSkew, bootedOpen>>

OpenOpen ==
    /\ Cycle("open", "open")
    /\ alarmOn' = (alarmOn \/ OpenTime > MaxOpenTime)
    /\ uiAlarm' = (uiAlarm \/ (~alarmOn /\ OpenTime > MaxOpenTime))
    /\ UNCHANGED <<said, analysis, since, openSkew, bootedOpen>>

\* A tick of real time; the thread takes its samples in time.
Tick ==
    /\ nap < SampleBound
    /\ nap' = nap + 1 /\ since' = Capped(since) /\ still' = Capped(still)
    /\ seenOpen' = IF state = "open" THEN Capped(seenOpen) ELSE 0
    /\ UNCHANGED <<door, state, alarmOn, uiAlarm, said, analysis,
                   skew, napSkew, openSkew, bootedOpen>>

\* The wall clock is set.
ClockStep ==
    /\ skew' \in -MaxSkew .. MaxSkew
    /\ UNCHANGED <<door, state, alarmOn, uiAlarm, said, analysis,
                   nap, napSkew, since, openSkew, still, seenOpen, bootedOpen>>

DoorMoves ==
    /\ door' = IF door = "open" THEN "closed" ELSE "open"
    /\ still' = 0
    /\ UNCHANGED <<state, alarmOn, uiAlarm, said, analysis,
                   skew, nap, napSkew, since, openSkew, seenOpen, bootedOpen>>

Next ==
    \/ ClosedClosed \/ ClosedOpen \/ OpenClosed \/ OpenOpen
    \/ Tick \/ ClockStep \/ DoorMoves \/ Restart

Spec == Init /\ [][Next]_vars

-----------------------------------------------------------------------------

TypeOK ==
    /\ door \in {"closed", "open"} /\ state \in {"closed", "open"}
    /\ alarmOn \in BOOLEAN /\ uiAlarm \in BOOLEAN
    /\ said \in {"nothing", "open", "closed"}
    /\ sessionRunning \in BOOLEAN
    /\ results \in {"garbage", "current", "previous"}
    /\ reported \in {"nothing", "garbage", "current", "previous"}
    /\ skew \in -MaxSkew .. MaxSkew /\ napSkew \in -MaxSkew .. MaxSkew
    /\ openSkew \in -MaxSkew .. MaxSkew
    /\ nap \in 0 .. SampleBound
    /\ since \in 0 .. Cap /\ still \in 0 .. Cap /\ seenOpen \in 0 .. Cap
    /\ bootedOpen \in BOOLEAN

\* The alarm does not outlast the open door by more than one sample, however
\* the door moved between the samples and whatever the clock was set to
\* (lines 91-98 and 131).
AlarmStopsInTime ==
    (uiAlarm /\ door = "closed") => still <= SampleBound

\* A door that is left open is alarmed about in bounded real time (lines
\* 74-77 and 114-124).
AlarmStartsInTime ==
    (~uiAlarm /\ door = "open") => still <= AlarmBound

\* The alarm starts only for a door that was open in every sample of the
\* last MaxOpenTime, less the steps of the clock (lines 77 and 117).
AlarmNotEarly ==
    [][(~uiAlarm /\ uiAlarm') => seenOpen > MaxOpenTime - 2 * MaxSkew]_vars

\* The analyzer's session, what the user was told and the flag of the Ui
\* follow the sampled state: a session runs through each opening the thread
\* saw begin, and only then (lines 62-130, tailgateanalyzer.cpp:53-78).
FollowsSamples ==
    /\ sessionRunning <=> (state = "open" /\ ~bootedOpen)
    /\ said = "open" => state = "open"
    /\ said = "closed" => state = "closed"
    /\ uiAlarm <=> alarmOn
    /\ uiAlarm => state = "open"

\* The passages reported at the end of an opening are those counted in it,
\* never the ones of an opening before (lines 99-109).
NoStaleReport == reported # "previous"
=============================================================================
