--------------------- MODULE DoorStateController_proofs ---------------------
(***************************************************************************)
(* The invariants of DoorStateController, for every period, every limit    *)
(* and every step of the clock.                                            *)
(***************************************************************************)
EXTENDS DoorStateController, TLAPS

\* Every variable keeps its type; in particular the thread is never late for
\* a sample by more than the clock can be stepped.
THEOREM TypeCorrect == Spec => []TypeOK
  <1>0. /\ SampleBound \in Nat /\ Period \in Nat /\ Period <= SampleBound
        /\ Cap \in Nat /\ MaxSkew \in Nat
    BY TimingAssumption DEF SampleBound
  <1> USE <1>0
  <1>1. Init => TypeOK
    <2> SUFFICES ASSUME Init PROVE TypeOK
      OBVIOUS
    <2>1. /\ bootedOpen \in BOOLEAN /\ alarmOn \in BOOLEAN
          /\ uiAlarm \in BOOLEAN /\ sessionRunning \in BOOLEAN
      BY Zenon DEF Init
    <2>2. /\ door \in {"closed", "open"} /\ state = door
          /\ skew \in -MaxSkew .. MaxSkew
          /\ said = "nothing" /\ results = "garbage" /\ reported = "nothing"
          /\ nap = Period /\ napSkew = skew
          /\ since = 0 /\ openSkew = skew /\ still = 0 /\ seenOpen = 0
      BY Zenon DEF Init
    <2> QED BY <2>1, <2>2 DEF TypeOK
  <1>2. TypeOK /\ [Next]_vars => TypeOK'
    <2> SUFFICES ASSUME TypeOK, [Next]_vars PROVE TypeOK'
      OBVIOUS
    <2> USE DEF TypeOK, analysis, clock
    <2>1. CASE ClosedClosed BY <2>1 DEF ClosedClosed, Cycle
    <2>2. CASE ClosedOpen BY <2>2 DEF ClosedOpen, Cycle, BeginSession
    <2>3. CASE OpenClosed
      <3>1. /\ uiAlarm' \in BOOLEAN /\ alarmOn' \in BOOLEAN
            /\ sessionRunning' \in BOOLEAN /\ bootedOpen' \in BOOLEAN
        BY <2>3, Zenon DEF OpenClosed, FinishAndReport
      <3>2. results' \in {"garbage", "current", "previous"} /\ reported' = results'
        BY <2>3, Zenon DEF OpenClosed, FinishAndReport
      <3>3. /\ state' = "closed" /\ said' = "closed"
            /\ nap' = 0 /\ napSkew' = skew /\ seenOpen' \in {0, seenOpen}
            /\ UNCHANGED <<door, skew, still, since, openSkew>>
        BY <2>3, Zenon DEF OpenClosed, Cycle, FinishAndReport
      <3> QED BY <3>1, <3>2, <3>3
    <2>4. CASE OpenOpen BY <2>4 DEF OpenOpen, Cycle
    <2>5. CASE Tick BY <2>5 DEF Tick, Capped
    <2>6. CASE ClockStep BY <2>6 DEF ClockStep
    <2>7. CASE DoorMoves BY <2>7 DEF DoorMoves
    <2>8. CASE Restart
      <3>1. /\ uiAlarm' \in BOOLEAN /\ alarmOn' \in BOOLEAN
            /\ sessionRunning' \in BOOLEAN /\ bootedOpen' \in BOOLEAN
        BY <2>8, Zenon DEF Restart, Started
      <3>2. /\ state' = door /\ said' = "nothing"
            /\ results' = "garbage" /\ reported' = "nothing"
            /\ nap' = Period /\ napSkew' = skew
            /\ since' = 0 /\ openSkew' = skew /\ still' = 0 /\ seenOpen' = 0
            /\ UNCHANGED <<door, skew>>
        BY <2>8, Zenon DEF Restart, Started
      <3> QED BY <3>1, <3>2
    <2>9. CASE UNCHANGED vars BY <2>9 DEF vars
    <2> QED BY <2>1, <2>2, <2>3, <2>4, <2>5, <2>6, <2>7, <2>8, <2>9 DEF Next
  <1> QED BY <1>1, <1>2, PTL DEF Spec

-----------------------------------------------------------------------------

\* Sessions and messages follow the samples; without a session behind it a
\* result is garbage, never that of an opening before.
SessionInv ==
    /\ FollowsSamples
    /\ NoStaleReport
    /\ sessionRunning => results \in {"garbage", "previous"}
    /\ bootedOpen => state = "open" /\ results = "garbage"

\* The analyzer's session and the Ui follow the samples, and no report is
\* about an opening before.
THEOREM SessionSafe == Spec => [](FollowsSamples /\ NoStaleReport)
  <1>1. Init => SessionInv
    BY DEF Init, SessionInv, FollowsSamples, NoStaleReport
  <1>2. TypeOK /\ SessionInv /\ [Next]_vars => SessionInv'
    <2> SUFFICES ASSUME TypeOK, SessionInv, [Next]_vars PROVE SessionInv'
      OBVIOUS
    <2> USE DEF TypeOK, SessionInv, FollowsSamples, NoStaleReport, analysis, clock
    <2>1. CASE ClosedClosed BY <2>1 DEF ClosedClosed, Cycle
    <2>2. CASE ClosedOpen
      <3>1. state = "closed" /\ state' = "open" /\ sessionRunning'
        BY <2>2 DEF ClosedOpen, Cycle, BeginSession
      <3>2. ~bootedOpen /\ ~alarmOn /\ ~uiAlarm
        BY <3>1
      <3>3. results' \in {"garbage", "previous"}
        BY <2>2, Zenon DEF ClosedOpen, BeginSession
      <3>4. /\ said' = "open"
            /\ UNCHANGED <<alarmOn, uiAlarm, bootedOpen, reported>>
        BY <2>2 DEF ClosedOpen, BeginSession
      <3> QED BY <3>1, <3>2, <3>3, <3>4
    <2>3. CASE OpenClosed BY <2>3 DEF OpenClosed, Cycle, FinishAndReport
    <2>4. CASE OpenOpen BY <2>4 DEF OpenOpen, Cycle
    <2>5. CASE Tick BY <2>5 DEF Tick, Capped
    <2>6. CASE ClockStep BY <2>6 DEF ClockStep
    <2>7. CASE DoorMoves BY <2>7 DEF DoorMoves
    <2>8. CASE Restart BY <2>8 DEF Restart, Started
    <2>9. CASE UNCHANGED vars BY <2>9 DEF vars
    <2> QED BY <2>1, <2>2, <2>3, <2>4, <2>5, <2>6, <2>7, <2>8, <2>9 DEF Next
  <1>3. SessionInv => FollowsSamples /\ NoStaleReport
    BY DEF SessionInv
  <1> QED BY <1>1, <1>2, <1>3, TypeCorrect, PTL DEF Spec

-----------------------------------------------------------------------------

\* What the time since the last sample bounds: a door that moved unseen
\* moved since that sample, and a door seen open for too long was alarmed
\* about at that sample.
TimeInv ==
    /\ door # state => still <= nap
    /\ uiAlarm => state = "open"
    /\ uiAlarm <=> alarmOn
    /\ state = "open" => still <= since + SampleBound
    /\ (state = "open" /\ ~uiAlarm) => since <= MaxOpenTime + 2 * MaxSkew + nap

\* The inductive invariant is one.
LEMMA TimeInvariant == Spec => []TimeInv
  <1> USE TimingAssumption DEF SampleBound
  <1>1. Init => TimeInv
    BY DEF Init, TimeInv
  <1>2. TypeOK /\ TimeInv /\ [Next]_vars => TimeInv'
    <2> SUFFICES ASSUME TypeOK, TimeInv, [Next]_vars PROVE TimeInv'
      OBVIOUS
    <2> USE DEF TypeOK, TimeInv, analysis, clock
    <2>1. CASE ClosedClosed BY <2>1 DEF ClosedClosed, Cycle
    <2>2. CASE ClosedOpen BY <2>2 DEF ClosedOpen, Cycle, BeginSession
    <2>3. CASE OpenClosed BY <2>3 DEF OpenClosed, Cycle, FinishAndReport
    <2>4. CASE OpenOpen
      <3>1. /\ state = "open" /\ state' = "open" /\ door = "open" /\ door' = "open"
            /\ nap' = 0 /\ UNCHANGED <<skew, since, openSkew, still>>
        BY <2>4 DEF OpenOpen, Cycle
      <3>2. (uiAlarm' <=> alarmOn') /\ (~uiAlarm' => OpenTime <= MaxOpenTime)
        <4>1. OpenTime \in Int
          BY DEF OpenTime
        <4>2. ~(OpenTime > MaxOpenTime) => OpenTime <= MaxOpenTime
          BY <4>1
        <4> QED BY <2>4, <4>2, Zenon DEF OpenOpen
      <3> QED BY <3>1, <3>2 DEF OpenTime
    <2>5. CASE Tick BY <2>5 DEF Tick, Capped
    <2>6. CASE ClockStep BY <2>6 DEF ClockStep
    <2>7. CASE DoorMoves BY <2>7 DEF DoorMoves
    <2>8. CASE Restart BY <2>8 DEF Restart, Started
    <2>9. CASE UNCHANGED vars BY <2>9 DEF vars
    <2> QED BY <2>1, <2>2, <2>3, <2>4, <2>5, <2>6, <2>7, <2>8, <2>9 DEF Next
  <1> QED BY <1>1, <1>2, TypeCorrect, PTL DEF Spec

\* The alarm starts and stops in bounded real time.
THEOREM AlarmInTime == Spec => [](AlarmStopsInTime /\ AlarmStartsInTime)
  <1>1. TypeOK /\ TimeInv => AlarmStopsInTime /\ AlarmStartsInTime
    <2> SUFFICES ASSUME TypeOK, TimeInv PROVE AlarmStopsInTime /\ AlarmStartsInTime
      OBVIOUS
    <2> USE TimingAssumption DEF TypeOK, TimeInv, SampleBound
    <2>1. AlarmStopsInTime BY DEF AlarmStopsInTime
    <2>2. AlarmStartsInTime BY DEF AlarmStartsInTime, AlarmBound
    <2> QED BY <2>1, <2>2
  <1> QED BY <1>1, TypeCorrect, TimeInvariant, PTL

-----------------------------------------------------------------------------

\* While the door is seen open, doorOpenTime is the start of that.
OpenTimeInv == state = "open" => seenOpen = since

\* No alarm before the door was seen open for MaxOpenTime, less the steps of
\* the clock.
THEOREM AlarmNeverEarly == Spec => AlarmNotEarly
  <1> USE TimingAssumption
  <1>1. Init => OpenTimeInv
    BY DEF Init, OpenTimeInv
  <1>2. TypeOK /\ OpenTimeInv /\ [Next]_vars => OpenTimeInv'
    <2> SUFFICES ASSUME TypeOK, OpenTimeInv, [Next]_vars PROVE OpenTimeInv'
      OBVIOUS
    <2> USE DEF TypeOK, OpenTimeInv, analysis, clock
    <2>1. CASE ClosedClosed BY <2>1 DEF ClosedClosed, Cycle
    <2>2. CASE ClosedOpen BY <2>2 DEF ClosedOpen, Cycle, BeginSession
    <2>3. CASE OpenClosed BY <2>3 DEF OpenClosed, Cycle, FinishAndReport
    <2>4. CASE OpenOpen BY <2>4 DEF OpenOpen, Cycle
    <2>5. CASE Tick BY <2>5 DEF Tick, Capped
    <2>6. CASE ClockStep BY <2>6 DEF ClockStep
    <2>7. CASE DoorMoves BY <2>7 DEF DoorMoves
    <2>8. CASE Restart BY <2>8 DEF Restart, Started
    <2>9. CASE UNCHANGED vars BY <2>9 DEF vars
    <2> QED BY <2>1, <2>2, <2>3, <2>4, <2>5, <2>6, <2>7, <2>8, <2>9 DEF Next
  <1>3. TypeOK /\ OpenTimeInv /\ [Next]_vars =>
          [(~uiAlarm /\ uiAlarm') => seenOpen > MaxOpenTime - 2 * MaxSkew]_vars
    <2> SUFFICES ASSUME TypeOK, OpenTimeInv, [Next]_vars, ~uiAlarm, uiAlarm'
                 PROVE  seenOpen > MaxOpenTime - 2 * MaxSkew
      OBVIOUS
    <2> USE DEF TypeOK, OpenTimeInv, analysis, clock
    <2>1. CASE OpenOpen
      <3>1. state = "open" /\ OpenTime > MaxOpenTime
        BY <2>1 DEF OpenOpen, Cycle
      <3> QED BY <3>1 DEF OpenTime
    <2>2. ~OpenOpen => ~uiAlarm'
      BY DEF Next, ClosedClosed, ClosedOpen, OpenClosed, Tick, ClockStep,
             DoorMoves, Restart, Started, vars
    <2> QED BY <2>1, <2>2
  <1> QED BY <1>1, <1>2, <1>3, TypeCorrect, PTL DEF Spec, AlarmNotEarly

\* The alarm never outlasts an open door by more than a sample.
THEOREM AlarmStops == Spec => []AlarmStopsInTime
  BY AlarmInTime, PTL

\* No report is of an opening before.
THEOREM ReportsFresh == Spec => []NoStaleReport
  BY SessionSafe, PTL
=============================================================================
