------------------------ MODULE TailgateMonitor_proofs ------------------------
(***************************************************************************)
(* First the monitoring session of BlockAnalyzer for any cut-off and any   *)
(* number of readings: every reading of a session is analyzed once, the    *)
(* report is of the whole session, and streams are cut only in silence.    *)
(* Then the session with its data, TailgateMonitor, which implements it:   *)
(* the results carry over, the sensors answer with the present reading,    *)
(* and the data are in step with what BlockAnalyzer keeps of them.         *)
(* Last, what the analysis counts: the peaks of a stream have times of     *)
(* their own, so that the n-th peak is one peak, and each is counted once  *)
(* whatever the memory behind the vectors holds; and a short passage is a  *)
(* block of its own, whose peak comes the same time after it in the        *)
(* streams of both sensors, so that it is counted in its direction.  The   *)
(* sums are defined by recursion; what is proved of them goes by           *)
(* induction, stated of sets of numbers.                                   *)
(***************************************************************************)
EXTENDS TailgateMonitor, TLAPS, FiniteSetTheorems, SequenceTheorems, WellFoundedInduction

\* The accounts of a stream that is analyzed and of one that grows.
LEMMA AnalyzedOnce ==
    ASSUME NEW S, NEW done \in Seq(S), NEW open \in S, NEW range,
           EachOnce(done, open, range)
    PROVE  /\ Analyzed(open, done) \in Seq(S)
           /\ EachOnce(Analyzed(open, done), {}, range)
<1>1. CASE open = {}
  BY <1>1 DEF Analyzed, EachOnce
<1>2. CASE open # {}
  <2>1. Analyzed(open, done) = Append(done, open)
    BY <1>2 DEF Analyzed
  <2> DEFINE all == Append(done, open)
  <2>2. all \in Seq(S)
    OBVIOUS
  <2>3. /\ Len(all) = Len(done) + 1 /\ DOMAIN all = 1 .. Len(done) + 1
        /\ DOMAIN done = 1 .. Len(done) /\ Len(done) \in Nat
        /\ \A i \in DOMAIN done : i \in DOMAIN all /\ all[i] = done[i]
        /\ all[Len(done) + 1] = open
    OBVIOUS
  <2>4. \A i \in DOMAIN all : i \in DOMAIN done \/ i = Len(done) + 1
    BY <2>3
  <2> HIDE DEF all
  <2>5. \A k \in range : \E i \in DOMAIN all : k \in all[i]
    BY <2>3 DEF EachOnce
  <2>6. \A i \in DOMAIN all : all[i] \subseteq range
    BY <2>3, <2>4 DEF EachOnce
  <2>7. \A i, j \in DOMAIN all : i # j => all[i] \cap all[j] = {}
    BY <2>3, <2>4 DEF EachOnce
  <2>8. EachOnce(all, {}, range)
    BY <2>5, <2>6, <2>7 DEF EachOnce
  <2> QED BY <2>1, <2>2, <2>8 DEF all
<1> QED BY <1>1, <1>2

LEMMA GrownOnce ==
    ASSUME NEW done, NEW open, NEW range, NEW k, k \notin range,
           EachOnce(done, open, range)
    PROVE  EachOnce(done, open \cup {k}, range \cup {k})
BY DEF EachOnce

-----------------------------------------------------------------------------

\* The type of the analyzed streams.
LEMMA AnalyzedType ==
    ASSUME NEW S, NEW done \in Seq(S), NEW open \in S
    PROVE  Analyzed(open, done) \in Seq(S)
BY DEF Analyzed

\* Every variable keeps its type: in particular a stream is cut at the very
\* reading that makes it silent, so that zeroCount stays below the cut-off.
THEOREM TypeCorrect == Spec => []TypeOK
<1>1. Init => TypeOK
  <2>1. <<>> \in Seq(SUBSET (1 .. 0))
    OBVIOUS
  <2>2. Init => FlagsOK
    BY DEF Init, FlagsOK
  <2>3. Init => StreamsOK
    BY <2>1, CutOffAssumption DEF Init, StreamsOK
  <2> QED BY <2>2, <2>3 DEF TypeOK
<1>2. TypeOK /\ [Next]_vars => TypeOK'
  <2> SUFFICES ASSUME FlagsOK, StreamsOK, [Next]_vars PROVE FlagsOK' /\ StreamsOK'
    BY DEF TypeOK
  <2> USE CutOffAssumption
  <2>1. CASE BeginSession
    <3>1. <<>> \in Seq(SUBSET (1 .. readings))
      OBVIOUS
    <3>2. FlagsOK'
      BY <2>1, Zenon DEF BeginSession, Initialize, FlagsOK
    <3>3. StreamsOK'
      BY <2>1, <3>1 DEF BeginSession, Initialize, StreamsOK
    <3> QED BY <3>2, <3>3
  <2>2. CASE FinishSession
    <3>1. Analyzed(rawStreams, blockages) \in Seq(SUBSET (1 .. readings))
      BY AnalyzedType DEF StreamsOK
    <3>2. FlagsOK'
      BY <2>2, Zenon DEF FinishSession, InitializeStreams, FlagsOK
    <3>3. StreamsOK'
      <4>1. /\ rawStreams' = {} /\ zeroCount' = 0
            /\ blockages' = Analyzed(rawStreams, blockages)
        BY <2>2, Zenon DEF FinishSession, InitializeStreams, FlagsOK
      <4>2. results' = blockages' /\ ended' = readings
            /\ readings' = readings /\ busy' = busy /\ begun' = begun
        BY <2>2 DEF FinishSession
      <4> QED BY <3>1, <4>1, <4>2 DEF StreamsOK
    <3> QED BY <3>2, <3>3
  <2>3. ASSUME NEW dead \in BOOLEAN, Update(dead) PROVE FlagsOK' /\ StreamsOK'
    <3>1. readings' = readings + 1 /\ readings' \in 0 .. MaxReadings
      BY <2>3 DEF Update, StreamsOK
    <3>2. /\ blockages \in Seq(SUBSET (1 .. readings'))
          /\ results \in Seq(SUBSET (1 .. readings'))
      <4>1. SUBSET (1 .. readings) \subseteq SUBSET (1 .. readings')
        BY <3>1 DEF StreamsOK
      <4> QED BY <4>1 DEF StreamsOK
    <3>3. rawStreams \cup {readings'} \in SUBSET (1 .. readings')
      BY <3>1 DEF StreamsOK
    <3>4. Zeroes(dead) \in 0 .. ZeroCutOff
      BY DEF Zeroes, StreamsOK
    <3>5. FlagsOK'
      <4>1. sessionRunning' = sessionRunning /\ monitoring' = monitoring
        BY <2>3 DEF Update
      <4>2. CASE firstRun' = firstRun
        BY <4>1, <4>2, Zenon DEF FlagsOK
      <4>3. CASE firstRun' = FALSE
        BY <4>1, <4>3, Zenon DEF FlagsOK
      <4> QED BY <2>3, <4>2, <4>3, Zenon DEF Update, InitializeStreams
    <3>6. /\ rawStreams' \subseteq 1 .. readings'
          /\ zeroCount' \in 0 .. ZeroCutOff - 1
          /\ blockages' \in Seq(SUBSET (1 .. readings'))
      <4>1. CASE Silent(Zeroes(dead))
        <5>1. Analyzed(rawStreams \cup {readings'}, blockages) \in Seq(SUBSET (1 .. readings'))
          BY <3>2, <3>3, AnalyzedType
        <5>2. InitializeStreams(rawStreams \cup {readings'}, blockages)
          BY <2>3, <3>1, <4>1, Zenon DEF Update
        <5>3. /\ rawStreams' = {} /\ zeroCount' = 0
              /\ blockages' = Analyzed(rawStreams \cup {readings'}, blockages)
          BY <2>3, <5>2, Zenon DEF Update, InitializeStreams, FlagsOK
        <5> QED BY <5>1, <5>3
      <4>2. CASE ~Silent(Zeroes(dead))
        <5>1. /\ rawStreams' = rawStreams \cup {readings'} /\ zeroCount' = Zeroes(dead)
              /\ blockages' = blockages
          BY <2>3, <3>1, <4>2, Zenon DEF Update
        <5>2. Zeroes(dead) \in 0 .. ZeroCutOff - 1
          BY <3>4, <4>2 DEF Silent
        <5>3. rawStreams' \subseteq 1 .. readings'
          BY <3>3, <5>1, Zenon
        <5>4. blockages' \in Seq(SUBSET (1 .. readings'))
          BY <3>2, <5>1, Zenon
        <5>5. zeroCount' \in 0 .. ZeroCutOff - 1
          BY <5>1, <5>2, Zenon
        <5> QED BY <5>3, <5>4, <5>5, Zenon
      <4> QED BY <4>1, <4>2
    <3>7. /\ busy' \subseteq 1 .. readings' /\ results' = results
          /\ begun' = begun /\ ended' = ended
      BY <2>3, <3>1 DEF Update, StreamsOK
    <3>8. StreamsOK'
      BY <3>1, <3>2, <3>6, <3>7 DEF StreamsOK
    <3> QED BY <3>5, <3>8
  <2>4. CASE UNCHANGED vars
    <3>1. FlagsOK'
      BY <2>4, Zenon DEF vars, analyzer, FlagsOK
    <3>2. StreamsOK'
      BY <2>4 DEF vars, analyzer, history, StreamsOK
    <3> QED BY <3>1, <3>2
  <2> QED BY <2>1, <2>2, <2>3, <2>4 DEF Next
<1> QED BY <1>1, <1>2, PTL DEF Spec

-----------------------------------------------------------------------------

\* No reading is lost or counted twice, in a session and in its report.
THEOREM SessionsExact == Spec => [](EachReadingAnalyzedOnce /\ ReportsWholeSession)
<1> DEFINE Inv == EachReadingAnalyzedOnce /\ ReportsWholeSession
<1>1. Init => Inv
  <2>1. EachOnce(<<>>, {}, {})
    BY DEF EachOnce
  <2>2. 0 + 1 .. 0 = {}
    OBVIOUS
  <2> QED BY <2>1, <2>2 DEF Init, EachReadingAnalyzedOnce, ReportsWholeSession
<1>2. TypeOK /\ Inv /\ [Next]_vars => Inv'
  <2> SUFFICES ASSUME TypeOK, Inv, [Next]_vars PROVE Inv'
    OBVIOUS
  <2>1. CASE BeginSession
    <3>1. readings + 1 .. readings = {}
      BY DEF TypeOK, StreamsOK
    <3>2. EachOnce(<<>>, {}, {})
      BY DEF EachOnce
    <3>3. /\ sessionRunning' = TRUE /\ blockages' = <<>> /\ rawStreams' = {}
          /\ begun' = readings /\ readings' = readings
      BY <2>1 DEF BeginSession, Initialize
    <3> QED BY <3>1, <3>2, <3>3 DEF EachReadingAnalyzedOnce, ReportsWholeSession
  <2>2. CASE FinishSession
    <3>1. EachOnce(blockages, rawStreams, begun + 1 .. readings)
      BY <2>2 DEF FinishSession, EachReadingAnalyzedOnce
    <3>2. EachOnce(Analyzed(rawStreams, blockages), {}, begun + 1 .. readings)
      BY <3>1, AnalyzedOnce, Zenon DEF TypeOK, StreamsOK
    <3>3. /\ sessionRunning' = FALSE
          /\ results' = Analyzed(rawStreams, blockages)
          /\ begun' = begun /\ ended' = readings
      BY <2>2 DEF FinishSession, InitializeStreams, TypeOK, FlagsOK
    <3> QED BY <3>2, <3>3 DEF EachReadingAnalyzedOnce, ReportsWholeSession
  <2>3. ASSUME NEW dead \in BOOLEAN, Update(dead) PROVE Inv'
    <3> DEFINE stream == rawStreams \cup {readings + 1}
    <3>1. EachOnce(blockages, rawStreams, begun + 1 .. readings)
      BY <2>3 DEF Update, EachReadingAnalyzedOnce
    <3>2. /\ (begun + 1 .. readings) \cup {readings + 1} = begun + 1 .. readings + 1
          /\ readings + 1 \notin begun + 1 .. readings
      BY DEF TypeOK, StreamsOK
    <3>3. EachOnce(blockages, stream, begun + 1 .. readings + 1)
      <4>1. EachOnce(blockages, stream, (begun + 1 .. readings) \cup {readings + 1})
        BY <3>1, <3>2, GrownOnce, Zenon
      <4> QED BY <3>2, <4>1, Zenon
    <3>4. EachOnce(blockages', rawStreams', begun + 1 .. readings + 1)
      <4>1. CASE Silent(Zeroes(dead))
        <5>1. blockages \in Seq(SUBSET (1 .. readings + 1))
          <6>1. SUBSET (1 .. readings) \subseteq SUBSET (1 .. readings + 1)
            BY DEF TypeOK, StreamsOK
          <6> QED BY <6>1 DEF TypeOK, StreamsOK
        <5>2. stream \in SUBSET (1 .. readings + 1)
          BY DEF TypeOK, StreamsOK
        <5>3. EachOnce(Analyzed(stream, blockages), {}, begun + 1 .. readings + 1)
          BY <3>3, <5>1, <5>2, AnalyzedOnce, Zenon
        <5>4. rawStreams' = {} /\ blockages' = Analyzed(stream, blockages)
          BY <2>3, <4>1 DEF Update, InitializeStreams, TypeOK, FlagsOK
        <5> QED BY <5>3, <5>4
      <4>2. CASE ~Silent(Zeroes(dead))
        BY <2>3, <3>3, <4>2 DEF Update
      <4> QED BY <4>1, <4>2
    <3>5. sessionRunning' = TRUE /\ readings' = readings + 1 /\ begun' = begun
      BY <2>3 DEF Update, TypeOK, FlagsOK
    <3> QED BY <3>4, <3>5 DEF EachReadingAnalyzedOnce, ReportsWholeSession
  <2>4. CASE UNCHANGED vars
    BY <2>4 DEF vars, analyzer, history, EachReadingAnalyzedOnce, ReportsWholeSession
  <2> QED BY <2>1, <2>2, <2>3, <2>4 DEF Next
<1> QED BY <1>1, <1>2, TypeCorrect, PTL DEF Spec

-----------------------------------------------------------------------------

\* The open stream reaches up to the last reading, and its last zeroCount
\* readings were dead.
SilenceInv ==
    sessionRunning =>
        /\ \A k \in rawStreams : k = readings \/ k + 1 \in rawStreams
        /\ \A n \in 0 .. zeroCount - 1 :
             readings - n \in rawStreams /\ readings - n \notin busy
        /\ CutOnlyInSilence

\* A passage is never cut in two: zeroCount counts the dead readings at the
\* end of the stream, and update cuts there (blockanalyzer.cpp:57-61, 110-113).
THEOREM CutsInSilence == Spec => []CutOnlyInSilence
<1>1. Init => SilenceInv
  BY DEF Init, SilenceInv
<1>2. TypeOK /\ SilenceInv /\ [Next]_vars => SilenceInv'
  <2> SUFFICES ASSUME TypeOK, SilenceInv, [Next]_vars PROVE SilenceInv'
    OBVIOUS
  <2> USE CutOffAssumption
  <2>1. CASE BeginSession
    <3>1. blockages' = <<>> /\ rawStreams' = {} /\ zeroCount' = 0
      BY <2>1 DEF BeginSession, Initialize
    <3> QED BY <3>1 DEF SilenceInv, CutOnlyInSilence
  <2>2. CASE FinishSession
    <3>1. sessionRunning' = FALSE
      BY <2>2 DEF FinishSession
    <3> QED BY <3>1 DEF SilenceInv
  <2>3. ASSUME NEW dead \in BOOLEAN, Update(dead) PROVE SilenceInv'
    <3> DEFINE r == readings + 1
               stream == rawStreams \cup {r}
    <3>1. /\ readings \in Nat /\ zeroCount \in Nat /\ ZeroCutOff \in Nat \ {0}
          /\ \A k \in rawStreams : k \in Int /\ k # r
          /\ \A k \in busy : k # r
      BY DEF TypeOK, StreamsOK
    <3>2. sessionRunning' = TRUE /\ readings' = r
      BY <2>3 DEF Update, TypeOK, FlagsOK
    <3>3. busy' = IF dead THEN busy ELSE busy \cup {r}
      BY <2>3 DEF Update
    <3>4. \A k \in stream : k = r \/ k + 1 \in stream
      BY <2>3, <3>1 DEF Update, SilenceInv
    <3>5. \A n \in 0 .. Zeroes(dead) - 1 : r - n \in stream /\ r - n \notin busy'
      <4> SUFFICES ASSUME NEW n \in 0 .. Zeroes(dead) - 1
                   PROVE  r - n \in stream /\ r - n \notin busy'
        OBVIOUS
      <4>1. dead = TRUE /\ n \in 0 .. zeroCount
        BY <3>1 DEF Zeroes
      <4>2. busy' = busy
        BY <3>3, <4>1
      <4>3. CASE n = 0
        BY <3>1, <4>2, <4>3
      <4>4. CASE n # 0
        <5>1. n - 1 \in 0 .. zeroCount - 1 /\ r - n = readings - (n - 1)
          BY <3>1, <4>1, <4>4
        <5>2. readings - (n - 1) \in rawStreams /\ readings - (n - 1) \notin busy
          BY <2>3, <5>1 DEF Update, SilenceInv
        <5> QED BY <4>2, <5>1, <5>2
      <4> QED BY <4>3, <4>4
    \* The readings of the streams already cut are old, and stay dead.
    <3>6. \A i \in DOMAIN blockages : \A k \in blockages[i] :
            k + 1 \notin blockages[i] =>
                \A n \in 0 .. ZeroCutOff - 1 :
                    k - n \in blockages[i] /\ k - n \notin busy'
      <4> SUFFICES ASSUME NEW i \in DOMAIN blockages, NEW k \in blockages[i],
                          k + 1 \notin blockages[i], NEW n \in 0 .. ZeroCutOff - 1
                   PROVE  k - n \in blockages[i] /\ k - n \notin busy'
        OBVIOUS
      <4>1. k - n \in blockages[i] /\ k - n \notin busy
        BY <2>3 DEF Update, SilenceInv, CutOnlyInSilence
      <4>2. blockages[i] \subseteq 1 .. readings
        BY DEF TypeOK, StreamsOK
      <4>3. k - n # r
        BY <4>1, <4>2, <3>1
      <4> QED BY <4>1, <4>3, <3>3
    <3>7. CASE Silent(Zeroes(dead))
      <4>1. rawStreams' = {} /\ zeroCount' = 0 /\ blockages' = Append(blockages, stream)
        BY <2>3, <3>7 DEF Update, InitializeStreams, Analyzed, TypeOK, FlagsOK
      <4>2. ZeroCutOff <= Zeroes(dead) /\ Zeroes(dead) \in Nat
        BY <3>1, <3>7 DEF Silent, Zeroes
      <4>3. \A k \in stream : k + 1 \notin stream =>
              \A n \in 0 .. ZeroCutOff - 1 : k - n \in stream /\ k - n \notin busy'
        BY <3>1, <3>4, <3>5, <4>2
      <4>4. \A i \in DOMAIN blockages' :
              \/ i \in DOMAIN blockages /\ blockages'[i] = blockages[i]
              \/ blockages'[i] = stream
        <5>1. blockages \in Seq(SUBSET (1 .. readings))
          BY DEF TypeOK, StreamsOK
        <5> QED BY <4>1, <5>1
      <4>5. CutOnlyInSilence'
        BY <3>6, <4>3, <4>4 DEF CutOnlyInSilence
      <4> QED BY <4>1, <4>5 DEF SilenceInv
    <3>8. CASE ~Silent(Zeroes(dead))
      <4>1. rawStreams' = stream /\ zeroCount' = Zeroes(dead) /\ blockages' = blockages
        BY <2>3, <3>8 DEF Update
      <4>2. CutOnlyInSilence'
        BY <3>6, <4>1 DEF CutOnlyInSilence
      <4> QED BY <3>2, <3>4, <3>5, <4>1, <4>2 DEF SilenceInv
    <3> QED BY <3>7, <3>8
  <2>4. CASE UNCHANGED vars
    BY <2>4 DEF vars, analyzer, history, SilenceInv, CutOnlyInSilence
  <2> QED BY <2>1, <2>2, <2>3, <2>4 DEF Next
<1>3. SilenceInv => CutOnlyInSilence
  BY DEF SilenceInv, CutOnlyInSilence
<1> QED BY <1>1, <1>2, <1>3, TypeCorrect, PTL DEF Spec

\* What is reported after a session is the whole session and nothing else.
THEOREM ReportsWhole == Spec => []ReportsWholeSession
BY SessionsExact, PTL

-----------------------------------------------------------------------------

\* The session with its data implements the session of readings.
THEOREM ImplementsSession == MonitorSpec => Spec
<1>1. MonitorInit => Init
  BY DEF MonitorInit
<1>2. [MonitorNext]_monitorVars => [Next]_vars
  <2> SUFFICES ASSUME [MonitorNext]_monitorVars PROVE [Next]_vars
    OBVIOUS
  <2>1. CASE BeginMonitoring
    BY <2>1 DEF BeginMonitoring, Next
  <2>2. CASE FinishMonitoring
    BY <2>2 DEF FinishMonitoring, Next
  <2>3. ASSUME NEW reading \in Scenes, Sample(reading) PROVE Next
    <3>1. \E dead \in BOOLEAN : Update(dead)
      BY <2>3 DEF Sample
    <3> QED BY <3>1 DEF Next
  <2>4. CASE UNCHANGED monitorVars
    BY <2>4 DEF monitorVars
  <2> QED BY <2>1, <2>2, <2>3, <2>4 DEF MonitorNext
<1> QED BY <1>1, <1>2, PTL DEF MonitorSpec, Spec

\* No reading of the sensors is lost and none is analyzed twice.
THEOREM MonitorAnalyzesOnce == MonitorSpec => []EachReadingAnalyzedOnce
BY ImplementsSession, SessionsExact, PTL

\* What is reported after a session is of all its readings.
THEOREM MonitorReportsWhole == MonitorSpec => []ReportsWholeSession
BY ImplementsSession, SessionsExact, PTL

\* The streams of the sensors are cut only where both were silent.
THEOREM MonitorCutsInSilence == MonitorSpec => []CutOnlyInSilence
BY ImplementsSession, CutsInSilence, PTL

-----------------------------------------------------------------------------

\* A reading that is not mapped to zero is mapped to 23 at least: one volt is
\* the least voltage above the lower bound of the range.
LEMMA MappedValues ==
    ASSUME NEW reading \in Readings10Bit
    PROVE  Mapped(reading) \in 0 .. 100 /\ (Mapped(reading) = 0 \/ Mapped(reading) >= 23)
<1>1. Volts(reading) \in 0 .. 3
  BY DEF Volts, Readings10Bit
<1> DEFINE n == Volts(reading)
<1> DEFINE value == ((10 * n - 4) * 100) \div 26
<1>2. Mapped(reading) = IF value < 0 THEN 0 ELSE IF value > 100 THEN 100 ELSE value
  BY DEF Mapped
<1>3. value \in Int /\ (n = 0 => value < 0) /\ (n # 0 => value >= 23)
  <2> HIDE DEF n
  <2> QED BY <1>1 DEF n
<1> HIDE DEF n, value
<1> QED BY <1>1, <1>2, <1>3 DEF n

LEMMA MappedZero == Mapped(0) = 0
BY DEF Mapped, Volts

-----------------------------------------------------------------------------

\* What the sensors answer, and what the streams hold.
Answered(x) == x = 0 \/ x >= FloorCutOff

SensorsExact ==
    /\ sensors \in [Sensors -> [mValue : Readings10Bit, iValue : 0 .. 100]]
    /\ \A s \in Sensors : sensors[s].iValue = Mapped(sensors[s].mValue)

StreamsExact ==
    /\ values \in [Sensors -> Seq(0 .. 100)]
    /\ \A s \in Sensors : \A i \in DOMAIN values[s] : Answered(values[s][i])

ReadingsInv == SensorsExact /\ StreamsExact

\* A sensor asked for its value answers with the value of this reading.
LEMMA SensorAnswers ==
    ASSUME NEW sensor \in [mValue : Readings10Bit, iValue : 0 .. 100],
           sensor.iValue = Mapped(sensor.mValue),
           NEW reading \in Readings10Bit
    PROVE  LET read == GetSensorValue(sensor, reading)
           IN  /\ read \in [mValue : Readings10Bit, iValue : 0 .. 100]
               /\ read.mValue = reading
               /\ read.iValue = Mapped(reading)
BY MappedValues DEF GetSensorValue

LEMMA EmptyStreams == NoReadings \in [Sensors -> Seq(0 .. 100)]
                      /\ \A s \in Sensors : NoReadings[s] = <<>>
BY DEF NoReadings

LEMMA ReadingsInitially == MonitorInit => ReadingsInv
<1> SUFFICES ASSUME MonitorInit PROVE ReadingsInv
  OBVIOUS
<1>1. SensorsExact
  BY MappedZero DEF MonitorInit, SensorsExact, BlankSensor, Readings10Bit
<1>2. StreamsExact
  BY EmptyStreams DEF MonitorInit, StreamsExact
<1> QED BY <1>1, <1>2 DEF ReadingsInv

\* A floorCutOff of at most 23, the source has 20, lets every reading pass.
LEMMA ReadingsPreserved ==
    ASSUME FloorCutOff <= 23, ReadingsInv, [MonitorNext]_monitorVars
    PROVE  ReadingsInv'
<1> USE DEF ReadingsInv
<1>1. CASE BeginMonitoring
  <2>1. SensorsExact'
    BY <1>1 DEF BeginMonitoring, SensorsExact
  <2>2. StreamsExact'
    BY <1>1, EmptyStreams DEF BeginMonitoring, StreamsExact
  <2> QED BY <2>1, <2>2
<1>2. CASE FinishMonitoring
  <2>1. SensorsExact'
    BY <1>2 DEF FinishMonitoring, SensorsExact
  <2>2. StreamsExact'
    BY <1>2, EmptyStreams DEF FinishMonitoring, RestartStreams, StreamsExact
  <2> QED BY <2>1, <2>2
<1>3. ASSUME NEW reading \in Scenes, Sample(reading) PROVE ReadingsInv'
  <2> DEFINE read == [s \in Sensors |-> GetSensorValue(sensors[s], reading[s])]
             streams == [s \in Sensors |-> Append(values[s], read[s].iValue)]
  <2>1. \A s \in Sensors : reading[s] \in Readings10Bit
    BY SensorAssumption DEF Sensors
  <2>2. \A s \in Sensors :
          /\ read[s] \in [mValue : Readings10Bit, iValue : 0 .. 100]
          /\ read[s].mValue = reading[s]
          /\ read[s].iValue = Mapped(reading[s])
    BY <2>1, SensorAnswers DEF SensorsExact
  <2>3. sensors' = read
    BY <1>3 DEF Sample
  <2>4. SensorsExact'
    BY <2>2, <2>3 DEF SensorsExact
  <2>5. \A s \in Sensors : read[s].iValue \in 0 .. 100 /\ Answered(read[s].iValue)
    <3> SUFFICES ASSUME NEW s \in Sensors
                 PROVE  read[s].iValue \in 0 .. 100 /\ Answered(read[s].iValue)
      OBVIOUS
    <3>1. Mapped(reading[s]) \in 0 .. 100
          /\ (Mapped(reading[s]) = 0 \/ Mapped(reading[s]) >= 23)
      BY <2>1, MappedValues
    <3>2. read[s].iValue = Mapped(reading[s])
      BY <2>2
    <3>3. FloorCutOff \in Nat
      BY WeightAssumption
    <3>4. Answered(Mapped(reading[s]))
      BY <3>1, <3>3 DEF Answered
    <3> HIDE DEF read
    <3> QED BY <3>1, <3>2, <3>4
  <2>6. values' = NoReadings \/ values' = streams
    BY <1>3 DEF Sample, RestartStreams
  <2>7. CASE values' = NoReadings
    BY <2>4, <2>7, EmptyStreams DEF StreamsExact
  <2>8. CASE values' = streams
    <3> HIDE DEF read
    <3>1. values' \in [Sensors -> Seq(0 .. 100)]
      BY <2>5, <2>8 DEF StreamsExact
    <3>2. ASSUME NEW s \in Sensors, NEW i \in DOMAIN values'[s]
          PROVE  Answered(values'[s][i])
      <4>1. values[s] \in Seq(0 .. 100) /\ read[s].iValue \in 0 .. 100
        BY <2>5 DEF StreamsExact
      <4>2. values'[s] = Append(values[s], read[s].iValue)
        BY <2>8
      <4>3. values'[s][i] = read[s].iValue
            \/ (i \in DOMAIN values[s] /\ values'[s][i] = values[s][i])
        BY <3>2, <4>1, <4>2
      <4> QED BY <2>5, <4>3 DEF StreamsExact
    <3> QED BY <2>4, <3>1, <3>2 DEF StreamsExact
  <2> QED BY <2>6, <2>7, <2>8
<1>4. CASE UNCHANGED monitorVars
  BY <1>4 DEF monitorVars, data, SensorsExact, StreamsExact
<1> QED BY <1>1, <1>2, <1>3, <1>4 DEF MonitorNext

\* No sensor answers from a stale cache, and floorCutOff, which the source
\* sets to 20, never cuts a reading off.
THEOREM ReadingsNotFaint ==
    ASSUME FloorCutOff <= 23
    PROVE  MonitorSpec => []NoFaintReading
<1>1. MonitorInit => ReadingsInv
  BY ReadingsInitially
<1>2. ReadingsInv /\ [MonitorNext]_monitorVars => ReadingsInv'
  BY ReadingsPreserved
<1>3. ReadingsInv => NoFaintReading
  BY DEF ReadingsInv, SensorsExact, StreamsExact, Answered, NoFaintReading
<1> QED BY <1>1, <1>2, <1>3, PTL DEF MonitorSpec

-----------------------------------------------------------------------------

\* The peaks of a stream are so many, each at a time of its own.
Ordered(points) ==
    /\ IsFiniteSet(Peaks(points))
    /\ \A p \in Peaks(points) : p.time \in Int
    /\ \A p, q \in Peaks(points) : p.time = q.time => p = q

\* The numbers of the peaks are those from 1 to their count, one for each.
LEMMA NumbersExact ==
    ASSUME NEW points, Ordered(points)
    PROVE  LET N == Cardinality(Peaks(points))
           IN  /\ N \in Nat
               /\ \A p \in Peaks(points) : Number(points, p) \in 1 .. N
               /\ \A p, q \in Peaks(points) : Number(points, p) = Number(points, q) => p = q
               /\ \A n \in 1 .. N : \E p \in Peaks(points) : Number(points, p) = n
<1> DEFINE P == Peaks(points)
           N == Cardinality(P)
           Upto(p) == {q \in P : q.time <= p.time}
<1>0. IsFiniteSet(P) /\ N \in Nat
  BY FS_CardinalityType DEF Ordered
<1>1. \A p \in P : p.time \in Int
  BY DEF Ordered
<1>2. ASSUME NEW p \in P
      PROVE  /\ IsFiniteSet(Upto(p)) /\ p \in Upto(p)
             /\ Number(points, p) = Cardinality(Upto(p)) /\ Number(points, p) \in 1 .. N
  <2>1. Upto(p) \in SUBSET P /\ p \in Upto(p)
    BY <1>1
  <2> HIDE DEF P
  <2>2. IsFiniteSet(Upto(p)) /\ Cardinality(Upto(p)) <= N
    BY <1>0, <2>1, FS_Subset
  <2>3. Cardinality(Upto(p)) \in Nat /\ Cardinality(Upto(p)) # 0
    BY <2>1, <2>2, FS_CardinalityType, FS_EmptySet
  <2>4. Number(points, p) = Cardinality(Upto(p))
    BY DEF Number, P
  <2> QED BY <1>0, <2>1, <2>2, <2>3, <2>4
<1>3. ASSUME NEW p \in P, NEW q \in P,
             Number(points, p) = Number(points, q), p.time <= q.time
      PROVE  p = q
  <2>1. Upto(p) \in SUBSET Upto(q)
    BY <1>1, <1>3
  <2>2. IsFiniteSet(Upto(q)) /\ Cardinality(Upto(q)) = Cardinality(Upto(p))
    BY <1>2, <1>3
  <2>3. Upto(q) = Upto(p)
    BY <2>1, <2>2, FS_Subset
  <2>4. q \in Upto(p)
    BY <1>2, <2>3
  <2> QED BY <1>1, <1>3, <2>4 DEF Ordered
<1>4. \A p, q \in P : Number(points, p) = Number(points, q) => p = q
  BY <1>1, <1>3
<1> DEFINE number == [p \in P |-> Number(points, p)]
<1>5. number \in Injection(P, 1 .. N)
  BY <1>2, <1>4 DEF Injection, IsInjective
<1>6. IsFiniteSet(1 .. N) /\ Cardinality(1 .. N) = N
  BY <1>0, FS_Interval
<1>7. number \in Surjection(P, 1 .. N)
  <2> HIDE DEF number, P
  <2> QED BY <1>5, <1>6, FS_Injection DEF N
<1>8. \A n \in 1 .. N : \E p \in P : Number(points, p) = n
  BY <1>7 DEF Surjection
<1> QED BY <1>0, <1>2, <1>4, <1>8

\* From the n-th peak on there are as many as the numbers from n on.
LEMMA UnpairedCount ==
    ASSUME NEW points, Ordered(points), NEW n \in 1 .. Cardinality(Peaks(points)) + 1
    PROVE  Cardinality(Unpaired(points, n)) = Cardinality(Peaks(points)) - n + 1
<1> DEFINE P == Peaks(points)
           N == Cardinality(P)
           rest == Unpaired(points, n)
           number == [p \in rest |-> Number(points, p)]
<1>1. /\ N \in Nat /\ rest \subseteq P
      /\ \A p \in P : Number(points, p) \in 1 .. N
      /\ \A p, q \in P : Number(points, p) = Number(points, q) => p = q
      /\ \A k \in 1 .. N : \E p \in P : Number(points, p) = k
  BY NumbersExact DEF Unpaired
<1>2. number \in Injection(rest, n .. N)
  BY <1>1 DEF Injection, IsInjective, Unpaired
<1>3. number \in Surjection(rest, n .. N)
  <2>1. \A k \in n .. N : \E p \in rest : Number(points, p) = k
    BY <1>1 DEF Unpaired
  <2> QED BY <1>2, <2>1 DEF Injection, Surjection
<1>4. IsFiniteSet(n .. N) /\ Cardinality(n .. N) = N - n + 1
  <2>1. n \in Int /\ N \in Int /\ n <= N + 1
    BY <1>1
  <2> HIDE DEF N
  <2>2. IsFiniteSet(n .. N) /\ Cardinality(n .. N) = IF n > N THEN 0 ELSE N - n + 1
    BY <2>1, FS_Interval
  <2> QED BY <2>1, <2>2
<1>5. Cardinality(rest) = Cardinality(n .. N)
  <2> DEFINE upper == n .. N
  <2>1. /\ number \in Injection(rest, upper) /\ number \in Surjection(rest, upper)
        /\ IsFiniteSet(upper)
    BY <1>2, <1>3, <1>4
  <2> HIDE DEF number, rest, upper
  <2>2. Cardinality(rest) = Cardinality(upper)
    BY <2>1, FS_Injection
  <2> QED BY <2>2 DEF upper
<1> QED BY <1>4, <1>5

\* A search finds its peak, or what lies behind.
LEMMA SearchFinds ==
    ASSUME NEW points, Ordered(points), NEW n \in Nat \ {0}, NEW behind
    PROVE  /\ n <= Cardinality(Peaks(points)) => Found(points, n, behind) \in Peaks(points)
           /\ n > Cardinality(Peaks(points)) => Found(points, n, behind) = behind
  BY NumbersExact DEF Found

\* Sets that have nothing in common have as many members together as apart.
LEMMA DisjointCount ==
    ASSUME NEW S, NEW T, IsFiniteSet(S), IsFiniteSet(T), S \cap T = {}
    PROVE  /\ IsFiniteSet(S \cup T)
           /\ Cardinality(S \cup T) = Cardinality(S) + Cardinality(T)
<1>1. /\ IsFiniteSet(S \cup T)
      /\ Cardinality(S \cup T) = Cardinality(S) + Cardinality(T) - Cardinality(S \cap T)
  BY FS_Union
<1>2. Cardinality(S \cap T) = 0
  BY FS_EmptySet
<1>3. Cardinality(S) \in Nat /\ Cardinality(T) \in Nat
  BY FS_CardinalityType
<1> QED BY <1>1, <1>2, <1>3

\* A pair is counted once, whatever its times are.
LEMMA PairsCounted ==
    ASSUME NEW pairs, IsFiniteSet(DOMAIN pairs),
           \A n \in DOMAIN pairs : pairs[n][1] \in Int /\ pairs[n][2] \in Int
    PROVE  LET before == {n \in DOMAIN pairs : pairs[n][1] < pairs[n][2]}
               after == {n \in DOMAIN pairs : pairs[n][1] > pairs[n][2]}
               same == {n \in DOMAIN pairs : pairs[n][1] = pairs[n][2]}
           IN  /\ Cardinality(before) \in Nat /\ Cardinality(after) \in Nat
               /\ Cardinality(same) \in Nat
               /\ Cardinality(before) + Cardinality(after) + Cardinality(same)
                    = Cardinality(DOMAIN pairs)
<1> DEFINE all == DOMAIN pairs
           before == {n \in all : pairs[n][1] < pairs[n][2]}
           after == {n \in all : pairs[n][1] > pairs[n][2]}
           same == {n \in all : pairs[n][1] = pairs[n][2]}
<1>1. /\ before \in SUBSET all /\ after \in SUBSET all /\ same \in SUBSET all
      /\ before \cap after = {} /\ (before \cup after) \cap same = {}
      /\ all = (before \cup after) \cup same
  OBVIOUS
<1> HIDE DEF before, after, same
<1>2. IsFiniteSet(before) /\ IsFiniteSet(after) /\ IsFiniteSet(same)
  BY <1>1, FS_Subset
<1>3. /\ Cardinality(before) \in Nat /\ Cardinality(after) \in Nat
      /\ Cardinality(same) \in Nat
  BY <1>2, FS_CardinalityType
<1>4. /\ IsFiniteSet(before \cup after)
      /\ Cardinality(before \cup after) = Cardinality(before) + Cardinality(after)
  BY <1>1, <1>2, DisjointCount
<1>5. Cardinality((before \cup after) \cup same)
        = Cardinality(before \cup after) + Cardinality(same)
  BY <1>1, <1>2, <1>4, DisjointCount
<1> QED BY <1>1, <1>3, <1>4, <1>5 DEF before, after, same

\* Two peaks are paired in all searches but the last, and perhaps in that.
LEMMA PairsFound ==
    ASSUME NEW outer, NEW inner, Ordered(outer), Ordered(inner),
           NEW behind1, NEW behind2, behind1.time \in Int, behind2.time \in Int
    PROVE  LET pairs == PairPeaks(outer, inner, behind1, behind2)
               last == LastSearch(outer, inner)
           IN  /\ IsFiniteSet(DOMAIN pairs)
               /\ Cardinality(DOMAIN pairs) \in {last - 1, last}
               /\ \A n \in DOMAIN pairs : pairs[n][1] \in Int /\ pairs[n][2] \in Int
<1> DEFINE p(n) == Found(outer, n, behind1)
           q(n) == Found(inner, n, behind2)
           last == LastSearch(outer, inner)
           paired == {n \in 1 .. last : IsPeak(p(n)) /\ IsPeak(q(n))}
           pairs == PairPeaks(outer, inner, behind1, behind2)
<1>1. /\ Cardinality(Peaks(outer)) \in Nat /\ Cardinality(Peaks(inner)) \in Nat
      /\ last \in Nat \ {0}
      /\ last - 1 <= Cardinality(Peaks(outer)) /\ last - 1 <= Cardinality(Peaks(inner))
  BY NumbersExact DEF LastSearch
<1>2. pairs = [n \in paired |-> <<p(n).time, q(n).time>>]
  BY DEF PairPeaks
<1>3. ASSUME NEW n \in 1 .. last
      PROVE  /\ p(n).time \in Int /\ q(n).time \in Int
             /\ n <= last - 1 => n \in paired
  <2>1. /\ p(n) \in Peaks(outer) \/ (n > last - 1 /\ p(n) = behind1)
        /\ q(n) \in Peaks(inner) \/ (n > last - 1 /\ q(n) = behind2)
    BY <1>1, SearchFinds
  <2>2. \A x \in Peaks(outer) \cup Peaks(inner) : x.time \in Int /\ IsPeak(x)
    BY DEF Ordered, Peaks
  <2> HIDE DEF p, q
  <2> QED BY <1>1, <2>1, <2>2
<1> HIDE DEF p, q, last, pairs
<1>4. paired = 1 .. last \/ paired = 1 .. last - 1
  <2>1. paired \subseteq 1 .. last
    OBVIOUS
  <2>2. \A n \in 1 .. last : n <= last - 1 \/ n = last
    BY <1>1
  <2>3. \A n \in 1 .. last - 1 : n \in paired
    BY <1>1, <1>3
  <2>4. 1 .. last - 1 \subseteq paired
    BY <2>3, Zenon
  <2> HIDE DEF paired
  <2>5. CASE last \in paired
    <3>1. \A n \in 1 .. last : n \in 1 .. last - 1 \/ n = last
      BY <1>1
    <3> QED BY <2>1, <2>4, <2>5, <3>1, Zenon
  <2>6. CASE last \notin paired
    <3>1. \A n \in 1 .. last : n \in 1 .. last - 1 \/ n = last
      BY <1>1
    <3> QED BY <2>1, <2>4, <2>6, <3>1, Zenon
  <2> QED BY <2>5, <2>6
<1>5. IsFiniteSet(paired) /\ Cardinality(paired) \in {last - 1, last}
  <2> HIDE DEF paired
  <2>1. last \in Int /\ last - 1 \in Int /\ 1 \in Int /\ last >= 1
    BY <1>1
  <2>2. IsFiniteSet(1 .. last) /\ Cardinality(1 .. last) = last
    BY <2>1, FS_Interval
  <2>3. IsFiniteSet(1 .. last - 1) /\ Cardinality(1 .. last - 1) = last - 1
    <3> DEFINE l == last - 1
    <3>1. l \in Int /\ l >= 0
      BY <2>1
    <3> HIDE DEF l
    <3>2. IsFiniteSet(1 .. l) /\ Cardinality(1 .. l) = l
      BY <3>1, FS_Interval
    <3> QED BY <3>2 DEF l
  <2> QED BY <1>4, <2>2, <2>3
<1>6. DOMAIN pairs = paired
  BY <1>2
<1>7. \A n \in DOMAIN pairs : pairs[n][1] \in Int /\ pairs[n][2] \in Int
  BY <1>2, <1>3, <1>6
<1> QED BY <1>5, <1>6, <1>7 DEF pairs, last

\* Whatever lies behind the points of two streams, as many people are counted
\* as the busier sensor has peaks, and at most one more.
THEOREM PeopleCounted ==
    ASSUME NEW outer, NEW inner, Ordered(outer), Ordered(inner),
           outer # {}, inner # {},
           NEW behind1, NEW behind2, behind1.time \in Int, behind2.time \in Int
    PROVE  LET most == MaxOf(Cardinality(Peaks(outer)), Cardinality(Peaks(inner)))
           IN  PeopleIn(AnalyzeStreams(outer, inner, behind1, behind2)) \in {most, most + 1}
<1> DEFINE pairs == PairPeaks(outer, inner, behind1, behind2)
           last == LastSearch(outer, inner)
           before == {n \in DOMAIN pairs : pairs[n][1] < pairs[n][2]}
           after == {n \in DOMAIN pairs : pairs[n][1] > pairs[n][2]}
           same == {n \in DOMAIN pairs : pairs[n][1] = pairs[n][2]}
           m == Cardinality(Peaks(outer))
           n == Cardinality(Peaks(inner))
<1>1. AnalyzeStreams(outer, inner, behind1, behind2) =
        PassageTriple(Cardinality(before), Cardinality(after),
                      Cardinality(same) + Cardinality(Unpaired(outer, last))
                                        + Cardinality(Unpaired(inner, last)))
  BY Zenon DEF AnalyzeStreams
<1>2. /\ IsFiniteSet(DOMAIN pairs) /\ Cardinality(DOMAIN pairs) \in {last - 1, last}
      /\ \A k \in DOMAIN pairs : pairs[k][1] \in Int /\ pairs[k][2] \in Int
  BY PairsFound
<1>3. /\ Cardinality(before) \in Nat /\ Cardinality(after) \in Nat
      /\ Cardinality(same) \in Nat
      /\ Cardinality(before) + Cardinality(after) + Cardinality(same)
           = Cardinality(DOMAIN pairs)
  <2> HIDE DEF pairs
  <2> QED BY <1>2, PairsCounted
<1>4. m \in Nat /\ n \in Nat /\ last = IF m < n THEN m + 1 ELSE n + 1
  BY NumbersExact DEF LastSearch
<1>5. /\ Cardinality(Unpaired(outer, last)) = m - last + 1
      /\ Cardinality(Unpaired(inner, last)) = n - last + 1
  <2>1. last \in 1 .. m + 1 /\ last \in 1 .. n + 1
    BY <1>4
  <2> HIDE DEF last
  <2> QED BY <2>1, UnpairedCount
<1> HIDE DEF pairs, before, after, same, last, m, n
<1>6. PeopleIn(AnalyzeStreams(outer, inner, behind1, behind2)) =
        Cardinality(before) + Cardinality(after) +
          (Cardinality(same) + (m - last + 1) + (n - last + 1))
  BY <1>1, <1>5 DEF PeopleIn, PassageTriple
<1>7. MaxOf(m, n) = IF m > n THEN m ELSE n
  BY DEF MaxOf
<1> QED BY <1>2, <1>3, <1>4, <1>6, <1>7 DEF m, n

-----------------------------------------------------------------------------

\* The code's blocks are maximal, so that a reading belongs to one at most.
LEMMA BlocksApart ==
    ASSUME NEW stream, Len(stream) \in Nat,
           NEW e \in IsolateBlocks(stream), NEW f \in IsolateBlocks(stream),
           NEW t \in Int, e[1] <= t, t < e[2], f[1] <= t, t < f[2]
    PROVE  e = f
<1> DEFINE Positive(i) == i \in 0 .. Len(stream) - 1 /\ stream[i + 1] > 0
<1>1. \A x \in IsolateBlocks(stream) :
         /\ x = <<x[1], x[2]>> /\ x[1] \in Int /\ x[2] \in Int
         /\ ~Positive(x[1] - 1) /\ ~Positive(x[2])
         /\ \A i \in x[1] .. x[2] - 1 : Positive(i)
  BY DEF IsolateBlocks
<1> HIDE DEF Positive
<1>2. ASSUME NEW x \in {e, f}, NEW y \in {e, f} PROVE ~(x[1] < y[1]) /\ ~(x[2] > y[2])
  <2>1. /\ x \in IsolateBlocks(stream) /\ y \in IsolateBlocks(stream)
        /\ x[1] <= t /\ t < x[2] /\ y[1] <= t /\ t < y[2]
    OBVIOUS
  <2>2. CASE x[1] < y[1]
    <3>1. y[1] - 1 \in x[1] .. x[2] - 1
      BY <1>1, <2>1, <2>2
    <3> QED BY <1>1, <2>1, <3>1
  <2>3. CASE x[2] > y[2]
    <3>1. y[2] \in x[1] .. x[2] - 1
      BY <1>1, <2>1, <2>3
    <3> QED BY <1>1, <2>1, <3>1
  <2> QED BY <2>2, <2>3
<1>3. e[1] = f[1] /\ e[2] = f[2]
  BY <1>1, <1>2
<1> QED BY <1>1, <1>3

\* A block has one peak at most, and its time lies within the block.
LEMMA OnePeakEach ==
    ASSUME NEW stream, NEW a \in Int, NEW b \in Int
    PROVE  /\ \A p \in Peaks(BlockPoints(stream, a, b)) :
                 p.time \in Int /\ a <= p.time /\ p.time < b
           /\ \A p, q \in Peaks(BlockPoints(stream, a, b)) : p = q
<1> DEFINE block == SubSeq(stream, a + 1, b)
           Above(j) == 2 * (b - a) * block[j + 1] > SumOf(block)
           Over(j, k) == k \notin 0 .. b - a - 1 \/ block[j + 1] > block[k + 1]
           peaks == {j \in 0 .. b - a - 1 : Above(j) /\ Over(j, j - 1) /\ Over(j, j + 1)}
           lows == {j \in 0 .. b - a - 1 : ~Above(j) /\ \A k \in peaks : j < k}
<1>1. BlockPoints(stream, a, b) =
          {Point(a + j, 1) : j \in First(lows)}
          \cup {Point(a + j, 2 + block[j + 1]) : j \in First(peaks)}
          \cup {Point(b, 0)}
  BY Zenon DEF BlockPoints
<1>2. peaks \subseteq 0 .. b - a - 1
  OBVIOUS
<1> HIDE DEF peaks, lows, block
<1>3. \A j, k \in First(peaks) : j = k /\ j \in 0 .. b - a - 1
  BY <1>2 DEF First
<1>4. ASSUME NEW p \in Peaks(BlockPoints(stream, a, b))
      PROVE  \E j \in First(peaks) : p = Point(a + j, 2 + block[j + 1])
  BY <1>1 DEF Peaks, IsPeak, Point
<1> QED BY <1>3, <1>4 DEF Point

\* The peaks of a smoothed stream have times of their own.
LEMMA PeaksOrdered ==
    ASSUME NEW stream, Len(stream) \in Nat
    PROVE  Ordered(SimplifyStream(stream, IsolateBlocks(stream)))
<1> DEFINE blocks == IsolateBlocks(stream)
           P == Peaks(SimplifyStream(stream, blocks))
           peak(e) == Peaks(BlockPoints(stream, e[1], e[2]))
<1>1. \A e \in blocks : e[1] \in 0 .. Len(stream) - 1 /\ e[2] \in 1 .. Len(stream)
  BY DEF IsolateBlocks
<1>2. \A p \in P : \E e \in blocks : p \in peak(e)
  BY DEF Peaks, SimplifyStream
<1> HIDE DEF blocks, P, peak
<1>3. \A e \in blocks :
         /\ \A p \in peak(e) : p.time \in Int /\ e[1] <= p.time /\ p.time < e[2]
         /\ \A p, q \in peak(e) : p = q
  BY <1>1, OnePeakEach DEF peak
<1>4. \A p \in P : p.time \in 0 .. Len(stream)
  BY <1>1, <1>2, <1>3
<1>5. ASSUME NEW p \in P, NEW q \in P, p.time = q.time PROVE p = q
  <2>1. PICK e \in blocks : p \in peak(e)
    BY <1>2
  <2>2. PICK f \in blocks : q \in peak(f)
    BY <1>2
  <2>3. e = f
    BY <1>3, <1>5, <2>1, <2>2, BlocksApart DEF blocks
  <2> QED BY <1>3, <2>1, <2>2, <2>3
<1>6. IsFiniteSet(P)
  <2> DEFINE time == [p \in P |-> p.time]
             times == 0 .. Len(stream)
  <2>1. IsFiniteSet(times)
    BY FS_Interval
  <2>2. time \in Injection(P, times)
    BY <1>4, <1>5 DEF Injection, IsInjective
  <2> HIDE DEF time, times
  <2> QED BY <2>1, <2>2, FS_Injection
<1> QED BY <1>4, <1>5, <1>6 DEF Ordered, P, blocks

\* So have those of every stream of readings, whatever lies behind it.
LEMMA PointsOrdered ==
    ASSUME NEW S, NEW raw \in Seq(S), NEW memory
    PROVE  Ordered(Points(raw, memory))
<1> DEFINE smoothed == SmoothStream(raw, memory)
<1>1. Len(smoothed) \in Nat
  <2>1. /\ Len(raw) \in Nat /\ DOMAIN raw = 1 .. Len(raw)
    OBVIOUS
  <2> DEFINE floored == Floored(raw, memory)
             Weighted(i) == SumOf([j \in 1 .. FrameSize |->
                                 Weights[j] * At(floored, i + j - 2, memory.floored)])
  <2>2. smoothed = [i \in 1 .. Len(raw) |-> Weighted(i)]
    BY <2>1, Zenon DEF SmoothStream
  <2> HIDE DEF Weighted, smoothed
  <2> QED BY <2>1, <2>2
<1>2. Points(raw, memory) = SimplifyStream(smoothed, IsolateBlocks(smoothed))
  BY Zenon DEF Points
<1> HIDE DEF smoothed
<1> QED BY <1>1, <1>2, PeaksOrdered

-----------------------------------------------------------------------------

\* The library states this of the relation that < makes of an operator.
LEMMA LessThanWellFounded ==
   IsWellFoundedOn({ss \in Nat \X Nat : ss[1] < ss[2]}, Nat)
<1>1. OpToRel(<, Nat) = {ss \in Nat \X Nat : ss[1] < ss[2]}
  BY Zenon DEF OpToRel
<1> QED BY <1>1, NatLessThanWellFounded, Zenon

\* A property that holds of zero and is inherited holds of every number.
LEMMA Ascends ==
    ASSUME NEW T \in SUBSET Nat, 0 \in T, \A n \in T : n + 1 \in T
    PROVE  T = Nat
<1> DEFINE rest == Nat \ T
           R == {ss \in Nat \X Nat : ss[1] < ss[2]}
<1>1. SUFFICES ASSUME rest # {} PROVE FALSE
  OBVIOUS
<1>2. rest \subseteq Nat /\ IsWellFoundedOn(R, Nat)
  BY LessThanWellFounded
<1> HIDE DEF rest, R
<1>3. PICK n \in rest : \A m \in rest : ~ (<<m, n>> \in R)
  BY <1>1, <1>2, WFMin
<1>4. n \in Nat /\ n # 0 /\ n - 1 \in Nat
  BY <1>2 DEF rest
<1>5. n - 1 \in rest
  BY <1>4 DEF rest
<1>6. <<n - 1, n>> \in R
  BY <1>4 DEF R
<1> QED BY <1>3, <1>5, <1>6, Zenon

\* What SumOf chooses: the function f adds up the first numbers of v, for up to
\* N of them.
Sums(v, N, f) == f = [n \in 0 .. N |-> IF n = 0 THEN 0 ELSE f[n - 1] + v[n]]

\* There is such a function, so that SumOf means what its recursion says.
LEMMA SumsExist ==
    ASSUME NEW v, NEW N \in Nat PROVE \E f : Sums(v, N, f)
<1> DEFINE T == {M \in Nat : \E f : Sums(v, M, f)}
<1>1. 0 \in T
  <2>1. Sums(v, 0, [n \in 0 .. 0 |-> 0])
    BY DEF Sums
  <2> QED BY <2>1
<1>2. ASSUME NEW M \in T PROVE M + 1 \in T
  <2>1. PICK f : Sums(v, M, f)
    OBVIOUS
  <2> DEFINE g == [n \in 0 .. M + 1 |-> IF n = M + 1 THEN f[M] + v[M + 1] ELSE f[n]]
  <2>2. \A n \in 0 .. M + 1 :
           g[n] = IF n = 0 THEN 0 ELSE g[n - 1] + v[n]
    <3>1. \A n \in 0 .. M : f[n] = IF n = 0 THEN 0 ELSE f[n - 1] + v[n]
      BY <2>1, SMT DEF Sums
    <3> QED BY <3>1
  <2>3. Sums(v, M + 1, g)
    <3>1. DOMAIN g = 0 .. M + 1 /\ g = [n \in 0 .. M + 1 |-> g[n]]
      OBVIOUS
    <3> HIDE DEF g
    <3> QED BY <2>2, <3>1 DEF Sums
  <2> QED BY <2>3
<1> HIDE DEF T
<1>3. T = Nat
  <2>1. T \in SUBSET Nat
    BY DEF T
  <2> QED BY <1>1, <1>2, <2>1, Ascends
<1> QED BY <1>3 DEF T

\* A sum of natural numbers is one.
LEMMA SumsTyped ==
    ASSUME NEW v \in Seq(Nat)
    PROVE  SumOf(v) \in Nat
<1> DEFINE N == Len(v)
           f == CHOOSE f : Sums(v, N, f)
<1>1. N \in Nat
  OBVIOUS
<1>2. SumOf(v) = f[N]
  BY Zenon DEF SumOf, Sums
<1>3. Sums(v, N, f)
  <2> HIDE DEF N
  <2> QED BY <1>1, SumsExist, Zenon
<1> HIDE DEF f
<1> DEFINE T == {n \in Nat : n <= N => f[n] \in Nat}
<1>4. \A n \in 0 .. N : f[n] = IF n = 0 THEN 0 ELSE f[n - 1] + v[n]
  BY <1>3 DEF Sums
<1>5. \A n \in 1 .. N : v[n] \in Nat
  OBVIOUS
<1> HIDE DEF N
<1>6. 0 \in T
  BY <1>1, <1>4
<1>7. ASSUME NEW n \in T PROVE n + 1 \in T
  <2> SUFFICES ASSUME n + 1 <= N PROVE f[n + 1] \in Nat
    OBVIOUS
  <2> QED BY <1>1, <1>4, <1>5
<1> HIDE DEF T
<1>8. T = Nat
  <2>1. T \in SUBSET Nat
    BY DEF T
  <2> QED BY <1>6, <1>7, <2>1, Ascends
<1> QED BY <1>1, <1>2, <1>8 DEF T

-----------------------------------------------------------------------------

\* A sensor keeps its type, whether it answers from its cache or not.
LEMMA SensorTyped ==
    ASSUME NEW sensor \in [mValue : Readings10Bit, iValue : 0 .. 100],
           NEW reading \in Readings10Bit
    PROVE  GetSensorValue(sensor, reading) \in [mValue : Readings10Bit, iValue : 0 .. 100]
BY MappedValues DEF GetSensorValue

\* Whatever lies behind the points of two streams, the three counts are numbers.
LEMMA CountsTyped ==
    ASSUME NEW outer, NEW inner, Ordered(outer), Ordered(inner),
           NEW behind1, NEW behind2, behind1.time \in Int, behind2.time \in Int
    PROVE  AnalyzeStreams(outer, inner, behind1, behind2) \in Triples
<1> DEFINE pairs == PairPeaks(outer, inner, behind1, behind2)
           last == LastSearch(outer, inner)
           before == {n \in DOMAIN pairs : pairs[n][1] < pairs[n][2]}
           after == {n \in DOMAIN pairs : pairs[n][1] > pairs[n][2]}
           same == {n \in DOMAIN pairs : pairs[n][1] = pairs[n][2]}
           m == Cardinality(Peaks(outer))
           n == Cardinality(Peaks(inner))
<1>1. AnalyzeStreams(outer, inner, behind1, behind2) =
        IF outer = {} \/ inner = {} THEN PassageTriple(0, 0, 0)
        ELSE PassageTriple(Cardinality(before), Cardinality(after),
                      Cardinality(same) + Cardinality(Unpaired(outer, last))
                                        + Cardinality(Unpaired(inner, last)))
  BY Zenon DEF AnalyzeStreams
<1>2. /\ IsFiniteSet(DOMAIN pairs)
      /\ \A k \in DOMAIN pairs : pairs[k][1] \in Int /\ pairs[k][2] \in Int
  BY PairsFound
<1>3. /\ Cardinality(before) \in Nat /\ Cardinality(after) \in Nat
      /\ Cardinality(same) \in Nat
  <2> HIDE DEF pairs
  <2> QED BY <1>2, PairsCounted
<1>4. m \in Nat /\ n \in Nat /\ last = IF m < n THEN m + 1 ELSE n + 1
  BY NumbersExact DEF LastSearch
<1>5. Cardinality(Unpaired(outer, last)) \in Nat /\ Cardinality(Unpaired(inner, last)) \in Nat
  <2>1. last \in 1 .. m + 1 /\ last \in 1 .. n + 1
    BY <1>4
  <2> HIDE DEF last
  <2>2. /\ Cardinality(Unpaired(outer, last)) = m - last + 1
        /\ Cardinality(Unpaired(inner, last)) = n - last + 1
    BY <2>1, UnpairedCount
  <2> QED BY <1>4, <2>1, <2>2
<1> HIDE DEF pairs, before, after, same, last
<1> QED BY <1>1, <1>3, <1>5 DEF Triples, PassageTriple

\* What the analysis of two streams counts is a triple of numbers.
LEMMA AnalysisTyped ==
    ASSUME NEW streams \in [Sensors -> Seq(0 .. 100)], NEW memory \in Memories
    PROVE  Analyze(streams, memory) \in Triples
<1>1. \A s \in Sensors : Ordered(Points(streams[s], memory[s]))
  BY PointsOrdered
<1>2. 1 \in Sensors /\ 2 \in Sensors
  BY DEF Sensors
<1>3. memory[1].point.time \in Int /\ memory[2].point.time \in Int
  BY SensorAssumption
<1> QED BY <1>1, <1>2, <1>3, CountsTyped DEF Analyze

\* A function on 1 to N with numbers as its values is a sequence of numbers.
LEMMA NumbersListed ==
    ASSUME NEW f, NEW N \in Nat, DOMAIN f = 1 .. N, f = [i \in DOMAIN f |-> f[i]],
           \A i \in 1 .. N : f[i] \in Nat
    PROVE  f \in Seq(Nat)
  OBVIOUS

\* The totals of such triples are one.
LEMMA TotalsTyped ==
    ASSUME NEW found \in Seq(Triples)
    PROVE  Totals(found) \in Triples
<1>1. /\ [i \in DOMAIN found |-> found[i].ingoing] \in Seq(Nat)
      /\ [i \in DOMAIN found |-> found[i].outgoing] \in Seq(Nat)
      /\ [i \in DOMAIN found |-> found[i].unknown] \in Seq(Nat)
  <2>1. Len(found) \in Nat /\ DOMAIN found = 1 .. Len(found)
    OBVIOUS
  <2>2. \A i \in 1 .. Len(found) :
          found[i].ingoing \in Nat /\ found[i].outgoing \in Nat /\ found[i].unknown \in Nat
    <3>1. \A i \in DOMAIN found : found[i] \in Triples
      OBVIOUS
    <3>2. \A t \in Triples : t.ingoing \in Nat /\ t.outgoing \in Nat /\ t.unknown \in Nat
      BY DEF Triples
    <3> QED BY <2>1, <3>1, <3>2
  <2> HIDE DEF Triples
  <2>3. [i \in DOMAIN found |-> found[i].ingoing] \in Seq(Nat)
    BY <2>1, <2>2, NumbersListed
  <2>4. [i \in DOMAIN found |-> found[i].outgoing] \in Seq(Nat)
    BY <2>1, <2>2, NumbersListed
  <2>5. [i \in DOMAIN found |-> found[i].unknown] \in Seq(Nat)
    BY <2>1, <2>2, NumbersListed
  <2> QED BY <2>3, <2>4, <2>5
<1>2. /\ SumOf([i \in DOMAIN found |-> found[i].ingoing]) \in Nat
      /\ SumOf([i \in DOMAIN found |-> found[i].outgoing]) \in Nat
      /\ SumOf([i \in DOMAIN found |-> found[i].unknown]) \in Nat
  BY <1>1, SumsTyped
<1> QED BY <1>2 DEF Totals, Triples, PassageTriple

\* The rest of the type invariant, whose first conjunct is that of BlockAnalyzer.
DataOK ==
    /\ sensors \in [Sensors -> [mValue : Readings10Bit, iValue : 0 .. 100]]
    /\ values \in [Sensors -> Seq(0 .. 100)]
    /\ \A s \in Sensors : Len(values[s]) = Cardinality(rawStreams)
    /\ triples \in Seq(Triples) /\ Len(triples) = Len(blockages)
    /\ passages \in Triples

\* When the analyzer starts new streams, so does the session with its data, and
\* a triple is added for exactly the streams that are analyzed.
LEMMA Restarted ==
    ASSUME TypeOK, DataOK, sessionRunning,
           NEW streams \in [Sensors -> Seq(0 .. 100)], NEW raw, IsFiniteSet(raw),
           \A s \in Sensors : Len(streams[s]) = Cardinality(raw),
           RestartStreams(streams), InitializeStreams(raw, blockages)
    PROVE  /\ values' \in [Sensors -> Seq(0 .. 100)]
           /\ \A s \in Sensors : Len(values'[s]) = Cardinality(rawStreams')
           /\ triples' \in Seq(Triples) /\ Len(triples') = Len(blockages')
<1>1. firstRun = FALSE
  BY Zenon DEF TypeOK, FlagsOK
<1>2. values' = NoReadings /\ rawStreams' = {} /\ Cardinality({}) = 0
  BY FS_EmptySet DEF RestartStreams, InitializeStreams
<1>3. blockages' = IF raw = {} THEN blockages ELSE Append(blockages, raw)
  BY <1>1 DEF InitializeStreams, Analyzed
<1>4. streams = NoReadings <=> raw = {}
  <2>1. raw = {} <=> Cardinality(raw) = 0
    BY FS_EmptySet
  <2>2. 1 \in Sensors
    BY DEF Sensors
  <2>3. \A s \in Sensors : Len(streams[s]) = 0 <=> streams[s] = <<>>
    OBVIOUS
  <2>4. streams = NoReadings <=> \A s \in Sensors : streams[s] = <<>>
    BY DEF NoReadings
  <2> QED BY <2>1, <2>2, <2>3, <2>4
<1>5. /\ raw = {} => triples' = triples
      /\ raw # {} => \E t \in Triples : triples' = Append(triples, t)
  BY <1>1, <1>4, AnalysisTyped DEF RestartStreams
<1>6. blockages \in Seq(SUBSET (1 .. readings)) /\ triples \in Seq(Triples)
      /\ Len(triples) = Len(blockages)
  BY DEF TypeOK, StreamsOK, DataOK
<1>7. triples' \in Seq(Triples) /\ Len(triples') = Len(blockages')
  <2>1. CASE raw = {}
    BY <1>3, <1>5, <1>6, <2>1
  <2>2. CASE raw # {}
    <3>1. PICK t \in Triples : triples' = Append(triples, t)
      BY <1>5, <2>2
    <3>2. triples' \in Seq(Triples) /\ Len(triples') = Len(triples) + 1
      BY <1>6, <3>1
    <3>3. Len(blockages') = Len(blockages) + 1
      <4> DEFINE all == {raw} \cup SUBSET (1 .. readings)
      <4>1. blockages \in Seq(all) /\ raw \in all
        BY <1>6
      <4>2. blockages' = Append(blockages, raw)
        BY <1>3, <2>2
      <4> HIDE DEF all
      <4> QED BY <4>1, <4>2
    <3> QED BY <1>6, <3>2, <3>3
  <2> QED BY <2>1, <2>2
<1> QED BY <1>2, <1>7, EmptyStreams

\* Every step keeps the data in step with what BlockAnalyzer keeps of them.
LEMMA DataPreserved ==
    ASSUME TypeOK, DataOK, [MonitorNext]_monitorVars
    PROVE  DataOK'
<1>0. IsFiniteSet(rawStreams) /\ Cardinality({}) = 0
  <2>1. rawStreams \in SUBSET (1 .. readings) /\ readings \in Nat
    BY DEF TypeOK, StreamsOK
  <2>2. IsFiniteSet(1 .. readings)
    BY <2>1, FS_Interval
  <2> QED BY <2>1, <2>2, FS_Subset, FS_EmptySet
<1>1. CASE BeginMonitoring
  <2>1. /\ sensors' = sensors /\ passages' = passages
        /\ values' = NoReadings /\ triples' = <<>>
        /\ rawStreams' = {} /\ blockages' = <<>>
    BY <1>1 DEF BeginMonitoring, BeginSession, Initialize
  <2> QED BY <1>0, <2>1, EmptyStreams DEF DataOK
<1>2. CASE FinishMonitoring
  <2>1. sessionRunning /\ InitializeStreams(rawStreams, blockages)
    BY <1>2 DEF FinishMonitoring, FinishSession
  <2>2. sensors' = sensors /\ passages' = Totals(triples') /\ RestartStreams(values)
    BY <1>2 DEF FinishMonitoring
  <2>3. /\ values' \in [Sensors -> Seq(0 .. 100)]
        /\ \A s \in Sensors : Len(values'[s]) = Cardinality(rawStreams')
        /\ triples' \in Seq(Triples) /\ Len(triples') = Len(blockages')
    BY <1>0, <2>1, <2>2, Restarted DEF DataOK
  <2>4. passages' \in Triples
    BY <2>2, <2>3, TotalsTyped
  <2> QED BY <2>2, <2>3, <2>4 DEF DataOK
<1>3. ASSUME NEW reading \in Scenes, Sample(reading) PROVE DataOK'
  <2> DEFINE read == [s \in Sensors |-> GetSensorValue(sensors[s], reading[s])]
             streams == [s \in Sensors |-> Append(values[s], read[s].iValue)]
             dead == \A s \in Sensors : read[s].iValue = 0
             raw == rawStreams \cup {readings + 1}
  <2>1. \A s \in Sensors : reading[s] \in Readings10Bit
    BY SensorAssumption DEF Sensors
  <2>2. read \in [Sensors -> [mValue : Readings10Bit, iValue : 0 .. 100]]
    BY <2>1, SensorTyped DEF DataOK
  <2>3. /\ sensors' = read /\ passages' = passages /\ Update(dead)
        /\ IF Silent(Zeroes(dead)) THEN RestartStreams(streams)
           ELSE values' = streams /\ UNCHANGED triples
    BY <1>3, Zenon DEF Sample
  <2> HIDE DEF read, dead
  <2>4. /\ streams \in [Sensors -> Seq(0 .. 100)]
        /\ \A s \in Sensors : Len(streams[s]) = Len(values[s]) + 1
    BY <2>2 DEF DataOK
  <2> HIDE DEF streams
  <2>5. IsFiniteSet(raw) /\ Cardinality(raw) = Cardinality(rawStreams) + 1
    <3>1. readings + 1 \notin rawStreams
      BY DEF TypeOK, StreamsOK
    <3> QED BY <1>0, <3>1, FS_AddElement
  <2>6. \A s \in Sensors : Len(streams[s]) = Cardinality(raw)
    BY <2>4, <2>5 DEF DataOK
  <2>7. /\ sessionRunning
        /\ IF Silent(Zeroes(dead)) THEN InitializeStreams(raw, blockages)
           ELSE rawStreams' = raw /\ blockages' = blockages
    BY <2>3, Zenon DEF Update
  <2>8. /\ values' \in [Sensors -> Seq(0 .. 100)]
        /\ \A s \in Sensors : Len(values'[s]) = Cardinality(rawStreams')
        /\ triples' \in Seq(Triples) /\ Len(triples') = Len(blockages')
    <3> HIDE DEF raw
    <3>1. CASE Silent(Zeroes(dead))
      BY <2>3, <2>4, <2>5, <2>6, <2>7, <3>1, Restarted
    <3>2. CASE ~Silent(Zeroes(dead))
      BY <2>3, <2>4, <2>6, <2>7, <3>2 DEF DataOK
    <3> QED BY <3>1, <3>2
  <2> QED BY <2>2, <2>3, <2>8 DEF DataOK
<1>4. CASE UNCHANGED monitorVars
  BY <1>4 DEF monitorVars, vars, analyzer, data, DataOK
<1> QED BY <1>1, <1>2, <1>3, <1>4 DEF MonitorNext

\* Each stream has a value for each reading, each stream analyzed has its
\* triple, and what is reported are three numbers (blockanalyzer.cpp:40-116).
THEOREM MonitorTypeCorrect == MonitorSpec => []MonitorTypeOK
<1>1. MonitorInit => DataOK
  <2>1. 0 \in Nat /\ Cardinality({}) = 0
    BY FS_EmptySet
  <2>2. \A s \in Sensors : BlankSensor \in [mValue : Readings10Bit, iValue : 0 .. 100]
    BY DEF BlankSensor, Readings10Bit
  <2> QED BY <2>1, <2>2, EmptyStreams
        DEF MonitorInit, Init, DataOK, Triples, PassageTriple
<1>2. TypeOK /\ DataOK /\ [MonitorNext]_monitorVars => DataOK'
  BY DataPreserved
<1>3. TypeOK /\ DataOK => MonitorTypeOK
  BY Zenon DEF DataOK, MonitorTypeOK
<1> QED BY <1>1, <1>2, <1>3, ImplementsSession, TypeCorrect, PTL DEF MonitorSpec

\* Each peak of one sensor counts for one person, together with a peak of the
\* other or alone, and at most one person is made up, for every content of the
\* streams and of what lies behind them (blockanalyzer.cpp:231-304).
THEOREM PeaksCounted == MonitorSpec => []PeaksCountedOnce
<1>1. MonitorTypeOK => PeaksCountedOnce
  <2> SUFFICES ASSUME MonitorTypeOK, NEW memory \in Memories
               PROVE  LET points == [s \in Sensors |-> Points(values[s], memory[s])]
                          most == MaxOf(Cardinality(Peaks(points[1])),
                                        Cardinality(Peaks(points[2])))
                          people == PeopleIn(AnalyzeStreams(points[1], points[2],
                                       memory[1].point, memory[2].point))
                      IN  IF \E s \in Sensors : points[s] = {} THEN people = 0
                          ELSE people \in {most, most + 1}
    BY Zenon DEF PeaksCountedOnce
  <2> DEFINE points == [s \in Sensors |-> Points(values[s], memory[s])]
             people == PeopleIn(AnalyzeStreams(points[1], points[2],
                                       memory[1].point, memory[2].point))
  <2>1. \A s \in Sensors : Ordered(points[s])
    BY PointsOrdered DEF MonitorTypeOK
  <2>2. Sensors = {1, 2}
    BY DEF Sensors
  <2>3. memory[1].point.time \in Int /\ memory[2].point.time \in Int
    BY SensorAssumption
  <2> HIDE DEF points
  <2>4. CASE \E s \in Sensors : points[s] = {}
    <3>1. points[1] = {} \/ points[2] = {}
      BY <2>2, <2>4
    <3>2. people = 0
      BY <3>1 DEF AnalyzeStreams, PassageTriple, PeopleIn
    <3> QED BY <2>4, <3>2, Zenon DEF points
  <2>5. CASE ~ \E s \in Sensors : points[s] = {}
    <3>1. points[1] # {} /\ points[2] # {} /\ Ordered(points[1]) /\ Ordered(points[2])
      BY <2>1, <2>2, <2>5
    <3> DEFINE most == MaxOf(Cardinality(Peaks(points[1])), Cardinality(Peaks(points[2])))
    <3>2. people \in {most, most + 1}
      BY <2>3, <3>1, PeopleCounted
    <3> QED BY <2>5, <3>2, Zenon DEF points
  <2> QED BY <2>4, <2>5
<1> QED BY <1>1, MonitorTypeCorrect, PTL

-----------------------------------------------------------------------------

\* The frame has a middle weight, and as many on each side of it.
LEMMA FrameFacts ==
    /\ FrameSize \in Nat /\ Extension \in Nat \ {0} /\ FrameSize = 2 * Extension + 1
    /\ Weights \in Seq(Nat \ {0}) /\ Len(Weights) = FrameSize
    /\ \A j \in 1 .. FrameSize : Weights[j] \in Nat \ {0}
    /\ FloorCutOff \in Nat
<1> DEFINE F == Len(Weights)
<1>1. Weights \in Seq(Nat \ {0}) /\ F \in Nat /\ F % 2 = 1 /\ F > 1 /\ FloorCutOff \in Nat
  BY WeightAssumption DEF FrameSize
<1>2. \A j \in 1 .. F : Weights[j] \in Nat \ {0}
  BY <1>1
<1> HIDE DEF F
<1>3. F \div 2 \in Nat \ {0} /\ F = 2 * (F \div 2) + 1
  BY <1>1
<1> QED BY <1>1, <1>2, <1>3 DEF FrameSize, Extension, F

\* What SumOf chooses obeys its recursion.
LEMMA SumsUnfold ==
    ASSUME NEW v, Len(v) \in Nat
    PROVE  \E f : /\ SumOf(v) = f[Len(v)] /\ f[0] = 0
                  /\ \A n \in 1 .. Len(v) : f[n] = f[n - 1] + v[n]
<1> DEFINE N == Len(v)
           f == CHOOSE f : Sums(v, N, f)
<1>1. SumOf(v) = f[N]
  BY Zenon DEF SumOf, Sums
<1>2. Sums(v, N, f)
  <2> HIDE DEF N
  <2> QED BY SumsExist, Zenon DEF N
<1> HIDE DEF f
<1>3. \A n \in 0 .. N : f[n] = IF n = 0 THEN 0 ELSE f[n - 1] + v[n]
  <2> HIDE DEF N
  <2> QED BY <1>2 DEF Sums
<1>4. f[0] = 0 /\ \A n \in 1 .. N : f[n] = f[n - 1] + v[n]
  <2> HIDE DEF N
  <2> QED BY <1>3 DEF N
<1> QED BY <1>1, <1>4

\* A sum with one term is that term, and one with none is zero.
LEMMA SumsSingle ==
    ASSUME NEW v, Len(v) \in Nat, NEW k \in Nat \ {0},
           k <= Len(v) => v[k] \in Int,
           \A n \in 1 .. Len(v) : n # k => v[n] = 0
    PROVE  SumOf(v) = IF k <= Len(v) THEN v[k] ELSE 0
<1> DEFINE N == Len(v)
<1>1. PICK f : /\ SumOf(v) = f[N] /\ f[0] = 0
               /\ \A n \in 1 .. N : f[n] = f[n - 1] + v[n]
  BY SumsUnfold
<1> DEFINE T == {n \in Nat : n <= N => f[n] = IF k <= n THEN v[k] ELSE 0}
<1> HIDE DEF N
<1>2. N \in Nat
  BY DEF N
<1>3. 0 \in T
  BY <1>1
<1>4. ASSUME NEW n \in T PROVE n + 1 \in T
  <2> SUFFICES ASSUME n + 1 <= N PROVE f[n + 1] = IF k <= n + 1 THEN v[k] ELSE 0
    OBVIOUS
  <2>1. f[n + 1] = f[n] + v[n + 1] /\ n + 1 \in 1 .. N
    BY <1>1, <1>2
  <2>2. n + 1 # k => v[n + 1] = 0
    BY <2>1 DEF N
  <2>3. f[n] = IF k <= n THEN v[k] ELSE 0
    BY <1>2
  <2> QED BY <1>2, <2>1, <2>2, <2>3 DEF N
<1> HIDE DEF T
<1>5. T = Nat
  <2>1. T \in SUBSET Nat
    BY DEF T
  <2> QED BY <1>3, <1>4, <2>1, Ascends
<1> QED BY <1>1, <1>2, <1>5 DEF T, N

\* No sum exceeds what it would be if all terms were the greatest.
LEMMA SumsBounded ==
    ASSUME NEW v, Len(v) \in Nat, NEW M \in Int,
           \A n \in 1 .. Len(v) : v[n] \in Int /\ v[n] <= M
    PROVE  SumOf(v) \in Int /\ SumOf(v) <= Len(v) * M
<1> DEFINE N == Len(v)
<1>1. PICK f : /\ SumOf(v) = f[N] /\ f[0] = 0
               /\ \A n \in 1 .. N : f[n] = f[n - 1] + v[n]
  BY SumsUnfold
<1> DEFINE T == {n \in Nat : n <= N => f[n] \in Int /\ f[n] <= n * M}
<1> HIDE DEF N
<1>2. N \in Nat
  BY DEF N
<1>3. 0 \in T
  BY <1>1
<1>4. ASSUME NEW n \in T PROVE n + 1 \in T
  <2> SUFFICES ASSUME n + 1 <= N PROVE f[n + 1] \in Int /\ f[n + 1] <= (n + 1) * M
    OBVIOUS
  <2>1. f[n + 1] = f[n] + v[n + 1] /\ n + 1 \in 1 .. N
    BY <1>1, <1>2
  <2>2. v[n + 1] \in Int /\ v[n + 1] <= M
    BY <2>1 DEF N
  <2>3. f[n] \in Int /\ f[n] <= n * M
    BY <1>2
  <2>4. (n + 1) * M = n * M + M /\ n * M \in Int
    OBVIOUS
  <2> QED BY <2>1, <2>2, <2>3, <2>4
<1> HIDE DEF T
<1>5. T = Nat
  <2>1. T \in SUBSET Nat
    BY DEF T
  <2> QED BY <1>3, <1>4, <2>1, Ascends
<1> QED BY <1>1, <1>2, <1>5 DEF T, N

\* Sets that a function maps onto each other have equally many members.
LEMMA SameCount ==
    ASSUME NEW S, NEW T, NEW f \in Injection(S, T), IsFiniteSet(T),
           \A t \in T : \E s \in S : f[s] = t
    PROVE  IsFiniteSet(S) /\ Cardinality(S) = Cardinality(T)
<1>1. f \in Surjection(S, T)
  BY DEF Injection, Surjection
<1> QED BY <1>1, FS_Injection

\* The members of a set of numbers are told apart by how many there are up to
\* each.
LEMMA RanksApart ==
    ASSUME NEW S \in SUBSET Int, IsFiniteSet(S), NEW i \in S, NEW j \in S,
           Cardinality({k \in S : k <= i}) = Cardinality({k \in S : k <= j})
    PROVE  i = j
<1> DEFINE upto(x) == {k \in S : k <= x}
<1>1. ASSUME NEW x \in S, NEW y \in S, x < y,
             Cardinality(upto(x)) = Cardinality(upto(y))
      PROVE  FALSE
  <2>0. \A k \in S : k \in Int
    OBVIOUS
  <2>1. upto(x) \in SUBSET upto(y) /\ upto(y) \in SUBSET S
    <3>1. \A k \in S : k <= x => k <= y
      BY <1>1, <2>0
    <3> QED BY <3>1, Zenon
  <2>2. y \in upto(y) /\ y \notin upto(x)
    BY <1>1
  <2> HIDE DEF upto
  <2>3. IsFiniteSet(upto(y))
    BY <2>1, FS_Subset
  <2>4. upto(x) = upto(y)
    BY <1>1, <2>1, <2>3, FS_Subset
  <2> QED BY <2>2, <2>4
<1> HIDE DEF upto
<1>2. ~(i < j) /\ ~(j < i)
  BY <1>1 DEF upto
<1> QED BY <1>2

\* Two sequences in a row, element by element.
LEMMA RowAt ==
    ASSUME NEW S, NEW s \in Seq(S), NEW t \in Seq(S)
    PROVE  /\ s \o t \in Seq(S) /\ Len(s \o t) = Len(s) + Len(t)
           /\ \A i \in 1 .. Len(s) + Len(t) :
                 (s \o t)[i] = IF i <= Len(s) THEN s[i] ELSE t[i - Len(s)]
  BY ConcatProperties

\* As long as no reading of the stream is dropped, flooredRaw has each at its
\* place, behind zeros for the readings that are skipped.
LEMMA FlooredExact ==
    ASSUME NEW raw, Len(raw) \in Nat, NEW memory,
           \A i \in Extension .. Len(raw) - 1 :
              \/ At(raw, i, memory.raw) < FloorCutOff
              \/ /\ At(raw, i - 1, memory.raw) < FloorCutOff
                 /\ At(raw, i + 1, memory.raw) < FloorCutOff
    PROVE  \A p \in 0 .. Len(raw) + Extension - 1 :
              At(Floored(raw, memory), p, memory.floored) =
                 IF p < 2 * Extension \/ raw[p - Extension + 1] < FloorCutOff
                 THEN 0 ELSE raw[p - Extension + 1]
<1> DEFINE E == Extension
           N == Len(raw)
           Reading(i) == At(raw, i, memory.raw)
           Low(i) == Reading(i) < FloorCutOff
           kept == {i \in E .. E + N - 1 : Low(i) \/ (Low(i - 1) /\ Low(i + 1))}
           Nth(n) == CHOOSE i \in kept : Cardinality({j \in kept : j <= i}) = n
           Value(i) == IF Low(i) THEN 0 ELSE Reading(i)
           zeros == [k \in 1 .. 2 * E |-> 0]
           rest == [n \in 1 .. Cardinality(kept) |-> Value(Nth(n))]
           floored == zeros \o rest
<1>1. Floored(raw, memory) = floored
  BY Zenon DEF Floored
<1>2. E \in Nat \ {0} /\ N \in Nat
  BY FrameFacts
<1>3. \A i \in E .. N - 1 : i \in kept
  BY <1>2
<1>4. kept \subseteq E .. E + N - 1
  OBVIOUS
<1>5. \A i \in 0 .. N - 1 : Reading(i) = raw[i + 1]
  BY DEF At
<1> HIDE DEF kept, Nth
<1>6. IsFiniteSet(kept) /\ kept \in SUBSET Int /\ Cardinality(kept) \in Nat
  <2>1. IsFiniteSet(E .. E + N - 1)
    BY <1>2, FS_Interval
  <2>2. IsFiniteSet(kept)
    BY <1>4, <2>1, FS_Subset
  <2> QED BY <1>2, <1>4, <2>2, FS_CardinalityType
<1>7. ASSUME NEW i \in E .. N - 1
      PROVE  /\ Cardinality({j \in kept : j <= i}) = i - E + 1
             /\ i - E + 1 <= Cardinality(kept)
  <2>1. {j \in kept : j <= i} = E .. i
    <3>1. \A j \in kept : j <= i <=> j \in E .. i
      BY <1>2, <1>4
    <3>2. \A j \in E .. i : j \in kept
      BY <1>2, <1>3
    <3> HIDE DEF E
    <3> QED BY <3>1, <3>2
  <2>2. i \in Int /\ E \in Int /\ E <= i /\ (E .. i) \in SUBSET kept
    BY <1>2, <1>3
  <2> HIDE DEF E
  <2>3. Cardinality(E .. i) = i - E + 1
    BY <2>2, FS_Interval
  <2>4. Cardinality(E .. i) <= Cardinality(kept)
    BY <1>6, <2>2, FS_Subset
  <2> QED BY <2>1, <2>3, <2>4
<1>8. ASSUME NEW i \in E .. N - 1 PROVE Nth(i - E + 1) = i
  <2>1. i \in kept /\ Cardinality({j \in kept : j <= i}) = i - E + 1
    BY <1>3, <1>7
  <2>2. \A j \in kept : Cardinality({k \in kept : k <= j}) = i - E + 1 => j = i
    BY <1>6, <2>1, RanksApart
  <2> QED BY <2>1, <2>2, Zenon DEF Nth
<1> DEFINE all == {0} \cup {Value(Nth(n)) : n \in 1 .. Cardinality(kept)}
<1>9. /\ zeros \in Seq(all) /\ rest \in Seq(all)
      /\ Len(zeros) = 2 * E /\ Len(rest) = Cardinality(kept)
  <2>1. /\ \A k \in 1 .. 2 * E : zeros[k] \in all
        /\ \A n \in 1 .. Cardinality(kept) : rest[n] \in all
    OBVIOUS
  <2>2. 2 * E \in Nat
    BY <1>2
  <2> HIDE DEF all, E, Value
  <2> QED BY <1>6, <2>1, <2>2
<1> HIDE DEF all
<1>10. /\ Len(floored) = 2 * E + Cardinality(kept)
       /\ \A i \in 1 .. 2 * E + Cardinality(kept) :
             floored[i] = IF i <= 2 * E THEN 0 ELSE Value(Nth(i - 2 * E))
  <2> HIDE DEF zeros, rest, E, Value
  <2>1. /\ Len(floored) = 2 * E + Cardinality(kept)
        /\ \A i \in 1 .. 2 * E + Cardinality(kept) :
             floored[i] = IF i <= 2 * E THEN zeros[i] ELSE rest[i - 2 * E]
    <3> HIDE DEF all
    <3>1. /\ Len(floored) = Len(zeros) + Len(rest)
          /\ \A i \in 1 .. Len(zeros) + Len(rest) :
                floored[i] = IF i <= Len(zeros) THEN zeros[i] ELSE rest[i - Len(zeros)]
      BY <1>9, RowAt, Zenon
    <3> HIDE DEF floored
    <3> QED BY <1>9, <3>1
  <2>2. \A i \in 1 .. 2 * E + Cardinality(kept) :
          IF i <= 2 * E THEN i \in 1 .. 2 * E ELSE i - 2 * E \in 1 .. Cardinality(kept)
    BY <1>2, <1>6
  <2> HIDE DEF floored
  <2> QED BY <2>1, <2>2 DEF zeros, rest
<1> HIDE DEF floored, Value, E, N
<1>11. ASSUME NEW p \in 0 .. N + E - 1
       PROVE  At(floored, p, memory.floored) =
                 IF p < 2 * E \/ raw[p - E + 1] < FloorCutOff
                 THEN 0 ELSE raw[p - E + 1]
  <2>1. CASE p < 2 * E
    BY <1>2, <1>6, <1>10, <2>1 DEF At
  <2>2. CASE p >= 2 * E
    <3>1. p - E \in E .. N - 1 /\ p - E \in 0 .. N - 1
      BY <1>2, <2>2
    <3>2. Nth(p - E - E + 1) = p - E /\ p - E - E + 1 <= Cardinality(kept)
      BY <1>7, <1>8, <3>1
    <3>3. floored[p + 1] = Value(p - E) /\ p < Len(floored)
      BY <1>2, <1>6, <1>10, <2>2, <3>2
    <3>4. Value(p - E) = IF raw[p - E + 1] < FloorCutOff THEN 0 ELSE raw[p - E + 1]
      BY <1>5, <3>1 DEF Value
    <3> QED BY <1>2, <2>2, <3>3, <3>4 DEF At
  <2> QED BY <1>2, <2>1, <2>2
<1> QED BY <1>1, <1>11 DEF E, N

-----------------------------------------------------------------------------

\* A stream after which nothing passes for a while; and what is left of its
\* readings when the small ones are cut off, by their index in the code.
Settle(v) == v \o [k \in 1 .. 3 * Extension |-> 0]

Cut(v, i) == IF i + 1 \in Blocked(v) THEN v[i + 1] ELSE 0

\* The readings of a stream that was left quiet.
LEMMA SettledAt ==
    ASSUME NEW v \in Seq(0 .. 100)
    PROVE  /\ Settle(v) \in Seq(0 .. 100) /\ Len(Settle(v)) = Len(v) + 3 * Extension
           /\ \A i \in 1 .. Len(v) + 3 * Extension :
                 Settle(v)[i] = IF i <= Len(v) THEN v[i] ELSE 0
<1> DEFINE zeros == [k \in 1 .. 3 * Extension |-> 0]
<1>1. Extension \in Nat
  BY FrameFacts
<1>2. /\ zeros \in Seq(0 .. 100) /\ Len(zeros) = 3 * Extension
      /\ \A k \in 1 .. 3 * Extension : zeros[k] = 0
  <2> DEFINE n == 3 * Extension
  <2>1. n \in Nat
    BY <1>1
  <2> HIDE DEF n
  <2>2. [k \in 1 .. n |-> 0] \in Seq(0 .. 100) /\ Len([k \in 1 .. n |-> 0]) = n
    BY <2>1
  <2> QED BY <2>2 DEF n
<1> HIDE DEF zeros
<1>3. /\ v \o zeros \in Seq(0 .. 100) /\ Len(v \o zeros) = Len(v) + Len(zeros)
      /\ \A i \in 1 .. Len(v) + Len(zeros) :
            (v \o zeros)[i] = IF i <= Len(v) THEN v[i] ELSE zeros[i - Len(v)]
  BY <1>2, RowAt, Zenon
<1>4. Settle(v) = v \o zeros
  BY Zenon DEF Settle, zeros
<1> DEFINE all == v \o zeros
<1> HIDE DEF all
<1>5. /\ all \in Seq(0 .. 100) /\ Len(all) = Len(v) + Len(zeros)
      /\ \A i \in 1 .. Len(v) + Len(zeros) :
            all[i] = IF i <= Len(v) THEN v[i] ELSE zeros[i - Len(v)]
  BY <1>3, Zenon DEF all
<1>6. Len(v) \in Nat
  OBVIOUS
<1>7. \A i \in 1 .. Len(v) + 3 * Extension :
         ~(i <= Len(v)) => i - Len(v) \in 1 .. 3 * Extension
  BY <1>1, <1>6
<1>8. \A i \in 1 .. Len(v) + 3 * Extension :
         all[i] = IF i <= Len(v) THEN v[i] ELSE 0
  BY <1>2, <1>5, <1>7
<1> QED BY <1>2, <1>4, <1>5, <1>8 DEF all

\* A reading is blocked or below the cut-off.
LEMMA BlockedOrNot ==
    ASSUME NEW v \in Seq(0 .. 100)
    PROVE  /\ \A i \in 1 .. Len(v) : v[i] \in 0 .. 100 /\ v[i] \in Int
           /\ \A i \in 1 .. Len(v) : i \notin Blocked(v) => v[i] < FloorCutOff
           /\ \A i \in 1 .. Len(v) : i \in Blocked(v) => v[i] >= FloorCutOff
           /\ \A i \in 1 .. Len(v) : v[i] >= FloorCutOff => i \in Blocked(v)
<1> DEFINE S == 0 .. 100
<1>0. v \in Seq(S)
  OBVIOUS
<1>1. DOMAIN v = 1 .. Len(v) /\ \A i \in 1 .. Len(v) : v[i] \in S
  <2> HIDE DEF S
  <2> QED BY <1>0
<1>2. \A i \in 1 .. Len(v) : i \in Blocked(v) <=> v[i] >= FloorCutOff
  BY <1>1, Zenon DEF Blocked
<1>3. \A x \in S : x \in 0 .. 100 /\ x \in Int /\ (x >= FloorCutOff \/ x < FloorCutOff)
  BY FrameFacts
<1> HIDE DEF S
<1> QED BY <1>1, <1>2, <1>3

\* A blocked reading is an element of the stream, not among the first, and far
\* from every other one.
LEMMA BlockedFar ==
    ASSUME NEW v \in Seq(0 .. 100), ShortPassages(v), NEW b \in Blocked(v)
    PROVE  /\ b \in 1 .. Len(v) /\ b > Extension /\ Len(v) \in Nat
           /\ v[b] \in Nat /\ v[b] >= FloorCutOff
           /\ \A a \in Blocked(v) : a = b \/ a - b > 2 * Extension + 1 \/ b - a > 2 * Extension + 1
<1>1. /\ \A a \in Blocked(v) : a \in 1 .. Len(v) /\ v[a] \in 0 .. 100 /\ v[a] >= FloorCutOff
      /\ Len(v) \in Nat
  BY DEF Blocked
<1>2. /\ b > Extension
      /\ \A a \in Blocked(v) : b < a => a - b > 2 * Extension + 1
      /\ \A a \in Blocked(v) : a < b => b - a > 2 * Extension + 1
  BY DEF ShortPassages
<1>3. \A x \in 0 .. 100 : x \in Nat
  OBVIOUS
<1>4. b \in 1 .. Len(v) /\ v[b] \in Nat /\ v[b] >= FloorCutOff
  BY <1>1, <1>3, Zenon
<1>5. \A a \in Blocked(v) : a = b \/ a - b > 2 * Extension + 1 \/ b - a > 2 * Extension + 1
  BY <1>1, <1>2
<1> QED BY <1>1, <1>2, <1>4, <1>5, Zenon

\* In such a stream smoothing drops no reading, whatever lies behind it.
LEMMA QuietFloored ==
    ASSUME NEW v \in Seq(0 .. 100), ShortPassages(v), FloorCutOff # 0, NEW memory
    PROVE  \A p \in 0 .. Len(v) + 4 * Extension - 1 :
              At(Floored(Settle(v), memory), p, memory.floored) = Cut(v, p - Extension)
<1> DEFINE E == Extension
           L == Len(v)
           raw == Settle(v)
<1>1. E \in Nat \ {0} /\ L \in Nat /\ FloorCutOff \in Nat \ {0}
  BY FrameFacts
<1>2. /\ Len(raw) = L + 3 * E
      /\ \A i \in 1 .. L + 3 * E : raw[i] = IF i <= L THEN v[i] ELSE 0
  BY SettledAt
<1>3. \A i \in 0 .. L + 3 * E - 1 :
         At(raw, i, memory.raw) = IF i < L THEN v[i + 1] ELSE 0
  <2> HIDE DEF E, L, raw
  <2>1. \A i \in 0 .. L + 3 * E - 1 : i + 1 \in 1 .. L + 3 * E /\ i < Len(raw)
    BY <1>1, <1>2
  <2>2. \A i \in 0 .. L + 3 * E - 1 : i + 1 <= L <=> i < L
    BY <1>1
  <2> QED BY <1>2, <2>1, <2>2 DEF At
<1>4. /\ \A i \in 1 .. L : v[i] \in 0 .. 100 /\ v[i] \in Int
      /\ \A i \in 1 .. L : i \notin Blocked(v) => v[i] < FloorCutOff
      /\ \A i \in 1 .. L : i \in Blocked(v) => v[i] >= FloorCutOff
      /\ \A i \in 1 .. L : v[i] >= FloorCutOff => i \in Blocked(v)
  BY <1>1, BlockedOrNot
<1>5. \A b \in Blocked(v) : b \in 1 .. L /\ b > E
  BY BlockedFar
<1> HIDE DEF raw
<1>6. ASSUME NEW i \in E .. Len(raw) - 1
      PROVE  \/ At(raw, i, memory.raw) < FloorCutOff
             \/ /\ At(raw, i - 1, memory.raw) < FloorCutOff
                /\ At(raw, i + 1, memory.raw) < FloorCutOff
  <2> SUFFICES ASSUME ~(At(raw, i, memory.raw) < FloorCutOff)
               PROVE  /\ At(raw, i - 1, memory.raw) < FloorCutOff
                      /\ At(raw, i + 1, memory.raw) < FloorCutOff
    OBVIOUS
  <2> HIDE DEF E, L
  <2>1. i \in 0 .. L + 3 * E - 1 /\ i - 1 \in 0 .. L + 3 * E - 1
    BY <1>1, <1>2
  <2>2. i + 1 \in 1 .. L /\ i + 1 \in Blocked(v)
    BY <1>1, <1>3, <1>4, <2>1
  <2>3. i \notin Blocked(v) /\ i + 2 \notin Blocked(v)
    <3>1. \A a \in Blocked(v) :
             a = i + 1 \/ a - (i + 1) > 2 * E + 1 \/ (i + 1) - a > 2 * E + 1
      BY <2>2, BlockedFar DEF E
    <3> QED BY <1>1, <2>1, <3>1
  <2>4. i + 1 \in 0 .. L + 3 * E - 1 /\ i \in 1 .. L
    BY <1>1, <2>1, <2>2, <1>5
  <2>5. At(raw, i - 1, memory.raw) < FloorCutOff
    BY <1>1, <1>3, <1>4, <2>1, <2>3, <2>4
  <2>6. At(raw, i + 1, memory.raw) < FloorCutOff
    <3>1. CASE i + 1 < L
      <4>1. i + 2 \in 1 .. L /\ At(raw, i + 1, memory.raw) = v[i + 2]
        BY <1>1, <1>3, <2>4, <3>1
      <4> QED BY <1>1, <1>4, <2>3, <4>1
    <3>2. CASE ~(i + 1 < L)
      BY <1>1, <1>3, <2>4, <3>2
    <3> QED BY <3>1, <3>2
  <2> QED BY <2>5, <2>6
<1>7. \A p \in 0 .. Len(raw) + E - 1 :
              At(Floored(raw, memory), p, memory.floored) =
                 IF p < 2 * E \/ raw[p - E + 1] < FloorCutOff
                 THEN 0 ELSE raw[p - E + 1]
  <2>1. Len(raw) \in Nat
    BY <1>1, <1>2
  <2> QED BY <1>6, <2>1, FlooredExact
<1> SUFFICES ASSUME NEW p \in 0 .. L + 4 * E - 1
             PROVE  At(Floored(raw, memory), p, memory.floored) = Cut(v, p - E)
  BY DEF raw
<1> HIDE DEF E, L
<1>8. p \in 0 .. Len(raw) + E - 1
  BY <1>1, <1>2
<1>9. CASE p < 2 * E
  <2>1. p - E + 1 \notin Blocked(v)
    BY <1>1, <1>5, <1>9
  <2> QED BY <1>7, <1>8, <1>9, <2>1 DEF Cut
<1>10. CASE p >= 2 * E
  <2>1. p - E + 1 \in 1 .. L + 3 * E /\ ~(p < 2 * E)
    BY <1>1, <1>10
  <2>2. CASE p - E + 1 <= L
    <3>1. raw[p - E + 1] = v[p - E + 1] /\ p - E + 1 \in 1 .. L
      BY <1>1, <1>2, <2>1, <2>2
    <3> QED BY <1>1, <1>4, <1>7, <1>8, <2>1, <3>1 DEF Cut
  <2>3. CASE ~(p - E + 1 <= L)
    <3>1. raw[p - E + 1] = 0 /\ p - E + 1 \notin Blocked(v)
      BY <1>1, <1>2, <1>5, <2>1, <2>3
    <3> QED BY <1>1, <1>7, <1>8, <2>1, <3>1 DEF Cut
  <2> QED BY <2>2, <2>3
<1> QED BY <1>1, <1>9, <1>10

\* Where the weights meet one blocked reading at most, the smoothed value is
\* that reading under its weight.
LEMMA QuietSmoothed ==
    ASSUME NEW v \in Seq(0 .. 100), ShortPassages(v), FloorCutOff # 0, NEW memory
    PROVE  LET stream == SmoothStream(Settle(v), memory)
           IN  /\ Len(stream) = Len(v) + 3 * Extension
               /\ \A b \in Blocked(v) : \A i \in b - 1 - Extension .. b + Extension - 1 :
                     stream[i + 1] = Weights[b + Extension - i] * v[b]
               /\ \A i \in 0 .. Len(v) + 2 * Extension - 1 :
                     \/ stream[i + 1] = 0
                     \/ \E b \in Blocked(v) : i \in b - 1 - Extension .. b + Extension - 1
<1> DEFINE E == Extension
           L == Len(v)
           raw == Settle(v)
           floored == Floored(raw, memory)
           terms(i) == [j \in 1 .. FrameSize |-> Weights[j] * At(floored, i + j - 2, memory.floored)]
           stream == SmoothStream(raw, memory)
<1>1. /\ E \in Nat \ {0} /\ L \in Nat /\ FrameSize = 2 * E + 1
      /\ \A j \in 1 .. FrameSize : Weights[j] \in Nat
  BY FrameFacts
<1>2. Len(raw) = L + 3 * E /\ DOMAIN raw = 1 .. L + 3 * E
  BY SettledAt
<1>3. stream = [i \in DOMAIN raw |-> SumOf(terms(i))]
  BY Zenon DEF SmoothStream
<1>4. \A p \in 0 .. L + 4 * E - 1 : At(floored, p, memory.floored) = Cut(v, p - E)
  BY QuietFloored
<1> HIDE DEF E, L, raw, floored
<1>5. \A i \in 0 .. L + 2 * E - 1 : \A j \in 1 .. FrameSize :
         terms(i + 1)[j] = Weights[j] * Cut(v, i + j - 1 - E)
  <2> SUFFICES ASSUME NEW i \in 0 .. L + 2 * E - 1, NEW j \in 1 .. FrameSize
               PROVE  terms(i + 1)[j] = Weights[j] * Cut(v, i + j - 1 - E)
    OBVIOUS
  <2>1. i + 1 + j - 2 \in 0 .. L + 4 * E - 1 /\ i + 1 + j - 2 - E = i + j - 1 - E
    BY <1>1
  <2>2. terms(i + 1)[j] = Weights[j] * At(floored, i + 1 + j - 2, memory.floored)
    OBVIOUS
  <2>3. At(floored, i + 1 + j - 2, memory.floored) = Cut(v, i + j - 1 - E)
    <3> DEFINE p == i + 1 + j - 2
    <3>1. p \in 0 .. L + 4 * E - 1 /\ p - E = i + j - 1 - E
      BY <1>1, <2>1
    <3> HIDE DEF p
    <3>2. At(floored, p, memory.floored) = Cut(v, i + j - 1 - E)
      BY <1>4, <3>1
    <3> QED BY <3>2 DEF p
  <2> HIDE DEF terms
  <2> QED BY <2>2, <2>3, Zenon
<1>6. \A i : Len(terms(i)) = FrameSize
  BY <1>1
<1>7. Len(stream) = L + 3 * E
  <2> HIDE DEF terms
  <2> QED BY <1>1, <1>2, <1>3
<1>8. \A i \in 0 .. L + 2 * E - 1 : stream[i + 1] = SumOf(terms(i + 1))
  <2> HIDE DEF terms, stream
  <2>1. \A i \in 0 .. L + 2 * E - 1 : i + 1 \in DOMAIN raw
    BY <1>1, <1>2
  <2> QED BY <1>3, <2>1
<1> HIDE DEF terms, stream
<1>9. ASSUME NEW b \in Blocked(v), NEW i \in b - 1 - E .. b + E - 1
      PROVE  stream[i + 1] = Weights[b + E - i] * v[b]
  <2> DEFINE k == b + E - i
  <2>1. /\ b \in 1 .. L /\ b > E /\ v[b] \in Nat
        /\ \A a \in Blocked(v) : a = b \/ a - b > 2 * E + 1 \/ b - a > 2 * E + 1
    BY BlockedFar DEF E, L
  <2>2. i \in 0 .. L + 2 * E - 1 /\ k \in 1 .. FrameSize
    BY <1>1, <2>1
  <2>3. terms(i + 1)[k] = Weights[k] * v[b]
    <3>1. i + k - 1 - E + 1 = b
      BY <1>1, <2>1
    <3> HIDE DEF k
    <3>2. Cut(v, i + k - 1 - E) = v[b]
      BY <3>1 DEF Cut
    <3> QED BY <1>5, <2>2, <3>2
  <2>4. ASSUME NEW j \in 1 .. FrameSize, j # k
        PROVE  terms(i + 1)[j] = 0
    <3>1. i + j - 1 - E + 1 \notin Blocked(v)
      <4>1. /\ i + j - 1 - E + 1 # b
            /\ i + j - 1 - E + 1 - b <= 2 * E + 1 /\ b - (i + j - 1 - E + 1) <= 2 * E + 1
        BY <1>1, <2>1, <2>4
      <4> QED BY <1>1, <2>1, <4>1
    <3>2. terms(i + 1)[j] = Weights[j] * 0
      BY <1>5, <2>2, <3>1 DEF Cut
    <3> QED BY <1>1, <3>2
  <2>5. k \in Nat \ {0} /\ k <= FrameSize /\ terms(i + 1)[k] \in Int
    <3>1. Weights[k] \in Nat /\ v[b] \in Nat
      <4> HIDE DEF k
      <4>1. Weights[k] \in Nat
        BY <1>1, <2>2
      <4> QED BY <2>1, <4>1, Zenon
    <3>2. \A x, y \in Nat : x * y \in Int
      OBVIOUS
    <3>3. terms(i + 1)[k] \in Int
      BY <2>3, <3>1, <3>2, Zenon
    <3> QED BY <1>1, <2>2, <3>3
  <2> HIDE DEF k
  <2>6. SumOf(terms(i + 1)) = terms(i + 1)[k]
    <3> DEFINE t == terms(i + 1)
    <3>1. Len(t) = FrameSize /\ FrameSize \in Nat
      BY <1>1, <1>6
    <3> HIDE DEF t
    <3>2. \A j \in 1 .. Len(t) : j # k => t[j] = 0
      BY <2>4, <3>1 DEF t
    <3>3. t[k] \in Int
      BY <2>5 DEF t
    <3>4. SumOf(t) = t[k]
      BY <2>5, <3>1, <3>2, <3>3, SumsSingle
    <3> QED BY <3>4 DEF t
  <2> QED BY <1>8, <2>2, <2>3, <2>6 DEF k
<1>10. ASSUME NEW i \in 0 .. L + 2 * E - 1,
              \A b \in Blocked(v) : i \notin b - 1 - E .. b + E - 1
       PROVE  stream[i + 1] = 0
  <2> DEFINE t == terms(i + 1)
  <2>1. \A j \in 1 .. FrameSize : t[j] = 0
    <3> SUFFICES ASSUME NEW j \in 1 .. FrameSize PROVE t[j] = 0
      OBVIOUS
    <3>1. i + j - 1 - E + 1 \notin Blocked(v)
      <4> SUFFICES ASSUME i + j - 1 - E + 1 \in Blocked(v) PROVE FALSE
        OBVIOUS
      <4> DEFINE b == i + j - 1 - E + 1
      <4>1. i \in b - 1 - E .. b + E - 1
        BY <1>1
      <4>2. b \in Blocked(v)
        OBVIOUS
      <4> HIDE DEF b
      <4> QED BY <1>10, <4>1, <4>2
    <3>2. t[j] = Weights[j] * 0
      BY <1>5, <3>1 DEF Cut
    <3> QED BY <1>1, <3>2
  <2>2. Len(t) = FrameSize /\ FrameSize \in Nat
    BY <1>1, <1>6
  <2> HIDE DEF t
  <2>3. SumOf(t) = 0
    <3>1. FrameSize + 1 \in Nat \ {0} /\ ~(FrameSize + 1 <= Len(t))
      BY <2>2
    <3>2. \A j \in 1 .. Len(t) : t[j] = 0
      BY <2>1, <2>2
    <3> QED BY <2>2, <3>1, <3>2, SumsSingle
  <2> QED BY <1>8, <2>3 DEF t
<1> QED BY <1>7, <1>9, <1>10 DEF E, L, raw, stream

-----------------------------------------------------------------------------

\* The weights rise up to one of them and fall from there.
Bell(c) ==
    /\ c \in 1 .. FrameSize
    /\ \A j, k \in 1 .. c : j < k => Weights[j] < Weights[k]
    /\ \A j, k \in c .. FrameSize : j < k => Weights[k] < Weights[j]

\* Products of positive numbers.
LEMMA Products ==
    ASSUME NEW x \in Nat, NEW y \in Nat, NEW z \in Nat \ {0}
    PROVE  /\ x * z \in Nat /\ (x # 0 => x * z > 0) /\ (x < y => x * z < y * z)
           /\ x # 0 => 2 * x * z > x * z
  OBVIOUS

\* The block of a short passage: it is as wide as the frame, and none is near.
LEMMA PassageBlock ==
    ASSUME NEW v \in Seq(0 .. 100), ShortPassages(v), FloorCutOff # 0, NEW memory,
           NEW b \in Blocked(v)
    PROVE  <<b - 1 - Extension, b + Extension>>
               \in IsolateBlocks(SmoothStream(Settle(v), memory))
<1> DEFINE E == Extension
           L == Len(v)
           stream == SmoothStream(Settle(v), memory)
           Positive(i) == i \in 0 .. Len(stream) - 1 /\ stream[i + 1] > 0
<1>1. /\ E \in Nat \ {0} /\ L \in Nat /\ FrameSize = 2 * E + 1
      /\ \A j \in 1 .. FrameSize : Weights[j] \in Nat \ {0}
  BY FrameFacts
<1>2. /\ b \in 1 .. L /\ b > E /\ v[b] \in Nat \ {0}
      /\ \A a \in Blocked(v) : a = b \/ a - b > 2 * E + 1 \/ b - a > 2 * E + 1
  BY FrameFacts, BlockedFar
<1>3. /\ Len(stream) = L + 3 * E
      /\ \A i \in b - 1 - E .. b + E - 1 : stream[i + 1] = Weights[b + E - i] * v[b]
      /\ \A i \in 0 .. L + 2 * E - 1 :
            \/ stream[i + 1] = 0
            \/ \E a \in Blocked(v) : i \in a - 1 - E .. a + E - 1
  BY QuietSmoothed
<1>10. Len(stream) = L + 3 * E
  BY <1>3
<1>4. \A a \in Blocked(v) : a \in Int
  BY BlockedFar
<1>5. IsolateBlocks(stream) =
        {edges \in (0 .. Len(stream) - 1) \X (1 .. Len(stream)) :
            /\ edges[1] < edges[2]
            /\ ~Positive(edges[1] - 1) /\ ~Positive(edges[2])
            /\ \A i \in edges[1] .. edges[2] - 1 : Positive(i)}
  BY Zenon DEF IsolateBlocks
<1> HIDE DEF E, L, stream
<1>6. \A i \in b - 1 - E .. b + E - 1 : Positive(i)
  <2> SUFFICES ASSUME NEW i \in b - 1 - E .. b + E - 1
               PROVE  i \in 0 .. Len(stream) - 1 /\ stream[i + 1] > 0
    OBVIOUS
  <2>1. i \in 0 .. L + 3 * E - 1 /\ b + E - i \in 1 .. FrameSize
    BY <1>1, <1>2
  <2>2. Weights[b + E - i] \in Nat \ {0}
    BY <1>1, <2>1
  <2>3. Weights[b + E - i] * v[b] > 0
    BY <1>2, <2>2, Products
  <2>4. stream[i + 1] > 0
    BY <1>3, <2>3, Zenon
  <2>5. i \in 0 .. Len(stream) - 1
    BY <1>1, <1>10, <2>1
  <2> QED BY <2>4, <2>5, Zenon
<1>7. ~Positive(b - 1 - E - 1)
  <2> SUFFICES ASSUME b - 1 - E - 1 \in 0 .. L + 2 * E - 1, stream[b - 1 - E - 1 + 1] > 0
               PROVE  FALSE
    BY <1>1, <1>2, <1>3
  <2>1. PICK a \in Blocked(v) : b - 1 - E - 1 \in a - 1 - E .. a + E - 1
    BY <1>3
  <2> QED BY <1>1, <1>2, <1>4, <2>1
<1>8. ~Positive(b + E)
  <2>1. b + E \in 0 .. L + 2 * E - 1
    BY <1>1, <1>2
  <2> SUFFICES ASSUME stream[b + E + 1] > 0 PROVE FALSE
    OBVIOUS
  <2>2. PICK a \in Blocked(v) : b + E \in a - 1 - E .. a + E - 1
    BY <1>3, <2>1
  <2>3. a \in Int /\ a # b /\ a - b <= 2 * E + 1 /\ b - a <= 2 * E + 1
    BY <1>1, <1>2, <1>4, <2>2
  <2> QED BY <1>1, <1>2, <2>3
<1>9. /\ b - 1 - E \in 0 .. Len(stream) - 1 /\ b + E \in 1 .. Len(stream)
      /\ b - 1 - E < b + E
  BY <1>1, <1>2, <1>3
<1> DEFINE e == <<b - 1 - E, b + E>>
<1>11. e[1] = b - 1 - E /\ e[2] = b + E
  OBVIOUS
<1>12. e \in (0 .. Len(stream) - 1) \X (1 .. Len(stream))
  BY <1>9
<1> HIDE DEF Positive, e
<1>13. e \in IsolateBlocks(stream)
  <2>1. e[1] < e[2]
    BY <1>9, <1>11, Zenon
  <2>2. ~Positive(e[1] - 1)
    BY <1>7, <1>11, Zenon
  <2>3. ~Positive(e[2])
    BY <1>8, <1>11, Zenon
  <2>4. \A i \in e[1] .. e[2] - 1 : Positive(i)
    <3> DEFINE inside == b - 1 - E .. b + E - 1
    <3>1. e[1] .. e[2] - 1 = inside
      BY <1>1, <1>2, <1>11
    <3>2. \A i \in inside : Positive(i)
      BY <1>6
    <3> HIDE DEF inside
    <3> QED BY <3>1, <3>2, Zenon
  <2> QED BY <1>5, <1>12, <2>1, <2>2, <2>3, <2>4, Zenon
<1> QED BY <1>13 DEF E, stream, e

\* Every other block is made of what lies behind the stream.
LEMMA OtherBlocks ==
    ASSUME NEW v \in Seq(0 .. 100), ShortPassages(v), FloorCutOff # 0, NEW memory,
           NEW e \in IsolateBlocks(SmoothStream(Settle(v), memory))
    PROVE  /\ e[1] \in Int /\ e[2] \in Int /\ e[2] <= Len(v) + 3 * Extension
           /\ \/ \E b \in Blocked(v) : e = <<b - 1 - Extension, b + Extension>>
              \/ e[1] >= Len(v) + 2 * Extension
<1> DEFINE E == Extension
           L == Len(v)
           stream == SmoothStream(Settle(v), memory)
<1>1. E \in Nat \ {0} /\ L \in Nat
  BY FrameFacts
<1>2. /\ Len(stream) = L + 3 * E
      /\ \A i \in 0 .. L + 2 * E - 1 :
            \/ stream[i + 1] = 0
            \/ \E b \in Blocked(v) : i \in b - 1 - E .. b + E - 1
  BY QuietSmoothed
<1>3. /\ e[1] \in 0 .. Len(stream) - 1 /\ e[2] \in 1 .. Len(stream) /\ e[1] < e[2]
      /\ \A i \in e[1] .. e[2] - 1 : stream[i + 1] > 0
  BY DEF IsolateBlocks
<1> HIDE DEF E, L, stream
<1>4. e[1] \in Int /\ e[2] \in Int /\ e[2] <= L + 3 * E
  BY <1>1, <1>2, <1>3
<1>5. ASSUME ~(e[1] >= L + 2 * E)
      PROVE  \E b \in Blocked(v) : e = <<b - 1 - E, b + E>>
  <2>1. e[1] \in 0 .. L + 2 * E - 1 /\ e[1] \in e[1] .. e[2] - 1
    BY <1>1, <1>2, <1>3, <1>5
  <2>2. stream[e[1] + 1] > 0
    BY <1>3, <2>1
  <2>3. PICK b \in Blocked(v) : e[1] \in b - 1 - E .. b + E - 1
    BY <1>2, <2>1, <2>2
  <2>4. b \in Int
    BY BlockedFar
  <2> DEFINE f == <<b - 1 - E, b + E>>
  <2>5. f \in IsolateBlocks(stream)
    BY PassageBlock DEF E, stream
  <2>6. f[1] <= e[1] /\ e[1] < f[2] /\ e[1] \in Int /\ Len(stream) \in Nat
    BY <1>1, <1>2, <1>4, <2>3, <2>4
  <2> HIDE DEF f
  <2>7. e = f
    <3>1. e \in IsolateBlocks(stream)
      BY DEF stream
    <3>2. e[1] <= e[1] /\ e[1] < e[2]
      BY <1>3, <1>4
    <3> DEFINE t == e[1]
    <3>3. t \in Int /\ e[1] <= t /\ t < e[2] /\ f[1] <= t /\ t < f[2]
      BY <2>6, <3>2
    <3> HIDE DEF t
    <3> QED BY <2>5, <2>6, <3>1, <3>3, BlocksApart
  <2> QED BY <2>7 DEF f
<1> QED BY <1>4, <1>5 DEF E, L

\* The block of a short passage has its peak where the greatest weight meets
\* the reading, so that it is as late in every such block.
LEMMA PassagePeak ==
    ASSUME NEW v \in Seq(0 .. 100), ShortPassages(v), FloorCutOff # 0, NEW memory,
           NEW b \in Blocked(v), NEW c, Bell(c)
    PROVE  \E p \in Peaks(BlockPoints(SmoothStream(Settle(v), memory),
                                      b - 1 - Extension, b + Extension)) :
              p.time = b + Extension - c
<1> DEFINE E == Extension
           L == Len(v)
           F == FrameSize
           stream == SmoothStream(Settle(v), memory)
           a == b - 1 - E
           z == b + E
           block == SubSeq(stream, a + 1, z)
           Above(j) == 2 * (z - a) * block[j + 1] > SumOf(block)
           Over(j, k) == k \notin 0 .. z - a - 1 \/ block[j + 1] > block[k + 1]
           peaks == {j \in 0 .. z - a - 1 : Above(j) /\ Over(j, j - 1) /\ Over(j, j + 1)}
           lows == {j \in 0 .. z - a - 1 : ~Above(j) /\ \A k \in peaks : j < k}
           d == F - c
<1>1. /\ E \in Nat \ {0} /\ L \in Nat /\ F = 2 * E + 1 /\ F \in Nat \ {0}
      /\ \A j \in 1 .. F : Weights[j] \in Nat \ {0}
  BY FrameFacts
<1>2. b \in 1 .. L /\ b > E /\ v[b] \in Nat \ {0}
  BY FrameFacts, BlockedFar
<1>3. \A i \in a .. z - 1 : stream[i + 1] = Weights[z - i] * v[b]
  <2>1. \A y \in Blocked(v) : \A i \in y - 1 - E .. y + E - 1 :
           stream[i + 1] = Weights[y + E - i] * v[y]
    BY QuietSmoothed, Zenon
  <2>2. \A i \in b - 1 - E .. b + E - 1 : stream[i + 1] = Weights[b + E - i] * v[b]
    BY <2>1, Zenon
  <2> QED BY <1>1, <1>2, <2>2
<1>4. /\ c \in 1 .. F
      /\ \A j, k \in 1 .. c : j < k => Weights[j] < Weights[k]
      /\ \A j, k \in c .. F : j < k => Weights[k] < Weights[j]
  BY DEF Bell
<1>5. /\ BlockPoints(stream, a, z) =
           {Point(a + j, 1) : j \in First(lows)}
           \cup {Point(a + j, 2 + block[j + 1]) : j \in First(peaks)}
           \cup {Point(z, 0)}
  BY Zenon DEF BlockPoints
<1>6. a \in Int /\ z \in Int /\ z - a = F /\ a + 1 \in Int
  BY <1>1, <1>2
<1> HIDE DEF E, L, F, stream, a, z
<1>7. /\ Len(block) = F
      /\ \A j \in 0 .. F - 1 : block[j + 1] = Weights[F - j] * v[b]
  <2> DEFINE S == {stream[i] : i \in a + 1 .. z}
  <2>1. \A i \in a + 1 .. z : stream[i] \in S
    OBVIOUS
  <2>2. Len(block) = IF a + 1 <= z THEN z - (a + 1) + 1 ELSE 0
    BY <1>6, <2>1, SubSeqProperties
  <2>3. \A i \in 1 .. z - (a + 1) + 1 : block[i] = stream[a + 1 + i - 1]
    BY <1>6, <2>1, SubSeqProperties
  <2> HIDE DEF block, S
  <2>4. Len(block) = F
    BY <1>1, <1>6, <2>2
  <2>5. ASSUME NEW j \in 0 .. F - 1 PROVE block[j + 1] = Weights[F - j] * v[b]
    <3>1. /\ j + 1 \in 1 .. z - (a + 1) + 1 /\ a + 1 + (j + 1) - 1 = a + j + 1
          /\ a + j \in a .. z - 1 /\ z - (a + j) = F - j
      BY <1>1, <1>6
    <3>2. block[j + 1] = stream[a + j + 1]
      BY <2>3, <3>1
    <3>3. stream[a + j + 1] = Weights[z - (a + j)] * v[b]
      BY <1>3, <3>1, Zenon
    <3> QED BY <3>1, <3>2, <3>3, Zenon
  <2> QED BY <2>4, <2>5
<1> HIDE DEF block
<1>8. \A j, k \in 0 .. F - 1 :
         /\ block[j + 1] \in Nat \ {0}
         /\ Weights[F - j] < Weights[F - k] => block[j + 1] < block[k + 1]
  <2> SUFFICES ASSUME NEW j \in 0 .. F - 1, NEW k \in 0 .. F - 1
               PROVE  /\ block[j + 1] \in Nat \ {0}
                      /\ Weights[F - j] < Weights[F - k] => block[j + 1] < block[k + 1]
    OBVIOUS
  <2>1. F - j \in 1 .. F /\ F - k \in 1 .. F
    BY <1>1
  <2> DEFINE x == Weights[F - j]
             y == Weights[F - k]
             n == v[b]
  <2>2. x \in Nat \ {0} /\ y \in Nat \ {0} /\ n \in Nat \ {0}
    BY <1>1, <1>2, <2>1
  <2>3. block[j + 1] = x * n /\ block[k + 1] = y * n
    BY <1>7, Zenon
  <2> HIDE DEF x, y, n
  <2>4. x * n \in Nat /\ x * n > 0 /\ (x < y => x * n < y * n)
    BY <2>2, Products
  <2>5. x * n \in Nat \ {0}
    BY <2>4
  <2> QED BY <2>3, <2>4, <2>5, Zenon DEF x, y
<1>9. d \in 0 .. F - 1
  BY <1>1, <1>4
<1>10. /\ \A j \in 0 .. F - 1 : j < d => block[j + 1] < block[j + 2]
       /\ \A j \in 0 .. F - 1 : j > d => block[j + 1] < block[j]
  <2>1. ASSUME NEW j \in 0 .. F - 1, j < d PROVE block[j + 1] < block[j + 2]
    <3>1. /\ j + 1 \in 0 .. F - 1 /\ F - (j + 1) \in c .. F /\ F - j \in c .. F
          /\ F - (j + 1) < F - j /\ j + 1 + 1 = j + 2
      BY <1>1, <1>4, <2>1
    <3>2. Weights[F - j] < Weights[F - (j + 1)]
      BY <1>4, <3>1
    <3>3. block[j + 1] < block[j + 1 + 1]
      BY <1>8, <3>1, <3>2
    <3> QED BY <3>1, <3>3
  <2>2. ASSUME NEW j \in 0 .. F - 1, j > d PROVE block[j + 1] < block[j]
    <3>1. /\ j - 1 \in 0 .. F - 1 /\ F - (j - 1) \in 1 .. c /\ F - j \in 1 .. c
          /\ F - j < F - (j - 1) /\ j - 1 + 1 = j
      BY <1>1, <1>4, <2>2
    <3>2. Weights[F - j] < Weights[F - (j - 1)]
      BY <1>4, <3>1
    <3>3. block[j + 1] < block[j - 1 + 1]
      BY <1>8, <3>1, <3>2
    <3> QED BY <3>1, <3>3
  <2> QED BY <2>1, <2>2
<1> HIDE DEF d
\* No value of the block exceeds that of the peak.
<1>11. \A j \in 0 .. F - 1 : block[j + 1] <= block[d + 1]
  <2> SUFFICES ASSUME NEW j \in 0 .. F - 1, j # d PROVE block[j + 1] < block[d + 1]
    BY <1>8, <1>9
  <2>1. F - j \in 1 .. F /\ F - d = c /\ F - j # c
    BY <1>1, <1>4, <1>9 DEF d
  <2>2. Weights[F - j] < Weights[c]
    <3>1. CASE F - j < c
      <4>1. F - j \in 1 .. c /\ c \in 1 .. c
        BY <1>1, <1>4, <2>1, <3>1
      <4> QED BY <1>4, <3>1, <4>1
    <3>2. CASE F - j > c
      <4>1. F - j \in c .. F /\ c \in c .. F
        BY <1>1, <1>4, <2>1, <3>2
      <4> QED BY <1>4, <3>2, <4>1
    <3> QED BY <1>1, <1>4, <2>1, <3>1, <3>2
  <2> QED BY <1>8, <1>9, <2>1, <2>2
<1>12. Above(d)
  <2> DEFINE M == block[d + 1]
  <2>1. M \in Nat \ {0}
    BY <1>8, <1>9
  <2>2. \A n \in 1 .. Len(block) : block[n] \in Int /\ block[n] <= M
    <3> SUFFICES ASSUME NEW n \in 1 .. F PROVE block[n] \in Int /\ block[n] <= M
      BY <1>7
    <3>1. n - 1 \in 0 .. F - 1 /\ n - 1 + 1 = n
      BY <1>1
    <3>2. block[n - 1 + 1] \in Nat \ {0} /\ block[n - 1 + 1] <= M
      BY <1>8, <1>11, <3>1
    <3> QED BY <3>1, <3>2
  <2> HIDE DEF M
  <2>3. SumOf(block) \in Int /\ SumOf(block) <= F * M
    <3>1. Len(block) = F /\ Len(block) \in Nat /\ M \in Int
      BY <1>1, <1>7, <2>1
    <3>2. SumOf(block) \in Int /\ SumOf(block) <= Len(block) * M
      BY <2>2, <3>1, SumsBounded
    <3> QED BY <3>1, <3>2, Zenon
  <2>4. 2 * F * M > F * M /\ F * M \in Nat
    BY <1>1, <2>1, Products
  <2>5. 2 * F * M \in Int
    BY <1>1, <2>1
  <2> DEFINE twice == 2 * F * M
             once == F * M
  <2> HIDE DEF twice, once
  <2>6. twice > SumOf(block)
    <3>1. twice > once /\ twice \in Int /\ once \in Nat
      BY <2>4, <2>5 DEF twice, once
    <3>2. SumOf(block) \in Int /\ SumOf(block) <= once
      BY <2>3 DEF once
    <3> QED BY <3>1, <3>2
  <2> QED BY <1>6, <2>6, Zenon DEF twice, M
<1>13. peaks = {d}
  <2>1. Over(d, d - 1) /\ Over(d, d + 1)
    <3>1. d - 1 \in 0 .. F - 1 => block[d + 1] > block[d - 1 + 1]
      <4> SUFFICES ASSUME d - 1 \in 0 .. F - 1 PROVE block[d - 1 + 1] < block[d - 1 + 2]
        BY <1>9
      <4>1. d - 1 < d
        BY <1>9
      <4> QED BY <1>10, <4>1
    <3>2. d + 1 \in 0 .. F - 1 => block[d + 1] > block[d + 1 + 1]
      <4> SUFFICES ASSUME d + 1 \in 0 .. F - 1 PROVE block[d + 1 + 1] < block[d + 1]
        OBVIOUS
      <4>1. d + 1 > d
        BY <1>9
      <4> QED BY <1>10, <4>1
    <3> QED BY <1>6, <3>1, <3>2
  <2>2. ASSUME NEW j \in peaks, j # d PROVE FALSE
    <3>1. j \in 0 .. F - 1 /\ Over(j, j - 1) /\ Over(j, j + 1)
      BY <1>6
    <3>2. CASE j < d
      <4>1. j + 1 \in 0 .. F - 1 /\ j + 1 + 1 = j + 2
        BY <1>1, <1>9, <3>1, <3>2
      <4>2. block[j + 1] > block[j + 2]
        BY <1>6, <3>1, <4>1
      <4>3. block[j + 1] < block[j + 2]
        BY <1>10, <3>1, <3>2
      <4>4. block[j + 1] \in Nat /\ block[j + 2] \in Nat
        BY <1>8, <3>1, <4>1
      <4> QED BY <4>2, <4>3, <4>4
    <3>3. CASE j > d
      <4>1. j - 1 \in 0 .. F - 1 /\ j - 1 + 1 = j
        BY <1>1, <1>9, <3>1, <3>3
      <4>2. block[j + 1] > block[j]
        BY <1>6, <3>1, <4>1
      <4>3. block[j + 1] < block[j]
        BY <1>10, <3>1, <3>3
      <4>4. block[j + 1] \in Nat /\ block[j] \in Nat
        BY <1>8, <3>1, <4>1
      <4> QED BY <4>2, <4>3, <4>4
    <3> QED BY <1>9, <2>2, <3>1, <3>2, <3>3
  <2>3. d \in 0 .. z - a - 1
    BY <1>6, <1>9
  <2>4. d \in peaks
    BY <1>12, <2>1, <2>3, Zenon
  <2> QED BY <2>2, <2>4, Zenon
<1> HIDE DEF peaks, lows
<1>14. d \in First(peaks)
  BY <1>9, <1>13 DEF First
<1> DEFINE p == Point(a + d, 2 + block[d + 1])
<1>15. p \in BlockPoints(stream, a, z)
  BY <1>5, <1>14, Zenon
<1>16. IsPeak(p) /\ p.time = a + d
  BY <1>8, <1>9 DEF IsPeak, Point
<1>17. a + d = b + E - c
  BY <1>1, <1>2, <1>4 DEF a, d
<1> HIDE DEF p
<1>18. p \in Peaks(BlockPoints(stream, a, z)) /\ p.time = b + E - c
  BY <1>15, <1>16, <1>17 DEF Peaks
<1> QED BY <1>18, Zenon DEF E, stream, a, z

-----------------------------------------------------------------------------

\* In a stream of short passages each has a peak, all as late, and every other
\* peak is made of what lies behind the stream.
LEMMA QuietPeaks ==
    ASSUME NEW v \in Seq(0 .. 100), ShortPassages(v), FloorCutOff # 0, NEW memory,
           NEW c, Bell(c)
    PROVE  LET P == Peaks(Points(Settle(v), memory))
           IN  /\ \A b \in Blocked(v) : \E p \in P : p.time = b + Extension - c
               /\ \A p \in P :
                     \/ \E b \in Blocked(v) : p.time = b + Extension - c
                     \/ p.time \in Len(v) + 2 * Extension .. Len(v) + 3 * Extension - 1
<1> DEFINE E == Extension
           L == Len(v)
           stream == SmoothStream(Settle(v), memory)
           blocks == IsolateBlocks(stream)
           P == Peaks(Points(Settle(v), memory))
           peak(e) == Peaks(BlockPoints(stream, e[1], e[2]))
<1>1. E \in Nat /\ L \in Nat
  BY FrameFacts
<1>2. P = Peaks(UNION {BlockPoints(stream, e[1], e[2]) : e \in blocks})
  BY Zenon DEF Points, SimplifyStream
<1>3. /\ \A p \in P : \E e \in blocks : p \in peak(e)
      /\ \A e \in blocks : \A p \in peak(e) : p \in P
  <2> HIDE DEF P, blocks
  <2> QED BY <1>2 DEF Peaks
<1>4. \A b \in Blocked(v) : b \in Int
  BY BlockedFar
<1>5. ASSUME NEW b \in Blocked(v)
      PROVE  /\ <<b - 1 - E, b + E>> \in blocks
             /\ \E p \in peak(<<b - 1 - E, b + E>>) : p.time = b + E - c
  <2>1. <<b - 1 - E, b + E>> \in blocks
    BY PassageBlock
  <2>2. \E p \in Peaks(BlockPoints(stream, b - 1 - E, b + E)) : p.time = b + E - c
    BY PassagePeak
  <2> DEFINE e == <<b - 1 - E, b + E>>
  <2>3. e[1] = b - 1 - E /\ e[2] = b + E
    OBVIOUS
  <2> HIDE DEF e, E, stream, blocks
  <2>4. \E p \in peak(e) : p.time = b + E - c
    BY <2>2, <2>3, Zenon
  <2> QED BY <2>1, <2>4 DEF e
<1>6. ASSUME NEW e \in blocks
      PROVE  /\ e[1] \in Int /\ e[2] \in Int /\ e[2] <= L + 3 * E
             /\ \/ \E b \in Blocked(v) : e = <<b - 1 - E, b + E>>
                \/ e[1] >= L + 2 * E
  BY OtherBlocks
<1>7. ASSUME NEW e \in blocks
      PROVE  /\ \A p \in peak(e) : p.time \in Int /\ e[1] <= p.time /\ p.time < e[2]
             /\ \A p, q \in peak(e) : p = q
  BY <1>6, OnePeakEach
<1> HIDE DEF E, L, blocks, P, peak
<1>8. ASSUME NEW b \in Blocked(v) PROVE \E p \in P : p.time = b + E - c
  BY <1>3, <1>5, Zenon
<1>9. ASSUME NEW p \in P
      PROVE  \/ \E b \in Blocked(v) : p.time = b + E - c
             \/ p.time \in L + 2 * E .. L + 3 * E - 1
  <2>1. PICK e \in blocks : p \in peak(e)
    BY <1>3
  <2>2. CASE \E b \in Blocked(v) : e = <<b - 1 - E, b + E>>
    <3>1. PICK b \in Blocked(v) : e = <<b - 1 - E, b + E>>
      BY <2>2
    <3>2. PICK q \in peak(e) : q.time = b + E - c
      BY <1>5, <3>1, Zenon
    <3>3. p = q
      BY <1>7, <2>1, <3>2
    <3> QED BY <3>2, <3>3
  <2>3. CASE e[1] >= L + 2 * E
    BY <1>1, <1>6, <1>7, <2>1, <2>3
  <2> QED BY <1>6, <2>2, <2>3
<1> QED BY <1>8, <1>9, Zenon DEF E, L, P

\* The number of a passage's peak is that of the passage.
LEMMA QuietNumbers ==
    ASSUME NEW v \in Seq(0 .. 100), ShortPassages(v), FloorCutOff # 0, NEW memory,
           NEW c, Bell(c), NEW b \in Blocked(v),
           NEW p \in Peaks(Points(Settle(v), memory)), p.time = b + Extension - c
    PROVE  Number(Points(Settle(v), memory), p) = Cardinality({a \in Blocked(v) : a <= b})
<1> DEFINE E == Extension
           L == Len(v)
           points == Points(Settle(v), memory)
           P == Peaks(points)
           S == {q \in P : q.time <= p.time}
           T == {a \in Blocked(v) : a <= b}
           f == [q \in S |-> q.time - E + c]
<1>1. E \in Nat \ {0} /\ L \in Nat /\ c \in Int /\ c >= 1
  BY FrameFacts DEF Bell
<1>2. \A a \in Blocked(v) : a \in 1 .. L /\ \E q \in P : q.time = a + E - c
  BY QuietPeaks, BlockedFar
<1>3. \A q \in P : \/ \E a \in Blocked(v) : q.time = a + E - c
                   \/ q.time \in L + 2 * E .. L + 3 * E - 1
  BY QuietPeaks
<1>4. \A q, r \in P : q.time = r.time => q = r
  <2>1. Ordered(points)
    <3>1. Settle(v) \in Seq(0 .. 100)
      BY SettledAt
    <3> QED BY <3>1, PointsOrdered
  <2> QED BY <2>1 DEF Ordered
<1> HIDE DEF E, L, points, P
<1>5. p \in P /\ p.time = b + E - c /\ b \in 1 .. L
  BY <1>2 DEF P, points, E
<1>6. ASSUME NEW q \in S
      PROVE  \E a \in T : q.time = a + E - c /\ f[q] = a
  <2>1. ~(q.time \in L + 2 * E .. L + 3 * E - 1)
    BY <1>1, <1>5
  <2>2. PICK a \in Blocked(v) : q.time = a + E - c
    BY <1>3, <2>1
  <2>3. a \in 1 .. L
    BY <1>2
  <2> QED BY <1>1, <1>5, <2>2, <2>3
<1>7. ASSUME NEW q \in S, NEW r \in S, f[q] = f[r] PROVE q = r
  <2>1. q.time = r.time
    BY <1>6, <1>7
  <2> QED BY <1>4, <2>1
<1>8. ASSUME NEW a \in T PROVE \E q \in S : f[q] = a
  <2>1. PICK q \in P : q.time = a + E - c
    BY <1>2
  <2>2. a \in 1 .. L /\ a <= b
    BY <1>2
  <2>3. q \in S
    BY <1>1, <1>5, <2>1, <2>2
  <2> QED BY <1>1, <2>1, <2>2, <2>3
<1>9. IsFiniteSet(T)
  <2>1. T \in SUBSET (1 .. L)
    BY <1>2
  <2>2. IsFiniteSet(1 .. L)
    BY <1>1, FS_Interval
  <2> QED BY <2>1, <2>2, FS_Subset
<1>10. f \in Injection(S, T)
  <2>1. f \in [S -> T]
    BY <1>6
  <2> HIDE DEF S, T, f
  <2> QED BY <1>7, <2>1 DEF Injection, IsInjective
<1>11. Cardinality(S) = Cardinality(T)
  <2> HIDE DEF S, T, f
  <2> QED BY <1>8, <1>9, <1>10, SameCount
<1>12. Number(points, p) = Cardinality(S)
  BY Zenon DEF Number, P
<1> QED BY <1>11, <1>12, Zenon DEF points

\* There are as many peaks as passages, and few more.
LEMMA QuietCount ==
    ASSUME NEW v \in Seq(0 .. 100), ShortPassages(v), FloorCutOff # 0, NEW memory,
           NEW c, Bell(c)
    PROVE  LET passed == Cardinality(Blocked(v))
           IN  /\ passed \in Nat
               /\ Cardinality(Peaks(Points(Settle(v), memory))) \in passed .. passed + Extension
<1> DEFINE E == Extension
           L == Len(v)
           points == Points(Settle(v), memory)
           P == Peaks(points)
           B == Blocked(v)
           S == {q \in P : q.time < L + 2 * E}
           R == {q \in P : q.time >= L + 2 * E}
           behind == L + 2 * E .. L + 3 * E - 1
           f == [q \in S |-> q.time - E + c]
           time == [q \in R |-> q.time]
<1>1. E \in Nat \ {0} /\ L \in Nat /\ c \in Int /\ c >= 1
  BY FrameFacts DEF Bell
<1>2. \A a \in B : a \in 1 .. L /\ \E q \in P : q.time = a + E - c
  BY QuietPeaks, BlockedFar
<1>3. \A q \in P : (\E a \in B : q.time = a + E - c) \/ q.time \in behind
  BY QuietPeaks
<1>4. /\ IsFiniteSet(P) /\ \A q \in P : q.time \in Int
      /\ \A q, r \in P : q.time = r.time => q = r
  <2>1. Ordered(points)
    <3>1. Settle(v) \in Seq(0 .. 100)
      BY SettledAt
    <3> QED BY <3>1, PointsOrdered
  <2> QED BY <2>1 DEF Ordered
<1> HIDE DEF E, L, P, B
<1>5. \A q \in S : \E a \in B : q.time = a + E - c /\ f[q] = a
  <2> SUFFICES ASSUME NEW q \in S PROVE \E a \in B : q.time = a + E - c /\ f[q] = a
    OBVIOUS
  <2>1. q.time \notin behind
    BY <1>1, <1>4
  <2>2. PICK a \in B : q.time = a + E - c
    BY <1>3, <2>1
  <2> QED BY <1>1, <1>2, <2>2
<1>6. IsFiniteSet(B)
  <2>1. B \in SUBSET (1 .. L)
    BY <1>2
  <2>2. IsFiniteSet(1 .. L)
    BY <1>1, FS_Interval
  <2> QED BY <2>1, <2>2, FS_Subset
<1>7. IsFiniteSet(S) /\ Cardinality(S) = Cardinality(B)
  <2>1. f \in [S -> B]
    BY <1>5
  <2>2. \A q, r \in S : f[q] = f[r] => q = r
    BY <1>4, <1>5
  <2>3. ASSUME NEW a \in B PROVE \E q \in S : f[q] = a
    <3>1. PICK q \in P : q.time = a + E - c
      BY <1>2
    <3>2. q \in S
      BY <1>1, <1>2, <3>1
    <3> QED BY <1>1, <1>2, <3>1, <3>2
  <2> HIDE DEF S, f
  <2>4. f \in Injection(S, B)
    BY <2>1, <2>2 DEF Injection, IsInjective
  <2> QED BY <1>6, <2>3, <2>4, SameCount
<1>8. IsFiniteSet(R) /\ Cardinality(R) <= E
  <2>1. IsFiniteSet(behind) /\ Cardinality(behind) = E
    <3> DEFINE x == L + 2 * E
               y == L + 3 * E - 1
    <3>1. x \in Int /\ y \in Int /\ y - x + 1 = E /\ x <= y
      BY <1>1
    <3> HIDE DEF x, y
    <3>2. IsFiniteSet(x .. y)
      BY <3>1, FS_Interval, Zenon
    <3>3. Cardinality(x .. y) = IF x > y THEN 0 ELSE y - x + 1
      BY <3>1, FS_Interval, Zenon
    <3>4. Cardinality(x .. y) = E
      BY <3>1, <3>3
    <3> QED BY <3>2, <3>4, Zenon DEF x, y
  <2>2. \A q \in R : q.time \in behind
    BY <1>1, <1>2, <1>3, <1>4
  <2>3. time \in [R -> behind]
    BY <2>2
  <2>4. \A q, r \in R : time[q] = time[r] => q = r
    BY <1>4
  <2> HIDE DEF R, time, behind
  <2>5. time \in Injection(R, behind)
    BY <2>3, <2>4 DEF Injection, IsInjective
  <2>6. IsFiniteSet(R) /\ Cardinality(R) <= Cardinality(behind)
    BY <2>1, <2>5, FS_Injection
  <2> QED BY <2>1, <2>6
<1>9. P = S \cup R /\ S \cap R = {}
  BY <1>1, <1>4
<1> HIDE DEF S, R
<1>10. Cardinality(P) = Cardinality(S) + Cardinality(R)
  BY <1>7, <1>8, <1>9, DisjointCount
<1>11. Cardinality(B) \in Nat /\ Cardinality(R) \in Nat
  BY <1>6, <1>8, FS_CardinalityType
<1> QED BY <1>1, <1>7, <1>8, <1>10, <1>11 DEF E, B, P, points

-----------------------------------------------------------------------------

\* How many passages a sensor has seen up to one, and the passages of both sensors
\* that have the same number.
Rank(v, i) == Cardinality({j \in Blocked(v) : j <= i})

Paired(v, w) == {p \in Blocked(v) \X Blocked(w) : Rank(v, p[1]) = Rank(w, p[2])}

\* A search finds the peak of its number.
LEMMA SearchExact ==
    ASSUME NEW points, Ordered(points), NEW p \in Peaks(points), NEW behind
    PROVE  /\ Found(points, Number(points, p), behind) = p
           /\ Number(points, p) \in 1 .. Cardinality(Peaks(points))
           /\ Cardinality(Peaks(points)) \in Nat
<1> DEFINE n == Number(points, p)
<1>1. \A q \in Peaks(points) : Number(points, q) = n => q = p
  BY NumbersExact
<1>2. Found(points, n, behind) = p
  BY <1>1, Zenon DEF Found
<1> QED BY <1>2, NumbersExact

\* The search with the number of two passages pairs their peaks.
LEMMA PassagesPaired ==
    ASSUME NEW v \in Seq(0 .. 100), ShortPassages(v),
           NEW w \in Seq(0 .. 100), ShortPassages(w),
           FloorCutOff # 0, NEW m1, NEW m2, NEW behind1, NEW behind2,
           NEW c, Bell(c),
           NEW a \in Blocked(v), NEW b \in Blocked(w), Rank(v, a) = Rank(w, b)
    PROVE  LET pairs == PairPeaks(Points(Settle(v), m1), Points(Settle(w), m2),
                                  behind1, behind2)
           IN  /\ Rank(v, a) \in DOMAIN pairs
               /\ pairs[Rank(v, a)] = <<a + Extension - c, b + Extension - c>>
<1> DEFINE outer == Points(Settle(v), m1)
           inner == Points(Settle(w), m2)
           n == Rank(v, a)
           x == a + Extension - c
           y == b + Extension - c
<1>1. Ordered(outer) /\ Ordered(inner)
  BY SettledAt, PointsOrdered
<1>2. PICK p \in Peaks(outer) : p.time = x
  BY QuietPeaks
<1>3. PICK q \in Peaks(inner) : q.time = y
  BY QuietPeaks
<1>4. Number(outer, p) = n
  BY <1>2, QuietNumbers DEF Rank
<1>5. Number(inner, q) = n
  BY <1>3, QuietNumbers DEF Rank
<1> HIDE DEF outer, inner, n, x, y
<1>6. /\ Found(outer, n, behind1) = p /\ n \in 1 .. Cardinality(Peaks(outer))
      /\ Cardinality(Peaks(outer)) \in Nat
  BY <1>1, <1>2, <1>4, SearchExact
<1>7. /\ Found(inner, n, behind2) = q /\ n \in 1 .. Cardinality(Peaks(inner))
      /\ Cardinality(Peaks(inner)) \in Nat
  BY <1>1, <1>3, <1>5, SearchExact
<1>8. n \in 1 .. LastSearch(outer, inner)
  BY <1>6, <1>7 DEF LastSearch
<1>9. IsPeak(p) /\ IsPeak(q)
  BY DEF Peaks
<1>10. /\ n \in DOMAIN PairPeaks(outer, inner, behind1, behind2)
       /\ PairPeaks(outer, inner, behind1, behind2)[n] = <<p.time, q.time>>
  BY <1>6, <1>7, <1>8, <1>9, Zenon DEF PairPeaks
<1> QED BY <1>2, <1>3, <1>10 DEF outer, inner, n, x, y

\* Different pairs of passages have different numbers.
LEMMA PairsApart ==
    ASSUME NEW v \in Seq(0 .. 100), NEW w \in Seq(0 .. 100),
           NEW p \in Paired(v, w), NEW q \in Paired(v, w),
           Rank(v, p[1]) = Rank(v, q[1])
    PROVE  p = q
<1>1. ASSUME NEW u \in Seq(0 .. 100), NEW i \in Blocked(u), NEW j \in Blocked(u),
             Rank(u, i) = Rank(u, j)
      PROVE  i = j
  <2>1. Blocked(u) \in SUBSET (1 .. Len(u)) /\ Len(u) \in Nat
    BY DEF Blocked
  <2>2. Blocked(u) \in SUBSET Int
    BY <2>1
  <2>3. IsFiniteSet(Blocked(u))
    <3>1. IsFiniteSet(1 .. Len(u))
      BY <2>1, FS_Interval
    <3> QED BY <2>1, <3>1, FS_Subset
  <2> QED BY <1>1, <2>2, <2>3, RanksApart DEF Rank
<1>2. /\ p[1] \in Blocked(v) /\ p[2] \in Blocked(w) /\ p = <<p[1], p[2]>>
      /\ q[1] \in Blocked(v) /\ q[2] \in Blocked(w) /\ q = <<q[1], q[2]>>
      /\ Rank(v, p[1]) = Rank(w, p[2]) /\ Rank(v, q[1]) = Rank(w, q[2])
  BY DEF Paired
<1>3. p[1] = q[1]
  BY <1>1, <1>2, Zenon
<1>4. p[2] = q[2]
  BY <1>1, <1>2, Zenon
<1> QED BY <1>2, <1>3, <1>4, Zenon

\* In two quiet streams of short passages every pair of passages is counted in its
\* direction, and few people are made up.
LEMMA PassagesCounted ==
    ASSUME NEW v \in Seq(0 .. 100), ShortPassages(v),
           NEW w \in Seq(0 .. 100), ShortPassages(w), Paired(v, w) # {},
           FloorCutOff # 0, NEW m1, NEW m2,
           NEW behind1, NEW behind2, behind1.time \in Int, behind2.time \in Int,
           NEW c, Bell(c)
    PROVE  LET found == AnalyzeStreams(Points(Settle(v), m1), Points(Settle(w), m2),
                                       behind1, behind2)
               seen == MaxOf(Cardinality(Blocked(v)), Cardinality(Blocked(w)))
           IN  /\ found.ingoing >= Cardinality({p \in Paired(v, w) : p[1] < p[2]})
               /\ found.outgoing >= Cardinality({p \in Paired(v, w) : p[1] > p[2]})
               /\ PeopleIn(found) \in seen .. seen + Extension + 1
<1> DEFINE outer == Points(Settle(v), m1)
           inner == Points(Settle(w), m2)
           pairs == PairPeaks(outer, inner, behind1, behind2)
           found == AnalyzeStreams(outer, inner, behind1, behind2)
           all == DOMAIN pairs
           before == {n \in all : pairs[n][1] < pairs[n][2]}
           after == {n \in all : pairs[n][1] > pairs[n][2]}
           inward == {p \in Paired(v, w) : p[1] < p[2]}
           outward == {p \in Paired(v, w) : p[1] > p[2]}
           time(a) == a + Extension - c
<1>1. Ordered(outer) /\ Ordered(inner)
  BY SettledAt, PointsOrdered
<1>2. \A p \in Paired(v, w) :
         /\ p[1] \in Int /\ p[2] \in Int
         /\ p[1] \in Blocked(v) /\ p[2] \in Blocked(w)
         /\ Rank(v, p[1]) = Rank(w, p[2])
  BY DEF Paired, Blocked
<1>3. outer # {} /\ inner # {}
  <2>1. PICK p \in Paired(v, w) : TRUE
    OBVIOUS
  <2>2. /\ \E q \in Peaks(outer) : q.time = p[1] + Extension - c
        /\ \E q \in Peaks(inner) : q.time = p[2] + Extension - c
    BY <1>2, QuietPeaks
  <2> QED BY <2>2 DEF Peaks
<1>4. \A p \in Paired(v, w) :
         Rank(v, p[1]) \in all /\ pairs[Rank(v, p[1])] = <<time(p[1]), time(p[2])>>
  BY <1>2, PassagesPaired
<1>5. Extension \in Int /\ c \in Int
  BY FrameFacts DEF Bell
<1> HIDE DEF outer, inner, pairs
<1>6. /\ \A p \in inward : Rank(v, p[1]) \in before
      /\ \A p \in outward : Rank(v, p[1]) \in after
  <2>1. \A p \in Paired(v, w) :
           /\ Rank(v, p[1]) \in all
           /\ pairs[Rank(v, p[1])][1] = time(p[1]) /\ pairs[Rank(v, p[1])][2] = time(p[2])
    <3> SUFFICES ASSUME NEW p \in Paired(v, w)
                 PROVE  /\ Rank(v, p[1]) \in all
                        /\ pairs[Rank(v, p[1])][1] = time(p[1])
                        /\ pairs[Rank(v, p[1])][2] = time(p[2])
      BY Zenon
    <3> DEFINE n == Rank(v, p[1])
               x == time(p[1])
               y == time(p[2])
    <3>1. n \in all /\ pairs[n] = <<x, y>>
      BY <1>4
    <3> HIDE DEF n, x, y
    <3>2. pairs[n][1] = x /\ pairs[n][2] = y
      BY <3>1
    <3> QED BY <3>1, <3>2, Zenon DEF n, x, y
  <2>2. \A p \in Paired(v, w) : /\ p[1] < p[2] => time(p[1]) < time(p[2])
                                /\ p[1] > p[2] => time(p[1]) > time(p[2])
    <3>1. \A x, y \in Int : (x < y => time(x) < time(y)) /\ (x > y => time(x) > time(y))
      BY <1>5
    <3> HIDE DEF time
    <3> QED BY <1>2, <3>1, Zenon
  <2> HIDE DEF time
  <2> QED BY <2>1, <2>2, Zenon
<1>7. IsFiniteSet(before) /\ IsFiniteSet(after)
  <2>1. IsFiniteSet(all)
    BY <1>1, PairsFound DEF pairs
  <2>2. before \in SUBSET all /\ after \in SUBSET all
    OBVIOUS
  <2> QED BY <2>1, <2>2, FS_Subset
<1>8. /\ found.ingoing = Cardinality(before) /\ found.outgoing = Cardinality(after)
  BY <1>3 DEF AnalyzeStreams, PassageTriple, pairs
<1>9. ASSUME NEW S \in SUBSET Paired(v, w), NEW T, IsFiniteSet(T),
             \A p \in S : Rank(v, p[1]) \in T
      PROVE  Cardinality(T) >= Cardinality(S)
  <2> DEFINE f == [p \in S |-> Rank(v, p[1])]
  <2>1. f \in [S -> T]
    BY <1>9
  <2>2. \A p, q \in S : f[p] = f[q] => p = q
    BY PairsApart
  <2> HIDE DEF f
  <2>3. f \in Injection(S, T)
    BY <2>1, <2>2 DEF Injection, IsInjective
  <2>4. Cardinality(S) <= Cardinality(T) /\ IsFiniteSet(S)
    BY <1>9, <2>3, FS_Injection
  <2>5. Cardinality(S) \in Nat /\ Cardinality(T) \in Nat
    BY <1>9, <2>4, FS_CardinalityType
  <2> QED BY <2>4, <2>5
<1>10. inward \in SUBSET Paired(v, w) /\ outward \in SUBSET Paired(v, w)
  OBVIOUS
<1> HIDE DEF before, after, inward, outward
<1>11. found.ingoing >= Cardinality(inward) /\ found.outgoing >= Cardinality(outward)
  BY <1>6, <1>7, <1>8, <1>9, <1>10
<1> DEFINE m == Cardinality(Peaks(outer))
           n == Cardinality(Peaks(inner))
           i == Cardinality(Blocked(v))
           j == Cardinality(Blocked(w))
<1>12. i \in Nat /\ m \in i .. i + Extension /\ j \in Nat /\ n \in j .. j + Extension
  BY QuietCount DEF outer, inner
<1>13. PeopleIn(found) \in {MaxOf(m, n), MaxOf(m, n) + 1}
  BY <1>1, <1>3, PeopleCounted
<1> HIDE DEF m, n, i, j, found
<1>14. PeopleIn(found) \in MaxOf(i, j) .. MaxOf(i, j) + Extension + 1
  BY <1>5, <1>12, <1>13 DEF MaxOf
<1> QED BY <1>11, <1>14, Zenon DEF i, j, found, inward, outward, outer, inner

\* In quiet streams of short passages the k-th of the outer sensor is paired with
\* the k-th of the inner one and counted in the right direction, and what lies
\* behind the vectors hides none of them and adds few, for all weights that rise
\* to one of them and fall from there, as the code's normal distribution does
\* (blockanalyzer.cpp:118-319, 472-485).
THEOREM ShortPassagesExact ==
    ASSUME FloorCutOff # 0, NEW c, Bell(c)
    PROVE  MonitorSpec => []ShortPassagesCounted
<1>1. MonitorTypeOK => ShortPassagesCounted
  <2> SUFFICES ASSUME MonitorTypeOK PROVE ShortPassagesCounted
    OBVIOUS
  <2> DEFINE v == values[1]
             w == values[2]
             blocked == [s \in Sensors |-> Blocked(values[s])]
             Nth(s, i) == Cardinality({j \in blocked[s] : j <= i})
             paired == {p \in blocked[1] \X blocked[2] : Nth(1, p[1]) = Nth(2, p[2])}
             inward == {p \in paired : p[1] < p[2]}
             outward == {p \in paired : p[1] > p[2]}
             seen == MaxOf(Cardinality(blocked[1]), Cardinality(blocked[2]))
             Counted(found) ==
                 /\ found.ingoing >= Cardinality(inward)
                 /\ found.outgoing >= Cardinality(outward)
                 /\ PeopleIn(found) \in seen .. seen + Extension + 1
  <2>1. 1 \in Sensors /\ 2 \in Sensors
    BY DEF Sensors
  <2>2. v \in Seq(0 .. 100) /\ w \in Seq(0 .. 100)
    BY <2>1 DEF MonitorTypeOK
  <2>3. blocked[1] = Blocked(v) /\ blocked[2] = Blocked(w)
    BY <2>1
  <2> HIDE DEF blocked
  <2>4. paired = Paired(v, w)
    BY <2>3, Zenon DEF Paired, Rank
  <2>5. Settled[1] = Settle(v) /\ Settled[2] = Settle(w)
    BY <2>1 DEF Settled, Settle
  <2> HIDE DEF paired
  <2>6. ASSUME paired # {}, \A s \in Sensors : ShortPassages(values[s]),
               NEW memory \in Memories
        PROVE  Counted(Analyze(Settled, memory))
    <3> DEFINE found == AnalyzeStreams(Points(Settle(v), memory[1]),
                                       Points(Settle(w), memory[2]),
                                       memory[1].point, memory[2].point)
               both == MaxOf(Cardinality(Blocked(v)), Cardinality(Blocked(w)))
    <3>1. Analyze(Settled, memory) = found
      BY <2>5, Zenon DEF Analyze
    <3>2. memory[1].point.time \in Int /\ memory[2].point.time \in Int
      BY SensorAssumption
    <3>3. ShortPassages(v) /\ ShortPassages(w) /\ Paired(v, w) # {}
      BY <2>1, <2>4, <2>6
    <3> HIDE DEF v, w
    <3>4. /\ found.ingoing >= Cardinality({p \in Paired(v, w) : p[1] < p[2]})
          /\ found.outgoing >= Cardinality({p \in Paired(v, w) : p[1] > p[2]})
          /\ PeopleIn(found) \in both .. both + Extension + 1
      BY <2>2, <3>2, <3>3, PassagesCounted
    <3>5. seen = both
      BY <2>3, Zenon
    <3> HIDE DEF found, both, seen
    <3> QED BY <2>4, <3>1, <3>4, <3>5, Zenon
  <2> QED BY <2>6, Zenon DEF ShortPassagesCounted, paired, blocked
<1> QED BY <1>1, MonitorTypeCorrect, PTL
=============================================================================
