---------------------------- MODULE BlockAnalyzer ----------------------------
(***************************************************************************)
(* The monitoring session that counts the people who pass an open door:    *)
(* TailgateAnalyzer (tailgateanalyzer.cpp) over BlockAnalyzer              *)
(* (blockanalyzer.cpp).  Readings of the beam sensors are collected in a   *)
(* stream; the stream is analyzed and a new one is started after a long    *)
(* silence and at the end of the session, and the results of a session     *)
(* are the sum over its streams.                                           *)
(*                                                                         *)
(* A reading is its number since the process started; what the sensors saw *)
(* is abstracted to whether any of them saw something, and the result of   *)
(* an analysis to the stream it is of.                                     *)
(***************************************************************************)
EXTENDS Integers, Sequences

CONSTANTS
    ZeroCutOff,  \* zeroCutOff: so many dead readings end a stream
    MaxReadings  \* the model stops reading here

ASSUME CutOffAssumption == ZeroCutOff \in Nat \ {0} /\ MaxReadings \in Nat

VARIABLES
    sessionRunning, results,  \* TailgateAnalyzer
    monitoring, firstRun,     \* BlockAnalyzer
    rawStreams,               \* the readings in the stream
    zeroCount,
    blockages,                \* the streams analyzed, in order
    readings,                 \* history: how many readings were taken
    busy,                     \* history: those that were not dead
    begun, ended              \* history: readings before the last session
                              \* that began, and when it last ended

analyzer == <<monitoring, firstRun, rawStreams, zeroCount, blockages>>
history == <<readings, busy, begun, ended>>
vars == <<sessionRunning, results, analyzer, history>>

-----------------------------------------------------------------------------

\* The members results, rawStreams and zeroCount are not initialized; a
\* session writes each before it reads it.
Init ==
    /\ sessionRunning = FALSE /\ results = <<>>
    /\ monitoring = FALSE /\ firstRun = TRUE
    /\ rawStreams = {} /\ zeroCount = 0 /\ blockages = <<>>
    /\ readings = 0 /\ busy = {} /\ begun = 0 /\ ended = 0

\* analyze: nothing is added for an empty stream.
Analyzed(stream, done) == IF stream = {} THEN done ELSE Append(done, stream)

\* initializeStreams: analyze the stream, unless it is the first, and start
\* a new one.
InitializeStreams(stream, done) ==
    /\ firstRun' = FALSE
    /\ rawStreams' = {} /\ zeroCount' = 0
    /\ blockages' = IF firstRun THEN done ELSE Analyzed(stream, done)

\* Fault: the results of the session before are kept.
InitializeKeeping ==
    /\ firstRun' = FALSE
    /\ rawStreams' = {} /\ zeroCount' = 0
    /\ blockages' = IF firstRun THEN blockages ELSE Analyzed(rawStreams, blockages)

\* initialize: whatever a last analysis added is cleared.
Initialize ==
    /\ firstRun' = FALSE
    /\ rawStreams' = {} /\ zeroCount' = 0
    /\ blockages' = <<>>

\* TailgateAnalyzer::beginSession and beginMonitoringSession.
BeginSession ==
    /\ ~sessionRunning
    /\ sessionRunning' = TRUE /\ monitoring' = TRUE
    /\ Initialize
    /\ begun' = readings
    /\ UNCHANGED <<results, readings, busy, ended>>

\* Fault: the dead readings need not be in a row.
ZeroesInAll(dead) == IF dead THEN zeroCount + 1 ELSE zeroCount

\* How many dead readings there are in a row, with this one.
Zeroes(dead) == IF dead THEN zeroCount + 1 ELSE 0

\* Fault: > for >=.
SilentPast(zeroes) == zeroes > ZeroCutOff

\* A long period of dead readings.
Silent(zeroes) == zeroes >= ZeroCutOff

\* TailgateAnalyzer::update, BlockAnalyzer::update and sensorValueUpdate:
\* add a reading to the stream, and end the stream when it is the last of
\* so many dead ones.
Update(dead) ==
    /\ sessionRunning /\ monitoring /\ readings < MaxReadings
    /\ readings' = readings + 1
    /\ busy' = IF dead THEN busy ELSE busy \cup {readings + 1}
    /\ LET stream == rawStreams \cup {readings + 1}
       IN  IF Silent(Zeroes(dead))
           THEN InitializeStreams(stream, blockages)
           ELSE /\ rawStreams' = stream /\ zeroCount' = Zeroes(dead)
                /\ UNCHANGED <<firstRun, blockages>>
    /\ UNCHANGED <<sessionRunning, results, monitoring, begun, ended>>

\* Fault: the results are fetched before the last stream is analyzed.
FinishSessionTooSoon ==
    /\ sessionRunning
    /\ sessionRunning' = FALSE /\ monitoring' = FALSE
    /\ InitializeStreams(rawStreams, blockages)
    /\ results' = blockages
    /\ ended' = readings
    /\ UNCHANGED <<readings, busy, begun>>

\* TailgateAnalyzer::finishSession, endMonitoringSession and getResults.
FinishSession ==
    /\ sessionRunning
    /\ sessionRunning' = FALSE /\ monitoring' = FALSE
    /\ InitializeStreams(rawStreams, blockages)
    /\ results' = blockages'
    /\ ended' = readings
    /\ UNCHANGED <<readings, busy, begun>>

Next == BeginSession \/ FinishSession \/ \E dead \in BOOLEAN : Update(dead)

Spec == Init /\ [][Next]_vars

-----------------------------------------------------------------------------

FlagsOK ==
    /\ sessionRunning \in BOOLEAN /\ (monitoring <=> sessionRunning)
    /\ monitoring \in BOOLEAN /\ firstRun \in BOOLEAN
    /\ sessionRunning => ~firstRun

StreamsOK ==
    /\ readings \in 0 .. MaxReadings
    /\ begun \in 0 .. readings /\ ended \in 0 .. readings
    /\ busy \subseteq 1 .. readings
    /\ rawStreams \subseteq 1 .. readings
    /\ zeroCount \in 0 .. ZeroCutOff - 1
    /\ blockages \in Seq(SUBSET (1 .. readings))
    /\ results \in Seq(SUBSET (1 .. readings))

\* The two objects agree on whether a session runs, and a stream is cut at
\* the very reading that makes it silent: zeroCount is below the cut-off.
TypeOK == FlagsOK /\ StreamsOK

\* The streams done and the stream open hold every reading of the range once.
EachOnce(done, open, range) ==
    /\ \A k \in range : k \in open \/ \E i \in DOMAIN done : k \in done[i]
    /\ \A i \in DOMAIN done :
         /\ done[i] \subseteq range /\ done[i] \cap open = {}
         /\ \A j \in DOMAIN done : i # j => done[i] \cap done[j] = {}
    /\ open \subseteq range

\* No reading of a session is lost and none is analyzed twice, nor one of
\* another session, however often the stream was cut (lines 36-63, 432-467).
EachReadingAnalyzedOnce ==
    sessionRunning => EachOnce(blockages, rawStreams, begun + 1 .. readings)

\* What is reported after a session is the whole session and nothing else
\* (tailgateanalyzer.cpp:66-83).
ReportsWholeSession ==
    ~sessionRunning => EachOnce(results, {}, begun + 1 .. ended)

\* A passage is never cut in two: where one stream of a session ends and the
\* next begins, the sensors were silent for ZeroCutOff readings of the first
\* (lines 57-61 and 110-113).
CutOnlyInSilence ==
    sessionRunning =>
        \A i \in DOMAIN blockages : \A k \in blockages[i] :
            k + 1 \notin blockages[i] =>
                \A n \in 0 .. ZeroCutOff - 1 :
                    k - n \in blockages[i] /\ k - n \notin busy
=============================================================================
