--------------------------- MODULE TailgateMonitor ---------------------------
(***************************************************************************)
(* A monitoring session with what the sensors see: BlockAnalyzer keeps the *)
(* streams, MCP3008BlockSensor produces their values and PassageAnalysis   *)
(* counts the people in each stream.  Every step is a step of              *)
(* BlockAnalyzer, with the data it abstracts from.                         *)
(***************************************************************************)
EXTENDS BlockAnalyzer, PassageAnalysis, MCP3008BlockSensor

CONSTANTS
    Scenes,    \* pairs of readings of the converter
    Memories   \* what can lie behind the vectors, for the pair of streams

ASSUME SensorAssumption ==
    /\ Scenes \subseteq [{1, 2} -> Readings10Bit] /\ Memories # {}
    /\ \A memory \in Memories, s \in {1, 2} : memory[s].point.time \in Nat

VARIABLES
    sensors,   \* the two sensors, the outer one first
    values,    \* rawStreams, by sensor
    triples,   \* blockages: the passages found in each stream analyzed
    passages   \* TailgateAnalyzer::results, as a count

data == <<sensors, values, triples, passages>>
monitorVars == <<vars, data>>

Sensors == {1, 2}
NoReadings == [s \in Sensors |-> <<>>]

\* BlockAnalyzer::getResults: the sum over the streams.
Totals(found) ==
    PassageTriple(SumOf([i \in DOMAIN found |-> found[i].ingoing]),
                  SumOf([i \in DOMAIN found |-> found[i].outgoing]),
                  SumOf([i \in DOMAIN found |-> found[i].unknown]))

-----------------------------------------------------------------------------

\* The members the sensors and the sums go to are written before they are
\* read.
MonitorInit ==
    /\ Init
    /\ sensors = [s \in Sensors |-> BlankSensor]
    /\ values = NoReadings /\ triples = <<>>
    /\ passages = PassageTriple(0, 0, 0)

\* initializeStreams: the streams are analyzed, unless they are the first
\* or empty, and new ones are started.
RestartStreams(streams) ==
    /\ values' = NoReadings
    /\ IF firstRun \/ streams = NoReadings
       THEN UNCHANGED triples
       ELSE \E memory \in Memories : triples' = Append(triples, Analyze(streams, memory))

\* beginSession: the streams since the last session are analyzed, being
\* empty, and what was found is cleared.
BeginMonitoring ==
    /\ BeginSession
    /\ values' = NoReadings /\ triples' = <<>>
    /\ UNCHANGED <<sensors, passages>>

\* update: both sensors are read, each value goes to the sensor's stream,
\* and the streams are restarted when they have been silent for long.
Sample(reading) ==
    LET read == [s \in Sensors |-> GetSensorValue(sensors[s], reading[s])]
        streams == [s \in Sensors |-> Append(values[s], read[s].iValue)]
        dead == \A s \in Sensors : read[s].iValue = 0
    IN  /\ Update(dead)
        /\ sensors' = read
        /\ IF Silent(Zeroes(dead)) THEN RestartStreams(streams)
           ELSE values' = streams /\ UNCHANGED triples
        /\ UNCHANGED passages

\* finishSession: the last streams are analyzed and the sum is fetched.
FinishMonitoring ==
    /\ FinishSession
    /\ RestartStreams(values)
    /\ passages' = Totals(triples')
    /\ UNCHANGED sensors

MonitorNext ==
    \/ BeginMonitoring \/ FinishMonitoring
    \/ \E reading \in Scenes : Sample(reading)

MonitorSpec == MonitorInit /\ [][MonitorNext]_monitorVars

-----------------------------------------------------------------------------

MaxOf(m, n) == IF m > n THEN m ELSE n

Triples == [ingoing : Nat, outgoing : Nat, unknown : Nat]

\* The values of the open streams are those of their readings, and every
\* stream analyzed has its triple.
MonitorTypeOK ==
    /\ TypeOK
    /\ sensors \in [Sensors -> [mValue : Readings10Bit, iValue : 0 .. 100]]
    /\ values \in [Sensors -> Seq(0 .. 100)]
    /\ \A s \in Sensors : Len(values[s]) = Cardinality(rawStreams)
    /\ triples \in Seq(Triples) /\ Len(triples) = Len(blockages)
    /\ passages \in Triples

\* A sensor never answers from a stale cache, and floorCutOff never cuts
\* anything off: the conversion to whole volts leaves no value between 0
\* and it (mcp3008blocksensor.cpp:48-67, blockanalyzer.cpp:118-146).
NoFaintReading ==
    \A s \in Sensors :
        /\ sensors[s].iValue = Mapped(sensors[s].mValue)
        /\ \A i \in DOMAIN values[s] : values[s][i] = 0 \/ values[s][i] >= FloorCutOff

PeopleIn(t) == t.ingoing + t.outgoing + t.unknown

\* Whatever the search for pairs reads past the end, a peak of one sensor
\* counts for one person together with a peak of the other or alone, and at
\* most one person is made up; with a sensor that saw nothing nobody is
\* counted (blockanalyzer.cpp:231-304).
PeaksCountedOnce ==
    \A memory \in Memories :
        values # NoReadings =>
            LET points == [s \in Sensors |-> Points(values[s], memory[s])]
                most == MaxOf(Cardinality(Peaks(points[1])), Cardinality(Peaks(points[2])))
                people == PeopleIn(AnalyzeStreams(points[1], points[2],
                                       memory[1].point, memory[2].point))
            IN  IF \E s \in Sensors : points[s] = {} THEN people = 0
                ELSE people \in {most, most + 1}

Blocked(stream) == {i \in DOMAIN stream : stream[i] >= FloorCutOff}

\* A stream of short passages: each takes one reading, they are so far
\* apart that the smoothed ones do not touch, and none is where the
\* beginning of the stream is skipped.
ShortPassages(stream) ==
    \A i \in Blocked(stream) :
        /\ i > Extension
        /\ \A j \in Blocked(stream) : i < j => j - i > 2 * Extension + 1

\* The streams if nothing passes for a while from here on.
Settled == [s \in Sensors |-> values[s] \o [k \in 1 .. 3 * Extension |-> 0]]

\* In quiet streams of short passages the k-th of the outer sensor is paired
\* with the k-th of the inner one and counted in the right direction, and
\* what lies behind the vectors hides none of them and adds few
\* (blockanalyzer.cpp:118-319).
ShortPassagesCounted ==
    LET blocked == [s \in Sensors |-> Blocked(values[s])]
        Nth(s, i) == Cardinality({j \in blocked[s] : j <= i})
        paired == {p \in blocked[1] \X blocked[2] : Nth(1, p[1]) = Nth(2, p[2])}
        inward == {p \in paired : p[1] < p[2]}
        outward == {p \in paired : p[1] > p[2]}
        seen == MaxOf(Cardinality(blocked[1]), Cardinality(blocked[2]))
    IN  (paired # {} /\ \A s \in Sensors : ShortPassages(values[s])) =>
            \A memory \in Memories :
                LET found == Analyze(Settled, memory)
                IN  /\ found.ingoing >= Cardinality(inward)
                    /\ found.outgoing >= Cardinality(outward)
                    /\ PeopleIn(found) \in seen .. seen + Extension + 1
=============================================================================
