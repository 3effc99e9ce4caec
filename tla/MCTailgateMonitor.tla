-------------------------- MODULE MCTailgateMonitor --------------------------
(***************************************************************************)
(* TailgateMonitor with a frame of three weights, so that one reading is   *)
(* dropped at each end of a stream, streams that end after three dead      *)
(* readings, and up to seven readings in any number of sessions: enough    *)
(* for two people who pass both beams one after the other in one stream.   *)
(* The beams are apart: one reading blocks at most one of them; they       *)
(* differ in what a blocked beam reads.  Behind the vectors lie zeros or   *)
(* the values of a blocked beam and a peak.                                *)
(***************************************************************************)
EXTENDS TailgateMonitor

MCWeights == <<1, 2, 1>>
MCScenes == {<<300, 0>>, <<700, 0>>, <<300, 450>>}

Everywhere(value, level) ==
    [raw |-> [k \in 0 .. Extension |-> value],
     floored |-> [k \in 0 .. MaxReadings + FrameSize |-> value],
     point |-> Point(0, level)]
Calm == <<Everywhere(0, 0), Everywhere(0, 0)>>
MCCalm == {Calm}
MCMemories == {Calm, <<Everywhere(61, 2), Everywhere(61, 2)>>}

\* The session saw one passage: the outer beam was blocked for some readings
\* and then the inner one, with silence before and after.
OneInwardPassage ==
    \E a, b, n \in Extension + 1 .. MaxReadings :
        /\ Blocked(values[1]) = a .. n /\ Blocked(values[2]) = n + 1 .. b
        /\ a <= n /\ n < b /\ b + 2 * Extension <= Len(values[1])

\* blockanalyzer.h:34-35, "From this, the class determines the number of
\* passages through the doorway and the probable direction of each passage",
\* with 28-29, "an object passing inward through the gateway will pass the
\* sensors in the same order": a session that saw one inward passage, and
\* whose stream was never cut, reports it.
InwardPassageCounted ==
    [][(sessionRunning /\ ~sessionRunning' /\ blockages = <<>> /\ OneInwardPassage)
        => passages' = PassageTriple(1, 0, 0)]_monitorVars
=============================================================================
