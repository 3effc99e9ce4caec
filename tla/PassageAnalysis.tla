--------------------------- MODULE PassageAnalysis ---------------------------
(***************************************************************************)
(* How BlockAnalyzer counts people in the streams of its two sensors       *)
(* (blockanalyzer.cpp:118-430): each stream is smoothed, cut into blocks   *)
(* and reduced to its peaks, and the peaks of the outer and the inner      *)
(* sensor are paired in order.                                             *)
(*                                                                         *)
(* Vectors are sequences whose first element has index 0 in the code.      *)
(* Some loops read past the end of a vector: At takes what they find from  *)
(* a function of the distance to the end.  The weights are integers, since *)
(* only the order of the smoothed values matters; the division by their    *)
(* sum, which keeps it, is left out.                                       *)
(***************************************************************************)
EXTENDS Integers, Sequences, FiniteSets

CONSTANTS
    Weights,     \* normalDistribution, scaled to integers
    FloorCutOff  \* floorCutOff: a smaller reading counts as zero

FrameSize == Len(Weights)
Extension == FrameSize \div 2

ASSUME WeightAssumption ==
    /\ Weights \in Seq(Nat \ {0}) /\ FrameSize % 2 = 1 /\ FrameSize > 1
    /\ FloorCutOff \in Nat

\* v[i], when behind says what the memory after the vector holds.
At(v, i, behind) == IF i < Len(v) THEN v[i + 1] ELSE behind[i - Len(v)]

SumOf(v) ==
    LET sum[n \in 0 .. Len(v)] == IF n = 0 THEN 0 ELSE sum[n - 1] + v[n]
    IN  sum[Len(v)]

-----------------------------------------------------------------------------

\* flooredRaw: zeros for both extensions, and then, from reading Extension
\* on and as far past the end, each reading below the cut-off as zero and
\* each other one if it has no such neighbour; the rest is skipped.
Floored(raw, memory) ==
    LET Reading(i) == At(raw, i, memory.raw)
        Low(i) == Reading(i) < FloorCutOff
        kept == {i \in Extension .. Extension + Len(raw) - 1 :
                    Low(i) \/ (Low(i - 1) /\ Low(i + 1))}
        Nth(n) == CHOOSE i \in kept : Cardinality({j \in kept : j <= i}) = n
        Value(i) == IF Low(i) THEN 0 ELSE Reading(i)
    IN  [k \in 1 .. 2 * Extension |-> 0] \o
        [n \in 1 .. Cardinality(kept) |-> Value(Nth(n))]

\* smoothStream: the weighted sum over the frame of each reading.
SmoothStream(raw, memory) ==
    LET floored == Floored(raw, memory)
        Weighted(i) == SumOf([j \in 1 .. FrameSize |->
                                 Weights[j] * At(floored, i + j - 2, memory.floored)])
    IN  [i \in DOMAIN raw |-> Weighted(i)]

\* isolateBlocks: where each block of positive values begins and ends.  No
\* value is negative, so that the flag high of the code says whether the value
\* before is positive.
IsolateBlocks(stream) ==
    LET Positive(i) == i \in 0 .. Len(stream) - 1 /\ stream[i + 1] > 0
    IN  {edges \in (0 .. Len(stream) - 1) \X (1 .. Len(stream)) :
            /\ edges[1] < edges[2]
            /\ ~Positive(edges[1] - 1) /\ ~Positive(edges[2])
            /\ \A i \in edges[1] .. edges[2] - 1 : Positive(i)}

Point(time, level) == [time |-> time, level |-> level]

\* The least member, if there is one.
First(S) == {i \in S : \A j \in S : i <= j}

\* The critical points of the block from a to b: the first peak above half
\* its average, before it the first value that is not above, and the end.
BlockPoints(stream, a, b) ==
    LET block == SubSeq(stream, a + 1, b)
        Above(j) == 2 * (b - a) * block[j + 1] > SumOf(block)
        Over(j, k) == k \notin 0 .. b - a - 1 \/ block[j + 1] > block[k + 1]
        peaks == {j \in 0 .. b - a - 1 : Above(j) /\ Over(j, j - 1) /\ Over(j, j + 1)}
        lows == {j \in 0 .. b - a - 1 : ~Above(j) /\ \A k \in peaks : j < k}
    IN  {Point(a + j, 1) : j \in First(lows)}
        \cup {Point(a + j, 2 + block[j + 1]) : j \in First(peaks)}
        \cup {Point(b, 0)}

\* simplifyStreams: the points of each block.  Their order is that of time.
SimplifyStream(stream, blocks) ==
    UNION {BlockPoints(stream, edges[1], edges[2]) : edges \in blocks}

-----------------------------------------------------------------------------

IsPeak(point) == point.level >= 2

Peaks(points) == {p \in points : IsPeak(p)}

\* The number of a peak among those of its stream.
Number(points, p) == Cardinality({q \in Peaks(points) : q.time <= p.time})

\* What the n-th search for a peak finds: the n-th peak or, if there is none,
\* what lies behind the points.
Found(points, n, behind) ==
    IF \E p \in Peaks(points) : Number(points, p) = n
    THEN CHOOSE p \in Peaks(points) : Number(points, p) = n
    ELSE behind

\* The last search in both streams is the first to pass the end of one.
LastSearch(outer, inner) ==
    LET m == Cardinality(Peaks(outer))
        n == Cardinality(Peaks(inner))
    IN  IF m < n THEN m + 1 ELSE n + 1

\* The searches that paired two peaks, with the times of these.  The last one
\* may take what lies behind the points for a peak.
PairPeaks(outer, inner, behind1, behind2) ==
    LET p(n) == Found(outer, n, behind1)
        q(n) == Found(inner, n, behind2)
    IN  [n \in {n \in 1 .. LastSearch(outer, inner) : IsPeak(p(n)) /\ IsPeak(q(n))} |->
            <<p(n).time, q(n).time>>]

\* The peaks from where the last search stopped.
Unpaired(points, last) == {p \in Peaks(points) : Number(points, p) >= last}

PassageTriple(ingoing, outgoing, unknown) ==
    [ingoing |-> ingoing, outgoing |-> outgoing, unknown |-> unknown]

\* Fault: the directions are exchanged.
AnalyzeStreamsSwapped(outer, inner, behind1, behind2) ==
    LET pairs == PairPeaks(outer, inner, behind1, behind2)
        last == LastSearch(outer, inner)
    IN  IF outer = {} \/ inner = {} THEN PassageTriple(0, 0, 0)
        ELSE PassageTriple(
                 Cardinality({n \in DOMAIN pairs : pairs[n][1] > pairs[n][2]}),
                 Cardinality({n \in DOMAIN pairs : pairs[n][1] < pairs[n][2]}),
                 Cardinality({n \in DOMAIN pairs : pairs[n][1] = pairs[n][2]})
                     + Cardinality(Unpaired(outer, last)) + Cardinality(Unpaired(inner, last)))

\* Fault: what was found for one sensor only is not counted.
AnalyzeStreamsPairs(outer, inner, behind1, behind2) ==
    LET pairs == PairPeaks(outer, inner, behind1, behind2)
    IN  PassageTriple(
            Cardinality({n \in DOMAIN pairs : pairs[n][1] < pairs[n][2]}),
            Cardinality({n \in DOMAIN pairs : pairs[n][1] > pairs[n][2]}),
            Cardinality({n \in DOMAIN pairs : pairs[n][1] = pairs[n][2]}))

\* analyzeStreams: a pair is an ingoing passage if the outer sensor peaks
\* first; what was found for one sensor only is an unknown passage.
AnalyzeStreams(outer, inner, behind1, behind2) ==
    LET pairs == PairPeaks(outer, inner, behind1, behind2)
        last == LastSearch(outer, inner)
    IN  IF outer = {} \/ inner = {} THEN PassageTriple(0, 0, 0)
        ELSE PassageTriple(
                 Cardinality({n \in DOMAIN pairs : pairs[n][1] < pairs[n][2]}),
                 Cardinality({n \in DOMAIN pairs : pairs[n][1] > pairs[n][2]}),
                 Cardinality({n \in DOMAIN pairs : pairs[n][1] = pairs[n][2]})
                     + Cardinality(Unpaired(outer, last)) + Cardinality(Unpaired(inner, last)))

\* The points of one sensor's stream.
Points(raw, memory) ==
    LET smoothed == SmoothStream(raw, memory)
    IN  SimplifyStream(smoothed, IsolateBlocks(smoothed))

\* analyze, for streams that are not empty.
Analyze(streams, memory) ==
    AnalyzeStreams(Points(streams[1], memory[1]), Points(streams[2], memory[2]),
                   memory[1].point, memory[2].point)
=============================================================================
