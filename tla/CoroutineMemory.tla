-------------------------- MODULE CoroutineMemory --------------------------
(***************************************************************************)
(* The scheduler with the percentile it asks how many stacks to keep:      *)
(* ScheduleTryReleaseMemory adds the number of live coroutines to the ring *)
(* and, once that is full, frees the stacks beyond the 99th percentile.    *)
(***************************************************************************)
EXTENDS Coroutine, Percentile

CONSTANTS PctNum, PctDen    \* the literal 0.99: 99 and 100 in the code

\* The literal is between 1/2 and 1, and all roundings of the percentile
\* together are less than 1 / PctDen.  In the code the product is about 2^31.
ASSUME MemoryAssumption ==
    /\ PctNum \in Nat /\ PctDen \in Nat
    /\ PctNum < PctDen /\ PctDen <= 2 * PctNum
    /\ 2 * PctDen * coroutineCnt * (max_stat_data_len_ + 1) < Significand

VARIABLES
    pct,        \* the ring of the key "activityCnt"
    window      \* history: what activityCnt was at the last calls

memoryVars == <<vars, pct, window>>

MemoryInit ==
    /\ Init
    /\ pct = EmptyRing
    /\ window = <<>>

\* The last values of a sequence that is one too long, or not.
Latest(values) ==
    IF Len(values) > max_stat_data_len_ THEN Tail(values) ELSE values

\* (int32_t)pctValue
P99(ring) == GetPercentile(ring, PctNum, PctDen) \div Significand

TryReleaseMemory ==
    LET ring == Stat(pct, activityCnt)
    IN  /\ pct' = ring
        /\ window' = Latest(Append(window, activityCnt))
        /\ IF Full(ring) THEN ScheduleTryReleaseMemory(P99(ring))
           ELSE MasterFree /\ UNCHANGED vars

MemoryNext ==
    \/ Calls /\ UNCHANGED <<pct, window>>
    \/ TryReleaseMemory

MemorySpec == MemoryInit /\ [][MemoryNext]_memoryVars

-----------------------------------------------------------------------------
\* What the percentile of the values may become once it is cut off: its whole
\* part, or, where it is a whole number that its double is just below, one less.
CutOff(values) ==
    LET exact == PercentileOf(values, PctNum, PctDen)
    IN  {exact \div PctDen, (exact - 1) \div PctDen}

\* However often the ring has wrapped, the percentile is that of the last
\* values: no older value has a part in it and no newer one is missing; and the
\* double arithmetic loses one stack at most, and only of a whole number.
PercentileOfWindow ==
    Full(pct) => Len(window) = max_stat_data_len_ /\ P99(pct) \in CutOff(window)

\* ScheduleTryReleaseMemory leaves at least as many stacks allocated as the
\* percentile of the last calls, cut off, asks for (or as there were), frees at
\* most MAX_RELEASE, and frees nothing before there are enough values.
ReleaseKeepsP99 ==
    [][TryReleaseMemory =>
          /\ \/ /\ Len(window') = max_stat_data_len_
                /\ P99(pct') \in CutOff(window')
                /\ Cardinality(Stacked') >= P99(pct')
             \/ Stacked' = Stacked
          /\ Cardinality(Stacked \ Stacked') <= MAX_RELEASE]_memoryVars
=============================================================================
