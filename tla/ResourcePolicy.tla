--------------------------- MODULE ResourcePolicy ----------------------------
(***************************************************************************)
(* The memory policy of src/resource.rs: what a valid snapshot is, which   *)
(* snapshot lets a run start, and when the watchdog's state machine trips. *)
(* Memory is counted in units of 512 MiB, in which every byte threshold of *)
(* the policy is a whole number.                                           *)
(***************************************************************************)
EXTENDS Integers, Sequences, FiniteSets

CONSTANTS
    ConsecutiveSamples,     \* SOFT_CONSECUTIVE_SAMPLES
    TrendWindow             \* SOFT_TREND_WINDOW_SAMPLES

ASSUME PolicyAssumption == ConsecutiveSamples \in Nat \ {0, 1} /\ TrendWindow \in Nat \ {0}

MinPrestartAvailable == 20
MinPrestartFree == 6
HardAvailable == 3
HardReclaimable == 1
HardCompressor == 70
HardCompanionAvailable == 8
SoftAvailable == 10
SoftReclaimable == 3
SoftCompressor == 55
SoftSwap == 8
SoftSwapGrowth == 2
RequiredSignals == 2

Snapshots ==
    [available : Nat, reclaimable : Nat, compressor : Nat, total : Nat,
     swapUsed : Nat, swapTotal : Nat]

\* ResourceSnapshot::validate.
Valid(s) ==
    /\ s.available <= 100
    /\ s.total # 0
    /\ s.reclaimable <= s.total
    /\ s.compressor <= s.total
    /\ s.swapUsed <= s.swapTotal

CompressorAtLeast(s, percent) == s.compressor * 100 >= s.total * percent

HardCompoundCompression(s) ==
    /\ CompressorAtLeast(s, HardCompressor)
    /\ \/ s.available <= HardCompanionAvailable
       \/ s.reclaimable < SoftReclaimable
       \/ s.swapUsed >= SoftSwap

\* evaluate_pre_start.
Admits(s) ==
    /\ s.available >= MinPrestartAvailable
    /\ s.reclaimable >= MinPrestartFree
    /\ ~HardCompoundCompression(s)

HardPressure(s) ==
    \/ s.available <= HardAvailable
    \/ s.reclaimable < HardReclaimable
    \/ HardCompoundCompression(s)

(***************************************************************************)
(* WatchdogState: the samples of swap in use that the trend is taken over, *)
(* and the number of consecutive samples with soft pressure.               *)
(***************************************************************************)
NewState == [soft |-> 0, window |-> <<>>]

Slide(window, swap) ==
    LET longer == Append(window, swap)
    IN  IF Len(longer) > TrendWindow THEN Tail(longer) ELSE longer

SwapGrowth(window, s) == Len(window) = TrendWindow /\ s.swapUsed - Head(window) >= SoftSwapGrowth

SoftSignals(window, s) ==
    {i \in 1..5 :
       \/ i = 1 /\ s.available < SoftAvailable
       \/ i = 2 /\ s.reclaimable < SoftReclaimable
       \/ i = 3 /\ CompressorAtLeast(s, SoftCompressor)
       \/ i = 4 /\ s.swapUsed >= SoftSwap
       \/ i = 5 /\ SwapGrowth(window, s)}

SoftPressure(window, s) == Cardinality(SoftSignals(window, s)) >= RequiredSignals

\* Mutant of Observe: the count of soft samples is not reset by a calm one.
ObserveCumulative(w, s) ==
    LET window == Slide(w.window, s.swapUsed)
        soft == IF SoftPressure(window, s) THEN w.soft + 1 ELSE w.soft
    IN  IF HardPressure(s)
        THEN [soft |-> w.soft, window |-> window, trip |-> "hard"]
        ELSE [soft |-> soft, window |-> window,
              trip |-> IF soft >= ConsecutiveSamples THEN "soft" ELSE "none"]

\* WatchdogState::observe: the state after a sample, and the trip it causes.
Observe(w, s) ==
    LET window == Slide(w.window, s.swapUsed)
        soft == IF SoftPressure(window, s) THEN w.soft + 1 ELSE 0
    IN  IF HardPressure(s)
        THEN [soft |-> w.soft, window |-> window, trip |-> "hard"]
        ELSE [soft |-> soft, window |-> window,
              trip |-> IF soft >= ConsecutiveSamples THEN "soft" ELSE "none"]
=============================================================================
