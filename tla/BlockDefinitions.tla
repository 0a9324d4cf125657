-------------------------- MODULE BlockDefinitions --------------------------
(***************************************************************************)
(* What some blocks are, said over the whole of their inputs: the reference  *)
(* that the step functions of ModuleKernels, which remember only a few       *)
(* fields, are checked against.                                              *)
(***************************************************************************)
EXTENDS ScanDifferential, FiniteSetsExt

\* The instant of the last inputs, and the inputs at an instant.
Now == Len(trace) - 1
At(i) == trace[i + 1]

\* The instants from which an input has been true without a break.
TrueSince == {s \in 0 .. Now : \A i \in s .. Now : At(i).in}

\* A pulse of a signal: true now and false before; a signal is false before the start.
Rises(signal(_), i) == signal(i) /\ (i = 0 \/ ~signal(i - 1))

Trigger(i) == At(i).trigger
Resets(i) == At(i).reset

\* The last of some instants, or -1.
Latest(S) == IF S = {} THEN -1 ELSE Max(S)

\* The sum of what arrived from one instant to another.
Total(first, last) == MapThenSumSet(LAMBDA i : At(i).in, first .. last)

\* True once true for the delay; a block that starts true has waited already.
DelayedTrue == \E s \in TrueSince : s = 0 \/ Now - s >= Delay

\* Seconds true, and whether they have reached the threshold; one of zero is reached from the
\* start until the input drops for the first time.
TrueFor ==
    IF TrueSince = {} THEN <<0, Threshold <= 0 /\ \A i \in 0 .. Now : ~At(i).in>>
    ELSE <<Now - Min(TrueSince), Now - Min(TrueSince) >= Threshold>>

\* The input at the last sample boundary, and at the one before.
Sampled == At(Index(Now) * SamplePeriod).in
SampledBefore == IF Now < SamplePeriod THEN 0 ELSE At((Index(Now) - 1) * SamplePeriod).in

\* The integral up to an instant since the last trigger, which sets it.
Integral(n) ==
    LET set == Latest({i \in 0 .. n : Rises(Trigger, i)})
    IN  Total(Larger(set + 1, 1), n) + (IF set < 0 THEN 0 ELSE At(set).reset_value)

\* The triggers up to an instant since the last reset; what is true at the start does not rise.
Count(n) ==
    LET changes == {i \in 1 .. n : Rises(Trigger, i) \/ Rises(Resets, i)}
        cleared == Latest({i \in changes : Resets(i)})
    IN  Cardinality({i \in changes : i > cleared})

\* The mean of the last window, or of what has passed of the first one.
WindowMean ==
    LET first == Larger(Now - Window, 0)
    IN  Mean(Total(first + 1, Now), Now - first, Now >= Window)

\* A kernel that keeps a few fields shows what its block is defined to show, at every scan and
\* whatever it saw before its inputs settled (kernels.py; the sums of IntegratorWithReset and
\* MovingAverage, the counts of OnCounter, the waits of TrueDelay and Timer).
MeetsDefinition ==
    samples # <<>> /\ trace # <<>> =>
        LET out == samples[Len(samples)].shadow
        IN  CASE kind = "true_delay" -> out = DelayedTrue
              [] kind = "timer" -> out = TrueFor
              [] kind = "sampler" -> out = Sampled
              [] kind = "unit_delay" -> out = SampledBefore
              [] kind = "integrator" -> out = Integral(Now - 1)
              [] kind = "on_counter" -> out = Count(Now - 1)
              [] kind = "moving_average" -> out = WindowMean
=============================================================================
