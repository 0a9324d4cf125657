--------------------------- MODULE ScanDifferential ---------------------------
(***************************************************************************)
(* One stateful block in the two engines that must agree on it: as a component *)
(* of the exported program, its kernel executed by the shadow runtime, and as a *)
(* block of the graph interpreter.  The differential of niagara/differential.py *)
(* runs both over the scans of an acceptance case and compares what they show.   *)
(*                                                                         *)
(* A component executes when its period has passed, with whatever its inputs    *)
(* show at that moment, and a sampling component once more when everything due   *)
(* at that instant has run (ModuleBlock.on_timer).  The interpreter evaluates    *)
(* once per scan, and once more without time passing when a phase of the case    *)
(* begins (run_generic_acceptance_suite).                                     *)
(***************************************************************************)
EXTENDS PlantPrograms

CONSTANTS
    Kind,           \* the kinds of blocks to compare
    Input(_),       \* what can arrive at a block of a kind
    TicksPerScan,   \* periods of a component in one scan: 1 is the scan-tick policy
    Horizon(_)      \* bound of the model: the last instant of a case with a block of a kind

VARIABLES
    kind, ticks,    \* the block compared, and the policy: fixed for a behaviour
    feed,           \* where its inputs come from.  "points": input points of the case, which
                    \* change when a phase begins; "blocks": blocks that tick before it, in a
                    \* case of one phase; "phases": such blocks, in a case of several phases;
                    \* "loop": a feedback loop that the block opens, in a case of one phase
    time, input,
    fresh,          \* a phase has begun and none of its scans has run
    kernel, memory, \* the block's fields in the two engines
    samples,        \* the last samples of a case, as far as a band reaches
    shown,          \* history: what a block with a minimum time shows, since when, and the
                    \* inputs it began with
    trace           \* history: the settled inputs at the instants 0, 1, ... of a block that
                    \* BlockDefinitions defines

vars == <<kind, ticks, feed, time, input, fresh, kernel, memory, samples, shown, trace>>

\* KernelBinding.resample
Resampled == {"unit_delay", "first_order_hold", "sampler", "trim_and_respond", "integrator",
              "on_counter"}

\* The kinds that are exported as a ProgramObject of their own, which is compared with the
\* interpreter step by step (tests/test_niagara_program_codegen.py).
Program == {"equipment", "plant_enable", "hrc_enable", "hrc_mode", "stage_completion",
            "stage_index"}

KernelStart(b) ==
    CASE b = "true_delay" -> TrueDelayStart
      [] b = "timer" -> TimerStart
      [] b = "timer_with_reset" -> TimerWithResetStart
      [] b = "timer_accumulating" -> TimerAccumulatingStart
      [] b = "true_false_hold" -> TrueFalseHoldStart
      [] b \in {"pre", "one_shot", "falling_edge"} -> PreviousStart
      [] b \in {"changed", "increased", "decreased"} -> ChangeStart
      [] b = "initialization" -> InitializationStart
      [] b = "set_reset" -> SetResetStart
      [] b = "hysteresis" -> HysteresisStart
      [] b = "sampler" -> SamplerStart
      [] b = "unit_delay" -> UnitDelayStart
      [] b = "first_order_hold" -> FirstOrderHoldStart
      [] b = "sample_trigger" -> SampleTriggerStart
      [] b = "integrator" -> IntegratorStart
      [] b = "on_counter" -> OnCounterStart
      [] b = "pid" -> PidStart
      [] b = "moving_average" -> MovingAverageStart
      [] b = "trim_and_respond" -> TrimAndRespondStart
      [] b = "equipment" -> EquipmentStart
      [] b = "plant_enable" -> PlantEnableStart
      [] b = "hrc_enable" -> HrcEnableStart
      [] b = "hrc_mode" -> HrcModeStart
      [] b = "stage_completion" -> CompletionStart
      [] b = "stage_index" -> StageStart

KernelStep(b, k, t, u) ==
    CASE b = "true_delay" -> TrueDelayStep(k, t, u)
      [] b = "timer" -> TimerStep(k, t, u)
      [] b = "timer_with_reset" -> TimerWithResetStep(k, t, u)
      [] b = "timer_accumulating" -> TimerAccumulatingStep(k, t, u)
      [] b = "true_false_hold" -> TrueFalseHoldStep(k, t, u)
      [] b = "pre" -> PreStep(k, t, u)
      [] b = "one_shot" -> RisingEdgeStep(k, t, u)
      [] b = "falling_edge" -> FallingEdgeStep(k, t, u)
      [] b = "changed" -> ChangedStep(k, t, u)
      [] b = "increased" -> IncreasedStep(k, t, u)
      [] b = "decreased" -> DecreasedStep(k, t, u)
      [] b = "initialization" -> InitializationStep(k, t, u)
      [] b = "set_reset" -> SetResetStep(k, t, u)
      [] b = "hysteresis" -> HysteresisStep(k, t, u)
      [] b = "sampler" -> SamplerStep(k, t, u)
      [] b = "unit_delay" -> UnitDelayStep(k, t, u)
      [] b = "first_order_hold" -> FirstOrderHoldStep(k, t, u)
      [] b = "sample_trigger" -> SampleTriggerStep(k, t, u)
      [] b = "integrator" -> IntegratorStep(k, t, u)
      [] b = "on_counter" -> OnCounterStep(k, t, u)
      [] b = "pid" -> PidStep(k, t, u)
      [] b = "moving_average" -> MovingAverageStep(k, t, u)
      [] b = "trim_and_respond" -> TrimAndRespondStep(k, t, u)
      [] b = "equipment" -> EquipmentStep(k, t, u)
      [] b = "plant_enable" -> PlantEnableStep(k, t, u)
      [] b = "hrc_enable" -> HrcEnableStep(k, t, u)
      [] b = "hrc_mode" -> HrcModeStep(k, t, u)
      [] b = "stage_completion" -> CompletionStep(k, t, u)
      [] b = "stage_index" -> StageStep(k, t, u)

BlockNew(b) ==
    CASE b = "true_delay" -> BooleanDelayNew
      [] b = "timer" -> TimerNew
      [] b = "timer_with_reset" -> TimerWithResetNew
      [] b = "timer_accumulating" -> TimerAccumulatingNew
      [] b = "true_false_hold" -> TrueFalseHoldNew
      [] b \in {"pre", "one_shot", "falling_edge"} -> PreviousNew
      [] b \in {"changed", "increased", "decreased"} -> ChangeNew
      [] b = "initialization" -> InitializationNew
      [] b = "set_reset" -> SetResetNew
      [] b = "hysteresis" -> HysteresisNew
      [] b = "sampler" -> NumericSamplerNew
      [] b = "unit_delay" -> NumericUnitDelayNew
      [] b = "first_order_hold" -> HoldNew
      [] b = "sample_trigger" -> BooleanTriggerNew
      [] b = "integrator" -> IntegratorNew
      [] b = "on_counter" -> CounterNew
      [] b = "pid" -> PidNew
      [] b = "moving_average" -> MeanNew
      [] b = "trim_and_respond" -> TrimNew
      [] b = "equipment" -> EquipmentNew
      [] b = "plant_enable" -> PlantEnableNew
      [] b = "hrc_enable" -> HrcNew
      [] b = "hrc_mode" -> HrcModeNew
      [] b = "stage_completion" -> CompletionNew
      [] b = "stage_index" -> StageNew

BlockScan(b, m, t, dt, u) ==
    CASE b = "true_delay" -> BooleanDelayScan(m, t, dt, u)
      [] b = "timer" -> TimerScan(m, t, dt, u)
      [] b = "timer_with_reset" -> TimerWithResetScan(m, t, dt, u)
      [] b = "timer_accumulating" -> TimerAccumulatingScan(m, t, dt, u)
      [] b = "true_false_hold" -> TrueFalseHoldScan(m, t, dt, u)
      [] b = "pre" -> PreScan(m, t, dt, u)
      [] b = "one_shot" -> OneShotScan(m, t, dt, u)
      [] b = "falling_edge" -> FallingEdgeScan(m, t, dt, u)
      [] b = "changed" -> ChangedScan(m, t, dt, u)
      [] b = "increased" -> IncreasedScan(m, t, dt, u)
      [] b = "decreased" -> DecreasedScan(m, t, dt, u)
      [] b = "initialization" -> InitializationScan(m, t, dt, u)
      [] b = "set_reset" -> SetResetScan(m, t, dt, u)
      [] b = "hysteresis" -> HysteresisScan(m, t, dt, u)
      [] b = "sampler" -> NumericSamplerScan(m, t, dt, u)
      [] b = "unit_delay" -> NumericUnitDelayScan(m, t, dt, u)
      [] b = "first_order_hold" -> HoldScan(m, t, dt, u)
      [] b = "sample_trigger" -> BooleanTriggerScan(m, t, dt, u)
      [] b = "integrator" -> IntegratorScan(m, t, dt, u)
      [] b = "on_counter" -> CounterScan(m, t, dt, u)
      [] b = "pid" -> PidScan(m, t, dt, u)
      [] b = "moving_average" -> MeanScan(m, t, dt, u)
      [] b = "trim_and_respond" -> TrimScan(m, t, dt, u)
      [] b = "equipment" -> EquipmentScan(m, t, dt, u)
      [] b = "plant_enable" -> PlantEnableScan(m, t, dt, u)
      [] b = "hrc_enable" -> HrcScan(m, t, dt, u)
      [] b = "hrc_mode" -> HrcModeScan(m, t, dt, u)
      [] b = "stage_completion" -> CompletionScan(m, t, dt, u)
      [] b = "stage_index" -> StageScan(m, t, dt, u)

\* What a block of a kind reads from its input ports.
Ports(b) ==
    CASE b \in {"true_delay", "timer", "true_false_hold", "pre", "one_shot", "falling_edge",
                "initialization"} -> [in : BOOLEAN]
      [] b \in {"timer_with_reset", "timer_accumulating"} -> [in : BOOLEAN, reset : BOOLEAN]
      [] b = "set_reset" -> [set : BOOLEAN, clear : BOOLEAN]
      [] b \in {"changed", "increased", "decreased", "hysteresis", "sampler", "unit_delay",
                "first_order_hold", "moving_average", "sample_trigger"} -> [in : Int]
      [] b = "integrator" -> [in : Int, reset_value : Int, trigger : BOOLEAN]
      [] b = "on_counter" -> [trigger : BOOLEAN, reset : BOOLEAN]
      [] b = "pid" -> [setpoint : Int, measurement : Int, trigger : BOOLEAN]
      [] b = "trim_and_respond" ->
            [request_count : Int, device_on : BOOLEAN, hold : BOOLEAN]
      [] b = "equipment" -> [heating : BOOLEAN, cooling : BOOLEAN, available : BOOLEAN]
      [] b = "plant_enable" -> [schedule : BOOLEAN, requests : Int, outdoor : Int]
      [] b = "hrc_enable" ->
            [cooling_plant : BOOLEAN, heating_plant : BOOLEAN, status : BOOLEAN,
             cooling_load : Int, heating_load : Int, chilled : Int, heating : Int,
             cooling_mode : BOOLEAN]
      [] b = "hrc_mode" -> [set_mode : BOOLEAN, cooling_load : Int, heating_load : Int]
      [] b = "stage_completion" ->
            [commands : SUBSET (Nat \ {0}), statuses : SUBSET (Nat \ {0}), stage : Nat]
      [] b = "stage_index" ->
            [lead : BOOLEAN, up : BOOLEAN, down : BOOLEAN, available : SUBSET (Nat \ {0})]

ASSUME KindAssumption ==
    Kind \subseteq {"true_delay", "timer", "timer_with_reset", "timer_accumulating",
        "true_false_hold", "pre", "one_shot", "falling_edge", "changed", "increased",
        "decreased", "initialization", "set_reset", "hysteresis", "sampler", "unit_delay",
        "first_order_hold", "sample_trigger", "integrator", "on_counter", "pid",
        "moving_average", "trim_and_respond"} \cup Program
ASSUME InputAssumption == \A b \in Kind : Input(b) \subseteq Ports(b)
ASSUME TicksAssumption == TicksPerScan \subseteq Nat \ {0}
ASSUME HorizonAssumption == \A b \in Kind : Horizon(b) \in Nat

-----------------------------------------------------------------------------
\* The interpreter's deferred blocks open a feedback loop.  All but the pre block sample twice
\* in the module; the pre block is the first of its loop to tick, and samples what its source
\* showed at the instant before, at the start nothing yet.  (A source that shows the same in
\* both engines: what the loop makes of the difference is not modelled.)
Opens == {"pre"}
Delivered(u) ==
    IF feed # "loop" THEN u ELSE IF time = Never THEN [in |-> FALSE] ELSE input

\* What a component may see at its tick before the blocks that feed it have settled.  A
\* component that samples once and opens no loop has the blocks that feed it before it in the
\* order of ticks, and every first-order hold has them before it in the order of the start.
\* The device of a trim-and-respond block is watched at each execution, not sampled.
Unsettled(b, t, u) ==
    CASE b = "trim_and_respond" -> {w \in Input(b) : w.device_on = u.device_on /\ w.hold = u.hold}
      [] b = "first_order_hold" /\ t = 0 -> {u}
      [] b \in Resampled \ {"trim_and_respond", "first_order_hold"} -> Input(b)
      [] b = "first_order_hold" /\ t # 0 -> Input(b)
      [] OTHER -> {u}

\* One instant of a component: its tick, and the second sample of the settled input.
Instant(b, k, t, w, u) ==
    IF b \in Resampled THEN KernelStep(b, KernelStep(b, k, t, w).mem, t, u)
                       ELSE KernelStep(b, k, t, u)

\* advance(): every tick up to the end of the scan.
Advanced(w, u) ==
    LET after[n \in 0 .. ticks] ==
            IF n = 0 THEN [out |-> <<>>, mem |-> kernel]
                     ELSE Instant(kind, after[n - 1].mem, time + n, w, u)
    IN  after[ticks]

Reach == 2 * ticks + 1

\* The blocks with a definition over their inputs (BlockDefinitions).
Defined == {"true_delay", "timer", "sampler", "unit_delay", "integrator", "on_counter",
            "moving_average"}

Traced(u) == IF feed = "blocks" /\ kind \in Defined THEN Append(trace, u) ELSE trace

\* The blocks with a minimum time (DwellTimes), and the output it is about.
Dwelling == {"true_false_hold", "equipment", "plant_enable", "hrc_enable", "stage_index"}

Noticed(out, u) ==
    LET value == IF kind = "hrc_enable" THEN out.enable ELSE out
    IN  IF kind \notin Dwelling \/ ticks # 1 \/ (time # Never /\ value = shown.value) THEN shown
        ELSE [value |-> value, since |-> time', cause |-> u]

Recent(s) == IF Len(s) > Reach THEN Tail(s) ELSE s

Init ==
    /\ kind \in Kind /\ ticks \in TicksPerScan
    /\ feed \in {"points", "blocks", "phases", "loop"}
    /\ feed # "points" => ticks = 1
    /\ kind \in Program => feed = "blocks"
    /\ feed = "loop" => kind \in Opens
    /\ time = Never
    /\ input \in Input(kind)
    /\ fresh = FALSE
    /\ kernel = KernelStart(kind) /\ memory = BlockNew(kind)
    /\ samples = <<>> /\ trace = <<>> /\ shown = <<>>

\* The first phase begins: the interpreter is primed with it, and the program starts with
\* its points at the first inputs.
Start ==
    /\ time = Never
    /\ time' = 0 /\ fresh' = TRUE /\ trace' = Traced(input)
    /\ \E w \in Unsettled(kind, 0, input) :
        LET shadow == Instant(kind, kernel, 0, w, Delivered(input))
        IN  kernel' = shadow.mem /\ shown' = Noticed(shadow.out, input)
    /\ memory' = BlockScan(kind, memory, 0, 0, input).mem
    /\ UNCHANGED <<kind, ticks, feed, input, samples>>

\* A later phase begins: its inputs are written to the points, which no component executes
\* for, and the interpreter is primed with them, a block fed by blocks with what they make of
\* them.
Phase(u) ==
    /\ time # Never /\ ~fresh /\ feed \in {"points", "phases"}
    /\ input' = u /\ fresh' = TRUE
    /\ memory' = BlockScan(kind, memory, time, 0, u).mem
    /\ UNCHANGED <<kind, ticks, feed, time, kernel, samples, shown, trace>>

\* A scan: the runtime advances, the interpreter evaluates, both are sampled.
Scan(u) ==
    /\ time # Never /\ time + ticks <= Horizon(kind)
    /\ feed = "points" => u = input
    /\ input' = u /\ time' = time + ticks /\ fresh' = FALSE /\ trace' = Traced(u)
    /\ \E w \in Unsettled(kind, time + 1, u) :
        LET shadow == Advanced(w, Delivered(u))
            block == BlockScan(kind, memory, time + ticks, ticks, u)
        IN  /\ kernel' = shadow.mem /\ memory' = block.mem
            /\ shown' = Noticed(shadow.out, u)
            /\ samples' = Recent(Append(samples, [shadow |-> shadow.out, block |-> block.out]))
    /\ UNCHANGED <<kind, ticks, feed>>

Next == Start \/ \E u \in Input(kind) : Phase(u) \/ Scan(u)

Spec == Init /\ [][Next]_vars

-----------------------------------------------------------------------------
(* Properties *)

TypeOK ==
    /\ kind \in Kind /\ ticks \in TicksPerScan
    /\ feed \in {"points", "blocks", "phases", "loop"}
    /\ time \in {Never} \cup 0 .. Horizon(kind)
    /\ input \in Input(kind) /\ fresh \in BOOLEAN
    /\ Len(samples) <= Reach + 1 /\ Len(trace) <= Horizon(kind) + 1

\* The kinds that the interpreter evaluates again at the same instant to no effect: they go by
\* a clock, or by having run at all.
Clocked == {"initialization", "sampler", "unit_delay", "first_order_hold", "sample_trigger"}

\* In a case of one phase a block that opens no feedback loop, and is fed by blocks that tick
\* before it, shows the same in both engines at every scan, whatever it saw at its ticks before
\* they settled: the two implementations of a block are one, and a second execution at an
\* instant recomputes what the first one did.  A later phase begins with an evaluation of the
\* interpreter alone, and only blocks that go by a clock agree after it.  (kernels.py and the
\* programs of niagara_program_codegen.py against simulator.py; for a loop see LoopLags.)
Agree ==
    (feed = "blocks" \/ (feed = "phases" /\ kind \in Clocked)) /\ samples # <<>> =>
        samples[Len(samples)].shadow = samples[Len(samples)].block

\* A pre block that opens a feedback loop is one scan behind the interpreter's, of the same
\* source: it shows at a scan what that one showed at the scan before, no more and no less
\* (docs/niagara-semantics.md, decisions 011 and 015: the lag that the scan bands allow for).
LoopLags ==
    LET last == Len(samples)
    IN  feed = "loop" /\ last > 1 => samples[last].shadow = samples[last - 1].block

\* The kinds judged by the band: those that show a level that is exact in both engines.  Not
\* an edge, which is a pulse and is spent on the evaluation that begins a phase; not the two
\* kinds that keep a difference of one scan for good, an accumulating timer and a hold (README,
\* section 6); and not a number that one scan of time changes by more than nothing.
Level == {"true_delay", "timer", "timer_with_reset", "pre", "initialization", "set_reset",
          "hysteresis", "sampler", "unit_delay", "on_counter"}

Judged(b, out) ==
    IF b \in {"timer", "timer_with_reset"} THEN out[2] ELSE out

\* _pure_funnel with a value tolerance of zero: a sample of the program equals one of the
\* interpreter at most so many scans away.  The band is one scan for a component that
\* ticks once per scan and two for the default policy.
InBand ==
    LET band == ticks
        middle == Len(samples) - band
        near == {i \in 1 .. Len(samples) : i - middle \in (0 - band) .. band}
    IN  feed = "points" /\ kind \in Level /\ middle >= 1 =>
            \E i \in near :
                Judged(kind, samples[i].block) = Judged(kind, samples[middle].shadow)

\* A time between two changes of what a block shows is never shorter than the block's minimum:
\* a hold keeps its output, a plant and a stage run and rest their time, a chiller that has
\* stopped waits and then delays, and equipment that was switched off stays unavailable.  Only
\* a stage that has become unavailable is left at once.
Waits(before, value) ==
    CASE kind = "true_false_hold" -> IF before.value THEN TrueHold ELSE FalseHold
      [] kind = "plant_enable" -> Plant.minimum_state_time
      [] kind = "hrc_enable" -> IF value THEN Plant.minimum_state_time + Plant.enable_delay ELSE 0
      [] kind = "equipment" -> IF before.value = <<FALSE, FALSE>> /\ before.cause.available
                               THEN Plant.off_time ELSE 0
      [] kind = "stage_index" -> IF before.value = 0 \/ before.value \notin input'.available
                                 THEN 0 ELSE Plant.minimum_runtime

DwellTimes ==
    [][shown # <<>> /\ shown'.value # shown.value =>
            shown'.since - shown.since >= Waits(shown, shown'.value)]_vars

\* The chiller, whose latch is set and reset on edges, never runs at a scan at which one of
\* the plants it needs is disabled, and never changes its mode while it runs.
ChillerPermitted ==
    kind = "hrc_enable" /\ samples # <<>> =>
        LET out == samples[Len(samples)].shadow
        IN  /\ out.enable => input.cooling_plant /\ input.heating_plant
            /\ ~(out.enable /\ out.set_mode)
=============================================================================
