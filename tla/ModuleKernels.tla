---------------------------- MODULE ModuleKernels ----------------------------
(***************************************************************************)
(* The kernels of the bactalkG36 components (niagara/shadow/kernels.py).    *)
(*                                                                         *)
(* For a kernel K, KStart is what reset() leaves and KStep(k, t, u) is one   *)
(* call of step() at the time t, in seconds since the component started,     *)
(* with the inputs u: the outputs and the new fields.  Times are integers,    *)
(* so a comparison within 1e-9 is an equality, and a component starts at 0,   *)
(* so the first sample boundary (t0) is 0.  The derivative part of the PID,   *)
(* the slew rate limiter and the wet bulb are left out.                      *)
(***************************************************************************)
EXTENDS Integers, Sequences

CONSTANTS
    Delay,          \* delaySeconds of TrueDelay
    Threshold,      \* thresholdSeconds of the timers
    TrueHold, FalseHold,
    SamplePeriod,   \* of UnitDelay, FirstOrderHold, Sampler, SampleTrigger
    Shift,          \* shiftSeconds of SampleTrigger
    Window,         \* windowSeconds of MovingAverage
    Low, High,      \* limits of Hysteresis, and yMin and yMax of the PID
    Trim            \* the parameters of TrimAndRespond, a record

ASSUME DelayAssumption ==
    Delay \in Int /\ Threshold \in Int /\ TrueHold \in Int /\ FalseHold \in Int
ASSUME PeriodAssumption ==
    SamplePeriod \in Nat \ {0} /\ Window \in Nat \ {0} /\ Shift \in Int
ASSUME TrimAssumption == Trim.delay \in Int

Never == -1         \* math.nan of a time field

Smaller(a, b) == IF a < b THEN a ELSE b
Larger(a, b) == IF a > b THEN a ELSE b
Clamp(low, x, high) == Larger(low, Smaller(high, x))
Size(a) == Larger(a, 0 - a)

Ran(out, mem) == [out |-> out, mem |-> mem]

-----------------------------------------------------------------------------
(* Timers *)

\* Without delay_on_init: a block that has it is exported as a stock delay, not as this kernel
\* (lowering.py, classify_block).
TrueDelayStart == [initialized |-> FALSE, previous |-> FALSE, held |-> FALSE,
                   timer |-> 0, at |-> Never]

TrueDelayStep(k, t, u) ==
    LET waited == k.timer + t - k.at
        out == /\ u.in
               /\ \/ ~k.initialized \/ k.held
                  \/ IF k.previous THEN waited >= Delay ELSE Delay <= 0
        timer == IF ~u.in THEN 0
                 ELSE IF ~k.initialized \/ k.held THEN Delay
                 ELSE IF k.previous THEN waited ELSE 0
    IN  Ran(out, [initialized |-> TRUE, previous |-> u.in, held |-> out,
                  timer |-> timer, at |-> t])

TimerStart == [initialized |-> FALSE, previous |-> FALSE, entry |-> 0,
               passed |-> Threshold <= 0]

TimerStep(k, t, u) ==
    LET elapsed == IF u.in /\ k.initialized /\ k.previous THEN t - k.entry ELSE 0
        passed == IF u.in
                  THEN IF k.previous THEN k.passed \/ elapsed >= Threshold
                                     ELSE Threshold <= 0
                  ELSE k.passed /\ ~k.previous
    IN  Ran(<<elapsed, passed>>,
            [initialized |-> TRUE, previous |-> u.in, passed |-> passed,
             entry |-> IF u.in /\ (~k.initialized \/ ~k.previous) THEN t ELSE k.entry])

TimerWithResetStart == [initialized |-> FALSE, previous |-> FALSE, reset |-> FALSE,
                        entry |-> 0, passed |-> FALSE]

TimerWithResetStep(k, t, u) ==
    LET rises == (u.in /\ ~k.previous) \/ (u.reset /\ ~k.reset)
        entry == IF ~k.initialized \/ rises THEN t ELSE k.entry
        passed == IF ~k.initialized \/ rises THEN u.in /\ Threshold <= 0
                  ELSE IF u.in /\ t >= k.entry + Threshold THEN TRUE
                  ELSE k.passed /\ ~(~u.in /\ k.previous)
    IN  Ran(<<IF u.in /\ k.initialized THEN t - entry ELSE 0, passed>>,
            [initialized |-> TRUE, previous |-> u.in, reset |-> u.reset,
             entry |-> entry, passed |-> passed])

TimerAccumulatingStart == [initialized |-> FALSE, previous |-> FALSE, reset |-> FALSE,
                           elapsed |-> 0, passed |-> Threshold <= 0, at |-> Never]

TimerAccumulatingStep(k, t, u) ==
    LET restarts == k.initialized /\ u.reset /\ ~k.reset
        counts == k.initialized /\ ~restarts
        elapsed == IF restarts THEN 0
                   ELSE IF counts /\ k.previous THEN k.elapsed + (t - k.at)
                   ELSE k.elapsed
        passed == IF restarts THEN Threshold <= 0
                  ELSE k.passed \/ (counts /\ u.in /\ elapsed >= Threshold)
    IN  Ran(<<elapsed, passed>>,
            [initialized |-> TRUE, previous |-> u.in, reset |-> u.reset,
             elapsed |-> elapsed, passed |-> passed, at |-> t])

TrueFalseHoldStart == [initialized |-> FALSE, held |-> FALSE, elapsed |-> 0, at |-> Never]

\* Mutant: a change of the output does not restart the time.
TrueFalseHoldStepKept(k, t, u) ==
    LET elapsed == k.elapsed + (t - k.at)
        required == Larger(0, IF k.held THEN TrueHold ELSE FalseHold)
        turns == ~k.initialized \/ (u.in # k.held /\ elapsed >= required)
    IN  Ran(IF turns THEN u.in ELSE k.held,
            [initialized |-> TRUE, held |-> IF turns THEN u.in ELSE k.held, at |-> t,
             elapsed |-> IF k.initialized THEN elapsed ELSE 0])

TrueFalseHoldStep(k, t, u) ==
    LET elapsed == k.elapsed + (t - k.at)
        required == Larger(0, IF k.held THEN TrueHold ELSE FalseHold)
        turns == ~k.initialized \/ (u.in # k.held /\ elapsed >= required)
        held == IF turns THEN u.in ELSE k.held
    IN  Ran(held, [initialized |-> TRUE, held |-> held, at |-> t,
                   elapsed |-> IF turns THEN 0 ELSE elapsed])

-----------------------------------------------------------------------------
(* The previous execution: Pre, edges, changes, latches *)

PreviousStart == [previous |-> FALSE]

(* Mutant: the input passes at once. *)
PreStepCurrent(k, t, u) == Ran(u.in, [previous |-> u.in])

PreStep(k, t, u) == Ran(k.previous, [previous |-> u.in])
RisingEdgeStep(k, t, u) == Ran(u.in /\ ~k.previous, [previous |-> u.in])
FallingEdgeStep(k, t, u) == Ran(k.previous /\ ~u.in, [previous |-> u.in])

ChangeStart == [previous |-> 0]
ChangedStep(k, t, u) == Ran(u.in # k.previous, [previous |-> u.in])
IncreasedStep(k, t, u) == Ran(u.in > k.previous, [previous |-> u.in])
DecreasedStep(k, t, u) == Ran(u.in < k.previous, [previous |-> u.in])

InitializationStart == [first |-> TRUE]
InitializationStep(k, t, u) == Ran(~k.first /\ u.in, [first |-> FALSE])

SetResetStart == [output |-> FALSE, set |-> FALSE]
\* Mutant: the set input is taken as a level.
SetResetStepLevel(k, t, u) ==
    LET output == ~u.clear /\ (u.set \/ k.output)
    IN  Ran(output, [output |-> output, set |-> u.set])

SetResetStep(k, t, u) ==
    LET output == ~u.clear /\ ((u.set /\ ~k.set) \/ k.output)
    IN  Ran(output, [output |-> output, set |-> u.set])

HysteresisStart == [output |-> FALSE]
HysteresisStep(k, t, u) ==
    LET output == IF k.output THEN u.in >= Low ELSE u.in > High
    IN  Ran(output, [output |-> output])

-----------------------------------------------------------------------------
(* Sampling: at a boundary the last input of the instant is the sample *)

Index(t) == t \div SamplePeriod
OnBoundary(k, t) == t = k.index * SamplePeriod

SamplerStart == [initialized |-> FALSE, held |-> 0, index |-> 0]
\* Mutant: what an instant sampled first stays.
SamplerStepOnce(k, t, u) ==
    LET samples == ~k.initialized \/ Index(t) > k.index
        held == IF samples THEN u.in ELSE k.held
    IN  Ran(held, [initialized |-> TRUE, held |-> held,
                   index |-> Larger(k.index, Index(t))])

SamplerStep(k, t, u) ==
    LET samples == ~k.initialized \/ Index(t) > k.index \/ OnBoundary(k, t)
        held == IF samples THEN u.in ELSE k.held
    IN  Ran(held, [initialized |-> TRUE, held |-> held,
                   index |-> Larger(k.index, Index(t))])

UnitDelayStart == [initialized |-> FALSE, held |-> 0, staged |-> 0, index |-> 0]
UnitDelayStep(k, t, u) ==
    LET due == k.initialized /\ Index(t) > k.index
        index == Larger(k.index, Index(t))
        held == IF due THEN k.staged ELSE k.held
    IN  Ran(held, [initialized |-> TRUE, held |-> held, index |-> index,
                   staged |-> IF due \/ t = index * SamplePeriod THEN u.in ELSE k.staged])

\* The slope is kept as the rise over one period: the output between samples is
\* before + rise * (t - at) / SamplePeriod.
FirstOrderHoldStart == [initialized |-> FALSE, sample |-> 0, before |-> 0, rise |-> 0,
                        index |-> 0, at |-> 0]

Rise(t, from, to) == IF 2 * t <= SamplePeriod THEN 0 ELSE to - from
Extrapolated(k, t) == k.before * SamplePeriod + k.rise * (t - k.at)

FirstOrderHoldStep(k, t, u) ==
    LET due == Index(t) > k.index
    IN  IF ~k.initialized
        THEN Ran(u.in * SamplePeriod,
                 [initialized |-> TRUE, sample |-> u.in, before |-> u.in, rise |-> 0,
                  index |-> Index(t), at |-> 0])
        ELSE Ran(IF due THEN k.sample * SamplePeriod ELSE Extrapolated(k, t),
                 IF due THEN [k EXCEPT !.index = Index(t), !.at = t, !.sample = u.in,
                                       !.before = k.sample,
                                       !.rise = Rise(t, k.sample, u.in)]
                 ELSE IF t = k.at THEN [k EXCEPT !.sample = u.in,
                                                 !.rise = Rise(t, k.before, u.in)]
                 ELSE k)

\* phase_seconds
Offset == Shift - (Shift \div SamplePeriod) * SamplePeriod
SampleTriggerStart == [index |-> -1]
SampleTriggerStep(k, t, u) ==
    LET index == (t - Offset) \div SamplePeriod
    IN  Ran(index > k.index, [index |-> Larger(index, k.index)])

-----------------------------------------------------------------------------
(* What the previous instant left: integrator and counter recompute *)

IntegratorStart == [state |-> 0, time |-> Never, trigger |-> FALSE, instant |-> Never,
                    was |-> [state |-> 0, time |-> Never, trigger |-> FALSE]]

\* Mutant: a second execution at an instant integrates on.
IntegratorStepTwice(k, t, u) ==
    LET was == [state |-> k.state, time |-> k.time, trigger |-> k.trigger]
        dt == IF was.time = Never THEN 0 ELSE t - was.time
    IN  Ran(was.state,
            [state |-> IF u.trigger /\ ~was.trigger THEN u.reset_value
                                                   ELSE was.state + u.in * dt,
             time |-> t, trigger |-> u.trigger, instant |-> t, was |-> was])

IntegratorStep(k, t, u) ==
    LET was == IF t # k.instant
               THEN [state |-> k.state, time |-> k.time, trigger |-> k.trigger]
               ELSE k.was
        dt == IF was.time = Never THEN 0 ELSE t - was.time
    IN  Ran(was.state,
            [state |-> IF u.trigger /\ ~was.trigger THEN u.reset_value
                                                   ELSE was.state + u.in * dt,
             time |-> t, trigger |-> u.trigger, instant |-> t, was |-> was])

OnCounterStart ==
    LET none == [count |-> 0, trigger |-> FALSE, reset |-> FALSE, history |-> FALSE]
    IN  [now |-> none, instant |-> Never, was |-> none]

OnCounterStep(k, t, u) ==
    LET was == IF t # k.instant THEN k.now ELSE k.was
        counts == /\ was.history
                  /\ (u.trigger /\ ~was.trigger) \/ (u.reset /\ ~was.reset)
        count == IF ~counts THEN was.count ELSE IF u.reset THEN 0 ELSE was.count + 1
    IN  Ran(was.count, [now |-> [count |-> count, trigger |-> u.trigger,
                                 reset |-> u.reset, history |-> TRUE],
                        instant |-> t, was |-> was])

\* controllerType PI, with every gain and time constant 1.
PidStart == LET zero == [integral |-> 0, trigger |-> FALSE]
            IN  [base |-> zero, pending |-> zero, base_time |-> Never, last |-> Never]

PidStep(k, t, u) ==
    LET first == k.last = Never
        commits == ~first /\ t > k.last
        base == IF commits THEN k.pending ELSE k.base
        base_time == IF first THEN t ELSE IF commits THEN k.last ELSE k.base_time
        error == u.setpoint - u.measurement
        unlimited == error + base.integral
        output == Clamp(Low, unlimited, High)
        integral == IF u.trigger /\ ~base.trigger
                    THEN 0 - error
                    ELSE base.integral + (error - (unlimited - output)) * (t - base_time)
    IN  Ran(output, [base |-> base, base_time |-> base_time, last |-> t,
                     pending |-> [integral |-> integral, trigger |-> u.trigger]])

-----------------------------------------------------------------------------
(* MovingAverage: checkpoints of the running integral *)

MovingAverageStart == [mu |-> 0, start |-> 0, at |-> Never, points |-> <<>>]

\* The integral at an earlier time.  Every execution leaves a checkpoint, so between
\* two of them the value is interpolated; it is kept times the distance of the two.
MuAt(points, target, t, mu) ==
    LET later == {i \in 2 .. Len(points) : target <= points[i].time}
        i == CHOOSE j \in later : \A other \in later : j <= other
        from == IF later = {} THEN points[Len(points)] ELSE points[i - 1]
        to == IF later = {} THEN [time |-> t, mu |-> mu] ELSE points[i]
    IN  IF points = <<>> THEN mu
        ELSE IF target <= points[1].time THEN points[1].mu
        ELSE IF to.time = from.time THEN to.mu
        ELSE from.mu + ((to.mu - from.mu) * (target - from.time)) \div (to.time - from.time)

\* _prune: the newest checkpoint at or before the cutoff stays.
Pruned(points, cutoff) ==
    LET spare == {i \in 1 .. Len(points) - 1 : \A j \in 2 .. i + 1 : points[j].time <= cutoff}
        keep == IF spare = {} THEN 1 ELSE 1 + (CHOOSE i \in spare : \A j \in spare : j <= i)
    IN  SubSeq(points, keep, Len(points))

Stored(points, point) ==
    IF points # <<>> /\ points[Len(points)].time = point.time
    THEN [points EXCEPT ![Len(points)] = point]
    ELSE Append(points, point)

\* The output is the quotient of two integers; "+ 1.0e-3" is one in the thousands.
Mean(sum, span, exact) == <<sum, IF exact THEN 1000 * span ELSE 1000 * span + 1>>

MovingAverageStep(k, t, u) ==
    LET first == k.at = Never
        start == IF first THEN t ELSE k.start
        mu == k.mu + (IF first THEN 0 ELSE u.in * (t - k.at))
        target == t - Window
        low == Larger(Larger(target, IF k.points = <<>> THEN start ELSE k.points[1].time), start)
        full == t >= start + Window
    IN  Ran(Mean(mu - MuAt(k.points, target, t, mu), IF full THEN t - low ELSE t - start, full),
            [mu |-> mu, start |-> start, at |-> t,
             points |-> Stored(Pruned(k.points, target), [time |-> t, mu |-> mu])])

-----------------------------------------------------------------------------
(* TrimAndRespond: a hold, a delay, a sampler and a unit delay in one kernel *)

TrimAndRespondStart ==
    [delay |-> [out |-> FALSE, pending |-> FALSE, elapsed |-> 0],
     sampler |-> SamplerStart,
     unit |-> [UnitDelayStart EXCEPT !.held = Trim.initial, !.staged = Trim.initial],
     hold |-> [initialized |-> FALSE, out |-> FALSE, elapsed |-> 0, latch |-> FALSE, index |-> -1],
     at |-> Never]

\* The hold keeps a request for a time; what it shows is taken over at a boundary.
HoldStep(h, t, dt, hold) ==
    LET elapsed == h.elapsed + dt
        turns == \/ ~h.initialized
                 \/ hold # h.out /\ elapsed >= (IF h.out THEN Trim.holdFor ELSE 0)
        out == IF turns THEN hold ELSE h.out
    IN  [initialized |-> TRUE, out |-> out, elapsed |-> IF turns THEN 0 ELSE elapsed,
         index |-> Larger(h.index, Index(t)),
         latch |-> IF Index(t) > h.index THEN out ELSE h.latch]

\* The device has to be on for the delay and one period; off passes at once.
DeviceStep(d, dt, on) ==
    LET wait == IF on THEN Trim.delay + SamplePeriod ELSE 0
        elapsed == d.elapsed + dt
    IN  IF on = d.out THEN [d EXCEPT !.elapsed = 0, !.pending = on]
        ELSE IF on # d.pending
        THEN [out |-> IF ~on \/ wait <= 0 THEN on ELSE d.out, pending |-> on, elapsed |-> 0]
        ELSE IF elapsed >= wait THEN [d EXCEPT !.out = on, !.elapsed = 0]
        ELSE [d EXCEPT !.elapsed = elapsed]

\* candidate: the set point trimmed, and raised with the requests above the ignored ones.
Respond(setpoint, requests, acts) ==
    LET excess == requests - Trim.ignored
        response == Smaller(Size(Trim.respond) * excess, Size(Trim.most))
                    * (IF Trim.respond < 0 THEN -1 ELSE 1)
        net == IF ~acts THEN 0 ELSE Trim.trim + (IF excess > 0 THEN response ELSE 0)
    IN  Clamp(Trim.minimum, setpoint + net, Trim.maximum)

TrimAndRespondStep(k, t, u) ==
    LET dt == IF k.at = Never THEN 0 ELSE t - k.at
        hold == IF Trim.holds THEN HoldStep(k.hold, t, dt, u.hold) ELSE k.hold
        delay == DeviceStep(k.delay, dt, u.device_on)
        sampler == SamplerStep(k.sampler, t, [in |-> u.request_count]).mem
        due == k.unit.initialized /\ Index(t) > k.unit.index
        setpoint == IF ~k.unit.initialized THEN Trim.initial
                    ELSE IF due THEN k.unit.staged ELSE k.unit.held
        output == IF u.device_on
                  THEN Respond(setpoint, sampler.held, delay.out /\ ~(Trim.holds /\ hold.latch))
                  ELSE Trim.initial
    IN  Ran(output, [delay |-> delay, sampler |-> sampler, hold |-> hold, at |-> t,
                     unit |-> UnitDelayStep(k.unit, t, [in |-> output]).mem])
=============================================================================
