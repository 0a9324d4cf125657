-------------------------- MODULE InterpreterBlocks --------------------------
(***************************************************************************)
(* The stateful blocks of the graph interpreter that have a module kernel    *)
(* (GraphInterpreter._evaluate_block in simulator.py).                       *)
(*                                                                         *)
(* For a block B, BNew is the state a block starts with and BScan(m, t, dt, u) *)
(* is its part of one evaluate() that takes the clock to t, dt after the one   *)
(* before: what the block shows, and its state once the scan is over.  Blocks  *)
(* that emit what the previous scan left are updated at the end of a scan from *)
(* its settled values; here both halves are one operator.                     *)
(***************************************************************************)
EXTENDS ModuleKernels

CONSTANT MaxPoints      \* checkpoints a moving average keeps, 64 in the code

Shown(out, mem) == [out |-> out, mem |-> mem]

-----------------------------------------------------------------------------
(* Timers *)

\* A block without delay_on_init, on_delay_seconds alone: what TrueDelay is exported for.
BooleanDelayNew == [out |-> FALSE, pending |-> FALSE, elapsed |-> 0, first |-> TRUE]

BooleanDelayScan(m, t, dt, u) ==
    LET wait == IF u.in THEN Delay ELSE 0
        elapsed == m.elapsed + dt
        next == IF m.first /\ u.in
                THEN [m EXCEPT !.out = TRUE, !.pending = TRUE, !.elapsed = Delay]
                ELSE IF u.in = m.out THEN [m EXCEPT !.elapsed = 0, !.pending = u.in]
                ELSE IF u.in # m.pending
                THEN [m EXCEPT !.pending = u.in, !.elapsed = 0,
                               !.out = IF wait <= 0 THEN u.in ELSE @]
                ELSE IF elapsed >= wait THEN [m EXCEPT !.out = u.in, !.elapsed = 0]
                ELSE [m EXCEPT !.elapsed = elapsed]
    IN  Shown(next.out, [next EXCEPT !.first = FALSE])

TimerNew == [entry_time |-> 0, first |-> TRUE, previous |-> FALSE, passed |-> Threshold <= 0]

TimerScan(m, t, dt, u) ==
    LET goes_on == u.in /\ ~m.first /\ m.previous
        elapsed == IF goes_on THEN t - m.entry_time ELSE 0
        passed == IF u.in /\ ~m.previous THEN Threshold <= 0
                  ELSE IF u.in /\ elapsed >= Threshold THEN TRUE
                  ELSE IF ~u.in /\ m.previous THEN FALSE
                  ELSE m.passed
    IN  Shown(<<elapsed, passed>>,
              [first |-> FALSE, previous |-> u.in, passed |-> passed,
               entry_time |-> IF u.in /\ ~goes_on THEN t ELSE m.entry_time])

TimerWithResetNew == [new |-> TRUE, entry_time |-> 0, previous |-> FALSE, reset |-> FALSE,
                      passed |-> FALSE]

TimerWithResetScan(m, t, dt, u) ==
    LET rises == (u.in /\ ~m.previous) \/ (u.reset /\ ~m.reset)
        entry == IF m.new \/ rises THEN t ELSE m.entry_time
        passed == IF m.new \/ rises THEN u.in /\ Threshold <= 0
                  ELSE IF u.in /\ t >= m.entry_time + Threshold THEN TRUE
                  ELSE IF ~u.in /\ m.previous THEN FALSE
                  ELSE m.passed
    IN  Shown(<<IF u.in /\ ~m.new THEN t - entry ELSE 0, passed>>,
              [new |-> FALSE, entry_time |-> entry, previous |-> u.in, reset |-> u.reset,
               passed |-> passed])

TimerAccumulatingNew == [elapsed |-> 0, previous |-> FALSE, reset |-> FALSE,
                         passed |-> Threshold <= 0]

TimerAccumulatingScan(m, t, dt, u) ==
    LET restarts == u.reset /\ ~m.reset
        elapsed == IF restarts THEN 0 ELSE m.elapsed + (IF m.previous THEN dt ELSE 0)
        passed == IF restarts THEN Threshold <= 0
                  ELSE (u.in /\ elapsed >= Threshold) \/ m.passed
    IN  Shown(<<elapsed, passed>>,
              [elapsed |-> elapsed, previous |-> u.in, reset |-> u.reset, passed |-> passed])

TrueFalseHoldNew == [initialized |-> FALSE, held |-> FALSE, elapsed |-> 0]

TrueFalseHoldScan(m, t, dt, u) ==
    LET elapsed == m.elapsed + dt
        required == Larger(0, IF m.held THEN TrueHold ELSE FalseHold)
        next == IF ~m.initialized \/ (u.in # m.held /\ elapsed >= required)
                THEN [held |-> u.in, elapsed |-> 0]
                ELSE [held |-> m.held, elapsed |-> elapsed]
    IN  Shown(next.held, [initialized |-> TRUE, held |-> next.held, elapsed |-> next.elapsed])

-----------------------------------------------------------------------------
(* The previous scan: pre, edges, changes, latches *)

PreviousNew == [previous |-> FALSE]
PreScan(m, t, dt, u) == Shown(m.previous, [previous |-> u.in])
OneShotScan(m, t, dt, u) == Shown(u.in /\ ~m.previous, [previous |-> u.in])
FallingEdgeScan(m, t, dt, u) == Shown(m.previous /\ ~u.in, [previous |-> u.in])

ChangeNew == [previous |-> 0]
ChangedScan(m, t, dt, u) == Shown(u.in # m.previous, [previous |-> u.in])
IncreasedScan(m, t, dt, u) == Shown(u.in > m.previous, [previous |-> u.in])
DecreasedScan(m, t, dt, u) == Shown(u.in < m.previous, [previous |-> u.in])

InitializationNew == [initialized |-> FALSE]
InitializationScan(m, t, dt, u) == Shown(m.initialized /\ u.in, [initialized |-> TRUE])

SetResetNew == [out |-> FALSE, previous_set |-> FALSE]
SetResetScan(m, t, dt, u) ==
    LET output == ~u.clear /\ ((u.set /\ ~m.previous_set) \/ m.out)
    IN  Shown(output, [out |-> output, previous_set |-> u.set])

HysteresisNew == [out |-> FALSE]
HysteresisScan(m, t, dt, u) ==
    LET output == (~m.out /\ u.in > High) \/ (m.out /\ u.in >= Low)
    IN  Shown(output, [out |-> output])

-----------------------------------------------------------------------------
(* Sampling: the first scan at or after a boundary takes the sample *)

NumericSamplerNew == [new |-> TRUE]
NumericSamplerScan(m, t, dt, u) ==
    LET samples == m.new \/ Index(t) > m.last_index
        held == IF samples THEN u.in ELSE m.held
    IN  Shown(held, [new |-> FALSE, held |-> held,
                     last_index |-> IF samples THEN Index(t) ELSE m.last_index])

NumericUnitDelayNew == [new |-> TRUE]
NumericUnitDelayScan(m, t, dt, u) ==
    IF m.new
    THEN Shown(0, [new |-> FALSE, held |-> 0, last_index |-> Index(t),
                   staged |-> IF t = Index(t) * SamplePeriod THEN u.in ELSE 0])
    ELSE IF Index(t) > m.last_index
    THEN Shown(m.staged, [new |-> FALSE, held |-> m.staged, staged |-> u.in,
                          last_index |-> Index(t)])
    ELSE Shown(m.held, m)

HoldNew == [new |-> TRUE]
HoldScan(m, t, dt, u) ==
    IF m.new
    THEN Shown(u.in * SamplePeriod,
               [new |-> FALSE, sample |-> u.in, before |-> u.in, rise |-> 0,
                last_index |-> Index(t), at |-> 0])
    ELSE IF Index(t) > m.last_index
    THEN Shown(m.sample * SamplePeriod,
               [new |-> FALSE, sample |-> u.in, before |-> m.sample,
                rise |-> Rise(t, m.sample, u.in), last_index |-> Index(t), at |-> t])
    ELSE Shown(Extrapolated(m, t), m)

BooleanTriggerNew == [last_index |-> -1]
BooleanTriggerScan(m, t, dt, u) ==
    LET index == (t - Offset) \div SamplePeriod
    IN  Shown(index > m.last_index, [last_index |-> Larger(index, m.last_index)])

MeanNew == [mu |-> 0, start |-> Never, at |-> 0, points |-> <<>>]
MeanScan(m, t, dt, u) ==
    LET new == m.start = Never
        start == IF new THEN t ELSE m.start
        mu == m.mu + u.in * (IF new THEN 0 ELSE t - m.at)
        target == t - Window
        low == Larger(Larger(target, IF m.points = <<>> THEN start ELSE m.points[1].time), start)
        full == t >= start + Window
        points == Stored(Pruned(m.points, target), [time |-> t, mu |-> mu])
    IN  Shown(Mean(mu - MuAt(m.points, target, t, mu), IF full THEN t - low ELSE t - start, full),
              [mu |-> mu, start |-> start, at |-> t,
               points |-> IF Len(points) > MaxPoints THEN Tail(points) ELSE points])

-----------------------------------------------------------------------------
(* What the previous scan left *)

IntegratorNew == [x |-> 0, time |-> Never, trigger |-> FALSE]
IntegratorScan(m, t, dt, u) ==
    LET since == IF m.time = Never THEN 0 ELSE t - m.time
    IN  Shown(m.x, [x |-> IF u.trigger /\ ~m.trigger THEN u.reset_value ELSE m.x + u.in * since,
                    time |-> t, trigger |-> u.trigger])

CounterNew == [count |-> 0, trigger |-> FALSE, reset |-> FALSE, history |-> FALSE]
CounterScan(m, t, dt, u) ==
    LET counts == /\ m.history
                  /\ (u.trigger /\ ~m.trigger) \/ (u.reset /\ ~m.reset)
    IN  Shown(m.count, [count |-> IF ~counts THEN m.count
                                  ELSE IF u.reset THEN 0 ELSE m.count + 1,
                        trigger |-> u.trigger, reset |-> u.reset, history |-> TRUE])

PidNew == [integral |-> 0, first |-> TRUE, trigger |-> FALSE]
PidScan(m, t, dt, u) ==
    LET error == u.setpoint - u.measurement
        unlimited == error + m.integral
        output == Clamp(Low, unlimited, High)
    IN  Shown(output,
              [first |-> FALSE, trigger |-> u.trigger,
               integral |-> IF u.trigger /\ ~m.trigger THEN 0 - error
                            ELSE m.integral + (error - (unlimited - output))
                                              * (IF m.first THEN 0 ELSE dt)])

-----------------------------------------------------------------------------
(* Trim and respond *)

TrimNew == [delay |-> [out |-> FALSE, pending |-> FALSE, elapsed |-> 0],
            sampler |-> NumericSamplerNew,
            unit |-> [new |-> TRUE, held |-> Trim.initial],
            hold |-> [initialized |-> FALSE, out |-> FALSE, elapsed |-> 0, latch |-> FALSE,
                      index |-> -1]]

TrimScan(m, t, dt, u) ==
    LET hold == IF Trim.holds THEN HoldStep(m.hold, t, dt, u.hold) ELSE m.hold
        delay == DeviceStep(m.delay, dt, u.device_on)
        sampler == NumericSamplerScan(m.sampler, t, dt, [in |-> u.request_count]).mem
        due == ~m.unit.new /\ Index(t) > m.unit.last_index
        setpoint == IF m.unit.new THEN Trim.initial
                    ELSE IF due THEN m.unit.staged ELSE m.unit.held
        output == IF u.device_on
                  THEN Respond(setpoint, sampler.held, delay.out /\ ~(Trim.holds /\ hold.latch))
                  ELSE Trim.initial
        unit == IF m.unit.new
                THEN [new |-> FALSE, held |-> Trim.initial, staged |-> output,
                      last_index |-> Index(t)]
                ELSE IF due
                THEN [m.unit EXCEPT !.held = m.unit.staged, !.staged = output,
                                    !.last_index = Index(t)]
                ELSE m.unit
    IN  Shown(output, [delay |-> delay, sampler |-> sampler, hold |-> hold, unit |-> unit])
=============================================================================
