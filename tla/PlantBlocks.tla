----------------------------- MODULE PlantBlocks -----------------------------
(***************************************************************************)
(* The plant blocks of the graph interpreter (PLANT_* of simulator.py): when *)
(* a piece of equipment may be used, when a plant and its heat recovery       *)
(* chiller run, which stage runs and whether a change of stage is complete.   *)
(* Conventions are those of InterpreterBlocks.  A mask of stages or machines   *)
(* is a set of numbers; the schedule of PLANT_ENABLE is an input; a hysteresis *)
(* of 1e-4 of a capacity is a band of one unit of it.                        *)
(***************************************************************************)
EXTENDS InterpreterBlocks, FiniteSets

CONSTANT Plant          \* the parameters of the plant blocks, a record

ASSUME PlantAssumption ==
    /\ Plant.off_time \in Nat /\ Plant.minimum_state_time \in Nat
    /\ Plant.enable_delay \in Nat /\ Plant.minimum_runtime \in Nat

LeastIn(S) == CHOOSE s \in S : \A other \in S : s <= other
GreatestIn(S) == CHOOSE s \in S : \A other \in S : s >= other

\* A condition with the time it has held: the timers of PLANT_HRC_ENABLE.  The entry time of
\* one that does not hold is not used again, and is kept at zero.
NotHeld == [previous |-> FALSE, entry_time |-> 0, passed |-> FALSE]
HeldFor(h, active, threshold, t) ==
    [previous |-> active,
     entry_time |-> IF ~active THEN 0 ELSE IF h.previous THEN h.entry_time ELSE t,
     passed |-> /\ active
                /\ IF h.previous THEN h.passed \/ t >= h.entry_time + threshold
                                 ELSE threshold <= 0]

-----------------------------------------------------------------------------
(* Availability of equipment: a state graph that settles at one instant *)

EquipmentNew == [mode |-> "available", off_since |-> Never]

\* The transition out of a mode, the mode itself when there is none.
ModeAfter(m, t, u) ==
    CASE m.mode = "available" -> IF ~u.available THEN "unavailable"
                                 ELSE IF u.cooling THEN "cooling"
                                 ELSE IF u.heating THEN "heating" ELSE "available"
      [] m.mode \in {"heating", "cooling"} ->
            IF ~u[m.mode] THEN "off" ELSE IF ~u.available THEN "unavailable" ELSE m.mode
      [] m.mode = "off" -> IF t - m.off_since >= Plant.off_time THEN "available" ELSE "off"
      [] m.mode = "unavailable" -> IF u.available THEN "available" ELSE "unavailable"

Transition(m, t, u) ==
    LET mode == ModeAfter(m, t, u)
    IN  [mode |-> mode,
         off_since |-> IF mode = "off" /\ m.mode # "off" THEN t ELSE m.off_since]

\* The loop of five iterations; one that changes nothing is the last.
SettledMode(m, t, u) ==
    LET after[n \in 0 .. 5] == IF n = 0 THEN m ELSE Transition(after[n - 1], t, u)
    IN  after[5]

ServesFor(mode) == <<mode \in {"available", "heating"}, mode \in {"available", "cooling"}>>

EquipmentScan(m, t, dt, u) ==
    LET settled == SettledMode(m, t, u)
    IN  Shown(ServesFor(settled.mode), settled)

-----------------------------------------------------------------------------
(* A plant: runs on requests, for at least a while, within an outdoor lockout *)

PlantEnableNew == [new |-> TRUE]

FewRequests(u) == u.requests <= Plant.ignored

\* The lockout of a heating plant; its hysteresis is one degree.
Mild(u) == u.outdoor > Plant.lockout + 1
Cold(u) == u.outdoor < Plant.lockout

PlantEnableScan(m, t, dt, u) ==
    LET was == IF m.new THEN [enabled |-> FALSE, since |-> t, low_since |-> Never] ELSE m
        low_since == IF ~FewRequests(u) THEN Never ELSE IF was.low_since = Never THEN t
                     ELSE was.low_since
        quiet == low_since # Never /\ t - low_since >= Plant.low_request_time
        long == t - was.since >= Plant.minimum_state_time
        enabled == IF was.enabled THEN ~(long /\ (~u.schedule \/ quiet \/ Mild(u)))
                   ELSE long /\ u.schedule /\ ~FewRequests(u) /\ Cold(u)
    IN  Shown(enabled, [new |-> FALSE, enabled |-> enabled, low_since |-> low_since,
                        since |-> IF enabled # was.enabled THEN t ELSE was.since])

-----------------------------------------------------------------------------
(* The heat recovery chiller: a latch set when every condition has held long *)
(* enough and reset by a trip, both on an edge; a delay after it, 5 seconds in the code *)

HrcTimer == {"cooling_plant", "heating_plant", "disabled", "cooling_load", "heating_load",
             "chilled_1", "chilled_2", "heating_1", "heating_2"}

HrcNew == [first |-> TRUE, timers |-> [n \in HrcTimer |-> NotHeld],
           high_cooling |-> FALSE, high_heating |-> FALSE,
           low_cooling |-> FALSE, low_heating |-> FALSE,
           status |-> FALSE, all_enable |-> FALSE, disable |-> FALSE,
           latch |-> FALSE, enable |-> FALSE, delay_started |-> Never]

Above(was, load, capacity) == load > (IF was THEN capacity - 1 ELSE capacity)
Below(was, load, capacity) == load < (IF was THEN capacity + 1 ELSE capacity)

\* What each timer of the chiller times, and for how long.
HrcActive(m, u) == [
    cooling_plant |-> u.cooling_plant, heating_plant |-> u.heating_plant,
    disabled |-> ~m.enable,
    cooling_load |-> Above(m.high_cooling, u.cooling_load, Plant.cooling_capacity),
    heating_load |-> Above(m.high_heating, u.heating_load, Plant.heating_capacity),
    chilled_1 |-> u.chilled < Plant.chilled_limit + 1, chilled_2 |-> u.chilled < Plant.chilled_limit,
    heating_1 |-> 2 * u.heating > 2 * Plant.heating_limit - 3,
    heating_2 |-> u.heating > Plant.heating_limit]

HrcThreshold == [
    cooling_plant |-> Plant.minimum_state_time, heating_plant |-> Plant.minimum_state_time,
    disabled |-> Plant.minimum_state_time,
    cooling_load |-> Plant.load_time, heating_load |-> Plant.load_time,
    chilled_1 |-> Plant.first_time, chilled_2 |-> Plant.second_time,
    heating_1 |-> Plant.first_time, heating_2 |-> Plant.second_time]

HrcScan(m, t, dt, u) ==
    LET timers == [n \in HrcTimer |-> HeldFor(m.timers[n], HrcActive(m, u)[n], HrcThreshold[n], t)]
        passed(n) == timers[n].passed
        all_enable == \A n \in {"cooling_plant", "heating_plant", "disabled", "cooling_load",
                                "heating_load"} : passed(n)
        low_cooling == Below(m.low_cooling, u.cooling_load, Plant.cooling_capacity)
        low_heating == Below(m.low_heating, u.cooling_load, Plant.heating_capacity)
        cycles_off == m.status /\ ~u.status /\ (low_cooling \/ low_heating)
        trips == IF u.cooling_mode THEN passed("heating_1") \/ passed("heating_2")
                                   ELSE passed("chilled_1") \/ passed("chilled_2")
        disable == \/ ~u.cooling_plant \/ ~u.heating_plant \/ cycles_off
                   \/ m.enable /\ trips
        edge == (disable /\ ~m.disable) \/ (all_enable /\ ~m.all_enable)
        latch == IF m.first \/ edge THEN ~disable /\ all_enable ELSE m.latch
        started == IF ~latch THEN Never ELSE IF ~m.latch THEN t ELSE m.delay_started
        enable == /\ latch
                  /\ IF m.first THEN TRUE
                     ELSE m.latch /\ (m.enable \/ (started # Never /\ t - started >= Plant.enable_delay))
    IN  Shown([enable |-> enable, set_mode |-> latch /\ ~m.latch],
              [first |-> FALSE, timers |-> timers,
               high_cooling |-> HrcActive(m, u)["cooling_load"],
               high_heating |-> HrcActive(m, u)["heating_load"],
               low_cooling |-> low_cooling, low_heating |-> low_heating,
               status |-> u.status, all_enable |-> all_enable, disable |-> disable,
               latch |-> latch, enable |-> enable, delay_started |-> started])

\* The mode is compared with a hysteresis of 1 and taken over when the enable block says so.
HrcModeNew == [comparison |-> FALSE, cooling_mode |-> FALSE]
HrcModeScan(m, t, dt, u) ==
    LET needed == u.heating_load - u.heating_load \div Plant.heating_cop
        comparison == u.cooling_load < (IF m.comparison THEN needed + 1 ELSE needed)
        cooling_mode == IF u.set_mode THEN comparison ELSE m.cooling_mode
    IN  Shown(<<cooling_mode, IF cooling_mode THEN "chilled" ELSE "heating">>,
              [comparison |-> comparison, cooling_mode |-> cooling_mode])

-----------------------------------------------------------------------------
(* Stages: a change is complete once a command has changed and all agree *)

CompletionNew == [commands |-> {}, any_change |-> FALSE, pre_any_change |-> FALSE, stage |-> 0,
                  stage_change |-> FALSE, change_latch |-> FALSE, stage_latch |-> FALSE]

CompletionScan(m, t, dt, u) ==
    LET pre_any_change == m.any_change
        stage_change == u.stage # m.stage
        change_latch == ~stage_change /\ ((pre_any_change /\ ~m.pre_any_change) \/ m.change_latch)
        stage_latch == /\ ~(change_latch /\ u.commands = u.statuses)
                       /\ (stage_change /\ ~m.stage_change) \/ m.stage_latch
    IN  Shown([in_progress |-> stage_latch, completed |-> m.stage_latch /\ ~stage_latch],
              [commands |-> u.commands, any_change |-> u.commands # m.commands,
               pre_any_change |-> pre_any_change, stage |-> u.stage,
               stage_change |-> stage_change, change_latch |-> change_latch,
               stage_latch |-> stage_latch])

StageNew == [stage |-> 0, elapsed |-> 0]

StageScan(m, t, dt, u) ==
    LET elapsed == IF m.stage > 0 THEN m.elapsed + dt ELSE m.elapsed
        higher == {s \in u.available : s > m.stage}
        lower == {s \in u.available : s < m.stage}
        met == elapsed >= Plant.minimum_runtime
        stage == CASE m.stage = 0 -> IF u.lead /\ u.available # {} THEN LeastIn(u.available) ELSE 0
                   [] m.stage # 0 /\ m.stage \notin u.available /\ higher # {} -> LeastIn(higher)
                   [] m.stage # 0 /\ (m.stage \in u.available \/ higher = {}) ->
                        IF ~met THEN m.stage
                        ELSE IF ~u.lead THEN 0
                        ELSE IF u.up /\ higher # {} THEN LeastIn(higher)
                        ELSE IF u.down /\ lower # {} THEN GreatestIn(lower)
                        ELSE m.stage
    IN  Shown(stage, [stage |-> stage, elapsed |-> IF stage # m.stage THEN 0 ELSE elapsed])
=============================================================================
