---------------------------- MODULE PlantPrograms ----------------------------
(***************************************************************************)
(* The plant blocks as Niagara ProgramObjects: the Java kernels that          *)
(* integrations/niagara_program_codegen.py generates for them.  Conventions are *)
(* those of ModuleKernels: a kernel gets the seconds since its program started, *)
(* where the interpreter keeps a clock and is given the step.  A call with a    *)
(* time before the last one raises and leaves the fields, so it is not a step.   *)
(***************************************************************************)
EXTENDS PlantBlocks

EquipmentStart == EquipmentNew
EquipmentStep(k, t, u) ==
    LET settled == SettledMode(k, t, u) IN Ran(ServesFor(settled.mode), settled)

PlantEnableStart == [initialized |-> FALSE, enabled |-> FALSE, disabledSince |-> 0,
                     enabledSince |-> Never, lowRequestSince |-> Never]

PlantEnableStep(k, t, u) ==
    LET lowRequestSince == IF ~FewRequests(u) THEN Never
                           ELSE IF ~k.initialized \/ k.lowRequestSince = Never THEN t
                           ELSE k.lowRequestSince
        disabledSince == IF k.initialized THEN k.disabledSince ELSE t
        lowRequestPassed == /\ lowRequestSince # Never
                            /\ t - lowRequestSince >= Plant.low_request_time
        starts == /\ ~k.enabled /\ t - disabledSince >= Plant.minimum_state_time
                  /\ u.schedule /\ ~FewRequests(u) /\ Cold(u)
        stops == /\ k.enabled /\ t - k.enabledSince >= Plant.minimum_state_time
                 /\ ~u.schedule \/ lowRequestPassed \/ Mild(u)
        enabled == starts \/ (k.enabled /\ ~stops)
    IN  Ran(enabled, [initialized |-> TRUE, enabled |-> enabled,
                      disabledSince |-> IF stops THEN t ELSE disabledSince,
                      enabledSince |-> IF starts THEN t ELSE k.enabledSince,
                      lowRequestSince |-> lowRequestSince])

-----------------------------------------------------------------------------
HrcEnableStart ==
    [firstStep |-> TRUE, timers |-> [n \in HrcTimer |-> NotHeld],
     high |-> <<FALSE, FALSE>>, low |-> <<FALSE, FALSE>>,
     previousHrcStatus |-> FALSE, previousAllEnable |-> FALSE, previousDisable |-> FALSE,
     latchOutput |-> FALSE, enableOutput |-> FALSE, delayStarted |-> Never]

\* Mutant: only the conditions to run change the latch.
DecidesOnEnable(k, disable, allEnable) == k.firstStep \/ (allEnable /\ ~k.previousAllEnable)

\* The latch is written at the first step and at the edges of what sets and what resets it.
Decides(k, disable, allEnable) ==
    \/ k.firstStep
    \/ disable /\ ~k.previousDisable
    \/ allEnable /\ ~k.previousAllEnable

HrcEnableStep(k, t, u) ==
    LET high == <<Above(k.high[1], u.cooling_load, Plant.cooling_capacity),
                  Above(k.high[2], u.heating_load, Plant.heating_capacity)>>
        low == <<Below(k.low[1], u.cooling_load, Plant.cooling_capacity),
                 Below(k.low[2], u.cooling_load, Plant.heating_capacity)>>
        active == [cooling_plant |-> u.cooling_plant, heating_plant |-> u.heating_plant,
                   disabled |-> ~k.enableOutput,
                   cooling_load |-> high[1], heating_load |-> high[2],
                   chilled_1 |-> u.chilled < Plant.chilled_limit + 1,
                   chilled_2 |-> u.chilled < Plant.chilled_limit,
                   heating_1 |-> 2 * u.heating > 2 * Plant.heating_limit - 3,
                   heating_2 |-> u.heating > Plant.heating_limit]
        timers == [n \in HrcTimer |-> HeldFor(k.timers[n], active[n], HrcThreshold[n], t)]
        passed(S) == \E n \in S : timers[n].passed
        allEnable == \A n \in {"cooling_plant", "heating_plant", "disabled", "cooling_load",
                               "heating_load"} : timers[n].passed
        fallingEdge == k.previousHrcStatus /\ ~u.status
        disable == \/ ~u.cooling_plant \/ ~u.heating_plant
                   \/ fallingEdge /\ (low[1] \/ low[2])
                   \/ k.enableOutput /\ ~u.cooling_mode /\ passed({"chilled_1", "chilled_2"})
                   \/ k.enableOutput /\ u.cooling_mode /\ passed({"heating_1", "heating_2"})
        latch == IF Decides(k, disable, allEnable) THEN ~disable /\ allEnable ELSE k.latchOutput
        waited == k.delayStarted # Never /\ t - k.delayStarted >= Plant.enable_delay
        enable == IF k.firstStep THEN latch
                  ELSE latch /\ k.latchOutput /\ (k.enableOutput \/ waited)
    IN  Ran([enable |-> enable, set_mode |-> latch /\ ~k.latchOutput],
            [firstStep |-> FALSE, timers |-> timers, high |-> high, low |-> low,
             previousHrcStatus |-> u.status, previousAllEnable |-> allEnable,
             previousDisable |-> disable, latchOutput |-> latch, enableOutput |-> enable,
             delayStarted |-> IF ~latch THEN Never
                              ELSE IF k.firstStep \/ ~k.latchOutput THEN t
                              ELSE k.delayStarted])

HrcModeStart == [comparison |-> FALSE, coolingMode |-> FALSE]
HrcModeStep(k, t, u) ==
    LET evaporatorLoad == u.heating_load - u.heating_load \div Plant.heating_cop
        comparison == \/ ~k.comparison /\ u.cooling_load < evaporatorLoad
                      \/ k.comparison /\ u.cooling_load < evaporatorLoad + 1
        coolingMode == (u.set_mode /\ comparison) \/ (~u.set_mode /\ k.coolingMode)
    IN  Ran(<<coolingMode, IF coolingMode THEN "chilled" ELSE "heating">>,
            [comparison |-> comparison, coolingMode |-> coolingMode])

-----------------------------------------------------------------------------
CompletionStart == [commandMask |-> {}, anyChange |-> FALSE, preAnyChange |-> FALSE, stage |-> 0,
                    stageChange |-> FALSE, changeLatch |-> FALSE, stageLatch |-> FALSE]

CompletionStep(k, t, u) ==
    LET stageChange == u.stage # k.stage
        changeLatch == ~stageChange /\ (k.changeLatch \/ (k.anyChange /\ ~k.preAnyChange))
        begins == stageChange /\ ~k.stageChange
        stageLatch == (begins \/ k.stageLatch) /\ ~(changeLatch /\ u.commands = u.statuses)
    IN  Ran([in_progress |-> stageLatch, completed |-> k.stageLatch /\ ~stageLatch],
            [commandMask |-> u.commands, anyChange |-> u.commands # k.commandMask,
             preAnyChange |-> k.anyChange, stage |-> u.stage, stageChange |-> stageChange,
             changeLatch |-> changeLatch, stageLatch |-> stageLatch])

StageStart == [stage |-> 0, enteredAt |-> 0]

StageStep(k, t, u) ==
    LET higher == {s \in u.available : s > k.stage}
        lower == {s \in u.available : s < k.stage}
        runtimeMet == t - k.enteredAt >= Plant.minimum_runtime
        moves == CASE k.stage = 0 -> u.lead
                   [] k.stage # 0 -> k.stage \notin u.available \/ (runtimeMet /\ u.lead /\ u.up)
        next == IF higher # {} /\ moves THEN LeastIn(higher)
                ELSE IF k.stage = 0 \/ ~runtimeMet THEN k.stage
                ELSE IF ~u.lead THEN 0
                ELSE IF u.down /\ lower # {} THEN GreatestIn(lower)
                ELSE k.stage
    IN  Ran(next, [stage |-> next, enteredAt |-> IF next # k.stage THEN t ELSE k.enteredAt])
=============================================================================
