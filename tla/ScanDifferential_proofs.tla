----------------------- MODULE ScanDifferential_proofs -----------------------
(***************************************************************************)
(* What the exported programs promise about time, for every parameter of a *)
(* plant, every sequence of inputs and a case of any length: the minimum   *)
(* times of DwellTimes, the interlock of ChillerPermitted, LoopLags, that  *)
(* a pre block that opens a loop is one scan behind, Agree, that a         *)
(* program and the interpreter show the same, MeetsDefinition, that it is  *)
(* what the definition of the block says, and InBand, that they differ by  *)
(* no more than the band when an input changes between two scans.          *)
(*                                                                         *)
(* The inductive invariant ties the few fields a kernel keeps to the       *)
(* history of what it has shown: the elapsed time of a hold is the age of  *)
(* its output, a plant and a stage keep the instant of their last change,  *)
(* and each wait of the chiller began after the output it waits behind.    *)
(* For Agree it also ties the fields of a block in the one engine to those *)
(* in the other: a relation for each kind (Alike), which one instant of    *)
(* both keeps, and under which both show the same (the lemmas "...Twin").  *)
(* For MeetsDefinition it ties them to the sequence of the inputs: since   *)
(* when an input is true, and what the sums and the counts of all of it    *)
(* are (the lemmas "...History").                                          *)
(* For InBand it says, at every tick of a scan, how far the program may be *)
(* behind an interpreter that was primed (the relations "...Trails").      *)
(***************************************************************************)
EXTENDS BlockDefinitions, SequenceTheorems, FiniteSetTheorems, TLAPS

Watched == kind \in Dwelling /\ ticks = 1
Started == time # Never
Age == time - shown.since

Shape ==
    /\ kind \in Kind /\ ticks \in Nat \ {0} /\ time \in Nat \cup {Never}
    /\ kind \in Program => feed = "blocks"
    /\ feed # "points" => ticks = 1
    /\ feed = "loop" => kind \in Opens
    /\ ~Started => kernel = KernelStart(kind) /\ shown = <<>> /\ samples = <<>>
    /\ ~Watched => shown = <<>>
    /\ Started /\ Watched => shown.since \in 0 .. time
    /\ \E S : samples \in Seq(S)

(* TrueFalseHold: the time since its last turn. *)
HoldKept ==
    /\ kernel.initialized /\ kernel.held = shown.value
    /\ kernel.at = time /\ kernel.elapsed = Age

(* PLANT_ENABLE: the time of the last change, in one field or the other.   *)
PlantKept ==
    /\ kernel.initialized /\ kernel.enabled = shown.value /\ kernel.enabled \in BOOLEAN
    /\ shown.since = IF kernel.enabled THEN kernel.enabledSince ELSE kernel.disabledSince

(* Equipment that was switched off is off since then, or has waited.       *)
EquipmentWaits(m, s, t) ==
    s.value = <<FALSE, FALSE>> /\ s.cause.available =>
        (m.mode = "off" /\ m.off_since = s.since) \/ t - s.since >= Plant.off_time

Mode == {"available", "heating", "cooling", "off", "unavailable"}
EquipmentState == [mode : Mode, off_since : Int]
EquipmentKept ==
    /\ kernel \in EquipmentState
    /\ shown.value = ServesFor(kernel.mode)
    /\ EquipmentWaits(kernel, shown, time)

(* PLANT_STAGE_INDEX: the stage and when it was entered. *)
StageKept == kernel.stage = shown.value /\ kernel.enteredAt = shown.since

(* The chiller: while it does not run, the timer of its rest began after   *)
(* it stopped, and a latch that is set was set when that timer had passed. *)
Rest == kernel.timers["disabled"]
ChillerKept ==
    /\ ~kernel.firstStep /\ kernel.enableOutput = shown.value
    /\ kernel.enableOutput \in BOOLEAN /\ kernel.latchOutput \in BOOLEAN
    /\ kernel.previousDisable \in BOOLEAN /\ kernel.previousAllEnable \in BOOLEAN
    /\ Rest.entry_time \in Nat /\ Rest.previous \in BOOLEAN /\ Rest.passed \in BOOLEAN
    /\ kernel.delayStarted \in Nat \cup {Never}
    /\ kernel.enableOutput => kernel.latchOutput
    /\ kernel.previousDisable => ~kernel.latchOutput
    /\ Rest.passed => Rest.previous /\ time >= Rest.entry_time + Plant.minimum_state_time
    /\ ~kernel.enableOutput /\ Rest.previous => Rest.entry_time >= shown.since
    /\ kernel.latchOutput /\ ~kernel.enableOutput =>
          kernel.delayStarted >= shown.since + Plant.minimum_state_time

Kept ==
    Started /\ Watched =>
        /\ kind = "true_false_hold" => HoldKept
        /\ kind = "plant_enable" => PlantKept
        /\ kind = "equipment" => EquipmentKept
        /\ kind = "stage_index" => StageKept
        /\ kind = "hrc_enable" => ChillerKept

IInv == Shape /\ Kept /\ ChillerPermitted

-----------------------------------------------------------------------------
(* One execution of a component that ticks once per scan.                  *)

LEMMA OneTick ==
    ASSUME ticks = 1, NEW w, NEW u
    PROVE  Advanced(w, u) = Instant(kind, kernel, time + 1, w, u)
<1> DEFINE first == [out |-> <<>>, mem |-> kernel]
           next(x, n) == Instant(kind, x.mem, time + n, w, u)
           f == [n \in 0 .. ticks |-> IF n = 0 THEN first ELSE next(first, 1)]
           after == CHOOSE g : g = [n \in 0 .. ticks |->
                                       IF n = 0 THEN first ELSE next(g[n - 1], n)]
<1>1. f = [n \in 0 .. ticks |-> IF n = 0 THEN first ELSE next(f[n - 1], n)]
  <2> HIDE DEF first, next
  <2>1. 0 .. ticks = {0, 1}
    OBVIOUS
  <2>2. f[0] = first
    BY <2>1
  <2>3. \A n \in 0 .. ticks : n # 0 => n = 1 /\ n - 1 = 0
    BY <2>1
  <2>4. \A n \in 0 .. ticks : (IF n = 0 THEN first ELSE next(first, 1))
                               = IF n = 0 THEN first ELSE next(f[n - 1], n)
    BY <2>2, <2>3
  <2> QED BY <2>4
<1>2. after = [n \in 0 .. ticks |-> IF n = 0 THEN first ELSE next(after[n - 1], n)]
  <2> HIDE DEF f, first, next
  <2> QED BY <1>1
<1>3. Advanced(w, u) = after[ticks]
  BY DEF Advanced
<1>4. after[0] = first /\ after[1] = next(after[0], 1)
  <2> HIDE DEF after, first, next
  <2> QED BY <1>2
<1>5. next(first, 1) = Instant(kind, kernel, time + 1, w, u)
  OBVIOUS
<1> HIDE DEF after, first, next
<1> QED BY <1>3, <1>4, <1>5

(* Only the input of a block that opens a loop comes late. *)
LEMMA Delivers ==
    ASSUME feed # "loop" \/ (Shape /\ kind \notin Opens)
    PROVE  \A u : Delivered(u) = u
BY DEF Shape, Delivered

Executed(t, u) ==
    LET step == KernelStep(kind, kernel, t, u)
    IN  /\ t \in Nat /\ t = (IF Started THEN time + 1 ELSE 0)
        /\ time' = t /\ input' = u
        /\ kernel' = step.mem /\ shown' = Noticed(step.out, u)

LEMMA Executes ==
    ASSUME Shape, Watched, Start \/ \E u \in Input(kind) : Scan(u)
    PROVE  \E t, u : Executed(t, u)
<1>1. kind \notin Resampled /\ \A u : Delivered(u) = u
  BY Delivers DEF Watched, Dwelling, Resampled, Opens
<1>2. CASE Start
  <2>1. PICK w : LET shadow == Instant(kind, kernel, 0, w, input)
                 IN  kernel' = shadow.mem /\ shown' = Noticed(shadow.out, input)
    BY <1>1, <1>2 DEF Start
  <2>2. Instant(kind, kernel, 0, w, input) = KernelStep(kind, kernel, 0, input)
    BY <1>1 DEF Instant
  <2>3. time' = 0 /\ input' = input /\ time = Never
    BY <1>2 DEF Start
  <2>4. Executed(0, input)
    BY <2>1, <2>2, <2>3 DEF Executed, Started
  <2> QED BY <2>4
<1>3. CASE \E u \in Input(kind) : Scan(u)
  <2>1. PICK u \in Input(kind) : Scan(u)
    BY <1>3
  <2>2. time + 1 \in Nat /\ Started /\ ticks = 1
    BY <2>1 DEF Scan, Shape, Started, Watched
  <2>3. PICK w : kernel' = Advanced(w, u).mem /\ shown' = Noticed(Advanced(w, u).out, u)
    BY <1>1, <2>1 DEF Scan
  <2>4. Advanced(w, u) = KernelStep(kind, kernel, time + 1, u)
    BY <1>1, <2>2, OneTick DEF Instant
  <2>5. Executed(time + 1, u)
    BY <2>1, <2>2, <2>3, <2>4 DEF Scan, Executed
  <2> QED BY <2>5
<1> QED BY <1>2, <1>3

(* What is shown is noted when it changes, and ages when it does not.      *)
Seen(out) == IF kind = "hrc_enable" THEN out.enable ELSE out

LEMMA Notices ==
    ASSUME Shape, Watched, NEW t, NEW u, Executed(t, u), NEW out,
           shown' = Noticed(out, u)
    PROVE  /\ Started /\ Seen(out) = shown.value => shown' = shown
           /\ ~(Started /\ Seen(out) = shown.value) =>
                 shown' = [value |-> Seen(out), since |-> t, cause |-> u]
           /\ shown'.value = Seen(out)
           /\ shown'.since \in 0 .. t
           /\ Started => time \in Nat /\ t = time + 1 /\ shown.since \in 0 .. time
           /\ ~Started => t = 0 /\ time = Never
BY DEF Shape, Watched, Executed, Noticed, Seen, Started

Dwells == Started /\ shown'.value # shown.value =>
              shown'.since - shown.since >= Waits(shown, shown'.value)

-----------------------------------------------------------------------------
(* The kernels.                                                            *)

LEMMA Hold ==
    ASSUME Shape, Kept, Watched, kind = "true_false_hold", NEW t, NEW u, Executed(t, u)
    PROVE  HoldKept' /\ Dwells
<1> DEFINE step == TrueFalseHoldStep(kernel, t, u)
           k == kernel
           elapsed == k.elapsed + (t - k.at)
           turns == ~k.initialized \/ (u.in # k.held
                       /\ elapsed >= Larger(0, IF k.held THEN TrueHold ELSE FalseHold))
           held == IF turns THEN u.in ELSE k.held
<1>1. kernel' = step.mem /\ shown' = Noticed(step.out, u) /\ time' = t
  BY DEF Executed, KernelStep
<1>2. /\ step.out = held
      /\ step.mem = [initialized |-> TRUE, held |-> held, at |-> t,
                     elapsed |-> IF turns THEN 0 ELSE elapsed]
  BY DEF TrueFalseHoldStep, Ran
<1>3. Started => HoldKept
  BY DEF Kept
<1>4. ~Started => ~k.initialized
  BY DEF Shape, KernelStart, TrueFalseHoldStart
<1> HIDE DEF step
<1>5. Seen(step.out) = held
  BY <1>2 DEF Seen
<1>6. CASE ~Started
  <2>1. turns
    BY <1>4, <1>6
  <2>2. shown' = [value |-> held, since |-> t, cause |-> u] /\ t = 0
    BY <1>1, <1>5, <1>6, Notices
  <2> HIDE DEF turns, held, elapsed
  <2> QED BY <1>1, <1>2, <1>6, <2>1, <2>2 DEF HoldKept, Age, Dwells
<1>7. CASE Started /\ ~turns
  <2>1. held = shown.value
    BY <1>3, <1>7 DEF HoldKept
  <2>2. shown' = shown /\ t = time + 1 /\ time \in Nat /\ shown.since \in 0 .. time
    BY <1>1, <1>5, <1>7, <2>1, Notices
  <2>3. elapsed = t - shown.since
    BY <1>3, <1>7, <2>2 DEF HoldKept, Age
  <2> HIDE DEF turns, held, elapsed
  <2> QED BY <1>1, <1>2, <1>7, <2>1, <2>2, <2>3 DEF HoldKept, Age, Dwells
<1>8. CASE Started /\ turns
  <2>1. held # shown.value /\ kernel.initialized /\ kernel.held = shown.value
    BY <1>3, <1>8 DEF HoldKept
  <2>2. /\ shown' = [value |-> held, since |-> t, cause |-> u]
        /\ t = time + 1 /\ time \in Nat /\ shown.since \in 0 .. time
    BY <1>1, <1>5, <1>8, <2>1, Notices
  <2>3. elapsed = t - shown.since
    BY <1>3, <1>8, <2>2 DEF HoldKept, Age
  <2>4. elapsed >= IF shown.value THEN TrueHold ELSE FalseHold
    BY <1>8, <2>1, <2>2, <2>3, DelayAssumption DEF Larger
  <2>5. Waits(shown, held) = IF shown.value THEN TrueHold ELSE FalseHold
    BY DEF Waits
  <2> HIDE DEF turns, held, elapsed
  <2> QED BY <1>1, <1>2, <1>8, <2>1, <2>2, <2>3, <2>4, <2>5 DEF HoldKept, Age, Dwells
<1> QED BY <1>6, <1>7, <1>8

LEMMA Stage ==
    ASSUME Shape, Kept, Watched, kind = "stage_index", NEW t, NEW u, Executed(t, u)
    PROVE  StageKept' /\ Dwells
<1> DEFINE step == StageStep(kernel, t, u)
           next == step.out
<1>1. kernel' = step.mem /\ shown' = Noticed(step.out, u) /\ time' = t /\ input' = u
  BY DEF Executed, KernelStep
<1>2. step.mem = [stage |-> next,
                  enteredAt |-> IF next # kernel.stage THEN t ELSE kernel.enteredAt]
  BY DEF StageStep, Ran
<1>3. /\ Started => StageKept
      /\ ~Started => kernel.stage = 0 /\ kernel.enteredAt = 0
  BY DEF Kept, Shape, KernelStart, StageStart
<1>4. \/ next = kernel.stage \/ kernel.stage = 0 \/ kernel.stage \notin u.available
      \/ t - kernel.enteredAt >= Plant.minimum_runtime
  BY DEF StageStep, Ran
<1> HIDE DEF step, next
<1>5. Seen(step.out) = next
  BY DEF Seen, next
<1>6. CASE ~Started
  <2>1. shown' = [value |-> next, since |-> t, cause |-> u] /\ t = 0
    BY <1>1, <1>5, <1>6, Notices
  <2> QED BY <1>1, <1>2, <1>3, <1>6, <2>1 DEF StageKept, Dwells
<1>7. CASE Started /\ next = kernel.stage
  <2>1. shown' = shown
    BY <1>1, <1>3, <1>5, <1>7, Notices DEF StageKept
  <2> QED BY <1>1, <1>2, <1>3, <1>7, <2>1 DEF StageKept, Dwells
<1>8. CASE Started /\ next # kernel.stage
  <2>1. /\ shown' = [value |-> next, since |-> t, cause |-> u]
        /\ t = time + 1 /\ time \in Nat /\ shown.since \in 0 .. time
    BY <1>1, <1>3, <1>5, <1>8, Notices DEF StageKept
  <2>2. Waits(shown, next) = IF shown.value = 0 \/ shown.value \notin u.available
                             THEN 0 ELSE Plant.minimum_runtime
    BY <1>1 DEF Waits
  <2>3. t - shown.since >= Waits(shown, next)
    BY <1>3, <1>4, <1>8, <2>1, <2>2 DEF StageKept
  <2> QED BY <1>1, <1>2, <1>8, <2>1, <2>3 DEF StageKept, Dwells
<1> QED BY <1>6, <1>7, <1>8

LEMMA PlantRuns ==
    ASSUME Shape, Kept, Watched, kind = "plant_enable", NEW t, NEW u, Executed(t, u)
    PROVE  PlantKept' /\ Dwells
<1> DEFINE step == PlantEnableStep(kernel, t, u)
           k == kernel
           rested == IF k.initialized THEN k.disabledSince ELSE t
           enabled == step.out
<1>1. kernel' = step.mem /\ shown' = Noticed(step.out, u) /\ time' = t /\ t \in Nat
  BY DEF Executed, KernelStep
<1> DEFINE low == IF ~FewRequests(u) THEN Never
                  ELSE IF ~k.initialized \/ k.lowRequestSince = Never THEN t
                  ELSE k.lowRequestSince
           starts == /\ ~k.enabled /\ t - rested >= Plant.minimum_state_time
                     /\ u.schedule /\ ~FewRequests(u) /\ Cold(u)
           stops == /\ k.enabled /\ t - k.enabledSince >= Plant.minimum_state_time
                    /\ \/ ~u.schedule
                       \/ low # Never /\ t - low >= Plant.low_request_time
                       \/ Mild(u)
<1>2. /\ enabled = (starts \/ (k.enabled /\ ~stops))
      /\ step.mem.initialized /\ step.mem.enabled = enabled
      /\ step.mem.disabledSince = IF stops THEN t ELSE rested
      /\ step.mem.enabledSince = IF starts THEN t ELSE k.enabledSince
  BY DEF PlantEnableStep, Ran
<1>3. /\ starts => ~k.enabled /\ t - rested >= Plant.minimum_state_time
      /\ stops => k.enabled /\ t - k.enabledSince >= Plant.minimum_state_time
  OBVIOUS
<1> HIDE DEF starts, stops, low
<1>4. /\ enabled /\ ~k.enabled => starts
      /\ enabled /\ k.enabled => ~starts
      /\ ~enabled /\ k.enabled => stops
      /\ ~enabled /\ ~k.enabled => ~stops
      /\ enabled \in BOOLEAN
  BY <1>2, <1>3
<1>5. /\ Started => PlantKept
      /\ ~Started => ~k.initialized /\ ~k.enabled
  <2>1. Started => PlantKept
    BY DEF Kept
  <2>2. ~Started => kernel = PlantEnableStart
    BY DEF Shape, KernelStart
  <2> QED BY <2>1, <2>2 DEF PlantEnableStart
<1> HIDE DEF step, enabled
<1>6. Seen(step.out) = enabled
  BY DEF Seen, enabled
<1>7. CASE ~Started
  <2>1. shown' = [value |-> enabled, since |-> t, cause |-> u] /\ t = 0
    BY <1>1, <1>6, <1>7, Notices
  <2>2. rested = t
    BY <1>5, <1>7
  <2> QED BY <1>1, <1>2, <1>3, <1>4, <1>5, <1>7, <2>1, <2>2 DEF PlantKept, Dwells
<1>8. CASE Started /\ enabled = k.enabled
  <2>1. shown' = shown
    BY <1>1, <1>5, <1>6, <1>8, Notices DEF PlantKept
  <2>2. k.initialized /\ k.enabled = shown.value /\ rested = k.disabledSince
    BY <1>5, <1>8 DEF PlantKept
  <2> QED BY <1>1, <1>2, <1>3, <1>4, <1>5, <1>8, <2>1, <2>2 DEF PlantKept, Dwells
<1>9. CASE Started /\ enabled # k.enabled
  <2>1. /\ shown' = [value |-> enabled, since |-> t, cause |-> u]
        /\ t = time + 1 /\ time \in Nat /\ shown.since \in 0 .. time
    BY <1>1, <1>5, <1>6, <1>9, Notices DEF PlantKept
  <2>2. k.initialized /\ k.enabled = shown.value /\ rested = k.disabledSince
    BY <1>5, <1>9 DEF PlantKept
  <2>3. t - shown.since >= Plant.minimum_state_time
    BY <1>2, <1>3, <1>4, <1>5, <1>9, <2>2 DEF PlantKept
  <2>4. Waits(shown, enabled) = Plant.minimum_state_time
    BY DEF Waits
  <2>5. Dwells
    BY <2>1, <2>3, <2>4 DEF Dwells
  <2>6. CASE enabled
    <3>1. ~k.enabled /\ step.mem.enabledSince = t
      BY <1>2, <1>4, <1>5, <1>9, <2>6 DEF PlantKept
    <3> QED BY <1>1, <1>2, <1>4, <2>1, <2>5, <2>6, <3>1 DEF PlantKept
  <2>7. CASE ~enabled
    <3>1. k.enabled /\ step.mem.disabledSince = t
      BY <1>2, <1>4, <1>5, <1>9, <2>7 DEF PlantKept
    <3> QED BY <1>1, <1>2, <1>4, <2>1, <2>5, <2>7, <3>1 DEF PlantKept
  <2> QED BY <2>6, <2>7
<1> QED BY <1>7, <1>8, <1>9

-----------------------------------------------------------------------------
(* Equipment: the state graph settles in at most five transitions.         *)

LEMMA Settling ==
    ASSUME NEW m, NEW t, NEW u, NEW S,
           m \in S, \A n \in S : Transition(n, t, u) \in S
    PROVE  SettledMode(m, t, u) \in S
<1> DEFINE T(n) == Transition(n, t, u)
           f == [n \in 0 .. 5 |-> IF n = 0 THEN m ELSE IF n = 1 THEN T(m)
                                  ELSE IF n = 2 THEN T(T(m)) ELSE IF n = 3 THEN T(T(T(m)))
                                  ELSE IF n = 4 THEN T(T(T(T(m)))) ELSE T(T(T(T(T(m)))))]
           after == CHOOSE g : g = [n \in 0 .. 5 |-> IF n = 0 THEN m ELSE T(g[n - 1])]
<1>1. f = [n \in 0 .. 5 |-> IF n = 0 THEN m ELSE T(f[n - 1])]
  <2> HIDE DEF T
  <2>1. 0 .. 5 = {0, 1, 2, 3, 4, 5}
    OBVIOUS
  <2>2. \A n \in 0 .. 5 : f[n] = IF n = 0 THEN m ELSE T(f[n - 1])
    BY <2>1
  <2> QED BY <2>2
<1>2. after = [n \in 0 .. 5 |-> IF n = 0 THEN m ELSE T(after[n - 1])]
  <2> HIDE DEF f, T
  <2> QED BY <1>1
<1>3. SettledMode(m, t, u) = after[5]
  BY DEF SettledMode
<1> HIDE DEF after, T
<1>4. \A n \in 0 .. 5 : after[n] = IF n = 0 THEN m ELSE T(after[n - 1])
  BY <1>2
<1>5. \A n \in S : T(n) \in S
  BY DEF T
<1>6. after[0] \in S
  BY <1>4
<1>7. after[1] \in S
  BY <1>4, <1>5, <1>6
<1>8. after[2] \in S
  BY <1>4, <1>5, <1>7
<1>9. after[3] \in S
  BY <1>4, <1>5, <1>8
<1>10. after[4] \in S
  BY <1>4, <1>5, <1>9
<1> QED BY <1>3, <1>4, <1>5, <1>10

(* What every transition of one instant keeps: a wait that began, and for  *)
(* equipment that may be used, that it is switched off only now.           *)
LEMMA Transitions ==
    ASSUME NEW m \in EquipmentState, NEW t \in Nat, NEW u
    PROVE  /\ Transition(m, t, u) \in EquipmentState
           /\ \A s : EquipmentWaits(m, s, t) => EquipmentWaits(Transition(m, t, u), s, t)
           /\ u.available /\ (m.mode = "off" => m.off_since = t) /\ m.mode # "unavailable" =>
                 /\ Transition(m, t, u).mode = "off" => Transition(m, t, u).off_since = t
                 /\ Transition(m, t, u).mode # "unavailable"
<1>1. m.mode \in Mode /\ m.off_since \in Int
  BY DEF EquipmentState
<1>2. ModeAfter(m, t, u) \in Mode
  BY <1>1 DEF ModeAfter, Mode
<1>3. m.mode = "off" /\ ModeAfter(m, t, u) # "off" => t - m.off_since >= Plant.off_time
  BY DEF ModeAfter
<1>4. u.available /\ m.mode # "unavailable" => ModeAfter(m, t, u) # "unavailable"
  BY <1>1 DEF ModeAfter, Mode
<1> DEFINE n == Transition(m, t, u)
<1>5. /\ n = [mode |-> n.mode, off_since |-> n.off_since]
      /\ n.mode = ModeAfter(m, t, u)
      /\ n.off_since = IF n.mode = "off" /\ m.mode # "off" THEN t ELSE m.off_since
  BY DEF Transition
<1> HIDE DEF n
<1>6. n \in EquipmentState
  BY <1>1, <1>2, <1>5 DEF EquipmentState
<1>7. ASSUME NEW s, EquipmentWaits(m, s, t) PROVE EquipmentWaits(n, s, t)
  BY <1>3, <1>5, <1>7 DEF EquipmentWaits
<1>8. u.available /\ (m.mode = "off" => m.off_since = t) /\ m.mode # "unavailable" =>
         (n.mode = "off" => n.off_since = t) /\ n.mode # "unavailable"
  BY <1>4, <1>5
<1> QED BY <1>6, <1>7, <1>8 DEF n

LEMMA EquipmentRuns ==
    ASSUME Shape, Kept, Watched, kind = "equipment", NEW t, NEW u, Executed(t, u)
    PROVE  EquipmentKept' /\ Dwells
<1> DEFINE m == SettledMode(kernel, t, u)
           value == ServesFor(m.mode)
<1>1. kernel' = m /\ shown' = Noticed(value, u) /\ time' = t /\ t \in Nat
  BY DEF Executed, KernelStep, EquipmentStep, Ran
<1>2. /\ kernel \in EquipmentState
      /\ Started => EquipmentKept
      /\ ~Started => kernel.mode = "available"
  BY DEF Kept, Shape, KernelStart, EquipmentStart, EquipmentNew, EquipmentKept, Mode,
         EquipmentState, Never
<1>3. m \in EquipmentState
  BY <1>1, <1>2, Settling, Transitions
<1>4. ASSUME EquipmentWaits(kernel, shown, t) PROVE EquipmentWaits(m, shown, t)
  <2> DEFINE S == {n \in EquipmentState : EquipmentWaits(n, shown, t)}
  <2>1. kernel \in S /\ \A n \in S : Transition(n, t, u) \in S
    BY <1>1, <1>2, <1>4, Transitions
  <2>2. m \in S
    BY <2>1, Settling
  <2> QED BY <2>2
<1>5. ASSUME u.available, kernel.mode \notin {"off", "unavailable"}
      PROVE  (m.mode = "off" => m.off_since = t) /\ m.mode # "unavailable"
  <2> DEFINE S == {n \in EquipmentState : (n.mode = "off" => n.off_since = t)
                                          /\ n.mode # "unavailable"}
  <2>1. kernel \in S /\ \A n \in S : Transition(n, t, u) \in S
    BY <1>1, <1>2, <1>5, Transitions
  <2>2. m \in S
    BY <2>1, Settling
  <2> QED BY <2>2
<1> HIDE DEF m
<1>6. ASSUME NEW n \in EquipmentState
      PROVE  ServesFor(n.mode) = <<FALSE, FALSE>> <=> n.mode \in {"off", "unavailable"}
  <2>1. \A a, b \in BOOLEAN : <<a, b>> = <<FALSE, FALSE>> <=> ~a /\ ~b
    OBVIOUS
  <2>2. /\ (n.mode \in {"available", "heating"}) \in BOOLEAN
        /\ (n.mode \in {"available", "cooling"}) \in BOOLEAN
    OBVIOUS
  <2>3. n.mode \in Mode
    BY DEF EquipmentState
  <2>4. /\ n.mode \in {"available", "heating"} \/ n.mode \in {"available", "cooling"}
             <=> n.mode \notin {"off", "unavailable"}
    BY <2>3 DEF Mode
  <2> QED BY <2>1, <2>2, <2>4 DEF ServesFor
<1>7. Seen(value) = value
  BY DEF Seen
<1> HIDE DEF value
<1>8. CASE ~(Started /\ value = shown.value)
  <2>1. shown' = [value |-> value, since |-> t, cause |-> u]
    BY <1>1, <1>7, <1>8, Notices
  <2>2. EquipmentWaits(m, shown', t)
    <3> SUFFICES ASSUME value = <<FALSE, FALSE>>, u.available
                 PROVE  m.mode = "off" /\ m.off_since = t
      BY <2>1 DEF EquipmentWaits
    <3>1. m.mode \in {"off", "unavailable"}
      BY <1>3, <1>6 DEF value
    <3>2. kernel.mode \notin {"off", "unavailable"}
      BY <1>2, <1>6, <1>8 DEF EquipmentKept
    <3> QED BY <3>1, <3>2, <1>5
  <2>3. EquipmentKept'
    BY <1>1, <1>3, <2>1, <2>2 DEF EquipmentKept, value
  <2>4. ASSUME Started PROVE t - shown.since >= Waits(shown, value)
    <3>1. t = time + 1 /\ time \in Nat /\ shown.since \in 0 .. time
      BY <1>1, <2>4, Notices
    <3>2. CASE shown.value = <<FALSE, FALSE>> /\ shown.cause.available
      <4>1. EquipmentWaits(kernel, shown, t)
        BY <1>2, <2>4, <3>1, PlantAssumption DEF EquipmentKept, EquipmentWaits
      <4>2. m.mode # "off"
        BY <1>3, <1>6, <1>8, <2>4, <3>2 DEF value
      <4>3. t - shown.since >= Plant.off_time
        BY <1>4, <3>2, <4>1, <4>2 DEF EquipmentWaits
      <4> QED BY <3>2, <4>3 DEF Waits
    <3>3. CASE ~(shown.value = <<FALSE, FALSE>> /\ shown.cause.available)
      <4>1. Waits(shown, value) = 0
        BY <3>3 DEF Waits
      <4> QED BY <3>1, <4>1
    <3> QED BY <3>2, <3>3
  <2> QED BY <2>1, <2>3, <2>4 DEF Dwells
<1>9. CASE Started /\ value = shown.value
  <2>1. shown' = shown /\ t = time + 1 /\ time \in Nat /\ shown.since \in 0 .. time
    BY <1>1, <1>7, <1>9, Notices
  <2>2. EquipmentWaits(kernel, shown, t)
    BY <1>2, <1>9, <2>1, PlantAssumption DEF EquipmentKept, EquipmentWaits
  <2> QED BY <1>1, <1>3, <1>4, <1>9, <2>1, <2>2 DEF EquipmentKept, Dwells, value
<1> QED BY <1>8, <1>9

-----------------------------------------------------------------------------
(* The chiller.                                                            *)

(* What the chiller's program leaves, each field from those before it.     *)
Passed(timers, S) == \E n \in S : timers[n].passed
Enabling == {"cooling_plant", "heating_plant", "disabled", "cooling_load", "heating_load"}

ChillerRan(r, k, t, u) ==
    /\ r.mem.firstStep = FALSE /\ r.mem.previousHrcStatus = u.status
    /\ r.mem.high = <<Above(k.high[1], u.cooling_load, Plant.cooling_capacity),
                  Above(k.high[2], u.heating_load, Plant.heating_capacity)>>
    /\ r.mem.low = <<Below(k.low[1], u.cooling_load, Plant.cooling_capacity),
                 Below(k.low[2], u.cooling_load, Plant.heating_capacity)>>
    /\ r.mem.timers = [n \in HrcTimer |-> HeldFor(k.timers[n],
         [cooling_plant |-> u.cooling_plant, heating_plant |-> u.heating_plant,
          disabled |-> ~k.enableOutput,
          cooling_load |-> r.mem.high[1], heating_load |-> r.mem.high[2],
          chilled_1 |-> u.chilled < Plant.chilled_limit + 1,
          chilled_2 |-> u.chilled < Plant.chilled_limit,
          heating_1 |-> 2 * u.heating > 2 * Plant.heating_limit - 3,
          heating_2 |-> u.heating > Plant.heating_limit][n], HrcThreshold[n], t)]
    /\ r.mem.previousAllEnable = (\A n \in Enabling : r.mem.timers[n].passed)
    /\ r.mem.previousDisable =
         (\/ ~u.cooling_plant \/ ~u.heating_plant
          \/ (k.previousHrcStatus /\ ~u.status) /\ (r.mem.low[1] \/ r.mem.low[2])
          \/ k.enableOutput /\ ~u.cooling_mode /\ Passed(r.mem.timers, {"chilled_1", "chilled_2"})
          \/ k.enableOutput /\ u.cooling_mode /\ Passed(r.mem.timers, {"heating_1", "heating_2"}))
    /\ r.mem.latchOutput = IF Decides(k, r.mem.previousDisable, r.mem.previousAllEnable)
                       THEN ~r.mem.previousDisable /\ r.mem.previousAllEnable
                       ELSE k.latchOutput
    /\ r.mem.enableOutput = IF k.firstStep THEN r.mem.latchOutput
             ELSE r.mem.latchOutput /\ k.latchOutput
                  /\ (k.enableOutput \/ (k.delayStarted # Never
                        /\ t - k.delayStarted >= Plant.enable_delay))
    /\ r.mem.delayStarted = IF ~r.mem.latchOutput THEN Never
                        ELSE IF k.firstStep \/ ~k.latchOutput THEN t ELSE k.delayStarted
    /\ r.out = [enable |-> r.mem.enableOutput, set_mode |-> r.mem.latchOutput /\ ~k.latchOutput]

LEMMA ChillerProgram ==
    ASSUME NEW k, NEW t, NEW u
    PROVE  ChillerRan(HrcEnableStep(k, t, u), k, t, u)
<1> DEFINE r == HrcEnableStep(k, t, u)
           high == <<Above(k.high[1], u.cooling_load, Plant.cooling_capacity),
                     Above(k.high[2], u.heating_load, Plant.heating_capacity)>>
           low == <<Below(k.low[1], u.cooling_load, Plant.cooling_capacity),
                    Below(k.low[2], u.cooling_load, Plant.heating_capacity)>>
           active == [cooling_plant |-> u.cooling_plant, heating_plant |-> u.heating_plant,
                      disabled |-> ~k.enableOutput,
                      cooling_load |-> high[1], heating_load |-> high[2],
                      chilled_1 |-> u.chilled < Plant.chilled_limit + 1,
                      chilled_2 |-> u.chilled < Plant.chilled_limit,
                      heating_1 |-> 2 * u.heating > 2 * Plant.heating_limit - 3,
                      heating_2 |-> u.heating > Plant.heating_limit]
           timers == [n \in HrcTimer |-> HeldFor(k.timers[n], active[n], HrcThreshold[n], t)]
           allEnable == \A n \in Enabling : timers[n].passed
           disable == \/ ~u.cooling_plant \/ ~u.heating_plant
                      \/ (k.previousHrcStatus /\ ~u.status) /\ (low[1] \/ low[2])
                      \/ k.enableOutput /\ ~u.cooling_mode
                           /\ Passed(timers, {"chilled_1", "chilled_2"})
                      \/ k.enableOutput /\ u.cooling_mode
                           /\ Passed(timers, {"heating_1", "heating_2"})
           latch == IF Decides(k, disable, allEnable) THEN ~disable /\ allEnable
                                                      ELSE k.latchOutput
           enable == IF k.firstStep THEN latch
                     ELSE latch /\ k.latchOutput
                          /\ (k.enableOutput \/ (k.delayStarted # Never
                                /\ t - k.delayStarted >= Plant.enable_delay))
           started == IF ~latch THEN Never
                      ELSE IF k.firstStep \/ ~k.latchOutput THEN t ELSE k.delayStarted
           out == [enable |-> enable, set_mode |-> latch /\ ~k.latchOutput]
           mem == [firstStep |-> FALSE, timers |-> timers, high |-> high, low |-> low,
                   previousHrcStatus |-> u.status, previousAllEnable |-> allEnable,
                   previousDisable |-> disable, latchOutput |-> latch, enableOutput |-> enable,
                   delayStarted |-> started]
<1>1. r = [out |-> out, mem |-> mem]
  BY Zenon DEF HrcEnableStep, Ran, Passed, Enabling
<1> HIDE DEF r, out, mem
<1>2. r.out = out /\ r.mem = mem
  BY <1>1, Zenon
<1> HIDE DEF started, enable, latch, disable, allEnable, timers, active, low, high
<1>3. /\ r.mem.firstStep = FALSE /\ r.mem.timers = timers
      /\ r.mem.high = high /\ r.mem.low = low
      /\ r.mem.previousHrcStatus = u.status /\ r.mem.previousAllEnable = allEnable
      /\ r.mem.previousDisable = disable /\ r.mem.latchOutput = latch
      /\ r.mem.enableOutput = enable /\ r.mem.delayStarted = started
  BY <1>2 DEF mem
<1> DEFINE seen == [cooling_plant |-> u.cooling_plant, heating_plant |-> u.heating_plant,
                    disabled |-> ~k.enableOutput,
                    cooling_load |-> r.mem.high[1], heating_load |-> r.mem.high[2],
                    chilled_1 |-> u.chilled < Plant.chilled_limit + 1,
                    chilled_2 |-> u.chilled < Plant.chilled_limit,
                    heating_1 |-> 2 * u.heating > 2 * Plant.heating_limit - 3,
                    heating_2 |-> u.heating > Plant.heating_limit]
<1>4. seen = active
  BY <1>3, Zenon DEF active
<1> HIDE DEF seen
<1>5. r.mem.timers = [n \in HrcTimer |-> HeldFor(k.timers[n], seen[n], HrcThreshold[n], t)]
  BY <1>3, <1>4, Zenon DEF timers
<1>6. r.mem.previousAllEnable = (\A n \in Enabling : r.mem.timers[n].passed)
  BY <1>3, Zenon DEF allEnable
<1>7. r.mem.previousDisable =
         (\/ ~u.cooling_plant \/ ~u.heating_plant
          \/ (k.previousHrcStatus /\ ~u.status) /\ (r.mem.low[1] \/ r.mem.low[2])
          \/ k.enableOutput /\ ~u.cooling_mode /\ Passed(r.mem.timers, {"chilled_1", "chilled_2"})
          \/ k.enableOutput /\ u.cooling_mode /\ Passed(r.mem.timers, {"heating_1", "heating_2"}))
  BY <1>3, Zenon DEF disable
<1>8. r.mem.latchOutput = IF Decides(k, r.mem.previousDisable, r.mem.previousAllEnable)
                            THEN ~r.mem.previousDisable /\ r.mem.previousAllEnable
                            ELSE k.latchOutput
  BY <1>3, Zenon DEF latch
<1>9. r.mem.enableOutput = IF k.firstStep THEN r.mem.latchOutput
                           ELSE r.mem.latchOutput /\ k.latchOutput
                                /\ (k.enableOutput \/ (k.delayStarted # Never
                                      /\ t - k.delayStarted >= Plant.enable_delay))
  BY <1>3, Zenon DEF enable
<1>10. r.mem.delayStarted = IF ~r.mem.latchOutput THEN Never
                            ELSE IF k.firstStep \/ ~k.latchOutput THEN t ELSE k.delayStarted
  BY <1>3, Zenon DEF started
<1>11. r.out = [enable |-> r.mem.enableOutput, set_mode |-> r.mem.latchOutput /\ ~k.latchOutput]
  BY <1>2, <1>3, Zenon DEF out
<1>12. r.mem.high = <<Above(k.high[1], u.cooling_load, Plant.cooling_capacity),
                      Above(k.high[2], u.heating_load, Plant.heating_capacity)>>
  BY <1>3, Zenon DEF high
<1>13. r.mem.low = <<Below(k.low[1], u.cooling_load, Plant.cooling_capacity),
                     Below(k.low[2], u.cooling_load, Plant.heating_capacity)>>
  BY <1>3, Zenon DEF low
<1>14. ChillerRan(r, k, t, u)
  BY <1>3, <1>5, <1>6, <1>7, <1>8, <1>9, <1>10, <1>11, <1>12, <1>13, Zenon DEF ChillerRan, seen
<1> QED BY <1>14 DEF r

(* One execution, as far as the promises depend on it.                     *)
ChillerStepped(k, t, u, m) ==
    /\ m.timers["disabled"] = HeldFor(k.timers["disabled"], ~k.enableOutput,
                                      Plant.minimum_state_time, t)
    /\ ~m.previousDisable => u.cooling_plant /\ u.heating_plant
    /\ m.previousAllEnable => m.timers["disabled"].passed
    /\ m.latchOutput = IF Decides(k, m.previousDisable, m.previousAllEnable)
                       THEN ~m.previousDisable /\ m.previousAllEnable ELSE k.latchOutput
    /\ m.enableOutput = IF k.firstStep THEN m.latchOutput
                        ELSE m.latchOutput /\ k.latchOutput
                             /\ (k.enableOutput \/ (k.delayStarted # Never
                                   /\ t - k.delayStarted >= Plant.enable_delay))
    /\ m.delayStarted = IF ~m.latchOutput THEN Never
                        ELSE IF k.firstStep \/ ~k.latchOutput THEN t ELSE k.delayStarted
    /\ ~m.firstStep /\ m.previousDisable \in BOOLEAN /\ m.previousAllEnable \in BOOLEAN

LEMMA ChillerExecutes ==
    ASSUME NEW k, NEW t, NEW u
    PROVE  LET step == HrcEnableStep(k, t, u)
           IN  /\ ChillerStepped(k, t, u, step.mem)
               /\ step.out = [enable |-> step.mem.enableOutput,
                              set_mode |-> step.mem.latchOutput /\ ~k.latchOutput]
<1> DEFINE step == HrcEnableStep(k, t, u)
           m == step.mem
<1>1. ChillerRan(step, k, t, u)
  BY ChillerProgram
<1> HIDE DEF step
<1>2. m.timers["disabled"] = HeldFor(k.timers["disabled"], ~k.enableOutput,
                                     Plant.minimum_state_time, t)
  BY <1>1, ZenonT(60) DEF ChillerRan, HrcTimer, HrcThreshold
<1>3. /\ ~m.previousDisable => u.cooling_plant /\ u.heating_plant
      /\ m.previousAllEnable => m.timers["disabled"].passed
      /\ ~m.firstStep /\ m.previousDisable \in BOOLEAN /\ m.previousAllEnable \in BOOLEAN
  BY <1>1, Zenon DEF ChillerRan, Enabling
<1>4. /\ m.latchOutput = IF Decides(k, m.previousDisable, m.previousAllEnable)
                         THEN ~m.previousDisable /\ m.previousAllEnable ELSE k.latchOutput
      /\ m.enableOutput = IF k.firstStep THEN m.latchOutput
                          ELSE m.latchOutput /\ k.latchOutput
                               /\ (k.enableOutput \/ (k.delayStarted # Never
                                     /\ t - k.delayStarted >= Plant.enable_delay))
      /\ m.delayStarted = IF ~m.latchOutput THEN Never
                          ELSE IF k.firstStep \/ ~k.latchOutput THEN t ELSE k.delayStarted
      /\ step.out = [enable |-> m.enableOutput, set_mode |-> m.latchOutput /\ ~k.latchOutput]
  BY <1>1, Zenon DEF ChillerRan
<1>5. ChillerStepped(k, t, u, m)
  BY <1>2, <1>3, <1>4, Zenon DEF ChillerStepped
<1> QED BY <1>4, <1>5, Zenon DEF step

LEMMA ChillerRuns ==
    ASSUME Shape, Kept, Watched, kind = "hrc_enable", NEW t, NEW u, Executed(t, u)
    PROVE  ChillerKept' /\ Dwells
<1> DEFINE k == kernel
           step == HrcEnableStep(k, t, u)
           m == step.mem
           h == k.timers["disabled"]
           held == m.timers["disabled"]
           rest == Plant.minimum_state_time
<1>1. /\ kernel' = m /\ shown' = Noticed(step.out, u) /\ time' = t /\ t \in Nat
      /\ rest \in Nat /\ Plant.enable_delay \in Nat
  <2>1. KernelStep(kind, kernel, t, u) = step
    BY DEF KernelStep
  <2> HIDE DEF step
  <2>2. kernel' = m /\ shown' = Noticed(step.out, u) /\ time' = t /\ t \in Nat
    BY <2>1 DEF Executed
  <2> QED BY <2>2, PlantAssumption
<1>2. ChillerStepped(k, t, u, m) /\ Seen(step.out) = m.enableOutput
  <2>1. /\ ChillerStepped(k, t, u, m)
        /\ step.out = [enable |-> m.enableOutput, set_mode |-> m.latchOutput /\ ~k.latchOutput]
    BY ChillerExecutes, Zenon
  <2> HIDE DEF step, m
  <2> QED BY <2>1 DEF Seen
<1>3. /\ Started => ChillerKept
      /\ ~Started => /\ k.firstStep /\ ~k.enableOutput /\ ~k.latchOutput
                     /\ ~k.previousDisable /\ ~k.previousAllEnable
                     /\ ~h.previous /\ ~h.passed
  <2>1. Started => ChillerKept
    BY DEF Kept
  <2>2. ~Started => kernel = HrcEnableStart
    BY DEF Shape, KernelStart
  <2> HIDE DEF step
  <2>3. ~Started => h = NotHeld
    BY <2>2 DEF HrcEnableStart, HrcTimer
  <2>4. ~Started => /\ k.firstStep /\ ~k.enableOutput /\ ~k.latchOutput
                    /\ ~k.previousDisable /\ ~k.previousAllEnable
    BY <2>2 DEF HrcEnableStart
  <2> QED BY <2>1, <2>3, <2>4 DEF NotHeld
<1> HIDE DEF step, m
<1>4. /\ k.enableOutput \in BOOLEAN /\ k.latchOutput \in BOOLEAN
      /\ h.previous \in BOOLEAN /\ h.passed \in BOOLEAN
      /\ k.firstStep <=> ~Started
  <2>1. CASE Started
    BY <1>3, <2>1 DEF ChillerKept, Rest
  <2>2. CASE ~Started
    <3>1. kernel = HrcEnableStart
      BY <2>2 DEF Shape, KernelStart
    <3> QED BY <3>1, <2>2 DEF HrcEnableStart, NotHeld, HrcTimer
  <2> QED BY <2>1, <2>2
<1>5. /\ held.previous = ~k.enableOutput
      /\ held.entry_time = IF k.enableOutput THEN 0 ELSE IF h.previous THEN h.entry_time ELSE t
      /\ held.passed <=> ~k.enableOutput /\ IF h.previous THEN h.passed \/ t >= h.entry_time + rest
                                                       ELSE rest <= 0
      /\ held.previous \in BOOLEAN /\ held.passed \in BOOLEAN
  BY <1>2, <1>4 DEF ChillerStepped, HeldFor
<1> HIDE DEF held
<1>6. /\ ~m.firstStep /\ m.previousDisable \in BOOLEAN /\ m.previousAllEnable \in BOOLEAN
      /\ m.latchOutput \in BOOLEAN /\ m.enableOutput \in BOOLEAN
      /\ m.enableOutput => m.latchOutput
  BY <1>2, <1>4 DEF ChillerStepped
<1>7. m.previousDisable => ~m.latchOutput
  <2>1. k.previousDisable /\ Started => ~k.latchOutput
    BY <1>3 DEF ChillerKept
  <2> QED BY <1>2, <1>4, <2>1 DEF ChillerStepped, Decides
<1>8. /\ shown'.value = m.enableOutput
      /\ shown'.since \in 0 .. t
      /\ Started => /\ k.enableOutput = shown.value
                    /\ t = time + 1 /\ time \in Nat /\ shown.since \in 0 .. time
                    /\ m.enableOutput = k.enableOutput => shown' = shown
                    /\ m.enableOutput # k.enableOutput => shown'.since = t
  <2>1. Started => k.enableOutput = shown.value
    BY <1>3 DEF ChillerKept
  <2>2. /\ Started /\ m.enableOutput = shown.value => shown' = shown
        /\ ~(Started /\ m.enableOutput = shown.value) =>
              shown' = [value |-> m.enableOutput, since |-> t, cause |-> u]
        /\ shown'.value = m.enableOutput /\ shown'.since \in 0 .. t
        /\ Started => time \in Nat /\ t = time + 1 /\ shown.since \in 0 .. time
    BY <1>1, <1>2, Notices
  <2> QED BY <2>1, <2>2
<1>9. held.entry_time \in Nat
      /\ (held.passed => held.previous /\ t >= held.entry_time + rest)
  <2>1. CASE Started /\ h.previous
    BY <1>1, <1>3, <1>4, <1>5, <1>8, <2>1 DEF ChillerKept, Rest
  <2>2. CASE ~h.previous
    BY <1>1, <1>4, <1>5, <2>2
  <2> QED BY <1>3, <2>1, <2>2
<1>10. ~m.enableOutput /\ held.previous => held.entry_time >= shown'.since
  <2> SUFFICES ASSUME ~m.enableOutput, held.previous PROVE held.entry_time >= shown'.since
    OBVIOUS
  <2>1. ~k.enableOutput
    BY <1>4, <1>5
  <2>2. CASE h.previous
    <3>1. Started /\ shown' = shown /\ h.entry_time >= shown.since
      BY <1>3, <1>4, <1>6, <1>8, <2>1, <2>2 DEF ChillerKept, Rest
    <3> QED BY <1>5, <2>1, <2>2, <3>1
  <2>3. CASE ~h.previous
    BY <1>1, <1>5, <1>8, <2>1, <2>3
  <2> QED BY <2>2, <2>3
<1>11. m.delayStarted \in Nat \cup {Never}
  BY <1>1, <1>2, <1>3, <1>4 DEF ChillerStepped, ChillerKept
<1>12. m.latchOutput /\ ~m.enableOutput => m.delayStarted >= shown'.since + rest
  <2> SUFFICES ASSUME m.latchOutput, ~m.enableOutput
               PROVE  m.delayStarted >= shown'.since + rest
    OBVIOUS
  <2>1. Started
    BY <1>2, <1>4 DEF ChillerStepped
  <2>2. CASE k.latchOutput
    <3>1. ~k.enableOutput /\ m.delayStarted = k.delayStarted
      BY <1>2, <1>4, <2>1, <2>2 DEF ChillerStepped
    <3>2. shown' = shown
      BY <1>4, <1>6, <1>8, <2>1, <3>1
    <3> QED BY <1>3, <2>1, <2>2, <3>1, <3>2 DEF ChillerKept
  <2>3. CASE ~k.latchOutput
    <3>1. m.previousAllEnable /\ m.delayStarted = t
      BY <1>2, <1>4, <2>1, <2>3 DEF ChillerStepped
    <3>2. held.passed
      BY <1>2, <3>1 DEF ChillerStepped, held
    <3>3. t >= held.entry_time + rest /\ held.entry_time >= shown'.since
      BY <1>9, <1>10, <3>2
    <3> QED BY <1>1, <1>8, <1>9, <3>1, <3>3
  <2> QED BY <2>2, <2>3
<1>13. ChillerKept'
  BY <1>1, <1>5, <1>6, <1>7, <1>8, <1>9, <1>10, <1>11, <1>12 DEF ChillerKept, Rest, held
<1>14. Dwells
  <2> SUFFICES ASSUME Started, m.enableOutput # k.enableOutput
               PROVE  t - shown.since >= Waits(shown, m.enableOutput)
    BY <1>8 DEF Dwells
  <2>1. CASE m.enableOutput
    <3>1. /\ ~k.enableOutput /\ k.latchOutput
          /\ t - k.delayStarted >= Plant.enable_delay
      BY <1>2, <1>4, <1>6, <2>1 DEF ChillerStepped
    <3>2. k.delayStarted >= shown.since + rest /\ k.delayStarted \in Nat \cup {Never}
      BY <1>3, <3>1 DEF ChillerKept
    <3>3. Waits(shown, m.enableOutput) = rest + Plant.enable_delay
      BY <2>1 DEF Waits
    <3> QED BY <1>1, <1>8, <3>1, <3>2, <3>3 DEF Never
  <2>2. CASE ~m.enableOutput
    <3>1. Waits(shown, m.enableOutput) = 0
      BY <2>2 DEF Waits
    <3> QED BY <1>8, <3>1
  <2> QED BY <1>6, <2>1, <2>2
<1> QED BY <1>13, <1>14

-----------------------------------------------------------------------------
(* Steps.                                                                  *)

LEMMA Remembers ==
    ASSUME ticks \in Nat \ {0}, NEW S, NEW s \in Seq(S), NEW x
    PROVE  /\ \E U : Recent(Append(s, x)) \in Seq(U)
           /\ Recent(Append(s, x))[Len(Recent(Append(s, x)))] = x
<1> DEFINE U == S \cup {x}
           r == Append(s, x)
<1>1. s \in Seq(U)
  BY SeqMonotonic
<1>2. r \in Seq(U) /\ r # <<>> /\ Len(r) = Len(s) + 1 /\ r[Len(s) + 1] = x /\ Len(s) \in Nat
  BY <1>1, AppendProperties, LenProperties
<1>3. CASE Len(r) > Reach
  <2>1. Tail(r) \in Seq(U) /\ Len(Tail(r)) = Len(r) - 1
        /\ \A i \in 1 .. Len(Tail(r)) : Tail(r)[i] = r[i + 1]
    BY <1>2, HeadTailProperties
  <2>2. Recent(r) = Tail(r)
    BY <1>3 DEF Recent
  <2>3. Len(r) - 1 \in 1 .. Len(Tail(r))
    BY <1>2, <1>3, <2>1 DEF Reach
  <2>4. Tail(r)[Len(Tail(r))] = x
    BY <1>2, <2>1, <2>3
  <2> QED BY <2>1, <2>2, <2>4
<1>4. CASE ~(Len(r) > Reach)
  <2>1. Recent(r) = r
    BY <1>4 DEF Recent
  <2> QED BY <1>2, <2>1
<1> QED BY <1>3, <1>4

LEMMA InitIInv == Init => IInv
<1> SUFFICES ASSUME Init PROVE IInv
  OBVIOUS
<1>1. samples = <<>> /\ <<>> \in Seq({})
  BY DEF Init
<1>2. Shape
  BY <1>1, TicksAssumption DEF Init, Shape, Started
<1> QED BY <1>1, <1>2 DEF Init, IInv, Kept, Started, ChillerPermitted

(* An execution of a watched kernel keeps what its fields say. *)
LEMMA Runs ==
    ASSUME Shape, Kept, Watched, NEW t, NEW u, Executed(t, u),
           UNCHANGED <<kind, ticks>>
    PROVE  Kept' /\ Dwells /\ shown'.since \in 0 .. time'
<1>1. shown'.since \in 0 .. t /\ time' = t
  BY Notices DEF Executed
<1>2. kind \in Dwelling
  BY DEF Watched
<1>3. CASE kind = "true_false_hold"
  BY <1>1, <1>3, Hold DEF Kept
<1>4. CASE kind = "plant_enable"
  BY <1>1, <1>4, PlantRuns DEF Kept
<1>5. CASE kind = "equipment"
  BY <1>1, <1>5, EquipmentRuns DEF Kept
<1>6. CASE kind = "stage_index"
  BY <1>1, <1>6, Stage DEF Kept
<1>7. CASE kind = "hrc_enable"
  BY <1>1, <1>7, ChillerRuns DEF Kept
<1> QED BY <1>2, <1>3, <1>4, <1>5, <1>6, <1>7 DEF Dwelling

LEMMA Evaluates ==
    ASSUME Shape, Kept, Start \/ \E u \in Input(kind) : Scan(u)
    PROVE  /\ Shape' /\ Kept'
           /\ shown # <<>> => Dwells \/ shown' = shown
<1>1. UNCHANGED <<kind, ticks, feed>> /\ Watched' = Watched
  BY DEF Start, Scan, Watched
<1>2. time' \in Nat
  BY DEF Start, Scan, Shape, Started
<1>3. \E S : samples' \in Seq(S)
  <2>1. CASE samples' = samples
    BY <2>1 DEF Shape
  <2>2. CASE \E x : samples' = Recent(Append(samples, x))
    BY <2>2, Remembers DEF Shape
  <2> QED BY <2>1, <2>2 DEF Start, Scan
<1>4. CASE Watched
  <2>1. PICK t, u : Executed(t, u)
    BY <1>4, Executes
  <2>2. Kept' /\ Dwells /\ shown'.since \in 0 .. time'
    BY <1>1, <1>4, <2>1, Runs
  <2>3. Shape'
    BY <1>1, <1>2, <1>3, <1>4, <2>2 DEF Shape, Started, Never
  <2> QED BY <2>2, <2>3
<1>5. CASE ~Watched
  <2>1. shown' = shown /\ shown = <<>>
    BY <1>5 DEF Shape, Start, Scan, Noticed, Watched
  <2>2. Shape'
    BY <1>1, <1>2, <1>3, <1>5, <2>1 DEF Shape, Started, Never
  <2>3. Kept'
    BY <1>1, <1>5 DEF Kept
  <2> QED BY <2>1, <2>2, <2>3
<1> QED BY <1>4, <1>5

LEMMA PhaseStep ==
    ASSUME IInv, NEW u \in Input(kind), Phase(u)
    PROVE  IInv' /\ shown' = shown
<1>1. UNCHANGED <<kind, ticks, feed, time, kernel, samples, shown>> /\ feed # "blocks"
  BY DEF Phase
<1>2. Shape' /\ Kept'
  BY <1>1 DEF IInv, Shape, Kept, Started, Watched, HoldKept, Age, PlantKept, EquipmentKept,
              StageKept, ChillerKept, Rest
<1>3. kind # "hrc_enable"
  BY <1>1 DEF IInv, Shape, Program
<1> QED BY <1>1, <1>2, <1>3 DEF IInv, ChillerPermitted

LEMMA PermittedStep ==
    ASSUME IInv, Start \/ \E u \in Input(kind) : Scan(u)
    PROVE  ChillerPermitted'
<1> SUFFICES ASSUME kind = "hrc_enable", samples' # <<>>
             PROVE  LET out == samples'[Len(samples')].shadow
                    IN  /\ out.enable => input'.cooling_plant /\ input'.heating_plant
                        /\ ~(out.enable /\ out.set_mode)
  BY DEF ChillerPermitted, Start, Scan
<1>1. Watched
  BY DEF IInv, Shape, Watched, Dwelling, Program
<1>2. PICK u \in Input(kind) : Scan(u)
  BY DEF Start, IInv, Shape, Started
<1>3. Started /\ ChillerKept /\ ticks = 1 /\ input' = u
  BY <1>1, <1>2 DEF IInv, Kept, Scan, Started, Watched
<1> DEFINE step == HrcEnableStep(kernel, time + 1, u)
           m == step.mem
<1>4. PICK w, b : samples' = Recent(Append(samples, [shadow |-> Advanced(w, u).out, block |-> b]))
  BY <1>2, Delivers DEF Scan, IInv, Opens
<1>5. Advanced(w, u) = step
  BY <1>3, OneTick DEF Instant, KernelStep, Resampled
<1>6. samples'[Len(samples')].shadow = step.out
  <2> DEFINE x == [shadow |-> Advanced(w, u).out, block |-> b]
  <2>1. x.shadow = step.out
    BY <1>5
  <2>2. ticks \in Nat \ {0} /\ \E S : samples \in Seq(S)
    BY DEF IInv, Shape
  <2> HIDE DEF x
  <2>3. samples' = Recent(Append(samples, x))
    BY <1>4 DEF x
  <2>4. samples'[Len(samples')] = x
    BY <2>2, <2>3, Remembers
  <2> QED BY <2>1, <2>4
<1>7. /\ ChillerStepped(kernel, time + 1, u, m)
      /\ step.out = [enable |-> m.enableOutput, set_mode |-> m.latchOutput /\ ~kernel.latchOutput]
  BY ChillerExecutes, Zenon
<1> HIDE DEF step, m
<1>8. m.enableOutput => m.latchOutput /\ kernel.latchOutput
  BY <1>3, <1>7 DEF ChillerStepped, ChillerKept
<1>9. m.latchOutput => ~m.previousDisable
  BY <1>3, <1>7 DEF ChillerStepped, ChillerKept, Decides
<1>10. m.enableOutput => u.cooling_plant /\ u.heating_plant
  BY <1>7, <1>8, <1>9 DEF ChillerStepped
<1> DEFINE out == samples'[Len(samples')].shadow
<1>11. out.enable = m.enableOutput /\ out.set_mode = (m.latchOutput /\ ~kernel.latchOutput)
  BY <1>6, <1>7
<1> HIDE DEF out
<1>12. /\ out.enable => input'.cooling_plant /\ input'.heating_plant
       /\ ~(out.enable /\ out.set_mode)
  BY <1>3, <1>8, <1>10, <1>11
<1> QED BY <1>12 DEF out

LEMMA StepIInv == IInv /\ [Next]_vars => IInv'
<1> SUFFICES ASSUME IInv, [Next]_vars PROVE IInv'
  OBVIOUS
<1>1. CASE Start \/ \E u \in Input(kind) : Scan(u)
  BY <1>1, Evaluates, PermittedStep DEF IInv
<1>2. CASE \E u \in Input(kind) : Phase(u)
  BY <1>2, PhaseStep
<1>3. CASE UNCHANGED vars
  BY <1>3 DEF vars, IInv, Shape, Kept, Started, Watched, HoldKept, Age, PlantKept,
              EquipmentKept, StageKept, ChillerKept, Rest, ChillerPermitted
<1> QED BY <1>1, <1>2, <1>3 DEF Next

-----------------------------------------------------------------------------
(* The two engines: how the fields of a block in the one are those of the  *)
(* other, a kind at a time, after the instant t; Never is before the start. *)
DelayAlike(k, m, t) ==
    /\ m \in [out : BOOLEAN, pending : BOOLEAN, elapsed : Int, first : BOOLEAN]
    /\ k.initialized = (t # Never) /\ m.first = (t = Never) /\ k.at = t /\ k.timer \in Int
    /\ k.held = m.out /\ k.previous = m.pending
    /\ m.out => m.pending
    /\ t = Never => ~m.pending
    /\ m.pending /\ ~m.out => k.timer = m.elapsed

TimerAlike(k, m) ==
    /\ k.initialized = ~m.first /\ k.initialized \in BOOLEAN
    /\ k.previous = m.previous /\ k.previous \in BOOLEAN
    /\ k.passed = m.passed /\ k.passed \in BOOLEAN
    /\ k.previous => k.initialized /\ k.entry = m.entry_time

ResetTimerAlike(k, m) ==
    /\ k.initialized = ~m.new /\ m.new \in BOOLEAN /\ k.entry = m.entry_time
    /\ k.previous = m.previous /\ k.previous \in BOOLEAN
    /\ k.reset = m.reset /\ k.reset \in BOOLEAN
    /\ k.passed = m.passed /\ k.passed \in BOOLEAN

AccumulatingAlike(k, m, t) ==
    /\ k.initialized = (t # Never) /\ k.at = t
    /\ k.elapsed = m.elapsed /\ k.elapsed \in Int
    /\ k.previous = m.previous /\ k.previous \in BOOLEAN
    /\ k.reset = m.reset /\ k.reset \in BOOLEAN
    /\ k.passed = m.passed /\ k.passed \in BOOLEAN
    /\ t = Never => /\ k.elapsed = 0 /\ ~k.previous /\ ~k.reset /\ k.passed = (Threshold <= 0)

HoldAlike(k, m, t) ==
    /\ k.initialized = m.initialized /\ k.initialized = (t # Never) /\ k.at = t
    /\ k.held = m.held /\ k.held \in BOOLEAN
    /\ k.elapsed = m.elapsed /\ k.elapsed \in Int

LatchAlike(k, m) ==
    /\ k.output = m.out /\ m.out \in BOOLEAN
    /\ k.set = m.previous_set /\ m.previous_set \in BOOLEAN

SamplerAlike(k, m, t) ==
    IF t = Never THEN k = SamplerStart /\ m = NumericSamplerNew
    ELSE /\ k.initialized /\ ~m.new /\ k.held = m.held
         /\ k.index = m.last_index /\ m.last_index = Index(t)

UnitDelayAlike(k, m, t) ==
    /\ k.initialized /\ k.index = Index(t)
    /\ m \in [new : {FALSE}, held : {k.held}, staged : {k.staged}, last_index : {Index(t)}]

DelayedAlike(k, m, t) ==
    IF t = Never THEN k = UnitDelayStart /\ m = NumericUnitDelayNew ELSE UnitDelayAlike(k, m, t)

FirstOrderAlike(k, m, t) ==
    IF t = Never THEN k = FirstOrderHoldStart /\ m = HoldNew
    ELSE /\ k \in [initialized : {TRUE}, sample : Int, before : Int, rise : Int,
                   index : Int, at : Int]
         /\ k.index = Index(t) /\ k.at <= t
         /\ m.new = FALSE /\ m.last_index = Index(t) /\ m.at = k.at
         /\ m.sample = k.sample /\ m.before = k.before /\ m.rise = k.rise

TriggerAlike(k, m, t) ==
    /\ k.index = m.last_index /\ m.last_index \in Int
    /\ t # Never => (t - Offset) \div SamplePeriod <= m.last_index

IntegratorAlike(k, m, t) ==
    k.state = m.x /\ k.time = m.time /\ m.time = t /\ k.trigger = m.trigger /\ k.instant = t

PidAlike(k, m, t) ==
    /\ k.last = t /\ m.first = (t = Never)
    /\ k.pending = [integral |-> m.integral, trigger |-> m.trigger]
    /\ t = Never => k.base = k.pending

(* The checkpoints of the window and the last one before it, one an instant. *)
Checkpoint == [time : Int, mu : Int]
Spaced(points, t) ==
    /\ points \in Seq(Checkpoint) /\ Len(points) = Smaller(t, Window) + 1
    /\ \A i \in 1 .. Len(points) : points[i].time = t - Len(points) + i

MeanAlike(k, m, t) ==
    IF t = Never THEN k = MovingAverageStart /\ m = MeanNew
    ELSE /\ k.mu = m.mu /\ m.mu \in Int /\ k.start = 0 /\ m.start = 0 /\ k.at = t /\ m.at = t
         /\ k.points = m.points /\ Spaced(m.points, t)

Device == [out : BOOLEAN, pending : BOOLEAN, elapsed : Int]
DeviceAlike(d, e) ==
    /\ d \in Device /\ e \in Device
    /\ d.out = e.out /\ d.pending = e.pending /\ d.elapsed = e.elapsed

RequestAlike(h, g) ==
    /\ h.initialized = g.initialized /\ g.initialized \in BOOLEAN
    /\ h.out = g.out /\ g.out \in BOOLEAN /\ h.latch = g.latch /\ g.latch \in BOOLEAN
    /\ h.elapsed = g.elapsed /\ g.elapsed \in Int /\ h.index = g.index /\ g.index \in Int

TrimAlike(k, m, t) ==
    /\ k.at = t
    /\ DeviceAlike(k.delay, m.delay) /\ RequestAlike(k.hold, m.hold)
    /\ SamplerAlike(k.sampler, m.sampler, t)
    /\ IF t = Never THEN /\ k.unit.initialized = FALSE /\ k.unit.index = 0
                         /\ k.unit.held = Trim.initial /\ m.unit.new = TRUE
                    ELSE UnitDelayAlike(k.unit, m.unit, t)

PlantAlike(k, m) ==
    /\ k.initialized = ~m.new /\ m.new \in BOOLEAN /\ k.enabled \in BOOLEAN
    /\ m.new => ~k.enabled
    /\ ~m.new => /\ k.enabled = m.enabled /\ k.lowRequestSince = m.low_since
                 /\ m.since = IF m.enabled THEN k.enabledSince ELSE k.disabledSince

ChillerAlike(k, m) ==
    /\ k.firstStep = m.first /\ k.timers = m.timers
    /\ k.high = <<m.high_cooling, m.high_heating>> /\ k.low = <<m.low_cooling, m.low_heating>>
    /\ k.previousHrcStatus = m.status /\ k.previousAllEnable = m.all_enable
    /\ k.previousDisable = m.disable /\ k.latchOutput = m.latch
    /\ k.enableOutput = m.enable /\ k.delayStarted = m.delay_started
    /\ m.first \in BOOLEAN /\ m.status \in BOOLEAN /\ m.all_enable \in BOOLEAN
    /\ m.disable \in BOOLEAN /\ m.latch \in BOOLEAN /\ m.enable \in BOOLEAN
    /\ m.first => ~m.latch

ModeAlike(k, m) ==
    /\ k.comparison = m.comparison /\ k.comparison \in BOOLEAN
    /\ k.coolingMode = m.cooling_mode /\ k.coolingMode \in BOOLEAN

CompletionAlike(k, m) ==
    /\ k.commandMask = m.commands /\ k.stage = m.stage
    /\ k.anyChange = m.any_change /\ k.anyChange \in BOOLEAN
    /\ k.preAnyChange = m.pre_any_change /\ k.preAnyChange \in BOOLEAN
    /\ k.stageChange = m.stage_change /\ k.stageChange \in BOOLEAN
    /\ k.changeLatch = m.change_latch /\ k.changeLatch \in BOOLEAN
    /\ k.stageLatch = m.stage_latch /\ k.stageLatch \in BOOLEAN

StageAlike(k, m, t) ==
    /\ k.stage = m.stage /\ m.stage \in Nat /\ m.elapsed \in Int /\ k.enteredAt \in Int
    /\ m.stage # 0 => t # Never /\ m.elapsed = t - k.enteredAt

Alike(b, k, m, t) ==
    /\ b = "true_delay" => DelayAlike(k, m, t)
    /\ b = "timer" => TimerAlike(k, m)
    /\ b = "timer_with_reset" => ResetTimerAlike(k, m)
    /\ b = "timer_accumulating" => AccumulatingAlike(k, m, t)
    /\ b = "true_false_hold" => HoldAlike(k, m, t)
    /\ b \in {"pre", "one_shot", "falling_edge", "changed", "increased", "decreased",
              "equipment"} => k = m
    /\ b = "initialization" => k.first = ~m.initialized /\ m.initialized = (t # Never)
    /\ b = "set_reset" => LatchAlike(k, m)
    /\ b = "hysteresis" => k.output = m.out /\ m.out \in BOOLEAN
    /\ b = "sample_trigger" => TriggerAlike(k, m, t)
    /\ b = "sampler" => SamplerAlike(k, m, t)
    /\ b = "unit_delay" => DelayedAlike(k, m, t)
    /\ b = "first_order_hold" => FirstOrderAlike(k, m, t)
    /\ b = "integrator" => IntegratorAlike(k, m, t)
    /\ b = "on_counter" => k.now = m /\ k.instant = t
    /\ b = "pid" => PidAlike(k, m, t)
    /\ b = "moving_average" => MeanAlike(k, m, t)
    /\ b = "trim_and_respond" => TrimAlike(k, m, t)
    /\ b = "plant_enable" => PlantAlike(k, m)
    /\ b = "hrc_enable" => ChillerAlike(k, m)
    /\ b = "hrc_mode" => ModeAlike(k, m)
    /\ b = "stage_completion" => CompletionAlike(k, m)
    /\ b = "stage_index" => StageAlike(k, m, t)

(* A window of a moving average that the interpreter keeps whole.          *)
Averaged == MaxPoints \in Int /\ Window < MaxPoints

Compared == feed = "blocks" \/ (feed = "phases" /\ kind \in Clocked)
Same == Compared => Alike(kind, kernel, memory, time)

Instants == Nat \cup {Never}
Lapse(s) == IF s = Never THEN 0 ELSE 1

-----------------------------------------------------------------------------
(* One instant of a block in the two engines.  A kind at a time: they show *)
(* the same, and are left alike.                                           *)

(* A delay: one timer counts up in both, restarted by the other edge.      *)
LEMMA DelayTwin ==
    ASSUME NEW k, NEW m, NEW s \in Instants, NEW u \in [in : BOOLEAN], DelayAlike(k, m, s)
    PROVE  LET r == TrueDelayStep(k, s + 1, u)
               x == BooleanDelayScan(m, s + 1, Lapse(s), u)
           IN  r.out = x.out /\ DelayAlike(r.mem, x.mem, s + 1)
<1> DEFINE r == TrueDelayStep(k, s + 1, u)
           x == BooleanDelayScan(m, s + 1, Lapse(s), u)
           waited == k.timer + (s + 1) - k.at
           out == /\ u.in
                  /\ \/ ~k.initialized \/ k.held
                     \/ IF k.previous THEN waited >= Delay ELSE Delay <= 0
           timer == IF ~u.in THEN 0
                    ELSE IF ~k.initialized \/ k.held THEN Delay
                    ELSE IF k.previous THEN waited ELSE 0
           wait == IF u.in THEN Delay ELSE 0
           elapsed == m.elapsed + Lapse(s)
           next == IF m.first /\ u.in
                THEN [m EXCEPT !.out = TRUE, !.pending = TRUE, !.elapsed = Delay]
                ELSE IF u.in = m.out THEN [m EXCEPT !.elapsed = 0, !.pending = u.in]
                ELSE IF u.in # m.pending
                THEN [m EXCEPT !.pending = u.in, !.elapsed = 0,
                               !.out = IF wait <= 0 THEN u.in ELSE @]
                ELSE IF elapsed >= wait THEN [m EXCEPT !.out = u.in, !.elapsed = 0]
                ELSE [m EXCEPT !.elapsed = elapsed]
<1>0. /\ u.in \in BOOLEAN /\ m.out \in BOOLEAN /\ m.pending \in BOOLEAN /\ m.first \in BOOLEAN
      /\ m.elapsed \in Int /\ Delay \in Int /\ s + 1 \in Nat /\ s + 1 # Never
  BY DelayAssumption DEF DelayAlike, Instants, Never
<1>1. /\ r.out = out /\ r.mem.initialized = TRUE /\ r.mem.previous = u.in
      /\ r.mem.held = out /\ r.mem.timer = timer /\ r.mem.at = s + 1
  BY DEF TrueDelayStep, Ran
<1>2. x.out = next.out /\ x.mem = [next EXCEPT !.first = FALSE]
  BY DEF BooleanDelayScan, Shown
<1>3. out = (u.in /\ (m.first \/ m.out \/ IF m.pending THEN elapsed >= Delay ELSE Delay <= 0))
  <2>1. /\ k.previous = m.pending /\ k.held = m.out /\ m.first = (~k.initialized)
    BY DEF DelayAlike
  <2>2. m.pending /\ ~m.out => waited = elapsed
    BY <1>0 DEF DelayAlike, Lapse, Never, Instants
  <2> HIDE DEF waited, elapsed
  <2> QED BY <2>1, <2>2, <1>0
<1> DEFINE Twin(n) == /\ n \in [out : BOOLEAN, pending : BOOLEAN, elapsed : Int, first : BOOLEAN]
                      /\ n.out = out /\ n.pending = u.in
                      /\ u.in /\ ~out => n.elapsed = timer
<1>4. Twin(next)
  <2>1. CASE m.first /\ u.in
    <3> DEFINE a == [m EXCEPT !.out = TRUE]
               b == [a EXCEPT !.pending = TRUE]
               c == [b EXCEPT !.elapsed = Delay]
    <3>1. /\ a \in [out : BOOLEAN, pending : BOOLEAN, elapsed : Int, first : BOOLEAN]
          /\ a.out = TRUE
      BY <1>0 DEF DelayAlike
    <3>2. /\ b \in [out : BOOLEAN, pending : BOOLEAN, elapsed : Int, first : BOOLEAN]
          /\ b.out = TRUE /\ b.pending = TRUE
      <4> HIDE DEF a
      <4> QED BY <3>1
    <3>3. /\ c \in [out : BOOLEAN, pending : BOOLEAN, elapsed : Int, first : BOOLEAN]
          /\ c.out = TRUE /\ c.pending = TRUE
      <4> HIDE DEF b
      <4> QED BY <3>2, <1>0
    <3>4. next = c /\ out = TRUE /\ u.in = TRUE
      BY <1>0, <1>3, <2>1
    <3> QED BY <3>3, <3>4
  <2>2. CASE ~(m.first /\ u.in) /\ u.in = m.out
    <3>1. next = [m EXCEPT !.elapsed = 0, !.pending = u.in]
      BY <2>2
    <3>2. next.out = m.out /\ next.pending = u.in
      BY <3>1 DEF DelayAlike
    <3>3. next \in [out : BOOLEAN, pending : BOOLEAN, elapsed : Int, first : BOOLEAN]
      <4> DEFINE a == [m EXCEPT !.elapsed = 0]
      <4>1. a \in [out : BOOLEAN, pending : BOOLEAN, elapsed : Int, first : BOOLEAN]
        BY DEF DelayAlike
      <4>2. next = [a EXCEPT !.pending = u.in]
        BY <3>1
      <4> HIDE DEF a, next
      <4> QED BY <4>1, <4>2, <1>0
    <3> QED BY <3>2, <3>3, <2>2, <1>0, <1>3
  <2>3. CASE ~(m.first /\ u.in) /\ u.in # m.out /\ u.in # m.pending
    <3> DEFINE a == [m EXCEPT !.pending = u.in]
               b == [a EXCEPT !.elapsed = 0]
               now == IF wait <= 0 THEN u.in ELSE m.out
    <3>1. /\ a \in [out : BOOLEAN, pending : BOOLEAN, elapsed : Int, first : BOOLEAN]
          /\ a.pending = u.in /\ a.out = m.out
      BY <1>0 DEF DelayAlike
    <3>2. /\ b \in [out : BOOLEAN, pending : BOOLEAN, elapsed : Int, first : BOOLEAN]
          /\ b.pending = u.in /\ b.elapsed = 0 /\ b.out = m.out
      <4> HIDE DEF a
      <4> QED BY <3>1
    <3>3. now \in BOOLEAN /\ now = out
      <4>1. m.out = ~u.in /\ m.pending = ~u.in /\ (m.first => ~u.in)
        BY <2>3, <1>0
      <4> HIDE DEF out
      <4>2. CASE u.in = FALSE
        <5>1. now = FALSE
          BY <4>1, <4>2
        <5>2. out = FALSE
          BY <1>3, <4>2
        <5> QED BY <5>1, <5>2
      <4>3. CASE u.in = TRUE
        <5>1. m.out = FALSE /\ m.pending = FALSE /\ m.first = FALSE
          BY <4>1, <4>3, <1>0
        <5>2. out = (Delay <= 0)
          BY <4>3, <5>1, <1>3, <1>0
        <5>3. now = IF Delay <= 0 THEN TRUE ELSE FALSE
          BY <4>3, <5>1
        <5> DEFINE z == Delay <= 0
        <5>4. out = z /\ now = IF z THEN TRUE ELSE FALSE
          BY <5>2, <5>3
        <5>5. z \in BOOLEAN
          OBVIOUS
        <5> HIDE DEF now, z
        <5> QED BY <5>4, <5>5
      <4> QED BY <4>2, <4>3, <1>0
    <3>4. next = [b EXCEPT !.out = now]
      BY <2>3, <3>2
    <3>5. /\ next \in [out : BOOLEAN, pending : BOOLEAN, elapsed : Int, first : BOOLEAN]
          /\ next.out = out /\ next.pending = u.in /\ next.elapsed = 0
      <4> HIDE DEF b, now, next
      <4> QED BY <3>2, <3>3, <3>4
    <3>6. u.in /\ ~out => timer = 0
      BY <2>3, <1>0 DEF DelayAlike
    <3> HIDE DEF next, timer, out
    <3> QED BY <3>5, <3>6
  <2>4. CASE ~(m.first /\ u.in) /\ u.in # m.out /\ u.in = m.pending /\ elapsed >= wait
    <3>1. out = u.in
      BY <2>4, <1>0, <1>3 DEF DelayAlike
    <3> DEFINE a == [m EXCEPT !.out = u.in]
    <3>2. /\ a \in [out : BOOLEAN, pending : BOOLEAN, elapsed : Int, first : BOOLEAN]
          /\ a.pending = u.in /\ a.out = out
      BY <2>4, <1>0, <3>1 DEF DelayAlike
    <3>3. next = [a EXCEPT !.elapsed = 0]
      BY <2>4
    <3>4. /\ next \in [out : BOOLEAN, pending : BOOLEAN, elapsed : Int, first : BOOLEAN]
          /\ next.pending = u.in /\ next.out = out
      <4> HIDE DEF a, next, out
      <4> QED BY <3>2, <3>3
    <3> HIDE DEF next, timer, out
    <3> QED BY <3>1, <3>4
  <2>5. CASE ~(m.first /\ u.in) /\ u.in # m.out /\ u.in = m.pending /\ ~(elapsed >= wait)
    <3>1. out = m.out
      BY <2>5, <1>0, <1>3 DEF DelayAlike
    <3>2. next = [m EXCEPT !.elapsed = elapsed] /\ elapsed \in Int
      BY <2>5, <1>0 DEF Lapse
    <3>3. /\ next \in [out : BOOLEAN, pending : BOOLEAN, elapsed : Int, first : BOOLEAN]
          /\ next.pending = u.in /\ next.out = out /\ next.elapsed = elapsed
      <4> HIDE DEF next, out, elapsed
      <4> QED BY <3>1, <3>2, <2>5 DEF DelayAlike
    <3>4. u.in /\ ~out => timer = elapsed
      BY <2>5, <1>0, <3>1 DEF DelayAlike, Lapse, Never, Instants
    <3> HIDE DEF next, timer, out, elapsed
    <3> QED BY <3>3, <3>4
  <2> QED BY <2>1, <2>2, <2>3, <2>4, <2>5
<1>5. timer \in Int /\ (out => u.in)
  BY <1>0 DEF DelayAlike, Instants, Never
<1>6. /\ x.mem \in [out : BOOLEAN, pending : BOOLEAN, elapsed : Int, first : BOOLEAN]
      /\ x.mem.first = FALSE
      /\ x.mem.out = next.out /\ x.mem.pending = next.pending /\ x.mem.elapsed = next.elapsed
  <2> HIDE DEF next, x
  <2> QED BY <1>2, <1>4
<1>7. r.out = x.out
  <2> HIDE DEF r, x, next, out, timer
  <2> QED BY <1>1, <1>2, <1>4
<1>8. DelayAlike(r.mem, x.mem, s + 1)
  <2> HIDE DEF r, x, next, out, timer
  <2> QED BY <1>0, <1>1, <1>4, <1>5, <1>6 DEF DelayAlike
<1> QED BY <1>7, <1>8

(* A timer, with or without a reset: the entry time is the same.           *)
LEMMA TimerTwin ==
    ASSUME NEW k, NEW m, NEW t, NEW d, NEW u \in [in : BOOLEAN], TimerAlike(k, m)
    PROVE  LET r == TimerStep(k, t, u)
               x == TimerScan(m, t, d, u)
           IN  r.out = x.out /\ TimerAlike(r.mem, x.mem)
<1> DEFINE r == TimerStep(k, t, u)
           x == TimerScan(m, t, d, u)
           zero == Threshold <= 0
           elapsed == IF u.in /\ k.initialized /\ k.previous THEN t - k.entry ELSE 0
           passed == IF u.in THEN IF k.previous THEN k.passed \/ elapsed >= Threshold ELSE zero
                     ELSE k.passed /\ ~k.previous
           goes == u.in /\ ~m.first /\ m.previous
           lasts == IF goes THEN t - m.entry_time ELSE 0
           passes == IF u.in /\ ~m.previous THEN zero
                  ELSE IF u.in /\ lasts >= Threshold THEN TRUE
                  ELSE IF ~u.in /\ m.previous THEN FALSE
                  ELSE m.passed
<1>1. /\ r.out = <<elapsed, passed>> /\ r.mem.initialized = TRUE /\ r.mem.previous = u.in
      /\ r.mem.passed = passed
      /\ r.mem.entry = IF u.in /\ (~k.initialized \/ ~k.previous) THEN t ELSE k.entry
  BY DEF TimerStep, Ran
<1>2. /\ x.out = <<lasts, passes>> /\ x.mem.first = FALSE /\ x.mem.previous = u.in
      /\ x.mem.passed = passes /\ x.mem.entry_time = IF u.in /\ ~goes THEN t ELSE m.entry_time
  BY DEF TimerScan, Shown
<1> HIDE DEF r, x
<1>3. u.in \in BOOLEAN /\ m.passed \in BOOLEAN /\ m.previous \in BOOLEAN
  BY DEF TimerAlike
<1>4. /\ k.previous = m.previous /\ k.passed = m.passed
      /\ m.previous => k.initialized /\ ~m.first /\ k.entry = m.entry_time
  BY DEF TimerAlike
<1>5. elapsed = lasts
  BY <1>3, <1>4
<1>6. passed = passes /\ passes \in BOOLEAN
  <2> DEFINE p == m.previous
             i == u.in
             q == m.passed
             g == lasts >= Threshold
  <2>1. passed = (IF i THEN IF p THEN q \/ g ELSE zero ELSE q /\ ~p)
    BY <1>4, <1>5
  <2>2. passes = IF i /\ ~p THEN zero ELSE IF i /\ g THEN TRUE ELSE IF ~i /\ p THEN FALSE ELSE q
    OBVIOUS
  <2>3. p \in BOOLEAN /\ i \in BOOLEAN /\ q \in BOOLEAN /\ g \in BOOLEAN /\ zero \in BOOLEAN
    BY <1>3
  <2> HIDE DEF p, i, q, g, zero, passed, passes
  <2> QED BY <2>1, <2>2, <2>3
<1> HIDE DEF passed, passes, elapsed, lasts
<1>7. TimerAlike(r.mem, x.mem)
  BY <1>1, <1>2, <1>3, <1>4, <1>6 DEF TimerAlike
<1>8. r.out = x.out
  BY <1>1, <1>2, <1>5, <1>6
<1> QED BY <1>7, <1>8 DEF r, x

LEMMA ResetTimerTwin ==
    ASSUME NEW k, NEW m, NEW t, NEW d, NEW u \in [in : BOOLEAN, reset : BOOLEAN],
           ResetTimerAlike(k, m)
    PROVE  LET r == TimerWithResetStep(k, t, u)
               x == TimerWithResetScan(m, t, d, u)
           IN  r.out = x.out /\ ResetTimerAlike(r.mem, x.mem)
<1> DEFINE r == TimerWithResetStep(k, t, u)
           x == TimerWithResetScan(m, t, d, u)
           zero == Threshold <= 0
           new == ~k.initialized \/ (u.in /\ ~k.previous) \/ (u.reset /\ ~k.reset)
           entry == IF new THEN t ELSE k.entry
           passed == IF new THEN u.in /\ zero
                  ELSE IF u.in /\ t >= k.entry + Threshold THEN TRUE
                  ELSE k.passed /\ ~(~u.in /\ k.previous)
           elapsed == IF u.in /\ k.initialized THEN t - entry ELSE 0
           renews == m.new \/ (u.in /\ ~m.previous) \/ (u.reset /\ ~m.reset)
           begins == IF renews THEN t ELSE m.entry_time
           passes == IF renews THEN u.in /\ zero
                  ELSE IF u.in /\ t >= m.entry_time + Threshold THEN TRUE
                  ELSE IF ~u.in /\ m.previous THEN FALSE
                  ELSE m.passed
           lasts == IF u.in /\ ~m.new THEN t - begins ELSE 0
<1>1. /\ r.out = <<elapsed, passed>> /\ r.mem.initialized = TRUE /\ r.mem.previous = u.in
      /\ r.mem.passed = passed /\ r.mem.entry = entry /\ r.mem.reset = u.reset
  BY DEF TimerWithResetStep, Ran
<1>2. /\ x.out = <<lasts, passes>> /\ x.mem.new = FALSE /\ x.mem.previous = u.in
      /\ x.mem.passed = passes /\ x.mem.entry_time = begins /\ x.mem.reset = u.reset
  BY DEF TimerWithResetScan, Shown
<1> HIDE DEF r, x
<1>3. /\ u.in \in BOOLEAN /\ u.reset \in BOOLEAN
      /\ m.passed \in BOOLEAN /\ m.previous \in BOOLEAN /\ m.new \in BOOLEAN /\ m.reset \in BOOLEAN
  BY DEF ResetTimerAlike
<1>4. /\ k.previous = m.previous /\ k.passed = m.passed /\ k.initialized = ~m.new
      /\ k.reset = m.reset /\ k.entry = m.entry_time
  BY DEF ResetTimerAlike
<1>5. new = renews /\ entry = begins /\ elapsed = lasts
  BY <1>3, <1>4
<1>6. passed = passes /\ passes \in BOOLEAN
  <2> DEFINE p == m.previous
             i == u.in
             q == m.passed
             g == t >= m.entry_time + Threshold
  <2>1. passed = IF new THEN i /\ zero ELSE IF i /\ g THEN TRUE ELSE q /\ ~(~i /\ p)
    BY <1>4, <1>5
  <2>2. passes = IF new THEN i /\ zero ELSE IF i /\ g THEN TRUE
                 ELSE IF ~i /\ p THEN FALSE ELSE q
    BY <1>5
  <2>3. /\ p \in BOOLEAN /\ i \in BOOLEAN /\ q \in BOOLEAN /\ g \in BOOLEAN /\ zero \in BOOLEAN
        /\ new \in BOOLEAN
    BY <1>3
  <2> HIDE DEF p, i, q, g, zero, passed, passes, new
  <2> QED BY <2>1, <2>2, <2>3
<1> HIDE DEF passed, passes, elapsed, lasts, entry, begins
<1>7. ResetTimerAlike(r.mem, x.mem)
  BY <1>1, <1>2, <1>3, <1>4, <1>5, <1>6 DEF ResetTimerAlike
<1>8. r.out = x.out
  BY <1>1, <1>2, <1>5, <1>6
<1> QED BY <1>7, <1>8 DEF r, x

(* An accumulating timer: the time of the last scan is the same in both.   *)
LEMMA AccumulatingTwin ==
    ASSUME NEW k, NEW m, NEW s \in Instants, NEW t, t = s + 1,
           NEW u \in [in : BOOLEAN, reset : BOOLEAN],
           AccumulatingAlike(k, m, s)
    PROVE  LET r == TimerAccumulatingStep(k, t, u)
               x == TimerAccumulatingScan(m, t, Lapse(s), u)
           IN  r.out = x.out /\ AccumulatingAlike(r.mem, x.mem, t)
<1> DEFINE r == TimerAccumulatingStep(k, t, u)
           x == TimerAccumulatingScan(m, t, Lapse(s), u)
           zero == Threshold <= 0
           restarts == k.initialized /\ u.reset /\ ~k.reset
           counts == k.initialized /\ ~restarts
           elapsed == IF restarts THEN 0
                      ELSE IF counts /\ k.previous THEN k.elapsed + (t - k.at)
                      ELSE k.elapsed
           passed == IF restarts THEN zero
                     ELSE k.passed \/ (counts /\ u.in /\ elapsed >= Threshold)
           renews == u.reset /\ ~m.reset
           lasts == IF renews THEN 0 ELSE m.elapsed + (IF m.previous THEN Lapse(s) ELSE 0)
           passes == IF renews THEN zero ELSE (u.in /\ lasts >= Threshold) \/ m.passed
<1>1. /\ r.out = <<elapsed, passed>> /\ r.mem.initialized = TRUE /\ r.mem.previous = u.in
      /\ r.mem.passed = passed /\ r.mem.elapsed = elapsed /\ r.mem.reset = u.reset
      /\ r.mem.at = t
  BY DEF TimerAccumulatingStep, Ran
<1>2. /\ x.out = <<lasts, passes>> /\ x.mem.previous = u.in
      /\ x.mem.passed = passes /\ x.mem.elapsed = lasts /\ x.mem.reset = u.reset
  BY DEF TimerAccumulatingScan, Shown
<1> HIDE DEF r, x
<1>3. /\ u.in \in BOOLEAN /\ u.reset \in BOOLEAN /\ m.elapsed \in Int /\ t # Never
      /\ m.passed \in BOOLEAN /\ m.previous \in BOOLEAN /\ m.reset \in BOOLEAN /\ t \in Int
  BY DEF AccumulatingAlike, Instants, Never
<1>4. /\ k.previous = m.previous /\ k.passed = m.passed /\ k.elapsed = m.elapsed
      /\ k.reset = m.reset /\ k.initialized = (s # Never) /\ k.at = s
  BY DEF AccumulatingAlike
<1>5. CASE s = Never
  <2>1. m.elapsed = 0 /\ m.previous = FALSE /\ m.reset = FALSE /\ m.passed = zero
    BY <1>4, <1>5 DEF AccumulatingAlike
  <2>2. k.initialized = FALSE
    BY <1>4, <1>5
  <2>3. elapsed = 0 /\ lasts = 0
    BY <1>3, <1>4, <2>1, <2>2 DEF Lapse
  <2>4. passed = zero
    <3> DEFINE g == elapsed >= Threshold
    <3>1. passed = IF restarts THEN zero ELSE k.passed \/ (counts /\ u.in /\ g)
      OBVIOUS
    <3>2. ~restarts /\ ~counts /\ k.passed = zero
      BY <1>4, <2>1, <2>2
    <3>3. zero \in BOOLEAN
      OBVIOUS
    <3> HIDE DEF passed, restarts, counts, zero, g
    <3> QED BY <3>1, <3>2, <3>2, <3>3
  <2>5. passes = zero
    <3> HIDE DEF lasts
    <3>1. lasts >= Threshold => zero
      BY <2>3
    <3> DEFINE g == lasts >= Threshold
    <3>2. passes = IF renews THEN zero ELSE (u.in /\ g) \/ zero
      BY <2>1
    <3>3. zero \in BOOLEAN /\ g \in BOOLEAN /\ (g => zero)
      BY <3>1
    <3> HIDE DEF passes, zero, renews, g
    <3> QED BY <3>2, <3>3, <1>3
  <2>6. zero \in BOOLEAN
    OBVIOUS
  <2> HIDE DEF passed, passes, elapsed, lasts, zero
  <2>7. AccumulatingAlike(r.mem, x.mem, t)
    <3>1. x.mem.elapsed \in Int
      BY <1>2, <2>3
    <3>2. r.mem.initialized = (t # Never)
      BY <1>1, <1>3
    <3> QED BY <3>1, <3>2, <1>1, <1>2, <1>3, <2>3, <2>4, <2>5, <2>6 DEF AccumulatingAlike
  <2>8. r.out = x.out
    BY <1>1, <1>2, <2>3, <2>4, <2>5
  <2> QED BY <2>7, <2>8 DEF r, x
<1>6. CASE s \in Nat
  <2>0. s # Never
    BY <1>6 DEF Never
  <2>1. k.initialized = TRUE
    BY <1>4, <2>0
  <2>2. restarts = renews
    BY <1>4, <2>1
  <2>3. elapsed = lasts /\ lasts \in Int
    BY <1>3, <1>4, <1>6, <2>0, <2>1 DEF Lapse
  <2>4. passed = passes /\ passes \in BOOLEAN
    <3> DEFINE g == lasts >= Threshold
               p == m.passed
               i == u.in
    <3>1. passed = IF renews THEN zero ELSE p \/ (~renews /\ i /\ g)
      BY <1>4, <2>1, <2>2, <2>3
    <3>2. passes = IF renews THEN zero ELSE (i /\ g) \/ p
      OBVIOUS
    <3>3. /\ p \in BOOLEAN /\ i \in BOOLEAN /\ g \in BOOLEAN /\ zero \in BOOLEAN
          /\ renews \in BOOLEAN
      BY <1>3
    <3> HIDE DEF p, i, g, zero, passed, passes, renews
    <3> QED BY <3>1, <3>2, <3>2, <3>3
  <2> HIDE DEF passed, passes, elapsed, lasts
  <2>5. AccumulatingAlike(r.mem, x.mem, t)
    BY <1>1, <1>2, <1>3, <2>3, <2>4 DEF AccumulatingAlike
  <2>6. r.out = x.out
    BY <1>1, <1>2, <2>3, <2>4
  <2> QED BY <2>5, <2>6 DEF r, x
<1> QED BY <1>5, <1>6 DEF Instants

(* A hold: neither turns before its output has been held for its time.     *)
LEMMA HoldTwin ==
    ASSUME NEW k, NEW m, NEW s \in Instants, NEW t, t = s + 1, NEW u \in [in : BOOLEAN],
           HoldAlike(k, m, s)
    PROVE  LET r == TrueFalseHoldStep(k, t, u)
               x == TrueFalseHoldScan(m, t, Lapse(s), u)
           IN  r.out = x.out /\ HoldAlike(r.mem, x.mem, t)
<1> DEFINE r == TrueFalseHoldStep(k, t, u)
           x == TrueFalseHoldScan(m, t, Lapse(s), u)
           elapsed == k.elapsed + (t - k.at)
           required == Larger(0, IF k.held THEN TrueHold ELSE FalseHold)
           turns == ~k.initialized \/ (u.in # k.held /\ elapsed >= required)
           held == IF turns THEN u.in ELSE k.held
           lasts == m.elapsed + Lapse(s)
           needed == Larger(0, IF m.held THEN TrueHold ELSE FalseHold)
           changes == ~m.initialized \/ (u.in # m.held /\ lasts >= needed)
<1>1. /\ r.out = held /\ r.mem.initialized = TRUE /\ r.mem.held = held /\ r.mem.at = t
      /\ r.mem.elapsed = IF turns THEN 0 ELSE elapsed
  BY DEF TrueFalseHoldStep, Ran
<1> HIDE DEF r
<1>2. /\ x.out = IF changes THEN u.in ELSE m.held
      /\ x.mem.initialized = TRUE /\ x.mem.held = IF changes THEN u.in ELSE m.held
      /\ x.mem.elapsed = IF changes THEN 0 ELSE lasts
  <2>1. CASE changes
    BY <2>1 DEF TrueFalseHoldScan, Shown
  <2>2. CASE ~changes
    BY <2>2 DEF TrueFalseHoldScan, Shown
  <2> QED BY <2>1, <2>2
<1> HIDE DEF x
<1>3. /\ u.in \in BOOLEAN /\ m.held \in BOOLEAN /\ m.elapsed \in Int
      /\ t \in Int /\ t # Never
  BY DEF HoldAlike, Instants, Never
<1>4. /\ k.held = m.held /\ k.elapsed = m.elapsed /\ k.at = s
      /\ k.initialized = m.initialized /\ k.initialized = (s # Never)
  BY DEF HoldAlike
<1>5. turns = changes
  <2>1. CASE s = Never
    BY <1>4, <2>1
  <2>2. CASE s \in Nat
    <3>1. s # Never
      BY <2>2 DEF Never
    <3>2. elapsed = lasts
      BY <1>3, <1>4, <2>2, <3>1 DEF Lapse
    <3>3. required = needed
      BY <1>4
    <3> HIDE DEF elapsed, lasts, required, needed
    <3> QED BY <1>4, <3>2, <3>3
  <2> QED BY <2>1, <2>2 DEF Instants
<1>6. ~changes => elapsed = lasts
  <2>1. CASE s = Never
    BY <1>4, <2>1
  <2>2. CASE s \in Nat
    <3>1. s # Never
      BY <2>2 DEF Never
    <3> QED BY <1>3, <1>4, <2>2, <3>1 DEF Lapse
  <2> QED BY <2>1, <2>2 DEF Instants
<1>7. changes \in BOOLEAN /\ lasts \in Int
  BY <1>3 DEF Lapse
<1> HIDE DEF turns, changes, elapsed, lasts
<1>8. /\ r.out = x.out /\ r.mem.held = x.mem.held /\ x.mem.held \in BOOLEAN
  BY <1>1, <1>2, <1>3, <1>4, <1>5
<1>9. r.mem.elapsed = x.mem.elapsed /\ x.mem.elapsed \in Int
  <2>1. CASE changes
    BY <1>1, <1>2, <1>5, <2>1
  <2>2. CASE ~changes
    <3>1. ~turns
      BY <1>5, <2>2
    <3> QED BY <1>1, <1>2, <1>6, <1>7, <2>2, <3>1
  <2> QED BY <2>1, <2>2
<1>10. HoldAlike(r.mem, x.mem, t)
  BY <1>1, <1>2, <1>3, <1>8, <1>9 DEF HoldAlike
<1> QED BY <1>8, <1>10 DEF r, x

(* A latch and a hysteresis keep an output and what came before it.        *)
LEMMA LatchTwin ==
    ASSUME NEW k, NEW m, NEW t, NEW d, NEW u \in [set : BOOLEAN, clear : BOOLEAN],
           LatchAlike(k, m)
    PROVE  LET r == SetResetStep(k, t, u)
               x == SetResetScan(m, t, d, u)
           IN  r.out = x.out /\ LatchAlike(r.mem, x.mem)
<1> DEFINE r == SetResetStep(k, t, u)
           x == SetResetScan(m, t, d, u)
           output == ~u.clear /\ ((u.set /\ ~k.set) \/ k.output)
           shows == ~u.clear /\ ((u.set /\ ~m.previous_set) \/ m.out)
<1>1. r.out = output /\ r.mem.output = output /\ r.mem.set = u.set
  BY DEF SetResetStep, Ran
<1>2. x.out = shows /\ x.mem.out = shows /\ x.mem.previous_set = u.set
  BY DEF SetResetScan, Shown
<1>3. output = shows /\ shows \in BOOLEAN /\ u.set \in BOOLEAN
  BY DEF LatchAlike
<1> HIDE DEF r, x, output, shows
<1>4. LatchAlike(r.mem, x.mem)
  BY <1>1, <1>2, <1>3 DEF LatchAlike
<1>5. r.out = x.out
  BY <1>1, <1>2, <1>3
<1> QED BY <1>4, <1>5 DEF r, x

LEMMA HysteresisTwin ==
    ASSUME NEW k, NEW m, NEW t, NEW d, NEW u \in [in : Int],
           k.output = m.out /\ m.out \in BOOLEAN
    PROVE  LET r == HysteresisStep(k, t, u)
               x == HysteresisScan(m, t, d, u)
           IN  r.out = x.out /\ r.mem.output = x.mem.out /\ x.mem.out \in BOOLEAN
<1> DEFINE r == HysteresisStep(k, t, u)
           x == HysteresisScan(m, t, d, u)
           low == u.in >= Low
           high == u.in > High
           o == m.out
           output == IF o THEN low ELSE high
           shows == (~o /\ high) \/ (o /\ low)
<1>1. r.out = output /\ r.mem.output = output
  BY DEF HysteresisStep, Ran
<1>2. x.out = shows /\ x.mem.out = shows
  BY DEF HysteresisScan, Shown
<1>3. o \in BOOLEAN /\ low \in BOOLEAN /\ high \in BOOLEAN
  OBVIOUS
<1> HIDE DEF o, low, high
<1>4. output = shows /\ shows \in BOOLEAN
  BY <1>3
<1> HIDE DEF output, shows
<1> QED BY <1>1, <1>2, <1>4

(* The kinds that keep the previous input are one definition in both.      *)
LEMMA PreviousTwin ==
    ASSUME NEW m, NEW t, NEW d, NEW u
    PROVE  /\ PreStep(m, t, u) = PreScan(m, t, d, u)
           /\ RisingEdgeStep(m, t, u) = OneShotScan(m, t, d, u)
           /\ FallingEdgeStep(m, t, u) = FallingEdgeScan(m, t, d, u)
           /\ ChangedStep(m, t, u) = ChangedScan(m, t, d, u)
           /\ IncreasedStep(m, t, u) = IncreasedScan(m, t, d, u)
           /\ DecreasedStep(m, t, u) = DecreasedScan(m, t, d, u)
           /\ EquipmentStep(m, t, u) = EquipmentScan(m, t, d, u)
<1>1. PreStep(m, t, u) = PreScan(m, t, d, u)
  BY DEF PreStep, PreScan, Ran, Shown
<1>2. RisingEdgeStep(m, t, u) = OneShotScan(m, t, d, u)
  BY DEF RisingEdgeStep, OneShotScan, Ran, Shown
<1>3. FallingEdgeStep(m, t, u) = FallingEdgeScan(m, t, d, u)
  BY DEF FallingEdgeStep, FallingEdgeScan, Ran, Shown
<1>4. ChangedStep(m, t, u) = ChangedScan(m, t, d, u)
  BY DEF ChangedStep, ChangedScan, Ran, Shown
<1>5. IncreasedStep(m, t, u) = IncreasedScan(m, t, d, u)
  BY DEF IncreasedStep, IncreasedScan, Ran, Shown
<1>6. DecreasedStep(m, t, u) = DecreasedScan(m, t, d, u)
  BY DEF DecreasedStep, DecreasedScan, Ran, Shown
<1>7. EquipmentStep(m, t, u) = EquipmentScan(m, t, d, u)
  BY DEF EquipmentStep, EquipmentScan, Ran, Shown
<1> QED BY <1>1, <1>2, <1>3, <1>4, <1>5, <1>6, <1>7

LEMMA TriggerTwin ==
    ASSUME NEW k, NEW m, NEW s, NEW t \in Nat, NEW d, NEW u, TriggerAlike(k, m, s)
    PROVE  LET r == SampleTriggerStep(k, t, u)
               x == BooleanTriggerScan(m, t, d, u)
           IN  r.out = x.out /\ TriggerAlike(r.mem, x.mem, t)
<1> DEFINE index == (t - Offset) \div SamplePeriod
<1>1. SampleTriggerStep(k, t, u) = Ran(index > k.index, [index |-> Larger(index, k.index)])
  BY DEF SampleTriggerStep
<1>2. BooleanTriggerScan(m, t, d, u)
        = Shown(index > m.last_index, [last_index |-> Larger(index, m.last_index)])
  BY DEF BooleanTriggerScan
<1>3. index \in Int
  BY PeriodAssumption DEF Offset
<1> HIDE DEF index
<1>4. Larger(index, m.last_index) \in Int /\ index <= Larger(index, m.last_index)
  BY <1>3 DEF Larger, TriggerAlike
<1> QED BY <1>1, <1>2, <1>4 DEF Ran, Shown, TriggerAlike, index

(* Time passes a boundary of the sample period at the boundary itself.     *)
LEMMA Divided ==
    ASSUME NEW t \in Nat
    PROVE  /\ Index(t) \in Nat /\ Index(t) * SamplePeriod <= t
           /\ t < Index(t) * SamplePeriod + SamplePeriod
BY PeriodAssumption DEF Index

LEMMA Boundary ==
    ASSUME NEW s \in Instants, NEW t, t = s + 1
    PROVE  /\ t \in Nat /\ t # Never /\ Index(t) \in Nat
           /\ s = Never => t = 0 /\ Index(t) = 0 /\ t = Index(t) * SamplePeriod
           /\ s # Never => /\ s \in Nat /\ s < t /\ Index(s) \in Nat
                           /\ IF Index(t) > Index(s)
                              THEN t = Index(t) * SamplePeriod /\ Index(t) = Index(s) + 1
                              ELSE Index(t) = Index(s) /\ t # Index(t) * SamplePeriod
<1>1. t \in Nat /\ t # Never
  BY DEF Instants, Never
<1>2. Index(t) \in Nat /\ Index(t) * SamplePeriod <= t /\ t < Index(t) * SamplePeriod + SamplePeriod
  BY <1>1, Divided
<1>3. ASSUME s = Never
      PROVE  t = 0 /\ Index(t) = 0 /\ t = Index(t) * SamplePeriod
  <2>1. t = 0
    BY <1>3 DEF Never
  <2>2. Index(0) = 0
    BY PeriodAssumption DEF Index
  <2> QED BY <2>1, <2>2, PeriodAssumption
<1>4. ASSUME s # Never
      PROVE  /\ s \in Nat /\ s < t /\ Index(s) \in Nat
             /\ IF Index(t) > Index(s)
                THEN t = Index(t) * SamplePeriod /\ Index(t) = Index(s) + 1
                ELSE Index(t) = Index(s) /\ t # Index(t) * SamplePeriod
  <2> DEFINE a == Index(s)
             b == Index(t)
             P == SamplePeriod
  <2>1. s \in Nat
    BY <1>4 DEF Instants
  <2>2. a \in Nat /\ a * P <= s /\ s < a * P + P
    BY <2>1, Divided
  <2>3. /\ b \in Nat /\ b * P <= s + 1 /\ s + 1 < b * P + P /\ P \in Nat /\ P >= 1
        /\ t = s + 1
    BY <1>2, PeriodAssumption
  <2> HIDE DEF a, b, P
  <2>4. ~(b >= a + 2)
    <3> SUFFICES ASSUME b >= a + 2 PROVE FALSE
      OBVIOUS
    <3>1. b * P >= (a + 2) * P
      BY <2>2, <2>3
    <3>2. (a + 2) * P = a * P + P + P
      BY <2>2, <2>3
    <3> QED BY <2>1, <2>2, <2>3, <3>1, <3>2
  <2>5. ~(a >= b + 1)
    <3> SUFFICES ASSUME a >= b + 1 PROVE FALSE
      OBVIOUS
    <3>1. a * P >= (b + 1) * P
      BY <2>2, <2>3
    <3>2. (b + 1) * P = b * P + P
      BY <2>2, <2>3
    <3> QED BY <2>1, <2>2, <2>3, <3>1, <3>2
  <2>6. b = a \/ b = a + 1
    BY <2>2, <2>3, <2>4, <2>5
  <2>7. ASSUME b = a + 1 PROVE t = b * P
    <3>1. b * P = a * P + P
      BY <2>7, <2>2, <2>3
    <3> QED BY <3>1, <2>1, <2>2, <2>3
  <2>8. ASSUME b = a PROVE t # b * P
    BY <2>8, <2>1, <2>2, <2>3
  <2>9. IF b > a THEN t = b * P /\ b = a + 1 ELSE b = a /\ t # b * P
    BY <2>2, <2>3, <2>6, <2>7, <2>8
  <2> QED BY <2>1, <2>2, <2>3, <2>9 DEF a, b, P
<1> QED BY <1>1, <1>2, <1>3, <1>4

(* A sampler samples at a boundary twice: what the first took is replaced. *)
LEMMA SamplerTwin ==
    ASSUME NEW k, NEW m, NEW s \in Instants, NEW t, t = s + 1, NEW d, NEW w, NEW u,
           SamplerAlike(k, m, s)
    PROVE  LET r == SamplerStep(SamplerStep(k, t, w).mem, t, u)
               x == NumericSamplerScan(m, t, d, u)
           IN  r.out = x.out /\ SamplerAlike(r.mem, x.mem, t)
<1> DEFINE a == SamplerStep(k, t, w).mem
           r == SamplerStep(a, t, u)
           x == NumericSamplerScan(m, t, d, u)
<1>1. /\ t \in Nat /\ t # Never /\ Index(t) \in Nat
      /\ s = Never => t = 0 /\ Index(t) = 0 /\ t = Index(t) * SamplePeriod
      /\ s # Never => /\ s \in Nat /\ s < t /\ Index(s) \in Nat
                      /\ IF Index(t) > Index(s) THEN t = Index(t) * SamplePeriod
                         ELSE Index(t) = Index(s) /\ t # Index(t) * SamplePeriod
  BY Boundary
<1> DEFINE once == ~k.initialized \/ Index(t) > k.index \/ OnBoundary(k, t)
           twice == ~a.initialized \/ Index(t) > a.index \/ OnBoundary(a, t)
           held == IF once THEN w.in ELSE k.held
           takes == m.new \/ Index(t) > m.last_index
           shows == IF takes THEN u.in ELSE m.held
<1>2. a.initialized = TRUE /\ a.held = held /\ a.index = Larger(k.index, Index(t))
  BY DEF SamplerStep, Ran
<1> HIDE DEF a
<1>3. LET now == IF twice THEN u.in ELSE a.held
      IN  /\ r.out = now /\ r.mem.held = now
          /\ r.mem.initialized = TRUE /\ r.mem.index = Larger(a.index, Index(t))
  BY DEF SamplerStep, Ran
<1>4. /\ x.out = shows /\ x.mem.held = shows /\ x.mem.new = FALSE
      /\ x.mem.last_index = IF takes THEN Index(t) ELSE m.last_index
  BY DEF NumericSamplerScan, Shown
<1> HIDE DEF r, x
<1>5. CASE s = Never \/ Index(t) > Index(s)
  <2>1. takes
    BY <1>5 DEF SamplerAlike, NumericSamplerNew
  <2>2. k.index = IF s = Never THEN 0 ELSE Index(s)
    BY DEF SamplerAlike, SamplerStart
  <2>3. a.index = Index(t)
    BY <1>1, <1>2, <1>5, <2>2 DEF Larger
  <2>4. twice
    BY <1>1, <1>5, <2>3 DEF OnBoundary
  <2> HIDE DEF takes, twice
  <2> QED BY <1>1, <1>3, <1>4, <2>1, <2>3, <2>4 DEF SamplerAlike, Larger, r, x, a
<1>6. CASE ~(s = Never \/ Index(t) > Index(s))
  <2>1. /\ k.initialized = TRUE /\ m.new = FALSE /\ k.held = m.held /\ k.index = Index(s)
        /\ m.last_index = Index(s) /\ Index(t) = Index(s) /\ t # Index(s) * SamplePeriod
    BY <1>1, <1>6 DEF SamplerAlike
  <2>2. ~once /\ ~takes
    BY <1>1, <2>1 DEF OnBoundary
  <2>3. a.held = m.held /\ a.index = Index(t)
    <3> HIDE DEF once
    <3> QED BY <1>1, <1>2, <2>1, <2>2 DEF Larger
  <2>4. ~twice
    BY <1>1, <1>2, <2>1, <2>3 DEF OnBoundary
  <2> HIDE DEF takes, twice
  <2> QED BY <1>1, <1>3, <1>4, <2>1, <2>2, <2>3, <2>4 DEF SamplerAlike, Larger, r, x, a
<1> QED BY <1>5, <1>6
(* Two executions at t leave what one leaves: r of the state k after s, with *)
(* the second input u.                                                     *)
UnitDue(s, t) == s # Never /\ Index(t) > Index(s)
UnitHeld(k, s, t) == IF UnitDue(s, t) THEN k.staged ELSE k.held
UnitLeft(k, s, t, u, r) ==
    /\ r.out = UnitHeld(k, s, t) /\ r.mem.held = UnitHeld(k, s, t)
    /\ r.mem.initialized = TRUE /\ r.mem.index = Index(t)
    /\ r.mem.staged = IF s = Never \/ UnitDue(s, t) THEN u.in ELSE k.staged

UnitOpened(a, k, s, t) ==
    a.initialized = TRUE /\ a.index = Index(t) /\ a.held = UnitHeld(k, s, t)

LEMMA UnitTwice ==
    ASSUME NEW k, NEW s \in Instants, NEW t, t = s + 1, NEW w, NEW u,
           k.initialized = (s # Never), k.index = IF s = Never THEN 0 ELSE Index(s)
    PROVE  /\ UnitOpened(UnitDelayStep(k, t, w).mem, k, s, t)
           /\ UnitLeft(k, s, t, u, UnitDelayStep(UnitDelayStep(k, t, w).mem, t, u))
<1> DEFINE a == UnitDelayStep(k, t, w).mem
           r == UnitDelayStep(a, t, u)
           due == s # Never /\ Index(t) > Index(s)
           held == IF due THEN k.staged ELSE k.held
           early == Larger(k.index, Index(t))
           once == k.initialized /\ Index(t) > k.index
           twice == a.initialized /\ Index(t) > a.index
           index == Larger(a.index, Index(t))
<1>1. /\ t \in Nat /\ t # Never /\ Index(t) \in Nat
      /\ s = Never => t = 0 /\ Index(t) = 0 /\ t = Index(t) * SamplePeriod
      /\ s # Never => /\ s \in Nat /\ s < t /\ Index(s) \in Nat
                      /\ IF Index(t) > Index(s) THEN t = Index(t) * SamplePeriod
                         ELSE Index(t) = Index(s) /\ t # Index(t) * SamplePeriod
  BY Boundary
<1>2. /\ a.initialized = TRUE /\ a.index = early
      /\ a.held = IF once THEN k.staged ELSE k.held
      /\ a.staged = IF once \/ t = early * SamplePeriod THEN w.in ELSE k.staged
  BY DEF UnitDelayStep, Ran
<1>3. LET now == IF twice THEN a.staged ELSE a.held
      IN  /\ r.out = now /\ r.mem.held = now
          /\ r.mem.initialized = TRUE /\ r.mem.index = index
          /\ r.mem.staged = IF twice \/ t = index * SamplePeriod THEN u.in ELSE a.staged
  BY DEF UnitDelayStep, Ran
<1> HIDE DEF a, r
<1>4. once = due /\ early = Index(t)
  <2>1. CASE s = Never
    BY <1>1, <2>1 DEF Larger
  <2>2. CASE s # Never
    <3>1. k.initialized = TRUE /\ k.index = Index(s) /\ Index(s) \in Nat
      BY <1>1, <2>2
    <3>2. once = due
      BY <2>2, <3>1
    <3>3. early = Index(t)
      BY <1>1, <2>2, <3>1 DEF Larger
    <3> QED BY <3>2, <3>3
  <2> QED BY <2>1, <2>2
<1>5. a.held = held /\ a.index = Index(t)
  BY <1>2, <1>4
<1>6. ~twice /\ index = Index(t)
  BY <1>1, <1>5 DEF Larger
<1> HIDE DEF twice, index, once, early
<1>7. r.mem.staged = IF s = Never \/ due THEN u.in ELSE k.staged
  <2>1. CASE s = Never \/ due
    BY <1>1, <1>3, <1>6, <2>1
  <2>2. CASE ~(s = Never \/ due)
    BY <1>1, <1>2, <1>3, <1>4, <1>6, <2>2
  <2> QED BY <2>1, <2>2
<1>8. r.out = held /\ r.mem.held = held /\ r.mem.initialized = TRUE /\ r.mem.index = Index(t)
  BY <1>3, <1>5, <1>6
<1>9. UnitOpened(a, k, s, t) /\ UnitLeft(k, s, t, u, r)
  BY <1>2, <1>5, <1>7, <1>8 DEF UnitOpened, UnitLeft, UnitHeld, UnitDue
<1> QED BY <1>9 DEF a, r

LEMMA UnitDelayTwin ==
    ASSUME NEW k, NEW m, NEW s \in Instants, NEW t, t = s + 1, NEW d, NEW w, NEW u,
           IF s = Never THEN k = UnitDelayStart /\ m = NumericUnitDelayNew
                        ELSE UnitDelayAlike(k, m, s)
    PROVE  LET r == UnitDelayStep(UnitDelayStep(k, t, w).mem, t, u)
               x == NumericUnitDelayScan(m, t, d, u)
           IN  r.out = x.out /\ UnitDelayAlike(r.mem, x.mem, t)
<1> DEFINE r == UnitDelayStep(UnitDelayStep(k, t, w).mem, t, u)
           x == NumericUnitDelayScan(m, t, d, u)
           due == s # Never /\ Index(t) > Index(s)
           held == IF due THEN k.staged ELSE k.held
<1>1. /\ s = Never => t = 0 /\ Index(t) = 0 /\ t = Index(t) * SamplePeriod
      /\ s # Never /\ ~due => Index(t) = Index(s)
  BY Boundary
<1>2. k.initialized = (s # Never) /\ k.index = IF s = Never THEN 0 ELSE Index(s)
  <2>1. CASE s = Never
    <3>1. k.initialized = FALSE /\ k.index = 0
      BY <2>1 DEF UnitDelayStart
    <3> QED BY <2>1, <3>1
  <2>2. CASE s # Never
    BY <2>2 DEF UnitDelayAlike
  <2> QED BY <2>1, <2>2
<1>0. UnitLeft(k, s, t, u, r)
  BY <1>2, UnitTwice
<1>3. /\ r.out = held /\ r.mem.held = held /\ r.mem.initialized = TRUE
      /\ r.mem.index = Index(t) /\ r.mem.staged = IF s = Never \/ due THEN u.in ELSE k.staged
  BY <1>0 DEF UnitLeft, UnitHeld, UnitDue
<1> HIDE DEF r
<1>4. CASE s = Never
  <2>1. k.held = 0 /\ m.new = TRUE
    BY <1>4 DEF UnitDelayStart, NumericUnitDelayNew
  <2>2. x = Shown(0, [new |-> FALSE, held |-> 0, last_index |-> Index(t), staged |-> u.in])
    BY <1>1, <1>4, <2>1 DEF NumericUnitDelayScan
  <2> HIDE DEF x
  <2>3. r.out = x.out /\ UnitDelayAlike(r.mem, x.mem, t)
    BY <1>3, <1>4, <2>1, <2>2 DEF UnitDelayAlike, Shown
  <2> QED BY <2>3 DEF r, x
<1>5. CASE due
  <2>1. k.staged = m.staged /\ m.new = FALSE /\ m.last_index = Index(s)
    BY <1>5 DEF UnitDelayAlike
  <2>2. x = Shown(m.staged, [new |-> FALSE, held |-> m.staged, staged |-> u.in,
                             last_index |-> Index(t)])
    BY <1>5, <2>1 DEF NumericUnitDelayScan
  <2> HIDE DEF x
  <2>3. r.out = x.out /\ UnitDelayAlike(r.mem, x.mem, t)
    BY <1>3, <1>5, <2>1, <2>2 DEF UnitDelayAlike, Shown
  <2> QED BY <2>3 DEF r, x
<1>6. CASE s # Never /\ ~due
  <2>1. /\ k.held = m.held /\ k.staged = m.staged /\ m.new = FALSE /\ m.last_index = Index(s)
    BY <1>6 DEF UnitDelayAlike
  <2>2. x = Shown(m.held, m)
    BY <1>6, <2>1 DEF NumericUnitDelayScan
  <2>3. x.out = m.held /\ x.mem = m
    BY <2>2 DEF Shown
  <2> HIDE DEF x
  <2>4. r.out = x.out /\ UnitDelayAlike(r.mem, x.mem, t)
    BY <1>1, <1>3, <1>6, <2>1, <2>3 DEF UnitDelayAlike
  <2> QED BY <2>4 DEF r, x
<1> QED BY <1>4, <1>5, <1>6

(* A first-order hold: the second sample of an instant replaces the first. *)
LEMMA FirstOrderTwin ==
    ASSUME NEW k, NEW m, NEW s \in Instants, NEW t, t = s + 1, NEW d,
           NEW w \in [in : Int], NEW u \in [in : Int], s = Never => w = u,
           FirstOrderAlike(k, m, s)
    PROVE  LET r == FirstOrderHoldStep(FirstOrderHoldStep(k, t, w).mem, t, u)
               x == HoldScan(m, t, d, u)
           IN  r.out = x.out /\ FirstOrderAlike(r.mem, x.mem, t)
<1> DEFINE a == FirstOrderHoldStep(k, t, w).mem
           r == FirstOrderHoldStep(a, t, u)
           x == HoldScan(m, t, d, u)
<1>1. /\ t \in Nat /\ t # Never /\ Index(t) \in Nat
      /\ s = Never => t = 0 /\ Index(t) = 0 /\ t = Index(t) * SamplePeriod
      /\ s # Never => /\ s \in Nat /\ s < t /\ Index(s) \in Nat
                      /\ IF Index(t) > Index(s) THEN t = Index(t) * SamplePeriod
                         ELSE Index(t) = Index(s) /\ t # Index(t) * SamplePeriod
  BY Boundary
<1>2. SamplePeriod \in Nat /\ SamplePeriod > 0 /\ u.in \in Int /\ w.in \in Int
  BY PeriodAssumption
<1> DEFINE H == [initialized : {TRUE}, sample : Int, before : Int, rise : Int,
                index : Int, at : Int]
<1>3. CASE s = Never
  <2>1. k.initialized = FALSE /\ m.new = TRUE /\ w = u
    BY <1>3 DEF FirstOrderAlike, FirstOrderHoldStart, HoldNew
  <2>2. a = [initialized |-> TRUE, sample |-> u.in, before |-> u.in, rise |-> 0,
             index |-> Index(t), at |-> 0]
    BY <2>1 DEF FirstOrderHoldStep, Ran
  <2>3. /\ a \in H /\ a.initialized = TRUE /\ a.sample = u.in /\ a.before = u.in /\ a.rise = 0
        /\ a.index = Index(t) /\ a.at = 0
    <3> HIDE DEF a
    <3> QED BY <1>1, <1>2, <2>2
  <2>4. Rise(t, u.in, u.in) = 0
    BY <1>1, <1>2, <1>3 DEF Rise
  <2> HIDE DEF a
  <2>5. Extrapolated(a, t) = u.in * SamplePeriod
    BY <1>1, <1>2, <1>3, <2>3 DEF Extrapolated
  <2> DEFINE e == [a EXCEPT !.sample = u.in, !.rise = Rise(t, u.in, u.in)]
  <2>6. r = Ran(Extrapolated(a, t), e)
    BY <1>1, <1>3, <2>3 DEF FirstOrderHoldStep
  <2>7. e \in H
    BY <1>2, <2>3, <2>4
  <2>8. e.sample = u.in /\ e.rise = 0 /\ e.before = u.in /\ e.index = Index(t) /\ e.at = 0
    BY <2>3, <2>4
  <2>9. x = Shown(u.in * SamplePeriod,
                  [new |-> FALSE, sample |-> u.in, before |-> u.in, rise |-> 0,
                   last_index |-> Index(t), at |-> 0])
    BY <2>1 DEF HoldScan
  <2> HIDE DEF r, x, e
  <2>10. r.out = x.out
    BY <2>5, <2>6, <2>9 DEF Ran, Shown
  <2>11. r.mem = e
    BY <2>6 DEF Ran
  <2>12. /\ x.mem.new = FALSE /\ x.mem.sample = u.in /\ x.mem.before = u.in /\ x.mem.rise = 0
         /\ x.mem.last_index = Index(t) /\ x.mem.at = 0
    BY <2>9 DEF Shown
  <2>13. FirstOrderAlike(e, x.mem, t)
    <3>1. e.index = Index(t) /\ e.at <= t /\ x.mem.new = FALSE /\ x.mem.last_index = Index(t)
      BY <1>1, <2>8, <2>12
    <3>2. /\ x.mem.at = e.at /\ x.mem.sample = e.sample /\ x.mem.before = e.before
          /\ x.mem.rise = e.rise
      BY <2>8, <2>12
    <3> HIDE DEF H
    <3> QED BY <1>1, <2>7, <3>1, <3>2 DEF FirstOrderAlike, H
  <2> QED BY <2>10, <2>11, <2>13 DEF r, x, a
<1>4. CASE s # Never /\ Index(t) > Index(s)
  <2>1. /\ k \in H /\ k.initialized = TRUE /\ k.index = Index(s) /\ k.sample = m.sample
        /\ m.sample \in Int /\ m.new = FALSE /\ m.last_index = Index(s)
    BY <1>4 DEF FirstOrderAlike
  <2>2. Rise(t, m.sample, w.in) \in Int /\ Rise(t, m.sample, u.in) \in Int
    BY <1>2, <2>1 DEF Rise
  <2>3. a = [k EXCEPT !.index = Index(t), !.at = t, !.sample = w.in, !.before = k.sample,
                      !.rise = Rise(t, k.sample, w.in)]
    BY <1>4, <2>1 DEF FirstOrderHoldStep, Ran
  <2> HIDE DEF a
  <2>4. a \in H
    <3> DEFINE rise == Rise(t, m.sample, w.in)
               index == Index(t)
    <3>1. a = [k EXCEPT !.index = index, !.at = t, !.sample = w.in, !.before = m.sample,
                        !.rise = rise]
      BY <2>1, <2>3
    <3>2. rise \in Int /\ index \in Int /\ t \in Int
      BY <1>1, <2>2
    <3> HIDE DEF rise, index
    <3> QED BY <1>2, <2>1, <3>1, <3>2
  <2>5. /\ a.index = Index(t) /\ a.at = t /\ a.sample = w.in /\ a.before = m.sample
        /\ a.rise = Rise(t, m.sample, w.in) /\ a.initialized = TRUE
    BY <2>1, <2>3
  <2>6. Extrapolated(a, t) = m.sample * SamplePeriod
    BY <1>1, <1>2, <2>1, <2>2, <2>5 DEF Extrapolated
  <2> DEFINE e == [a EXCEPT !.sample = u.in, !.rise = Rise(t, m.sample, u.in)]
  <2>7. r = Ran(Extrapolated(a, t), e)
    BY <1>1, <2>5 DEF FirstOrderHoldStep
  <2>8. e \in H
    BY <1>2, <2>2, <2>4
  <2>9. /\ e.sample = u.in /\ e.rise = Rise(t, m.sample, u.in) /\ e.before = m.sample
        /\ e.index = Index(t) /\ e.at = t
    BY <2>4, <2>5
  <2>10. x = Shown(m.sample * SamplePeriod,
                   [new |-> FALSE, sample |-> u.in, before |-> m.sample,
                    rise |-> Rise(t, m.sample, u.in), last_index |-> Index(t), at |-> t])
    BY <1>4, <2>1 DEF HoldScan
  <2> HIDE DEF r, x, e
  <2>11. r.out = x.out
    BY <2>6, <2>7, <2>10 DEF Ran, Shown
  <2>12. r.mem = e
    BY <2>7 DEF Ran
  <2>13. /\ x.mem.new = FALSE /\ x.mem.sample = u.in /\ x.mem.before = m.sample
         /\ x.mem.rise = Rise(t, m.sample, u.in) /\ x.mem.last_index = Index(t) /\ x.mem.at = t
    BY <2>10 DEF Shown
  <2>14. FirstOrderAlike(e, x.mem, t)
    <3>1. e.index = Index(t) /\ e.at <= t /\ x.mem.new = FALSE /\ x.mem.last_index = Index(t)
      BY <1>1, <2>9, <2>13
    <3>2. /\ x.mem.at = e.at /\ x.mem.sample = e.sample /\ x.mem.before = e.before
          /\ x.mem.rise = e.rise
      BY <2>9, <2>13
    <3> HIDE DEF H
    <3> QED BY <1>1, <2>8, <3>1, <3>2 DEF FirstOrderAlike, H
  <2> QED BY <2>11, <2>12, <2>14 DEF r, x, a
<1>5. CASE s # Never /\ ~(Index(t) > Index(s))
  <2>1. /\ k.initialized = TRUE /\ k.index = Index(s) /\ k.at = m.at
        /\ m.new = FALSE /\ m.last_index = Index(s) /\ Index(t) = Index(s)
        /\ k.before = m.before /\ k.rise = m.rise /\ k \in H /\ k.at <= s
    BY <1>1, <1>5 DEF FirstOrderAlike
  <2>0. k.at # t
    BY <1>1, <1>5, <2>1
  <2>2. FirstOrderHoldStep(k, t, w) = Ran(Extrapolated(k, t), k)
    BY <1>5, <2>0, <2>1 DEF FirstOrderHoldStep
  <2>3. FirstOrderHoldStep(k, t, u) = Ran(Extrapolated(k, t), k)
    BY <1>5, <2>0, <2>1 DEF FirstOrderHoldStep
  <2>4. a = k
    BY <2>2 DEF Ran
  <2>5. x = Shown(Extrapolated(m, t), m)
    BY <1>5, <2>1 DEF HoldScan
  <2>6. r.out = Extrapolated(k, t) /\ r.mem = k
    BY <2>3, <2>4 DEF Ran
  <2>7. x.out = Extrapolated(m, t) /\ x.mem = m
    BY <2>5 DEF Shown
  <2>8. r.out = x.out
    BY <2>1, <2>6, <2>7 DEF Extrapolated
  <2> HIDE DEF r, x, a
  <2>9. FirstOrderAlike(r.mem, x.mem, t)
    <3>1. k.at <= t
      BY <1>1, <1>5, <2>1
    <3> QED BY <1>1, <1>5, <2>1, <2>6, <2>7, <3>1 DEF FirstOrderAlike
  <2> QED BY <2>8, <2>9 DEF r, x, a
<1> QED BY <1>3, <1>4, <1>5

(* An integrator and a counter step from the instant before, both times.   *)
LEMMA IntegratorTwin ==
    ASSUME NEW k, NEW m, NEW s \in Instants, NEW t, t = s + 1, NEW d, NEW w,
           NEW u \in [in : Int, reset_value : Int, trigger : BOOLEAN], IntegratorAlike(k, m, s)
    PROVE  LET r == IntegratorStep(IntegratorStep(k, t, w).mem, t, u)
               x == IntegratorScan(m, t, d, u)
           IN  r.out = x.out /\ IntegratorAlike(r.mem, x.mem, t)
<1> DEFINE a == IntegratorStep(k, t, w).mem
           r == IntegratorStep(a, t, u)
           x == IntegratorScan(m, t, d, u)
<1>1. t # s
  BY DEF Instants, Never
<1>2. a.instant = t /\ a.was = [state |-> m.x, time |-> m.time, trigger |-> m.trigger]
  BY <1>1 DEF IntegratorAlike, IntegratorStep, Ran
<1> HIDE DEF a
<1>3. /\ r.out = m.x /\ r.mem.time = t /\ r.mem.trigger = u.trigger /\ r.mem.instant = t
      /\ r.mem.state = IF u.trigger /\ ~m.trigger THEN u.reset_value
                       ELSE m.x + u.in * (IF m.time = Never THEN 0 ELSE t - m.time)
  BY <1>2 DEF IntegratorStep, Ran
<1>4. /\ x.out = m.x /\ x.mem.time = t /\ x.mem.trigger = u.trigger
      /\ x.mem.x = IF u.trigger /\ ~m.trigger THEN u.reset_value
                   ELSE m.x + u.in * (IF m.time = Never THEN 0 ELSE t - m.time)
  BY DEF IntegratorScan, Shown
<1> HIDE DEF r, x
<1>5. r.out = x.out /\ IntegratorAlike(r.mem, x.mem, t)
  BY <1>3, <1>4 DEF IntegratorAlike
<1> QED BY <1>5 DEF r, x, a

LEMMA CounterTwin ==
    ASSUME NEW k, NEW m, NEW s \in Instants, NEW t, t = s + 1, NEW d, NEW w, NEW u,
           k.now = m /\ k.instant = s
    PROVE  LET r == OnCounterStep(OnCounterStep(k, t, w).mem, t, u)
               x == CounterScan(m, t, d, u)
           IN  r.out = x.out /\ r.mem.now = x.mem /\ r.mem.instant = t
<1> DEFINE a == OnCounterStep(k, t, w).mem
           r == OnCounterStep(a, t, u)
           x == CounterScan(m, t, d, u)
<1>1. t # s
  BY DEF Instants, Never
<1>2. a.instant = t /\ a.was = m
  BY <1>1 DEF OnCounterStep, Ran
<1> HIDE DEF a
<1> DEFINE counts == m.history /\ ((u.trigger /\ ~m.trigger) \/ (u.reset /\ ~m.reset))
           mem == [count |-> IF ~counts THEN m.count
                             ELSE IF u.reset THEN 0 ELSE m.count + 1,
                   trigger |-> u.trigger, reset |-> u.reset, history |-> TRUE]
<1>3. r.out = m.count /\ r.mem.now = mem /\ r.mem.instant = t
  BY <1>2 DEF OnCounterStep, Ran
<1>4. x.out = m.count /\ x.mem = mem
  BY DEF CounterScan, Shown
<1> HIDE DEF mem, x, r
<1>5. r.out = x.out /\ r.mem.now = x.mem /\ r.mem.instant = t
  BY <1>3, <1>4
<1> QED BY <1>5 DEF r, x, a

(* A controller integrates from a base that a second execution restores.   *)
LEMMA PidTwin ==
    ASSUME NEW k, NEW m, NEW s \in Instants, NEW t, t = s + 1,
           NEW u \in [setpoint : Int, measurement : Int, trigger : BOOLEAN], PidAlike(k, m, s)
    PROVE  LET r == PidStep(k, t, u)
               x == PidScan(m, t, Lapse(s), u)
           IN  r.out = x.out /\ PidAlike(r.mem, x.mem, t)
<1> DEFINE r == PidStep(k, t, u)
           x == PidScan(m, t, Lapse(s), u)
           first == k.last = Never
           commits == ~first /\ t > k.last
           base == IF commits THEN k.pending ELSE k.base
           base_time == IF first THEN t ELSE IF commits THEN k.last ELSE k.base_time
           since == IF m.first THEN 0 ELSE Lapse(s)
           error == u.setpoint - u.measurement
           unlimited == error + m.integral
           output == Clamp(Low, unlimited, High)
           integral == IF u.trigger /\ ~m.trigger THEN 0 - error
                       ELSE m.integral + (error - (unlimited - output)) * since
<1>1. t \in Nat /\ t # Never /\ (s # Never => s \in Nat)
  BY DEF Instants, Never
<1>2. /\ x.out = output /\ x.mem.first = FALSE
      /\ x.mem.trigger = u.trigger /\ x.mem.integral = integral
  BY DEF PidScan, Shown
<1>3. base = [integral |-> m.integral, trigger |-> m.trigger] /\ t - base_time = since
  <2>0. /\ k.last = s /\ m.first = (s = Never)
        /\ k.pending = [integral |-> m.integral, trigger |-> m.trigger]
        /\ s = Never => k.base = k.pending
    BY DEF PidAlike
  <2>1. CASE s = Never
    <3>1. base = k.base /\ base_time = t
      BY <2>0, <2>1
    <3>2. m.first = TRUE
      BY <2>0, <2>1
    <3> QED BY <1>1, <2>0, <2>1, <3>1, <3>2
  <2>2. CASE s # Never
    <3>1. t > s /\ t - s = 1
      BY <1>1, <2>2
    <3>2. base = k.pending /\ base_time = s
      BY <2>0, <2>2, <3>1
    <3>3. m.first = FALSE
      BY <2>0, <2>2
    <3> QED BY <2>0, <2>2, <3>1, <3>2, <3>3 DEF Lapse
  <2> QED BY <2>1, <2>2
<1> HIDE DEF base, base_time, since
<1>4. /\ r.out = output /\ r.mem.last = t
      /\ r.mem.pending = [integral |-> integral, trigger |-> u.trigger]
  <2>1. r = LET err == u.setpoint - u.measurement
                limitless == err + base.integral
                out == Clamp(Low, limitless, High)
                sum == IF u.trigger /\ ~base.trigger
                       THEN 0 - err
                       ELSE base.integral + (err - (limitless - out)) * (t - base_time)
            IN  Ran(out, [base |-> base, base_time |-> base_time, last |-> t,
                          pending |-> [integral |-> sum, trigger |-> u.trigger]])
    BY DEF PidStep, base, base_time
  <2> HIDE DEF r
  <2> QED BY <1>3, <2>1 DEF Ran
<1> HIDE DEF r, x, output, integral
<1>5. r.out = x.out /\ PidAlike(r.mem, x.mem, t)
  BY <1>1, <1>2, <1>4 DEF PidAlike
<1> QED BY <1>5 DEF r, x

LEMMA WindowKept ==
    ASSUME NEW s \in Instants, NEW t, t = s + 1, NEW p, NEW mu \in Int,
           IF s = Never THEN p = <<>> ELSE Spaced(p, s),
           NEW C \in SUBSET Checkpoint, p \in Seq(C), [time |-> t, mu |-> mu] \in C
    PROVE  LET q == Stored(Pruned(p, t - Window), [time |-> t, mu |-> mu])
           IN  Spaced(q, t) /\ q \in Seq(C)
<1> DEFINE point == [time |-> t, mu |-> mu]
           cutoff == t - Window
           rest == Pruned(p, cutoff)
           Held(q) == Spaced(Stored(q, point), t) /\ Stored(q, point) \in Seq(C)
<1>1. point \in C /\ point \in Checkpoint /\ point.time = t /\ t \in Nat /\ Window \in Nat /\ Window > 0
  BY PeriodAssumption DEF Checkpoint, Instants, Never
<1>2. \A q \in Seq(C) : q = <<>> \/ q[Len(q)].time # t =>
                                     Stored(q, point) = Append(q, point)
  BY <1>1 DEF Stored
<1>3. ASSUME NEW q \in Seq(C), Len(q) = Smaller(t, Window),
             \A i \in 1 .. Len(q) : q[i].time = t - Len(q) + i - 1
      PROVE  Held(q)
  <2>1. q = <<>> \/ q[Len(q)].time # t
    BY <1>1, <1>3
  <2> DEFINE r == Append(q, point)
  <2>2. /\ r \in Seq(C) /\ Len(r) = Len(q) + 1
        /\ \A i \in 1 .. Len(q) : r[i] = q[i]
        /\ r[Len(q) + 1] = point
    BY <1>1, AppendProperties
  <2> HIDE DEF r, point
  <2>3. \A i \in 1 .. Len(r) : r[i].time = t - Len(r) + i
    <3>1. Len(q) \in Nat
      BY LenProperties
    <3>2. \A i \in 1 .. Len(r) : i \in 1 .. Len(q) \/ i = Len(q) + 1
      BY <2>2, <3>1
    <3>3. ASSUME NEW i \in 1 .. Len(q) PROVE r[i].time = t - (Len(q) + 1) + i
      <4>1. r[i] = q[i] /\ q[i].time = t - Len(q) + i - 1
        BY <1>3, <2>2
      <4>2. t - Len(q) + i - 1 = t - (Len(q) + 1) + i
        BY <1>1, <3>1
      <4> QED BY <4>1, <4>2
    <3>4. r[Len(q) + 1].time = t
      BY <1>1, <2>2
    <3> DEFINE n == Len(q)
    <3> HIDE DEF n
    <3>5. n \in Nat /\ Len(r) = n + 1 /\ t - (n + 1) + (n + 1) = t
      BY <1>1, <2>2, <3>1 DEF n
    <3> SUFFICES ASSUME NEW i \in 1 .. Len(r) PROVE r[i].time = t - Len(r) + i
      OBVIOUS
    <3>6. CASE i = n + 1
      BY <3>4, <3>5, <3>6 DEF n
    <3>7. CASE i \in 1 .. n
      BY <3>3, <3>5, <3>7 DEF n
    <3> QED BY <3>2, <3>6, <3>7 DEF n
  <2>4. r \in Seq(Checkpoint)
    BY <2>2, SeqMonotonic
  <2>5. Spaced(r, t)
    BY <1>3, <2>2, <2>3, <2>4 DEF Spaced
  <2> QED BY <1>2, <2>1, <2>2, <2>5 DEF r
<1> HIDE DEF point
<1> DEFINE spare == {i \in 1 .. Len(p) - 1 : \A j \in 2 .. i + 1 : p[j].time <= cutoff}
           top == CHOOSE i \in spare : \A j \in spare : j <= i
           keep == IF spare = {} THEN 1 ELSE 1 + top
<1>4. rest = SubSeq(p, keep, Len(p))
  BY DEF Pruned
<1> HIDE DEF rest
<1>5. ASSUME s = Never PROVE Held(rest)
  <2>1. Len(p) = 0 /\ p = <<>> /\ t = 0
    BY <1>5 DEF Never
  <2>2. spare = {}
    BY <2>1
  <2>3. rest = <<>>
    BY <1>4, <2>1, <2>2, SubSeqEmpty
  <2>4. rest \in Seq(C) /\ Len(rest) = 0
    BY <2>3
  <2>5. Smaller(t, Window) = 0
    BY <1>1, <2>1 DEF Smaller
  <2>6. \A i \in 1 .. Len(rest) : rest[i].time = t - Len(rest) + i - 1
    BY <2>4
  <2> QED BY <1>3, <2>4, <2>5, <2>6
<1>6. ASSUME s # Never, s < Window PROVE Held(rest)
  <2>1. s \in Nat /\ t - s = 1
    BY <1>6 DEF Instants
  <2>2. Smaller(s, Window) = s /\ Smaller(t, Window) = t
    BY <1>1, <1>6, <2>1 DEF Smaller
  <2>3. /\ p \in Seq(C) /\ Len(p) = s + 1
        /\ \A i \in 1 .. Len(p) : p[i].time = i - 1
    BY <1>6, <2>1, <2>2 DEF Spaced
  <2>4. spare = {}
    <3> SUFFICES ASSUME NEW i \in 1 .. Len(p) - 1, \A j \in 2 .. i + 1 : p[j].time <= cutoff
                 PROVE  FALSE
      OBVIOUS
    <3>1. p[2].time <= cutoff /\ p[2].time = 1
      BY <2>1, <2>3
    <3> QED BY <1>1, <1>6, <2>1, <3>1
  <2>5. rest = p
    BY <1>4, <2>3, <2>4, SubSeqFull
  <2>6. /\ Len(rest) = Smaller(t, Window)
        /\ \A i \in 1 .. Len(rest) : rest[i].time = t - Len(rest) + i - 1
    BY <2>1, <2>2, <2>3, <2>5
  <2> QED BY <1>3, <2>3, <2>5, <2>6
<1>7. ASSUME s # Never, ~(s < Window) PROVE Held(rest)
  <2>1. s \in Nat /\ t - s = 1 /\ s - Window = cutoff - 1 /\ cutoff \in Int
    BY <1>1, <1>7 DEF Instants
  <2>2. Smaller(s, Window) = Window /\ Smaller(t, Window) = Window
    BY <1>1, <1>7, <2>1 DEF Smaller
  <2>3. /\ p \in Seq(C) /\ Len(p) = Window + 1
        /\ \A i \in 1 .. Len(p) : p[i].time = s - (Window + 1) + i
    BY <1>7, <2>2 DEF Spaced
  <2>4. \A i \in 1 .. Len(p) : p[i].time = cutoff + i - 2
    BY <1>1, <2>1, <2>3
  <2> HIDE DEF cutoff
  <2>5. spare = {1}
    <3>1. 1 \in spare
      BY <1>1, <2>1, <2>3, <2>4
    <3>2. ASSUME NEW i \in spare, i # 1 PROVE FALSE
      <4>1. i \in 2 .. Len(p) - 1 /\ \A j \in 2 .. i + 1 : p[j].time <= cutoff
        BY <1>1, <2>3, <3>2
      <4>2. p[3].time <= cutoff /\ p[3].time = cutoff + 1
        BY <1>1, <2>3, <2>4, <4>1
      <4> QED BY <2>1, <4>2
    <3> HIDE DEF spare
    <3> QED BY <3>1, <3>2
  <2> HIDE DEF spare
  <2>6. top = 1
    <3>1. \E i \in spare : \A j \in spare : j <= i
      BY <2>5
    <3>2. top \in spare
      BY <3>1, Zenon
    <3> HIDE DEF top
    <3> QED BY <2>5, <3>2
  <2> HIDE DEF top
  <2>7. rest = SubSeq(p, 2, Len(p))
    BY <1>4, <2>5, <2>6
  <2>8. \A i \in 2 .. Len(p) : p[i] \in Checkpoint
    BY <2>3
  <2>9. /\ SubSeq(p, 2, Len(p)) \in Seq(C)
        /\ Len(SubSeq(p, 2, Len(p))) = IF 2 <= Len(p) THEN Len(p) - 2 + 1 ELSE 0
        /\ \A i \in 1 .. Len(p) - 2 + 1 : SubSeq(p, 2, Len(p))[i] = p[2 + i - 1]
    BY <2>3, <2>8, SubSeqProperties
  <2>10. /\ rest \in Seq(C) /\ Len(rest) = Window
         /\ \A i \in 1 .. Window : rest[i] = p[i + 1]
    BY <1>1, <2>3, <2>7, <2>9
  <2>11. \A i \in 1 .. Len(rest) : rest[i].time = t - Len(rest) + i - 1
    BY <1>1, <2>1, <2>3, <2>10
  <2> QED BY <1>3, <2>2, <2>10, <2>11
<1>8. Held(rest)
  BY <1>5, <1>6, <1>7
<1> QED BY <1>8 DEF rest, point

(* A moving average: the checkpoints are the same when none is dropped.    *)
LEMMA MeanTwin ==
    ASSUME NEW k, NEW m, NEW s \in Instants, NEW t, t = s + 1, NEW d, NEW u, u.in \in Int,
           Window < MaxPoints, MaxPoints \in Int, MeanAlike(k, m, s)
    PROVE  LET r == MovingAverageStep(k, t, u)
               x == MeanScan(m, t, d, u)
           IN  r.out = x.out /\ MeanAlike(r.mem, x.mem, t)
<1> DEFINE r == MovingAverageStep(k, t, u)
           x == MeanScan(m, t, d, u)
           p == m.points
           mu == m.mu + u.in * (IF s = Never THEN 0 ELSE 1)
           target == t - Window
           low == Larger(Larger(target, IF p = <<>> THEN 0 ELSE p[1].time), 0)
           full == t >= 0 + Window
           out == Mean(mu - MuAt(p, target, t, mu), IF full THEN t - low ELSE t - 0, full)
           points == Stored(Pruned(p, target), [time |-> t, mu |-> mu])
<1>1. t \in Nat /\ t # Never /\ (s # Never => s \in Nat /\ t - s = 1)
  BY DEF Instants, Never
<1>2. k.points = p /\ m.mu \in Int /\ k.mu = m.mu /\ k.at = s /\ mu \in Int
      /\ (m.start = Never) = (s = Never) /\ (IF s = Never THEN p = <<>> ELSE Spaced(p, s))
      /\ (IF k.at = Never THEN t ELSE k.start) = 0 /\ (IF m.start = Never THEN t ELSE m.start) = 0
  BY <1>1 DEF MeanAlike, MovingAverageStart, MeanNew, Never
<1>3. /\ k.mu + (IF k.at = Never THEN 0 ELSE u.in * (t - k.at)) = mu
      /\ m.mu + u.in * (IF m.start = Never THEN 0 ELSE t - m.at) = mu
  BY <1>1, <1>2 DEF MeanAlike
<1>4. Spaced(points, t)
  <2> DEFINE C == Checkpoint
  <2>1. C \in SUBSET Checkpoint /\ [time |-> t, mu |-> mu] \in C
    BY <1>1, <1>2 DEF Checkpoint
  <2>2. p \in Seq(C)
    BY <1>2, EmptySeq DEF Spaced
  <2> HIDE DEF C, mu, p
  <2> QED BY <1>2, <2>1, <2>2, WindowKept
<1>5. ~(Len(points) > MaxPoints)
  <2> HIDE DEF points
  <2> QED BY <1>1, <1>4, PeriodAssumption DEF Spaced, Smaller
<1> HIDE DEF mu
<1>6. r.out = out /\ r.mem = [mu |-> mu, start |-> 0, at |-> t, points |-> points]
  BY <1>2, <1>3, Zenon DEF MovingAverageStep, Ran
<1>7. x.out = out /\ x.mem = [mu |-> mu, start |-> 0, at |-> t, points |-> points]
  BY <1>2, <1>3, <1>5, Zenon DEF MeanScan, Shown
<1> HIDE DEF r, x, points
<1>8. r.out = x.out /\ MeanAlike(r.mem, x.mem, t)
  BY <1>1, <1>2, <1>4, <1>6, <1>7 DEF MeanAlike
<1> QED BY <1>8 DEF r, x

(* What one step of the device leaves, field by field. *)
DeviceLeft(n, d, dt, on) ==
    LET wait == IF on THEN Trim.delay + SamplePeriod ELSE 0
        elapsed == d.elapsed + dt
    IN  /\ n \in Device /\ n.pending = on
        /\ n.out = IF on = d.out THEN on
                   ELSE IF on # d.pending THEN IF ~on \/ wait <= 0 THEN on ELSE d.out
                   ELSE IF elapsed >= wait THEN on ELSE d.out
        /\ n.elapsed = IF on = d.out \/ on # d.pending \/ elapsed >= wait THEN 0 ELSE elapsed

LEMMA DeviceStepped ==
    ASSUME NEW d \in Device, NEW dt \in Int, NEW on \in BOOLEAN
    PROVE  DeviceLeft(DeviceStep(d, dt, on), d, dt, on)
<1> DEFINE n == DeviceStep(d, dt, on)
           wait == IF on THEN Trim.delay + SamplePeriod ELSE 0
           elapsed == d.elapsed + dt
<1>1. d.out \in BOOLEAN /\ d.pending \in BOOLEAN /\ d.elapsed \in Int /\ elapsed \in Int
  BY DEF Device
<1>2. CASE on = d.out
  <2> DEFINE a == [d EXCEPT !.elapsed = 0]
  <2>1. n = [a EXCEPT !.pending = on]
    BY <1>2 DEF DeviceStep
  <2>2. a \in Device /\ a.out = d.out /\ a.elapsed = 0
    BY DEF Device
  <2> HIDE DEF a, n
  <2>3. n \in Device
    BY <2>1, <2>2 DEF Device
  <2>4. n.pending = on /\ n.out = d.out /\ n.elapsed = 0
    BY <2>1, <2>2 DEF Device
  <2>5. DeviceLeft(n, d, dt, on)
    BY <1>2, <2>3, <2>4 DEF DeviceLeft
  <2> QED BY <2>5 DEF n
<1>3. CASE on # d.out /\ on # d.pending
  <2> DEFINE out == IF ~on \/ wait <= 0 THEN on ELSE d.out
  <2>1. n = [out |-> out, pending |-> on, elapsed |-> 0]
    BY <1>3 DEF DeviceStep
  <2>2. out \in BOOLEAN
    BY <1>1
  <2> HIDE DEF out, n
  <2>3. n \in Device /\ n.pending = on /\ n.out = out /\ n.elapsed = 0
    BY <2>1, <2>2 DEF Device
  <2>4. DeviceLeft(n, d, dt, on)
    BY <1>3, <2>3 DEF out, DeviceLeft
  <2> QED BY <2>4 DEF n
<1>4. CASE on # d.out /\ on = d.pending /\ elapsed >= wait
  <2> DEFINE a == [d EXCEPT !.out = on]
  <2>1. n = [a EXCEPT !.elapsed = 0]
    BY <1>4 DEF DeviceStep
  <2>2. a \in Device /\ a.out = on /\ a.pending = on
    BY <1>4 DEF Device
  <2> HIDE DEF a, n
  <2>3. n \in Device /\ n.out = on /\ n.pending = on /\ n.elapsed = 0
    BY <2>1, <2>2 DEF Device
  <2>4. DeviceLeft(n, d, dt, on)
    BY <1>4, <2>3 DEF DeviceLeft
  <2> QED BY <2>4 DEF n
<1>5. CASE on # d.out /\ on = d.pending /\ ~(elapsed >= wait)
  <2>1. n = [d EXCEPT !.elapsed = elapsed]
    BY <1>5 DEF DeviceStep
  <2> HIDE DEF n
  <2>2. n \in Device /\ n.out = d.out /\ n.pending = on /\ n.elapsed = elapsed
    BY <1>1, <1>5, <2>1 DEF Device
  <2>3. DeviceLeft(n, d, dt, on)
    BY <1>5, <2>2 DEF DeviceLeft
  <2> QED BY <2>3 DEF n
<1> QED BY <1>2, <1>3, <1>4, <1>5, <1>1

(* A second execution at an instant leaves the device and the hold.        *)
LEMMA DeviceTwin ==
    ASSUME NEW d, NEW e, NEW dt \in Int, NEW on \in BOOLEAN, DeviceAlike(d, e)
    PROVE  DeviceAlike(DeviceStep(DeviceStep(d, dt, on), 0, on), DeviceStep(e, dt, on))
<1> DEFINE a == DeviceStep(d, dt, on)
           b == DeviceStep(a, 0, on)
           c == DeviceStep(e, dt, on)
           wait == IF on THEN Trim.delay + SamplePeriod ELSE 0
<1>1. /\ d \in Device /\ e \in Device /\ d.out = e.out /\ d.pending = e.pending
      /\ d.elapsed = e.elapsed /\ e.out \in BOOLEAN /\ e.elapsed \in Int
  BY DEF DeviceAlike, Device
<1>2. wait \in Int /\ (~on => wait = 0)
  BY TrimAssumption, PeriodAssumption
<1> DEFINE late == e.elapsed + dt >= wait
           out == IF on = e.out THEN on
                  ELSE IF on # e.pending THEN IF ~on \/ wait <= 0 THEN on ELSE e.out
                  ELSE IF late THEN on ELSE e.out
           elapsed == IF on = e.out \/ on # e.pending \/ late THEN 0 ELSE e.elapsed + dt
<1>3. a \in Device /\ a.pending = on /\ a.out = out /\ a.elapsed = elapsed
  BY <1>1, DeviceStepped DEF DeviceLeft
<1>4. c \in Device /\ c.pending = on /\ c.out = out /\ c.elapsed = elapsed
  BY <1>1, DeviceStepped DEF DeviceLeft
<1> HIDE DEF a
<1>5. /\ b \in Device /\ b.pending = on
      /\ b.out = IF on = a.out THEN on
                 ELSE IF on # a.pending THEN IF ~on \/ wait <= 0 THEN on ELSE a.out
                 ELSE IF a.elapsed + 0 >= wait THEN on ELSE a.out
      /\ b.elapsed = IF on = a.out \/ on # a.pending \/ a.elapsed + 0 >= wait THEN 0
                     ELSE a.elapsed + 0
  BY <1>3, DeviceStepped DEF DeviceLeft
<1> HIDE DEF b, c, wait
<1>6. elapsed \in Int
  BY <1>1
<1>7. on # out => ~(elapsed >= wait)
  BY <1>1, <1>2
<1>8. on = out => elapsed = 0
  BY <1>1
<1> HIDE DEF out, elapsed
<1>9. b.out = out /\ b.elapsed = elapsed
  BY <1>3, <1>5, <1>6, <1>7, <1>8
<1>10. DeviceAlike(b, c)
  BY <1>4, <1>5, <1>9 DEF DeviceAlike
<1> QED BY <1>10 DEF a, b, c

LEMMA RequestTwin ==
    ASSUME NEW h, NEW g, NEW t, Index(t) \in Nat, NEW dt \in Int, NEW hold \in BOOLEAN,
           RequestAlike(h, g)
    PROVE  RequestAlike(HoldStep(HoldStep(h, t, dt, hold), t, 0, hold), HoldStep(g, t, dt, hold))
<1> DEFINE a == HoldStep(h, t, dt, hold)
           b == HoldStep(a, t, 0, hold)
           c == HoldStep(g, t, dt, hold)
           req(v) == IF v THEN Trim.holdFor ELSE 0
           elapsed == g.elapsed + dt
           turns == ~g.initialized \/ (hold # g.out /\ elapsed >= req(g.out))
           out == IF turns THEN hold ELSE g.out
           rest == IF turns THEN 0 ELSE elapsed
           index == Larger(g.index, Index(t))
           latch == IF Index(t) > g.index THEN out ELSE g.latch
           again == ~a.initialized \/ (hold # a.out /\ a.elapsed + 0 >= req(a.out))
<1>1. /\ h.initialized = g.initialized /\ h.out = g.out /\ h.latch = g.latch
      /\ h.elapsed = g.elapsed /\ h.index = g.index
      /\ g.initialized \in BOOLEAN /\ g.out \in BOOLEAN /\ g.latch \in BOOLEAN
      /\ g.elapsed \in Int /\ g.index \in Int
  BY DEF RequestAlike
<1>2. /\ a.initialized = TRUE /\ a.out = out /\ a.elapsed = rest /\ a.index = index
      /\ a.latch = latch
  BY <1>1 DEF HoldStep
<1>3. /\ c.initialized = TRUE /\ c.out = out /\ c.elapsed = rest /\ c.index = index
      /\ c.latch = latch
  BY DEF HoldStep
<1> HIDE DEF a, c
<1>4. LET now == IF again THEN hold ELSE a.out
      IN  /\ b.initialized = TRUE /\ b.out = now
          /\ b.elapsed = IF again THEN 0 ELSE a.elapsed + 0
          /\ b.index = Larger(a.index, Index(t))
          /\ b.latch = IF Index(t) > a.index THEN now ELSE a.latch
  BY DEF HoldStep
<1> HIDE DEF b
<1>5. out \in BOOLEAN /\ rest \in Int /\ index \in Int /\ latch \in BOOLEAN
  BY <1>1 DEF Larger
<1>6. Larger(index, Index(t)) = index /\ ~(Index(t) > index)
  BY <1>1 DEF Larger
<1>7. ~again
  <2>1. CASE turns
    BY <1>2, <2>1
  <2>2. CASE ~turns
    BY <1>1, <1>2, <2>2
  <2> QED BY <2>1, <2>2
<1> HIDE DEF again, out, rest, index, latch
<1>8. b.out = out /\ b.elapsed = rest /\ b.index = index /\ b.latch = latch /\ b.initialized = TRUE
  BY <1>2, <1>4, <1>5, <1>6, <1>7
<1>9. RequestAlike(b, c)
  BY <1>3, <1>5, <1>8 DEF RequestAlike
<1> QED BY <1>9 DEF a, b, c

(* Trim and respond: its four parts, and the response they agree on.       *)
LEMMA TrimTwin ==
    ASSUME NEW k, NEW m, NEW s \in Instants, NEW t, t = s + 1, NEW w, NEW u,
           w.device_on = u.device_on, w.hold = u.hold,
           u.device_on \in BOOLEAN, u.hold \in BOOLEAN, TrimAlike(k, m, s)
    PROVE  LET r == TrimAndRespondStep(TrimAndRespondStep(k, t, w).mem, t, u)
               x == TrimScan(m, t, Lapse(s), u)
           IN  r.out = x.out /\ TrimAlike(r.mem, x.mem, t)
<1> DEFINE a == TrimAndRespondStep(k, t, w).mem
           r == TrimAndRespondStep(a, t, u)
           x == TrimScan(m, t, Lapse(s), u)
           on == u.device_on
           held == UnitHeld(k.unit, s, t)
           answer(v) == IF on THEN Respond(held, v.sampler.held,
                                           v.delay.out /\ ~(Trim.holds /\ v.hold.latch))
                        ELSE Trim.initial
<1>1. /\ t \in Nat /\ t # Never /\ Index(t) \in Nat
      /\ s = Never => t = 0 /\ Index(t) = 0 /\ t = Index(t) * SamplePeriod
      /\ s # Never => /\ s \in Nat /\ s < t /\ Index(s) \in Nat
                      /\ IF Index(t) > Index(s) THEN t = Index(t) * SamplePeriod
                         ELSE Index(t) = Index(s) /\ t # Index(t) * SamplePeriod
  BY Boundary
<1>2. /\ k.at = s /\ Lapse(s) \in Int
      /\ (IF k.at = Never THEN 0 ELSE t - k.at) = Lapse(s)
      /\ DeviceAlike(k.delay, m.delay) /\ RequestAlike(k.hold, m.hold)
      /\ SamplerAlike(k.sampler, m.sampler, s)
  BY <1>1 DEF TrimAlike, Lapse
<1>3. /\ k.unit.initialized = (s # Never)
      /\ k.unit.index = IF s = Never THEN 0 ELSE Index(s)
      /\ s = Never => UnitHeld(k.unit, s, t) = Trim.initial
  BY DEF TrimAlike, UnitDelayAlike, UnitHeld, UnitDue
<1>4. /\ a.at = t
      /\ a.delay = DeviceStep(k.delay, Lapse(s), on)
      /\ a.hold = IF Trim.holds THEN HoldStep(k.hold, t, Lapse(s), u.hold) ELSE k.hold
      /\ a.sampler = SamplerStep(k.sampler, t, [in |-> w.request_count]).mem
  BY <1>2, Zenon DEF TrimAndRespondStep, Ran
<1>5. PICK p : a.unit = UnitDelayStep(k.unit, t, p).mem
  BY Zenon DEF TrimAndRespondStep, Ran
<1> HIDE DEF a
<1>6. a.unit.held = held /\ a.unit.initialized = TRUE /\ a.unit.index = Index(t)
  <2>1. UnitOpened(a.unit, k.unit, s, t)
    BY <1>3, <1>5, UnitTwice
  <2> QED BY <2>1 DEF UnitOpened
<1>7. (IF a.at = Never THEN 0 ELSE t - a.at) = 0
  BY <1>1, <1>4
<1>8. (IF ~a.unit.initialized THEN Trim.initial
       ELSE IF a.unit.initialized /\ Index(t) > a.unit.index THEN a.unit.staged
       ELSE a.unit.held) = held
  BY <1>1, <1>6
<1>9. /\ r.mem.at = t /\ r.mem.delay = DeviceStep(a.delay, 0, on)
      /\ r.mem.hold = IF Trim.holds THEN HoldStep(a.hold, t, 0, u.hold) ELSE a.hold
      /\ r.mem.sampler = SamplerStep(a.sampler, t, [in |-> u.request_count]).mem
  BY <1>7, Zenon DEF TrimAndRespondStep, Ran
<1>10. r.out = answer(r.mem) /\ r.mem.unit = UnitDelayStep(a.unit, t, [in |-> r.out]).mem
  BY <1>8, <1>9, Zenon DEF TrimAndRespondStep, Ran
<1> DEFINE due == ~m.unit.new /\ Index(t) > m.unit.last_index
<1>11. (IF m.unit.new THEN Trim.initial ELSE IF due THEN m.unit.staged ELSE m.unit.held) = held
       /\ m.unit.new = (s = Never) /\ due = UnitDue(s, t)
  BY <1>3 DEF TrimAlike, UnitDelayAlike, UnitHeld, UnitDue
<1>12. /\ x.mem.delay = DeviceStep(m.delay, Lapse(s), on)
       /\ x.mem.hold = IF Trim.holds THEN HoldStep(m.hold, t, Lapse(s), u.hold) ELSE m.hold
       /\ x.mem.sampler = NumericSamplerScan(m.sampler, t, Lapse(s), [in |-> u.request_count]).mem
  BY Zenon DEF TrimScan, Shown
<1>13. /\ x.out = answer(x.mem)
       /\ x.mem.unit = IF m.unit.new
                        THEN [new |-> FALSE, held |-> Trim.initial, staged |-> x.out,
                              last_index |-> Index(t)]
                        ELSE IF due
                        THEN [m.unit EXCEPT !.held = m.unit.staged, !.staged = x.out,
                                            !.last_index = Index(t)]
                        ELSE m.unit
  BY <1>11, <1>12, Zenon DEF TrimScan, Shown
<1> HIDE DEF r, x, held, due
<1>14. DeviceAlike(r.mem.delay, x.mem.delay)
  BY <1>2, <1>4, <1>9, <1>12, DeviceTwin
<1>15. RequestAlike(r.mem.hold, x.mem.hold)
  BY <1>1, <1>2, <1>4, <1>9, <1>12, RequestTwin
<1>16. SamplerAlike(r.mem.sampler, x.mem.sampler, t)
  BY <1>1, <1>2, <1>4, <1>9, <1>12, SamplerTwin
<1>17. r.out = x.out
  <2>1. r.mem.sampler.held = x.mem.sampler.held /\ r.mem.delay.out = x.mem.delay.out
        /\ r.mem.hold.latch = x.mem.hold.latch
    BY <1>1, <1>14, <1>15, <1>16 DEF DeviceAlike, RequestAlike, SamplerAlike
  <2> QED BY <1>10, <1>13, <2>1
<1>18. UnitLeft(k.unit, s, t, [in |-> r.out], UnitDelayStep(a.unit, t, [in |-> r.out]))
  BY <1>3, <1>5, UnitTwice
<1>19. /\ r.mem.unit.held = held /\ r.mem.unit.initialized = TRUE /\ r.mem.unit.index = Index(t)
       /\ r.mem.unit.staged = IF s = Never \/ UnitDue(s, t) THEN r.out ELSE k.unit.staged
  BY <1>10, <1>18 DEF UnitLeft, held
<1>20. UnitDelayAlike(r.mem.unit, x.mem.unit, t)
  <2>1. CASE s = Never
    <3>1. held = Trim.initial /\ r.mem.unit.staged = x.out
      BY <1>3, <1>17, <1>19, <2>1 DEF held
    <3>2. x.mem.unit = [new |-> FALSE, held |-> held, staged |-> x.out, last_index |-> Index(t)]
      BY <1>11, <1>13, <2>1, <3>1
    <3> QED BY <1>19, <3>1, <3>2 DEF UnitDelayAlike
  <2>2. CASE s # Never /\ UnitDue(s, t)
    <3>1. m.unit \in [new : {FALSE}, held : {k.unit.held}, staged : {k.unit.staged},
                      last_index : {Index(s)}]
      BY <2>2 DEF TrimAlike, UnitDelayAlike
    <3>2. held = m.unit.staged
      BY <2>2, <3>1 DEF held, UnitHeld
    <3>3. x.mem.unit = [m.unit EXCEPT !.held = held, !.staged = x.out, !.last_index = Index(t)]
      BY <1>11, <1>13, <2>2, <3>2
    <3>4. x.mem.unit \in [new : {FALSE}, held : {held}, staged : {x.out}, last_index : {Index(t)}]
      BY <3>1, <3>3
    <3> QED BY <1>17, <1>19, <2>2, <3>4 DEF UnitDelayAlike
  <2>3. CASE s # Never /\ ~UnitDue(s, t)
    <3>1. m.unit \in [new : {FALSE}, held : {k.unit.held}, staged : {k.unit.staged},
                      last_index : {Index(s)}]
      BY <2>3 DEF TrimAlike, UnitDelayAlike
    <3>2. x.mem.unit = m.unit /\ held = k.unit.held /\ Index(t) = Index(s)
      BY <1>1, <1>11, <1>13, <2>3 DEF held, UnitHeld, UnitDue
    <3> QED BY <1>19, <2>3, <3>1, <3>2 DEF UnitDelayAlike
  <2> QED BY <2>1, <2>2, <2>3
<1>21. r.out = x.out /\ TrimAlike(r.mem, x.mem, t)
  BY <1>1, <1>9, <1>14, <1>15, <1>16, <1>17, <1>20 DEF TrimAlike
<1> QED BY <1>21 DEF r, x, a

(* A plant: the two times of a change in one engine are one in the other.  *)
LEMMA PlantTwin ==
    ASSUME NEW k, NEW m, NEW t, NEW d,
           NEW u \in [schedule : BOOLEAN, requests : Int, outdoor : Int],
           PlantAlike(k, m)
    PROVE  LET r == PlantEnableStep(k, t, u)
               x == PlantEnableScan(m, t, d, u)
           IN  r.out = x.out /\ PlantAlike(r.mem, x.mem)
<1> DEFINE r == PlantEnableStep(k, t, u)
           x == PlantEnableScan(m, t, d, u)
           few == FewRequests(u)
           low == IF ~few THEN Never
                  ELSE IF ~k.initialized \/ k.lowRequestSince = Never THEN t
                  ELSE k.lowRequestSince
           rested == IF k.initialized THEN k.disabledSince ELSE t
           idle == low # Never /\ t - low >= Plant.low_request_time
           starts == /\ ~k.enabled /\ t - rested >= Plant.minimum_state_time
                     /\ u.schedule /\ ~few /\ Cold(u)
           stops == /\ k.enabled /\ t - k.enabledSince >= Plant.minimum_state_time
                    /\ ~u.schedule \/ idle \/ Mild(u)
           enabled == starts \/ (k.enabled /\ ~stops)
           was == IF m.new THEN [enabled |-> FALSE, since |-> t, low_since |-> Never] ELSE m
           low_since == IF ~few THEN Never ELSE IF was.low_since = Never THEN t
                        ELSE was.low_since
           quiet == low_since # Never /\ t - low_since >= Plant.low_request_time
           long == t - was.since >= Plant.minimum_state_time
           runs == IF was.enabled THEN ~(long /\ (~u.schedule \/ quiet \/ Mild(u)))
                   ELSE long /\ u.schedule /\ ~few /\ Cold(u)
<1>1. /\ r.out = enabled /\ r.mem.initialized = TRUE /\ r.mem.enabled = enabled
      /\ r.mem.disabledSince = IF stops THEN t ELSE rested
      /\ r.mem.enabledSince = IF starts THEN t ELSE k.enabledSince
      /\ r.mem.lowRequestSince = low
  BY DEF PlantEnableStep, Ran
<1>2. /\ x.out = runs /\ x.mem.new = FALSE /\ x.mem.enabled = runs /\ x.mem.low_since = low_since
      /\ x.mem.since = IF runs # was.enabled THEN t ELSE was.since
  BY DEF PlantEnableScan, Shown
<1> HIDE DEF r, x
<1>3. few \in BOOLEAN /\ u.schedule \in BOOLEAN /\ Cold(u) \in BOOLEAN /\ Mild(u) \in BOOLEAN
  BY DEF FewRequests, Cold, Mild
<1> HIDE DEF few
<1>4. /\ was.enabled = k.enabled /\ k.enabled \in BOOLEAN
      /\ was.since = IF k.enabled THEN k.enabledSince ELSE rested
  <2>1. CASE m.new
    BY <2>1 DEF PlantAlike
  <2>2. CASE ~m.new
    BY <2>2 DEF PlantAlike
  <2> QED BY <2>1, <2>2
<1>5. low = low_since
  <2>1. CASE m.new
    BY <2>1 DEF PlantAlike
  <2>2. CASE ~m.new
    BY <2>2 DEF PlantAlike
  <2> QED BY <2>1, <2>2
<1> HIDE DEF low, low_since, was, rested
<1> DEFINE e == k.enabled
           g == t - was.since >= Plant.minimum_state_time
           ends == ~u.schedule \/ quiet \/ Mild(u)
           may == u.schedule /\ ~few /\ Cold(u)
<1>6. starts = (~e /\ g /\ may)
  <2>1. CASE k.enabled
    BY <2>1
  <2>2. CASE ~k.enabled
    BY <1>4, <2>2
  <2> QED BY <2>1, <2>2
<1>7. stops = (e /\ g /\ ends)
  <2>1. CASE k.enabled
    BY <1>4, <1>5, <2>1
  <2>2. CASE ~k.enabled
    BY <2>2
  <2> QED BY <2>1, <2>2
<1>8. runs = IF e THEN ~(g /\ ends) ELSE g /\ may
  BY <1>4
<1>9. e \in BOOLEAN /\ g \in BOOLEAN /\ ends \in BOOLEAN /\ may \in BOOLEAN
  BY <1>3, <1>4
<1>10. enabled = (starts \/ (e /\ ~stops)) /\ was.enabled = e
  BY <1>4
<1> HIDE DEF enabled, starts, stops, runs, e, g, ends, may
<1>11. enabled = runs /\ runs \in BOOLEAN
  BY <1>6, <1>7, <1>8, <1>9, <1>10
<1>12. x.mem.since = IF runs THEN r.mem.enabledSince ELSE r.mem.disabledSince
  <2>1. CASE e
    BY <1>1, <1>2, <1>4, <1>6, <1>7, <1>8, <1>9, <1>10, <2>1 DEF e
  <2>2. CASE ~e
    BY <1>1, <1>2, <1>4, <1>6, <1>7, <1>8, <1>9, <1>10, <2>2 DEF e
  <2> QED BY <2>1, <2>2
<1>13. r.out = x.out /\ PlantAlike(r.mem, x.mem)
  BY <1>1, <1>2, <1>5, <1>11, <1>12 DEF PlantAlike
<1> QED BY <1>13 DEF r, x

ChillerScanned(x, m, t, u) ==
    /\ x.mem.first = FALSE /\ x.mem.status = u.status
    /\ x.mem.high_cooling = HrcActive(m, u)["cooling_load"]
    /\ x.mem.high_heating = HrcActive(m, u)["heating_load"]
    /\ x.mem.low_cooling = Below(m.low_cooling, u.cooling_load, Plant.cooling_capacity)
    /\ x.mem.low_heating = Below(m.low_heating, u.cooling_load, Plant.heating_capacity)
    /\ x.mem.timers = [n \in HrcTimer |->
         HeldFor(m.timers[n], HrcActive(m, u)[n], HrcThreshold[n], t)]
    /\ x.mem.all_enable = (\A n \in Enabling : x.mem.timers[n].passed)
    /\ x.mem.disable =
         (\/ ~u.cooling_plant \/ ~u.heating_plant
          \/ m.status /\ ~u.status /\ (x.mem.low_cooling \/ x.mem.low_heating)
          \/ m.enable /\ (IF u.cooling_mode
                          THEN x.mem.timers["heating_1"].passed \/ x.mem.timers["heating_2"].passed
                          ELSE x.mem.timers["chilled_1"].passed \/ x.mem.timers["chilled_2"].passed))
    /\ x.mem.latch = IF m.first \/ (x.mem.disable /\ ~m.disable) \/ (x.mem.all_enable /\ ~m.all_enable)
                 THEN ~x.mem.disable /\ x.mem.all_enable ELSE m.latch
    /\ x.mem.delay_started = IF ~x.mem.latch THEN Never ELSE IF ~m.latch THEN t ELSE m.delay_started
    /\ x.mem.enable = (x.mem.latch /\ IF m.first THEN TRUE
                   ELSE m.latch /\ (m.enable \/ (x.mem.delay_started # Never
                          /\ t - x.mem.delay_started >= Plant.enable_delay)))
    /\ x.out = [enable |-> x.mem.enable, set_mode |-> x.mem.latch /\ ~m.latch]

LEMMA ChillerScans ==
    ASSUME NEW m, NEW t, NEW d, NEW u
    PROVE  ChillerScanned(HrcScan(m, t, d, u), m, t, u)
BY ZenonT(60) DEF ChillerScanned, HrcScan, Shown, Enabling

(* The chiller: each of its fields, from those before it, in both engines. *)
LEMMA ChillerTwin ==
    ASSUME NEW k, NEW m, NEW t, NEW d, NEW u,
           u.cooling_plant \in BOOLEAN, u.heating_plant \in BOOLEAN,
           u.status \in BOOLEAN, u.cooling_mode \in BOOLEAN, ChillerAlike(k, m)
    PROVE  LET r == HrcEnableStep(k, t, u)
               x == HrcScan(m, t, d, u)
           IN  r.out = x.out /\ ChillerAlike(r.mem, x.mem)
<1> DEFINE r == HrcEnableStep(k, t, u)
           x == HrcScan(m, t, d, u)
           q == r.mem
           p == x.mem
<1>1. /\ k.firstStep = m.first /\ k.timers = m.timers
      /\ k.high[1] = m.high_cooling /\ k.high[2] = m.high_heating
      /\ k.low[1] = m.low_cooling /\ k.low[2] = m.low_heating
      /\ k.previousHrcStatus = m.status /\ k.previousAllEnable = m.all_enable
      /\ k.previousDisable = m.disable /\ k.latchOutput = m.latch
      /\ k.enableOutput = m.enable /\ k.delayStarted = m.delay_started
  BY DEF ChillerAlike
<1>2. /\ m.first \in BOOLEAN /\ m.status \in BOOLEAN /\ m.all_enable \in BOOLEAN
      /\ m.disable \in BOOLEAN /\ m.latch \in BOOLEAN /\ m.enable \in BOOLEAN
      /\ m.first => ~m.latch
  BY DEF ChillerAlike
<1>p. ChillerRan(r, k, t, u)
  BY ChillerProgram
<1>s. ChillerScanned(x, m, t, u)
  BY ChillerScans
<1> HIDE DEF r, x
<1>3. /\ q.firstStep = FALSE /\ q.previousHrcStatus = u.status
      /\ q.high = <<Above(k.high[1], u.cooling_load, Plant.cooling_capacity),
                    Above(k.high[2], u.heating_load, Plant.heating_capacity)>>
      /\ q.low = <<Below(k.low[1], u.cooling_load, Plant.cooling_capacity),
                   Below(k.low[2], u.cooling_load, Plant.heating_capacity)>>
  BY <1>p DEF ChillerRan
<1>4. /\ p.first = FALSE /\ p.status = u.status
      /\ p.high_cooling = HrcActive(m, u)["cooling_load"]
      /\ p.high_heating = HrcActive(m, u)["heating_load"]
      /\ p.low_cooling = Below(m.low_cooling, u.cooling_load, Plant.cooling_capacity)
      /\ p.low_heating = Below(m.low_heating, u.cooling_load, Plant.heating_capacity)
  BY <1>s DEF ChillerScanned
<1>5. q.timers = [n \in HrcTimer |-> HeldFor(k.timers[n],
            [cooling_plant |-> u.cooling_plant, heating_plant |-> u.heating_plant,
             disabled |-> ~k.enableOutput,
             cooling_load |-> q.high[1], heating_load |-> q.high[2],
             chilled_1 |-> u.chilled < Plant.chilled_limit + 1,
             chilled_2 |-> u.chilled < Plant.chilled_limit,
             heating_1 |-> 2 * u.heating > 2 * Plant.heating_limit - 3,
             heating_2 |-> u.heating > Plant.heating_limit][n], HrcThreshold[n], t)]
  BY <1>p DEF ChillerRan
<1>6. p.timers = [n \in HrcTimer |->
                    HeldFor(m.timers[n], HrcActive(m, u)[n], HrcThreshold[n], t)]
  BY <1>s DEF ChillerScanned
<1>7. /\ q.previousAllEnable = (\A n \in Enabling : q.timers[n].passed)
      /\ p.all_enable = (\A n \in Enabling : p.timers[n].passed)
  BY <1>p, <1>s DEF ChillerRan, ChillerScanned
<1>8. q.previousDisable =
        (\/ ~u.cooling_plant \/ ~u.heating_plant
         \/ (k.previousHrcStatus /\ ~u.status) /\ (q.low[1] \/ q.low[2])
         \/ k.enableOutput /\ ~u.cooling_mode /\ Passed(q.timers, {"chilled_1", "chilled_2"})
         \/ k.enableOutput /\ u.cooling_mode /\ Passed(q.timers, {"heating_1", "heating_2"}))
  BY <1>p DEF ChillerRan
<1>9. p.disable =
        (\/ ~u.cooling_plant \/ ~u.heating_plant
         \/ m.status /\ ~u.status /\ (p.low_cooling \/ p.low_heating)
         \/ m.enable /\ (IF u.cooling_mode
                         THEN p.timers["heating_1"].passed \/ p.timers["heating_2"].passed
                         ELSE p.timers["chilled_1"].passed \/ p.timers["chilled_2"].passed))
  BY <1>s DEF ChillerScanned
<1>10. q.latchOutput = IF Decides(k, q.previousDisable, q.previousAllEnable)
                       THEN ~q.previousDisable /\ q.previousAllEnable ELSE k.latchOutput
  BY <1>p DEF ChillerRan
<1>11. p.latch = IF m.first \/ (p.disable /\ ~m.disable) \/ (p.all_enable /\ ~m.all_enable)
                 THEN ~p.disable /\ p.all_enable ELSE m.latch
  BY <1>s DEF ChillerScanned
<1>12. /\ q.enableOutput = IF k.firstStep THEN q.latchOutput
               ELSE q.latchOutput /\ k.latchOutput
                    /\ (k.enableOutput \/ (k.delayStarted # Never
                          /\ t - k.delayStarted >= Plant.enable_delay))
       /\ q.delayStarted = IF ~q.latchOutput THEN Never
                           ELSE IF k.firstStep \/ ~k.latchOutput THEN t ELSE k.delayStarted
       /\ r.out = [enable |-> q.enableOutput, set_mode |-> q.latchOutput /\ ~k.latchOutput]
  BY <1>p DEF ChillerRan
<1>13. /\ p.delay_started = IF ~p.latch THEN Never ELSE IF ~m.latch THEN t ELSE m.delay_started
       /\ p.enable = (p.latch /\ IF m.first THEN TRUE
                      ELSE m.latch /\ (m.enable \/ (p.delay_started # Never
                             /\ t - p.delay_started >= Plant.enable_delay)))
       /\ x.out = [enable |-> p.enable, set_mode |-> p.latch /\ ~m.latch]
  BY <1>s DEF ChillerScanned
<1> HIDE DEF q, p
<1>14. /\ q.high = <<p.high_cooling, p.high_heating>> /\ q.low = <<p.low_cooling, p.low_heating>>
       /\ q.low[1] = p.low_cooling /\ q.low[2] = p.low_heating
       /\ q.high[1] = HrcActive(m, u)["cooling_load"] /\ q.high[2] = HrcActive(m, u)["heating_load"]
  BY <1>1, <1>3, <1>4 DEF HrcActive
<1>15. q.timers = p.timers
  <2>1. [cooling_plant |-> u.cooling_plant, heating_plant |-> u.heating_plant,
         disabled |-> ~k.enableOutput,
         cooling_load |-> q.high[1], heating_load |-> q.high[2],
         chilled_1 |-> u.chilled < Plant.chilled_limit + 1,
         chilled_2 |-> u.chilled < Plant.chilled_limit,
         heating_1 |-> 2 * u.heating > 2 * Plant.heating_limit - 3,
         heating_2 |-> u.heating > Plant.heating_limit] = HrcActive(m, u)
    BY <1>1, <1>14, Zenon DEF HrcActive
  <2> QED BY <1>1, <1>5, <1>6, <2>1, Zenon
<1>16. q.previousAllEnable = p.all_enable /\ p.all_enable \in BOOLEAN
  BY <1>7, <1>15
<1>17. q.previousDisable = p.disable /\ p.disable \in BOOLEAN
  <2> DEFINE chilled == p.timers["chilled_1"].passed \/ p.timers["chilled_2"].passed
             heated == p.timers["heating_1"].passed \/ p.timers["heating_2"].passed
             low == p.low_cooling \/ p.low_heating
  <2>1. Passed(q.timers, {"chilled_1", "chilled_2"}) = chilled
    BY <1>15, Zenon DEF Passed
  <2>2. Passed(q.timers, {"heating_1", "heating_2"}) = heated
    BY <1>15, Zenon DEF Passed
  <2>3. chilled \in BOOLEAN /\ heated \in BOOLEAN /\ low \in BOOLEAN
    OBVIOUS
  <2>4. q.previousDisable =
        (\/ ~u.cooling_plant \/ ~u.heating_plant
         \/ (m.status /\ ~u.status) /\ low
         \/ m.enable /\ ~u.cooling_mode /\ chilled
         \/ m.enable /\ u.cooling_mode /\ heated)
    BY <1>1, <1>8, <1>14, <2>1, <2>2, Zenon
  <2>5. p.disable =
        (\/ ~u.cooling_plant \/ ~u.heating_plant
         \/ m.status /\ ~u.status /\ low
         \/ m.enable /\ (IF u.cooling_mode THEN heated ELSE chilled))
    BY <1>9
  <2> HIDE DEF chilled, heated, low
  <2> QED BY <1>2, <2>3, <2>4, <2>5
<1>18. q.latchOutput = p.latch /\ p.latch \in BOOLEAN
  <2>1. Decides(k, p.disable, p.all_enable)
          = (m.first \/ (p.disable /\ ~m.disable) \/ (p.all_enable /\ ~m.all_enable))
    BY <1>1 DEF Decides
  <2> QED BY <1>2, <1>1, <1>10, <1>11, <1>16, <1>17, <2>1
<1>19. q.delayStarted = p.delay_started
  BY <1>1, <1>2, <1>12, <1>13, <1>18
<1>20. q.enableOutput = p.enable /\ p.enable \in BOOLEAN
  <2> DEFINE long(since) == since # Never /\ t - since >= Plant.enable_delay
             ran == long(m.delay_started)
             waited == long(p.delay_started)
  <2>1. p.latch /\ m.latch => p.delay_started = m.delay_started
    BY <1>13
  <2>2. p.latch /\ m.latch => waited = ran
    BY <2>1
  <2>3. q.enableOutput = IF m.first THEN p.latch ELSE p.latch /\ m.latch /\ (m.enable \/ ran)
    BY <1>1, <1>12, <1>18
  <2>4. p.enable = (p.latch /\ IF m.first THEN TRUE ELSE m.latch /\ (m.enable \/ waited))
    BY <1>13
  <2>5. waited \in BOOLEAN /\ ran \in BOOLEAN
    OBVIOUS
  <2> HIDE DEF ran, waited
  <2> QED BY <1>2, <1>18, <2>2, <2>3, <2>4, <2>5
<1>21. r.out = x.out
  BY <1>1, <1>12, <1>13, <1>18, <1>20
<1>22. ChillerAlike(q, p)
  BY <1>3, <1>4, <1>14, <1>15, <1>16, <1>17, <1>18, <1>19, <1>20 DEF ChillerAlike
<1> QED BY <1>21, <1>22 DEF r, x, q, p

(* A mode, and stage completion: the same fields under other names.        *)
LEMMA ModeTwin ==
    ASSUME NEW k, NEW m, NEW t, NEW d,
           NEW u \in [set_mode : BOOLEAN, cooling_load : Int, heating_load : Int],
           ModeAlike(k, m)
    PROVE  LET r == HrcModeStep(k, t, u)
               x == HrcModeScan(m, t, d, u)
           IN  r.out = x.out /\ ModeAlike(r.mem, x.mem)
<1> DEFINE r == HrcModeStep(k, t, u)
           x == HrcModeScan(m, t, d, u)
           needed == u.heating_load - u.heating_load \div Plant.heating_cop
           c == m.comparison
           below == u.cooling_load < needed
           near == u.cooling_load < needed + 1
           comparison == (~c /\ below) \/ (c /\ near)
           compares == u.cooling_load < (IF c THEN needed + 1 ELSE needed)
           mode == (u.set_mode /\ comparison) \/ (~u.set_mode /\ m.cooling_mode)
           cooling == IF u.set_mode THEN compares ELSE m.cooling_mode
<1>1. /\ r.out = <<mode, IF mode THEN "chilled" ELSE "heating">>
      /\ r.mem.comparison = comparison /\ r.mem.coolingMode = mode
  BY DEF HrcModeStep, Ran, ModeAlike
<1>2. /\ x.out = <<cooling, IF cooling THEN "chilled" ELSE "heating">>
      /\ x.mem.comparison = compares /\ x.mem.cooling_mode = cooling
  BY DEF HrcModeScan, Shown
<1> HIDE DEF r, x
<1>3. c \in BOOLEAN /\ u.set_mode \in BOOLEAN /\ m.cooling_mode \in BOOLEAN
  BY DEF ModeAlike
<1> HIDE DEF needed
<1>4. compares = (IF c THEN near ELSE below) /\ below \in BOOLEAN /\ near \in BOOLEAN
  BY <1>3
<1> HIDE DEF c, below, near, compares
<1>5. comparison = compares /\ compares \in BOOLEAN
  BY <1>3, <1>4
<1> HIDE DEF comparison
<1>6. mode = cooling /\ cooling \in BOOLEAN
  BY <1>3, <1>5
<1> HIDE DEF mode, cooling
<1>7. r.out = x.out /\ ModeAlike(r.mem, x.mem)
  BY <1>1, <1>2, <1>5, <1>6 DEF ModeAlike
<1> QED BY <1>7 DEF r, x

LEMMA CompletionTwin ==
    ASSUME NEW k, NEW m, NEW t, NEW d, NEW u, CompletionAlike(k, m)
    PROVE  LET r == CompletionStep(k, t, u)
               x == CompletionScan(m, t, d, u)
           IN  r.out = x.out /\ CompletionAlike(r.mem, x.mem)
<1> DEFINE r == CompletionStep(k, t, u)
           x == CompletionScan(m, t, d, u)
           changes == u.stage # m.stage
           agree == u.commands = u.statuses
           change_latch == ~changes /\ (m.change_latch \/ (m.any_change /\ ~m.pre_any_change))
           stage_latch == ((changes /\ ~m.stage_change) \/ m.stage_latch) /\ ~(change_latch /\ agree)
           latches == ~changes /\ ((m.any_change /\ ~m.pre_any_change) \/ m.change_latch)
           stages == ~(latches /\ agree) /\ ((changes /\ ~m.stage_change) \/ m.stage_latch)
<1>1. /\ k.commandMask = m.commands /\ k.stage = m.stage /\ k.anyChange = m.any_change
      /\ k.preAnyChange = m.pre_any_change /\ k.stageChange = m.stage_change
      /\ k.changeLatch = m.change_latch /\ k.stageLatch = m.stage_latch
  BY DEF CompletionAlike
<1>2. /\ m.any_change \in BOOLEAN /\ m.pre_any_change \in BOOLEAN /\ m.stage_change \in BOOLEAN
      /\ m.change_latch \in BOOLEAN /\ m.stage_latch \in BOOLEAN
  BY DEF CompletionAlike
<1>3. /\ r.out = [in_progress |-> stage_latch, completed |-> m.stage_latch /\ ~stage_latch]
      /\ r.mem.commandMask = u.commands /\ r.mem.anyChange = (u.commands # m.commands)
      /\ r.mem.preAnyChange = m.any_change /\ r.mem.stage = u.stage
      /\ r.mem.stageChange = changes /\ r.mem.changeLatch = change_latch
      /\ r.mem.stageLatch = stage_latch
  BY <1>1 DEF CompletionStep, Ran
<1>4. /\ x.out = [in_progress |-> stages, completed |-> m.stage_latch /\ ~stages]
      /\ x.mem.commands = u.commands /\ x.mem.any_change = (u.commands # m.commands)
      /\ x.mem.pre_any_change = m.any_change /\ x.mem.stage = u.stage
      /\ x.mem.stage_change = changes /\ x.mem.change_latch = latches
      /\ x.mem.stage_latch = stages
  BY DEF CompletionScan, Shown
<1> HIDE DEF r, x
<1>5. changes \in BOOLEAN /\ agree \in BOOLEAN /\ (u.commands # m.commands) \in BOOLEAN
  OBVIOUS
<1> HIDE DEF changes, agree
<1>6. change_latch = latches /\ latches \in BOOLEAN
  BY <1>2, <1>5
<1> HIDE DEF change_latch, latches
<1>7. stage_latch = stages /\ stages \in BOOLEAN
  BY <1>2, <1>5, <1>6
<1> HIDE DEF stage_latch, stages
<1>8. r.out = x.out /\ CompletionAlike(r.mem, x.mem)
  BY <1>2, <1>3, <1>4, <1>5, <1>6, <1>7 DEF CompletionAlike
<1> QED BY <1>8 DEF r, x

(* A set of natural numbers that is not empty has a least member, and a    *)
(* greatest one when it is bounded.                                        *)
LEMMA Least ==
    ASSUME NEW T \in SUBSET Nat, NEW n \in T
    PROVE  \E m \in T : \A k \in T : m <= k
<1> DEFINE R == StrictSubsetOrdering(Nat)
           W == {0 .. k : k \in T}
<1>1. IsWellFoundedOn(R, FiniteSubsetsOf(Nat))
  BY FS_StrictSubsetOrderingWellFounded
<1>2. W \subseteq FiniteSubsetsOf(Nat) /\ W # {}
  <2>1. \A k \in T : IsFiniteSet(0 .. k) /\ 0 .. k \subseteq Nat
    BY FS_Interval
  <2> QED BY <2>1 DEF FiniteSubsetsOf
<1> HIDE DEF W, R
<1>3. PICK x \in W : \A y \in W : ~(<<y, x>> \in R)
  BY <1>1, <1>2, WFMin
<1>4. PICK m \in T : x = 0 .. m
  BY <1>3 DEF W
<1>5. \A k \in T : m <= k
  <2> SUFFICES ASSUME NEW k \in T, k < m PROVE FALSE
    OBVIOUS
  <2>1. 0 .. k \in W
    BY DEF W
  <2>2. 0 .. k \subseteq 0 .. m /\ 0 .. k # 0 .. m
    BY m \in 0 .. m, m \notin 0 .. k
  <2>3. <<0 .. k, 0 .. m>> \in R
    BY <2>2 DEF R, StrictSubsetOrdering
  <2> QED BY <1>3, <1>4, <2>1, <2>3
<1> QED BY <1>5

LEMMA LeastStage ==
    ASSUME NEW T \in SUBSET Nat, T # {}
    PROVE  LeastIn(T) \in T
BY Least DEF LeastIn

LEMMA GreatestStage ==
    ASSUME NEW T \in SUBSET Nat, NEW bound \in Nat, \A x \in T : x < bound, T # {}
    PROVE  GreatestIn(T) \in T
<1> DEFINE W == {bound - x : x \in T}
<1>0. \A x \in T : x \in Nat /\ x < bound /\ bound - x \in Nat /\ bound - x \in W
  OBVIOUS
<1>1. W \in SUBSET Nat /\ W # {}
  BY <1>0
<1>2. PICK w \in W : \A v \in W : w <= v
  BY <1>1, Least
<1>3. PICK x \in T : w = bound - x
  BY <1>2
<1>4. \A y \in T : x >= y
  <2> HIDE DEF W
  <2>1. \A y \in T : bound - x <= bound - y
    BY <1>0, <1>2, <1>3
  <2> QED BY <1>0, <2>1
<1> QED BY <1>4 DEF GreatestIn

(* A stage: the elapsed time of the one is the age of the other.           *)
LEMMA StageTwin ==
    ASSUME NEW k, NEW m, NEW s \in Instants, NEW t, t = s + 1,
           NEW u, u.available \in SUBSET (Nat \ {0}),
           u.lead \in BOOLEAN, u.up \in BOOLEAN, u.down \in BOOLEAN, StageAlike(k, m, s)
    PROVE  LET r == StageStep(k, t, u)
               x == StageScan(m, t, Lapse(s), u)
           IN  r.out = x.out /\ StageAlike(r.mem, x.mem, t)
<1> DEFINE r == StageStep(k, t, u)
           x == StageScan(m, t, Lapse(s), u)
           higher == {i \in u.available : i > m.stage}
           lower == {i \in u.available : i < m.stage}
           ready == t - k.enteredAt >= Plant.minimum_runtime
           moves == CASE m.stage = 0 -> u.lead
                      [] m.stage # 0 -> m.stage \notin u.available \/ (ready /\ u.lead /\ u.up)
           next == IF higher # {} /\ moves THEN LeastIn(higher)
                   ELSE IF m.stage = 0 \/ ~ready THEN m.stage
                   ELSE IF ~u.lead THEN 0
                   ELSE IF u.down /\ lower # {} THEN GreatestIn(lower)
                   ELSE m.stage
           elapsed == IF m.stage > 0 THEN m.elapsed + Lapse(s) ELSE m.elapsed
           met == elapsed >= Plant.minimum_runtime
           stage == CASE m.stage = 0 -> IF u.lead /\ u.available # {} THEN LeastIn(u.available) ELSE 0
                   [] m.stage # 0 /\ m.stage \notin u.available /\ higher # {} -> LeastIn(higher)
                   [] m.stage # 0 /\ (m.stage \in u.available \/ higher = {}) ->
                        IF ~met THEN m.stage
                        ELSE IF ~u.lead THEN 0
                        ELSE IF u.up /\ higher # {} THEN LeastIn(higher)
                        ELSE IF u.down /\ lower # {} THEN GreatestIn(lower)
                        ELSE m.stage
<1>1. /\ k.stage = m.stage /\ m.stage \in Nat /\ m.elapsed \in Int /\ k.enteredAt \in Int
      /\ t \in Nat /\ t # Never
      /\ m.stage # 0 => s \in Nat /\ s # Never /\ m.elapsed = s - k.enteredAt
  BY DEF StageAlike, Instants, Never
<1>2. /\ r.out = next /\ r.mem.stage = next
      /\ r.mem.enteredAt = IF next # m.stage THEN t ELSE k.enteredAt
  BY <1>1 DEF StageStep, Ran
<1>3. /\ x.out = stage /\ x.mem.stage = stage
      /\ x.mem.elapsed = IF stage # m.stage THEN 0 ELSE elapsed
  BY DEF StageScan, Shown
<1> HIDE DEF r, x
<1>4. elapsed \in Int /\ (m.stage # 0 => elapsed = t - k.enteredAt)
  BY <1>1 DEF Lapse
<1>5. m.stage # 0 => (met <=> ready)
  BY <1>4
<1>6. higher # {} => LeastIn(higher) \in Nat
  BY LeastStage
<1>7. lower # {} => GreatestIn(lower) \in Nat
  BY <1>1, GreatestStage
<1>8. CASE m.stage = 0
  <2>1. higher = u.available
    BY <1>8
  <2>2. next = IF u.available # {} /\ u.lead THEN LeastIn(higher) ELSE 0
    BY <2>1, <1>8
  <2>3. stage = IF u.available # {} /\ u.lead THEN LeastIn(higher) ELSE 0
    BY <2>1, <1>8
  <2>4. next = stage /\ stage \in Nat
    BY <1>6, <2>1, <2>2, <2>3
  <2>5. next = m.stage => next = 0
    BY <1>8
  <2> HIDE DEF next, stage, elapsed
  <2>6. /\ x.mem.elapsed \in Int /\ r.mem.enteredAt \in Int
        /\ stage # 0 => x.mem.elapsed = t - r.mem.enteredAt
    BY <1>1, <1>2, <1>3, <1>4, <1>8, <2>4
  <2> QED BY <1>1, <1>2, <1>3, <2>4, <2>6 DEF StageAlike, r, x
<1>9. CASE m.stage # 0
  <2> HIDE DEF higher, lower, met, ready, elapsed
  <2>1. next = stage /\ stage \in Nat
    <3>1. CASE m.stage \notin u.available /\ higher # {}
      BY <1>6, <1>9, <3>1
    <3>2. CASE m.stage \notin u.available /\ higher = {}
      BY <1>1, <1>5, <1>7, <1>9, <3>2
    <3>3. CASE m.stage \in u.available
      BY <1>1, <1>5, <1>6, <1>7, <1>9, <3>3
    <3> QED BY <3>1, <3>2, <3>3
  <2> HIDE DEF next, stage
  <2>2. /\ x.mem.elapsed \in Int /\ r.mem.enteredAt \in Int
        /\ stage # 0 => x.mem.elapsed = t - r.mem.enteredAt
    BY <1>1, <1>2, <1>3, <1>4, <1>9, <2>1
  <2> QED BY <1>1, <1>2, <1>3, <2>1, <2>2 DEF StageAlike, r, x
<1> QED BY <1>8, <1>9

-----------------------------------------------------------------------------
(* One instant in the two engines: what a component shows after its tick,  *)
(* or after the second of its two executions, and what a scan shows.       *)
LEMMA Twins ==
    ASSUME NEW b \in Kind, NEW k, NEW m, NEW s \in Instants, NEW t, t = s + 1,
           NEW u \in Input(b), NEW w \in Unsettled(b, t, u), Alike(b, k, m, s),
           b = "moving_average" => Averaged
    PROVE  /\ Instant(b, k, t, w, u).out = BlockScan(b, m, t, Lapse(s), u).out
           /\ Alike(b, Instant(b, k, t, w, u).mem, BlockScan(b, m, t, Lapse(s), u).mem, t)
<1> DEFINE r == Instant(b, k, t, w, u)
           x == BlockScan(b, m, t, Lapse(s), u)
           Twin == r.out = x.out /\ Alike(b, r.mem, x.mem, t)
<1>0. u \in Ports(b)
  BY InputAssumption
<1>1. ASSUME b = "true_delay" PROVE Twin
  <2>1. r = TrueDelayStep(k, t, u)
    BY <1>1 DEF Instant, KernelStep, Resampled
  <2>2. x = BooleanDelayScan(m, t, Lapse(s), u)
    BY <1>1 DEF BlockScan
  <2>3. DelayAlike(k, m, s)
    BY <1>1 DEF Alike
  <2>4. u \in [in : BOOLEAN]
    BY <1>1, <1>0 DEF Ports
  <2> HIDE DEF r, x
  <2>5. r.out = x.out /\ DelayAlike(r.mem, x.mem, t)
    BY <2>1, <2>2, <2>3, <2>4, DelayTwin
  <2> QED BY <1>1, <2>5 DEF Alike
<1>2. ASSUME b = "timer" PROVE Twin
  <2>1. r = TimerStep(k, t, u)
    BY <1>2 DEF Instant, KernelStep, Resampled
  <2>2. x = TimerScan(m, t, Lapse(s), u)
    BY <1>2 DEF BlockScan
  <2>3. TimerAlike(k, m)
    BY <1>2 DEF Alike
  <2>4. u \in [in : BOOLEAN]
    BY <1>2, <1>0 DEF Ports
  <2> HIDE DEF r, x
  <2>5. r.out = x.out /\ TimerAlike(r.mem, x.mem)
    BY <2>1, <2>2, <2>3, <2>4, TimerTwin
  <2> QED BY <1>2, <2>5 DEF Alike
<1>3. ASSUME b = "timer_with_reset" PROVE Twin
  <2>1. r = TimerWithResetStep(k, t, u)
    BY <1>3 DEF Instant, KernelStep, Resampled
  <2>2. x = TimerWithResetScan(m, t, Lapse(s), u)
    BY <1>3 DEF BlockScan
  <2>3. ResetTimerAlike(k, m)
    BY <1>3 DEF Alike
  <2>4. u \in [in : BOOLEAN, reset : BOOLEAN]
    BY <1>3, <1>0 DEF Ports
  <2> HIDE DEF r, x
  <2>5. r.out = x.out /\ ResetTimerAlike(r.mem, x.mem)
    BY <2>1, <2>2, <2>3, <2>4, ResetTimerTwin
  <2> QED BY <1>3, <2>5 DEF Alike
<1>4. ASSUME b = "timer_accumulating" PROVE Twin
  <2>1. r = TimerAccumulatingStep(k, t, u)
    BY <1>4 DEF Instant, KernelStep, Resampled
  <2>2. x = TimerAccumulatingScan(m, t, Lapse(s), u)
    BY <1>4 DEF BlockScan
  <2>3. AccumulatingAlike(k, m, s)
    BY <1>4 DEF Alike
  <2>4. u \in [in : BOOLEAN, reset : BOOLEAN]
    BY <1>4, <1>0 DEF Ports
  <2> HIDE DEF r, x
  <2>5. r.out = x.out /\ AccumulatingAlike(r.mem, x.mem, t)
    BY <2>1, <2>2, <2>3, <2>4, AccumulatingTwin
  <2> QED BY <1>4, <2>5 DEF Alike
<1>5. ASSUME b = "true_false_hold" PROVE Twin
  <2>1. r = TrueFalseHoldStep(k, t, u)
    BY <1>5 DEF Instant, KernelStep, Resampled
  <2>2. x = TrueFalseHoldScan(m, t, Lapse(s), u)
    BY <1>5 DEF BlockScan
  <2>3. HoldAlike(k, m, s)
    BY <1>5 DEF Alike
  <2>4. u \in [in : BOOLEAN]
    BY <1>5, <1>0 DEF Ports
  <2> HIDE DEF r, x
  <2>5. r.out = x.out /\ HoldAlike(r.mem, x.mem, t)
    BY <2>1, <2>2, <2>3, <2>4, HoldTwin
  <2> QED BY <1>5, <2>5 DEF Alike
<1>6. ASSUME b = "initialization" PROVE Twin
  <2>1. r = InitializationStep(k, t, u)
    BY <1>6 DEF Instant, KernelStep, Resampled
  <2>2. x = InitializationScan(m, t, Lapse(s), u)
    BY <1>6 DEF BlockScan
  <2>3. k.first = ~m.initialized /\ m.initialized \in BOOLEAN
    BY <1>6 DEF Alike
  <2> HIDE DEF r, x
  <2>4. LET q == InitializationStep(k, t, u)
            y == InitializationScan(m, t, Lapse(s), u)
        IN  q.out = y.out /\ q.mem.first = ~y.mem.initialized /\ y.mem.initialized = TRUE
    BY <2>3 DEF InitializationStep, InitializationScan, Ran, Shown
  <2>5. r.out = x.out /\ r.mem.first = ~x.mem.initialized /\ x.mem.initialized = TRUE
    BY <2>1, <2>2, <2>4, Zenon
  <2>6. t # Never
    BY DEF Instants, Never
  <2> QED BY <1>6, <2>5, <2>6 DEF Alike
<1>7. ASSUME b = "set_reset" PROVE Twin
  <2>1. r = SetResetStep(k, t, u)
    BY <1>7 DEF Instant, KernelStep, Resampled
  <2>2. x = SetResetScan(m, t, Lapse(s), u)
    BY <1>7 DEF BlockScan
  <2>3. LatchAlike(k, m)
    BY <1>7 DEF Alike
  <2>4. u \in [set : BOOLEAN, clear : BOOLEAN]
    BY <1>7, <1>0 DEF Ports
  <2> HIDE DEF r, x
  <2>5. r.out = x.out /\ LatchAlike(r.mem, x.mem)
    BY <2>1, <2>2, <2>3, <2>4, LatchTwin
  <2> QED BY <1>7, <2>5 DEF Alike
<1>8. ASSUME b = "hysteresis" PROVE Twin
  <2>1. r = HysteresisStep(k, t, u)
    BY <1>8 DEF Instant, KernelStep, Resampled
  <2>2. x = HysteresisScan(m, t, Lapse(s), u)
    BY <1>8 DEF BlockScan
  <2>3. k.output = m.out /\ m.out \in BOOLEAN
    BY <1>8 DEF Alike
  <2>4. u \in [in : Int]
    BY <1>8, <1>0 DEF Ports
  <2> HIDE DEF r, x
  <2>5. r.out = x.out /\ r.mem.output = x.mem.out /\ x.mem.out \in BOOLEAN
    BY <2>1, <2>2, <2>3, <2>4, HysteresisTwin
  <2> QED BY <1>8, <2>5 DEF Alike
<1>9. ASSUME b = "sample_trigger" PROVE Twin
  <2>1. r = SampleTriggerStep(k, t, u)
    BY <1>9 DEF Instant, KernelStep, Resampled
  <2>2. x = BooleanTriggerScan(m, t, Lapse(s), u)
    BY <1>9 DEF BlockScan
  <2>3. TriggerAlike(k, m, s) /\ t \in Nat
    BY <1>9 DEF Alike, Instants, Never
  <2> HIDE DEF r, x
  <2>5. r.out = x.out /\ TriggerAlike(r.mem, x.mem, t)
    BY <2>1, <2>2, <2>3, TriggerTwin
  <2> QED BY <1>9, <2>5 DEF Alike
<1>10. ASSUME b = "sampler" PROVE Twin
  <2>1. r = SamplerStep(SamplerStep(k, t, w).mem, t, u)
    BY <1>10 DEF Instant, KernelStep, Resampled
  <2>2. x = NumericSamplerScan(m, t, Lapse(s), u)
    BY <1>10 DEF BlockScan
  <2>3. SamplerAlike(k, m, s)
    BY <1>10 DEF Alike
  <2> HIDE DEF r, x
  <2>5. r.out = x.out /\ SamplerAlike(r.mem, x.mem, t)
    BY <2>1, <2>2, <2>3, SamplerTwin
  <2> QED BY <1>10, <2>5 DEF Alike
<1>11. ASSUME b = "unit_delay" PROVE Twin
  <2>1. r = UnitDelayStep(UnitDelayStep(k, t, w).mem, t, u)
    BY <1>11 DEF Instant, KernelStep, Resampled
  <2>2. x = NumericUnitDelayScan(m, t, Lapse(s), u)
    BY <1>11 DEF BlockScan
  <2>3. DelayedAlike(k, m, s)
    BY <1>11 DEF Alike
  <2> HIDE DEF r, x
  <2>4. t # Never
    BY DEF Instants, Never
  <2>5. r.out = x.out /\ DelayedAlike(r.mem, x.mem, t)
    BY <2>1, <2>2, <2>3, <2>4, UnitDelayTwin DEF DelayedAlike
  <2> QED BY <1>11, <2>5 DEF Alike
<1>12. ASSUME b = "first_order_hold" PROVE Twin
  <2>1. r = FirstOrderHoldStep(FirstOrderHoldStep(k, t, w).mem, t, u)
    BY <1>12 DEF Instant, KernelStep, Resampled
  <2>2. x = HoldScan(m, t, Lapse(s), u)
    BY <1>12 DEF BlockScan
  <2>3. FirstOrderAlike(k, m, s)
    BY <1>12 DEF Alike
  <2>4. u \in [in : Int] /\ w \in [in : Int] /\ (s = Never => w = u)
    <3>1. \A v \in Input(b) : v \in [in : Int]
      BY <1>12, InputAssumption DEF Ports
    <3>2. CASE t = 0
      BY <1>12, <3>1, <3>2 DEF Unsettled
    <3>3. CASE t # 0
      <4>1. s # Never
        BY <3>3 DEF Never
      <4>2. Unsettled(b, t, u) = Input(b)
        BY <1>12, <3>3 DEF Unsettled
      <4> QED BY <3>1, <4>1, <4>2
    <3> QED BY <3>2, <3>3
  <2> HIDE DEF r, x
  <2>5. r.out = x.out /\ FirstOrderAlike(r.mem, x.mem, t)
    BY <2>1, <2>2, <2>3, <2>4, FirstOrderTwin
  <2> QED BY <1>12, <2>5 DEF Alike
<1>13. ASSUME b = "integrator" PROVE Twin
  <2>1. r = IntegratorStep(IntegratorStep(k, t, w).mem, t, u)
    BY <1>13 DEF Instant, KernelStep, Resampled
  <2>2. x = IntegratorScan(m, t, Lapse(s), u)
    BY <1>13 DEF BlockScan
  <2>3. IntegratorAlike(k, m, s)
    BY <1>13 DEF Alike
  <2>4. u \in [in : Int, reset_value : Int, trigger : BOOLEAN]
    BY <1>13, <1>0 DEF Ports
  <2> HIDE DEF r, x
  <2>5. r.out = x.out /\ IntegratorAlike(r.mem, x.mem, t)
    BY <2>1, <2>2, <2>3, <2>4, IntegratorTwin
  <2> QED BY <1>13, <2>5 DEF Alike
<1>14. ASSUME b = "on_counter" PROVE Twin
  <2>1. r = OnCounterStep(OnCounterStep(k, t, w).mem, t, u)
    BY <1>14 DEF Instant, KernelStep, Resampled
  <2>2. x = CounterScan(m, t, Lapse(s), u)
    BY <1>14 DEF BlockScan
  <2>3. k.now = m /\ k.instant = s
    BY <1>14 DEF Alike
  <2> HIDE DEF r, x
  <2>5. r.out = x.out /\ r.mem.now = x.mem /\ r.mem.instant = t
    BY <2>1, <2>2, <2>3, CounterTwin
  <2> QED BY <1>14, <2>5 DEF Alike
<1>15. ASSUME b = "pid" PROVE Twin
  <2>1. r = PidStep(k, t, u)
    BY <1>15 DEF Instant, KernelStep, Resampled
  <2>2. x = PidScan(m, t, Lapse(s), u)
    BY <1>15 DEF BlockScan
  <2>3. PidAlike(k, m, s)
    BY <1>15 DEF Alike
  <2>4. u \in [setpoint : Int, measurement : Int, trigger : BOOLEAN]
    BY <1>15, <1>0 DEF Ports
  <2> HIDE DEF r, x
  <2>5. r.out = x.out /\ PidAlike(r.mem, x.mem, t)
    BY <2>1, <2>2, <2>3, <2>4, PidTwin
  <2> QED BY <1>15, <2>5 DEF Alike
<1>16. ASSUME b = "moving_average" PROVE Twin
  <2>1. r = MovingAverageStep(k, t, u)
    BY <1>16 DEF Instant, KernelStep, Resampled
  <2>2. x = MeanScan(m, t, Lapse(s), u)
    BY <1>16 DEF BlockScan
  <2>3. MeanAlike(k, m, s)
    BY <1>16 DEF Alike
  <2>4. u.in \in Int /\ MaxPoints \in Int /\ Window < MaxPoints
    BY <1>16, <1>0 DEF Ports, Averaged
  <2> HIDE DEF r, x
  <2>5. r.out = x.out /\ MeanAlike(r.mem, x.mem, t)
    BY <2>1, <2>2, <2>3, <2>4, MeanTwin
  <2> QED BY <1>16, <2>5 DEF Alike
<1>17. ASSUME b = "trim_and_respond" PROVE Twin
  <2>1. r = TrimAndRespondStep(TrimAndRespondStep(k, t, w).mem, t, u)
    BY <1>17 DEF Instant, KernelStep, Resampled
  <2>2. x = TrimScan(m, t, Lapse(s), u)
    BY <1>17 DEF BlockScan
  <2>3. TrimAlike(k, m, s)
    BY <1>17 DEF Alike
  <2>4. /\ u.device_on \in BOOLEAN /\ u.hold \in BOOLEAN
        /\ w.device_on = u.device_on /\ w.hold = u.hold
    BY <1>17, <1>0, InputAssumption DEF Ports, Unsettled, Resampled
  <2> HIDE DEF r, x
  <2>5. r.out = x.out /\ TrimAlike(r.mem, x.mem, t)
    BY <2>1, <2>2, <2>3, <2>4, TrimTwin
  <2> QED BY <1>17, <2>5 DEF Alike
<1>18. ASSUME b = "plant_enable" PROVE Twin
  <2>1. r = PlantEnableStep(k, t, u)
    BY <1>18 DEF Instant, KernelStep, Resampled
  <2>2. x = PlantEnableScan(m, t, Lapse(s), u)
    BY <1>18 DEF BlockScan
  <2>3. PlantAlike(k, m)
    BY <1>18 DEF Alike
  <2>4. u \in [schedule : BOOLEAN, requests : Int, outdoor : Int]
    BY <1>18, <1>0 DEF Ports
  <2> HIDE DEF r, x
  <2>5. r.out = x.out /\ PlantAlike(r.mem, x.mem)
    BY <2>1, <2>2, <2>3, <2>4, PlantTwin
  <2> QED BY <1>18, <2>5 DEF Alike
<1>19. ASSUME b = "hrc_enable" PROVE Twin
  <2>1. r = HrcEnableStep(k, t, u)
    BY <1>19 DEF Instant, KernelStep, Resampled
  <2>2. x = HrcScan(m, t, Lapse(s), u)
    BY <1>19 DEF BlockScan
  <2>3. ChillerAlike(k, m)
    BY <1>19 DEF Alike
  <2>4. /\ u.cooling_plant \in BOOLEAN /\ u.heating_plant \in BOOLEAN
        /\ u.status \in BOOLEAN /\ u.cooling_mode \in BOOLEAN
    BY <1>19, <1>0 DEF Ports
  <2> HIDE DEF r, x
  <2>5. r.out = x.out /\ ChillerAlike(r.mem, x.mem)
    BY <2>1, <2>2, <2>3, <2>4, ChillerTwin
  <2> QED BY <1>19, <2>5 DEF Alike
<1>20. ASSUME b = "hrc_mode" PROVE Twin
  <2>1. r = HrcModeStep(k, t, u)
    BY <1>20 DEF Instant, KernelStep, Resampled
  <2>2. x = HrcModeScan(m, t, Lapse(s), u)
    BY <1>20 DEF BlockScan
  <2>3. ModeAlike(k, m)
    BY <1>20 DEF Alike
  <2>4. u \in [set_mode : BOOLEAN, cooling_load : Int, heating_load : Int]
    BY <1>20, <1>0 DEF Ports
  <2> HIDE DEF r, x
  <2>5. r.out = x.out /\ ModeAlike(r.mem, x.mem)
    BY <2>1, <2>2, <2>3, <2>4, ModeTwin
  <2> QED BY <1>20, <2>5 DEF Alike
<1>21. ASSUME b = "stage_completion" PROVE Twin
  <2>1. r = CompletionStep(k, t, u)
    BY <1>21 DEF Instant, KernelStep, Resampled
  <2>2. x = CompletionScan(m, t, Lapse(s), u)
    BY <1>21 DEF BlockScan
  <2>3. CompletionAlike(k, m)
    BY <1>21 DEF Alike
  <2> HIDE DEF r, x
  <2>5. r.out = x.out /\ CompletionAlike(r.mem, x.mem)
    BY <2>1, <2>2, <2>3, CompletionTwin
  <2> QED BY <1>21, <2>5 DEF Alike
<1>22. ASSUME b = "stage_index" PROVE Twin
  <2>1. r = StageStep(k, t, u)
    BY <1>22 DEF Instant, KernelStep, Resampled
  <2>2. x = StageScan(m, t, Lapse(s), u)
    BY <1>22 DEF BlockScan
  <2>3. StageAlike(k, m, s)
    BY <1>22 DEF Alike
  <2>4. /\ u.lead \in BOOLEAN /\ u.up \in BOOLEAN /\ u.down \in BOOLEAN
        /\ u.available \in SUBSET (Nat \ {0})
    BY <1>22, <1>0 DEF Ports
  <2> HIDE DEF r, x
  <2>5. r.out = x.out /\ StageAlike(r.mem, x.mem, t)
    BY <2>1, <2>2, <2>3, <2>4, StageTwin
  <2> QED BY <1>22, <2>5 DEF Alike
<1>23. ASSUME b \in {"pre", "one_shot", "falling_edge", "changed", "increased", "decreased",
                     "equipment"}
      PROVE  Twin
  <2>1. k = m
    BY <1>23 DEF Alike
  <2>2. r = KernelStep(b, k, t, u)
    BY <1>23 DEF Instant, Resampled
  <2>3. KernelStep(b, m, t, u) = x
    BY <1>23, PreviousTwin DEF KernelStep, BlockScan
  <2> HIDE DEF r, x
  <2> QED BY <1>23, <2>1, <2>2, <2>3 DEF Alike
<1>24. Twin
  <2> HIDE DEF Twin
  <2> QED BY KindAssumption, <1>1, <1>2, <1>3, <1>4, <1>5, <1>6, <1>7, <1>8, <1>9, <1>10,
            <1>11, <1>12, <1>13, <1>14, <1>15, <1>16, <1>17, <1>18, <1>19, <1>20, <1>21, <1>22,
            <1>23 DEF Program
<1> QED BY <1>24

-----------------------------------------------------------------------------
(* Agree: every scan of a block that is fed by blocks is one instant of    *)
(* each engine, and the first is the start; when a phase begins only the   *)
(* interpreter evaluates, which leaves a block that goes by a clock as it  *)
(* is.                                                                     *)
Fed ==
    /\ input \in Input(kind)
    /\ Compared => ticks = 1
AgreeInv == Fed /\ Same /\ Agree
Averaging == kind = "moving_average" => Averaged

LEMMA BornAlike ==
    ASSUME NEW b \in Kind
    PROVE  Alike(b, KernelStart(b), BlockNew(b), Never)
<1> DEFINE k == KernelStart(b)
           m == BlockNew(b)
           Born == Alike(b, k, m, Never)
<1>1. ASSUME b = "true_delay" PROVE Born
  <2>1. k = TrueDelayStart /\ m = BooleanDelayNew
    BY <1>1 DEF KernelStart, BlockNew
  <2> HIDE DEF k, m
  <2>2. /\ m \in [out : BOOLEAN, pending : BOOLEAN, elapsed : Int, first : BOOLEAN]
        /\ m.first = TRUE /\ ~m.pending /\ m.pending = FALSE /\ ~m.out /\ m.out = FALSE
    BY <2>1 DEF BooleanDelayNew
  <2>3. /\ k.initialized = FALSE /\ k.at = Never /\ k.timer \in Int
        /\ k.held = FALSE /\ k.previous = FALSE
    BY <2>1 DEF TrueDelayStart
  <2>4. DelayAlike(k, m, Never)
    BY <2>2, <2>3, Zenon DEF DelayAlike
  <2> QED BY <1>1, <2>4 DEF Alike
<1>2. ASSUME b = "timer" PROVE Born
  <2>1. k = TimerStart /\ m = TimerNew
    BY <1>2 DEF KernelStart, BlockNew
  <2> HIDE DEF k, m
  <2>2. /\ k.initialized = FALSE /\ m.first = TRUE /\ k.previous = FALSE /\ m.previous = FALSE
        /\ k.passed = (Threshold <= 0) /\ m.passed = (Threshold <= 0)
    BY <2>1, Zenon DEF TimerStart, TimerNew
  <2>3. k.passed \in BOOLEAN
    BY <2>2
  <2>4. TimerAlike(k, m)
    BY <2>2, <2>3, Zenon DEF TimerAlike
  <2> QED BY <1>2, <2>4 DEF Alike
<1>3. ASSUME b = "timer_with_reset" PROVE Born
  <2>1. k = TimerWithResetStart /\ m = TimerWithResetNew
    BY <1>3 DEF KernelStart, BlockNew
  <2> HIDE DEF k, m
  <2>2. ResetTimerAlike(k, m)
    BY <2>1 DEF TimerWithResetStart, TimerWithResetNew, ResetTimerAlike
  <2> QED BY <1>3, <2>2 DEF Alike
<1>4. ASSUME b = "timer_accumulating" PROVE Born
  <2>1. k = TimerAccumulatingStart /\ m = TimerAccumulatingNew
    BY <1>4 DEF KernelStart, BlockNew
  <2> HIDE DEF k, m
  <2>2. /\ k.initialized = FALSE /\ k.at = Never /\ k.elapsed = 0 /\ m.elapsed = 0
        /\ k.previous = FALSE /\ m.previous = FALSE /\ k.reset = FALSE /\ m.reset = FALSE
        /\ k.passed = (Threshold <= 0) /\ m.passed = (Threshold <= 0)
    BY <2>1, Zenon DEF TimerAccumulatingStart, TimerAccumulatingNew
  <2>3. k.passed \in BOOLEAN /\ k.elapsed \in Int
    BY <2>2
  <2>4. AccumulatingAlike(k, m, Never)
    BY <2>2, <2>3, Zenon DEF AccumulatingAlike
  <2> QED BY <1>4, <2>4 DEF Alike
<1>5. ASSUME b = "true_false_hold" PROVE Born
  <2>1. k = TrueFalseHoldStart /\ m = TrueFalseHoldNew
    BY <1>5 DEF KernelStart, BlockNew
  <2> HIDE DEF k, m
  <2>2. /\ k.initialized = FALSE /\ m.initialized = FALSE /\ k.at = Never
        /\ k.held = FALSE /\ m.held = FALSE /\ k.elapsed = 0 /\ m.elapsed = 0
    BY <2>1, Zenon DEF TrueFalseHoldStart, TrueFalseHoldNew
  <2>3. k.elapsed \in Int
    BY <2>2
  <2>4. HoldAlike(k, m, Never)
    BY <2>2, <2>3, Zenon DEF HoldAlike
  <2> QED BY <1>5, <2>4 DEF Alike
<1>6. ASSUME b = "initialization" PROVE Born
  <2>1. k = InitializationStart /\ m = InitializationNew
    BY <1>6 DEF KernelStart, BlockNew
  <2> HIDE DEF k, m
  <2>2. k.first = ~m.initialized /\ m.initialized = (Never # Never)
    BY <2>1 DEF InitializationStart, InitializationNew
  <2> QED BY <1>6, <2>2 DEF Alike
<1>7. ASSUME b = "set_reset" PROVE Born
  <2>1. k = SetResetStart /\ m = SetResetNew
    BY <1>7 DEF KernelStart, BlockNew
  <2> HIDE DEF k, m
  <2>2. LatchAlike(k, m)
    BY <2>1 DEF SetResetStart, SetResetNew, LatchAlike
  <2> QED BY <1>7, <2>2 DEF Alike
<1>8. ASSUME b = "hysteresis" PROVE Born
  <2>1. k = HysteresisStart /\ m = HysteresisNew
    BY <1>8 DEF KernelStart, BlockNew
  <2> HIDE DEF k, m
  <2>2. k.output = m.out /\ m.out \in BOOLEAN
    BY <2>1 DEF HysteresisStart, HysteresisNew
  <2> QED BY <1>8, <2>2 DEF Alike
<1>9. ASSUME b = "sample_trigger" PROVE Born
  <2>1. k = SampleTriggerStart /\ m = BooleanTriggerNew
    BY <1>9 DEF KernelStart, BlockNew
  <2> HIDE DEF k, m
  <2>2. TriggerAlike(k, m, Never)
    BY <2>1 DEF SampleTriggerStart, BooleanTriggerNew, TriggerAlike
  <2> QED BY <1>9, <2>2 DEF Alike
<1>10. ASSUME b = "sampler" PROVE Born
  <2>1. k = SamplerStart /\ m = NumericSamplerNew
    BY <1>10 DEF KernelStart, BlockNew
  <2> HIDE DEF k, m
  <2>2. SamplerAlike(k, m, Never)
    BY <2>1 DEF SamplerAlike
  <2> QED BY <1>10, <2>2 DEF Alike
<1>11. ASSUME b = "unit_delay" PROVE Born
  <2>1. k = UnitDelayStart /\ m = NumericUnitDelayNew
    BY <1>11 DEF KernelStart, BlockNew
  <2> HIDE DEF k, m
  <2>2. DelayedAlike(k, m, Never)
    BY <2>1 DEF DelayedAlike
  <2> QED BY <1>11, <2>2 DEF Alike
<1>12. ASSUME b = "first_order_hold" PROVE Born
  <2>1. k = FirstOrderHoldStart /\ m = HoldNew
    BY <1>12 DEF KernelStart, BlockNew
  <2> HIDE DEF k, m
  <2>2. FirstOrderAlike(k, m, Never)
    BY <2>1 DEF FirstOrderAlike
  <2> QED BY <1>12, <2>2 DEF Alike
<1>13. ASSUME b = "integrator" PROVE Born
  <2>1. k = IntegratorStart /\ m = IntegratorNew
    BY <1>13 DEF KernelStart, BlockNew
  <2> HIDE DEF k, m
  <2>2. IntegratorAlike(k, m, Never)
    BY <2>1 DEF IntegratorStart, IntegratorNew, IntegratorAlike
  <2> QED BY <1>13, <2>2 DEF Alike
<1>14. ASSUME b = "on_counter" PROVE Born
  <2>1. k = OnCounterStart /\ m = CounterNew
    BY <1>14 DEF KernelStart, BlockNew
  <2> HIDE DEF k, m
  <2>2. k.now = m /\ k.instant = Never
    BY <2>1 DEF OnCounterStart, CounterNew
  <2> QED BY <1>14, <2>2 DEF Alike
<1>15. ASSUME b = "pid" PROVE Born
  <2>1. k = PidStart /\ m = PidNew
    BY <1>15 DEF KernelStart, BlockNew
  <2> HIDE DEF k, m
  <2>2. PidAlike(k, m, Never)
    BY <2>1 DEF PidStart, PidNew, PidAlike
  <2> QED BY <1>15, <2>2 DEF Alike
<1>16. ASSUME b = "moving_average" PROVE Born
  <2>1. k = MovingAverageStart /\ m = MeanNew
    BY <1>16 DEF KernelStart, BlockNew
  <2> HIDE DEF k, m
  <2>2. MeanAlike(k, m, Never)
    BY <2>1 DEF MeanAlike
  <2> QED BY <1>16, <2>2 DEF Alike
<1>17. ASSUME b = "trim_and_respond" PROVE Born
  <2>1. k = TrimAndRespondStart /\ m = TrimNew
    BY <1>17 DEF KernelStart, BlockNew
  <2> HIDE DEF k, m
  <2>2. k.at = Never /\ k.delay = m.delay /\ k.hold = m.hold
    BY <2>1 DEF TrimAndRespondStart, TrimNew
  <2>3. DeviceAlike(k.delay, m.delay)
    BY <2>1 DEF TrimAndRespondStart, TrimNew, DeviceAlike, Device
  <2>4. RequestAlike(k.hold, m.hold)
    <3>1. /\ k.hold = m.hold /\ m.hold.initialized = FALSE /\ m.hold.out = FALSE
          /\ m.hold.latch = FALSE /\ m.hold.elapsed = 0 /\ m.hold.index = -1
      BY <2>1 DEF TrimAndRespondStart, TrimNew
    <3>2. m.hold.elapsed \in Int /\ m.hold.index \in Int
      BY <3>1
    <3> QED BY <3>1, <3>2, Zenon DEF RequestAlike
  <2>5. SamplerAlike(k.sampler, m.sampler, Never)
    BY <2>1 DEF TrimAndRespondStart, TrimNew, SamplerAlike
  <2>6. /\ k.unit.initialized = FALSE /\ k.unit.index = 0
        /\ k.unit.held = Trim.initial /\ m.unit.new = TRUE
    BY <2>1 DEF TrimAndRespondStart, TrimNew, UnitDelayStart
  <2>7. TrimAlike(k, m, Never)
    BY <2>2, <2>3, <2>4, <2>5, <2>6 DEF TrimAlike
  <2> QED BY <1>17, <2>7 DEF Alike
<1>18. ASSUME b = "plant_enable" PROVE Born
  <2>1. k = PlantEnableStart /\ m = PlantEnableNew
    BY <1>18 DEF KernelStart, BlockNew
  <2> HIDE DEF k, m
  <2>2. PlantAlike(k, m)
    BY <2>1 DEF PlantEnableStart, PlantEnableNew, PlantAlike
  <2> QED BY <1>18, <2>2 DEF Alike
<1>19. ASSUME b = "hrc_enable" PROVE Born
  <2>1. k = HrcEnableStart /\ m = HrcNew
    BY <1>19 DEF KernelStart, BlockNew
  <2> HIDE DEF k, m
  <2>2. ChillerAlike(k, m)
    BY <2>1 DEF HrcEnableStart, HrcNew, ChillerAlike
  <2> QED BY <1>19, <2>2 DEF Alike
<1>20. ASSUME b = "hrc_mode" PROVE Born
  <2>1. k = HrcModeStart /\ m = HrcModeNew
    BY <1>20 DEF KernelStart, BlockNew
  <2> HIDE DEF k, m
  <2>2. ModeAlike(k, m)
    BY <2>1 DEF HrcModeStart, HrcModeNew, ModeAlike
  <2> QED BY <1>20, <2>2 DEF Alike
<1>21. ASSUME b = "stage_completion" PROVE Born
  <2>1. k = CompletionStart /\ m = CompletionNew
    BY <1>21 DEF KernelStart, BlockNew
  <2> HIDE DEF k, m
  <2>2. CompletionAlike(k, m)
    BY <2>1 DEF CompletionStart, CompletionNew, CompletionAlike
  <2> QED BY <1>21, <2>2 DEF Alike
<1>22. ASSUME b = "stage_index" PROVE Born
  <2>1. k = StageStart /\ m = StageNew
    BY <1>22 DEF KernelStart, BlockNew
  <2> HIDE DEF k, m
  <2>2. StageAlike(k, m, Never)
    BY <2>1 DEF StageStart, StageNew, StageAlike
  <2> QED BY <1>22, <2>2 DEF Alike
<1>23. ASSUME b \in {"pre", "one_shot", "falling_edge", "changed", "increased", "decreased",
                     "equipment"}
      PROVE  Born
  <2>1. k = m
    BY <1>23 DEF KernelStart, BlockNew, PreviousStart, PreviousNew, ChangeStart, ChangeNew,
              EquipmentStart, EquipmentNew
  <2> HIDE DEF k, m
  <2> QED BY <1>23, <2>1 DEF Alike
<1>24. Born
  <2> HIDE DEF Born
  <2> QED BY KindAssumption, <1>1, <1>2, <1>3, <1>4, <1>5, <1>6, <1>7, <1>8, <1>9, <1>10,
            <1>11, <1>12, <1>13, <1>14, <1>15, <1>16, <1>17, <1>18, <1>19, <1>20, <1>21, <1>22,
            <1>23 DEF Program
<1> QED BY <1>24

LEMMA ClockedRests ==
    ASSUME NEW b \in Clocked, NEW k, NEW m, NEW t \in Nat, NEW u, Alike(b, k, m, t)
    PROVE  Alike(b, k, BlockScan(b, m, t, 0, u).mem, t)
<1> DEFINE x == BlockScan(b, m, t, 0, u)
<1>1. t # Never
  BY DEF Never
<1>2. CASE b = "initialization"
  <2>1. x.mem.initialized = TRUE
    BY <1>2 DEF BlockScan, InitializationScan, Shown
  <2>2. k.first = FALSE
    BY <1>1, <1>2 DEF Alike
  <2> HIDE DEF x
  <2>3. k.first = ~x.mem.initialized /\ x.mem.initialized = (t # Never)
    BY <1>1, <2>1, <2>2
  <2> QED BY <1>2, <2>3 DEF Alike, x
<1>3. CASE b = "sampler"
  <2>1. SamplerAlike(k, m, t)
    BY <1>3 DEF Alike
  <2>2. Index(t) \in Int
    BY PeriodAssumption DEF Index
  <2>5. x = NumericSamplerScan(m, t, 0, u)
    BY <1>3 DEF BlockScan
  <2> HIDE DEF x
  <2>6. ~m.new /\ m.last_index = Index(t)
    BY <1>1, <2>1 DEF SamplerAlike
  <2>7. ~(Index(t) > m.last_index)
    BY <2>2, <2>6
  <2>3. x = Shown(m.held, [new |-> FALSE, held |-> m.held, last_index |-> m.last_index])
    BY <2>5, <2>6, <2>7, Zenon DEF NumericSamplerScan
  <2>4. SamplerAlike(k, x.mem, t)
    BY <1>1, <2>1, <2>3 DEF SamplerAlike, Shown
  <2> QED BY <1>3, <2>4 DEF Alike, x
<1>4. CASE b = "unit_delay"
  <2>1. UnitDelayAlike(k, m, t)
    BY <1>1, <1>4 DEF Alike, DelayedAlike
  <2>2. Index(t) \in Int
    BY PeriodAssumption DEF Index
  <2>4. x = NumericUnitDelayScan(m, t, 0, u)
    BY <1>4 DEF BlockScan
  <2>5. ~m.new /\ m.last_index = Index(t)
    BY <2>1 DEF UnitDelayAlike
  <2>6. ~(Index(t) > m.last_index)
    BY <2>2, <2>5
  <2>3. NumericUnitDelayScan(m, t, 0, u) = Shown(m.held, m)
    BY <2>5, <2>6, Zenon DEF NumericUnitDelayScan
  <2> QED BY <2>3, <2>4 DEF Shown
<1>5. CASE b = "first_order_hold"
  <2>1. m.new = FALSE /\ m.last_index = Index(t)
    BY <1>1, <1>5 DEF Alike, FirstOrderAlike
  <2>2. Index(t) \in Int
    BY PeriodAssumption DEF Index
  <2>4. x = HoldScan(m, t, 0, u)
    BY <1>5 DEF BlockScan
  <2>3. HoldScan(m, t, 0, u) = Shown(Extrapolated(m, t), m)
    BY <2>1, <2>2 DEF HoldScan
  <2> QED BY <2>3, <2>4 DEF Shown
<1>6. CASE b = "sample_trigger"
  <2>1. TriggerAlike(k, m, t)
    BY <1>6 DEF Alike
  <2>2. (t - Offset) \div SamplePeriod \in Int
    BY PeriodAssumption DEF Offset
  <2>3. Larger((t - Offset) \div SamplePeriod, m.last_index) = m.last_index
    BY <1>1, <2>1, <2>2 DEF TriggerAlike, Larger
  <2>4. x.mem.last_index = m.last_index
    BY <1>6, <2>3 DEF BlockScan, BooleanTriggerScan, Shown
  <2>5. TriggerAlike(k, x.mem, t)
    BY <2>1, <2>4 DEF TriggerAlike
  <2> QED BY <1>6, <2>5 DEF Alike
<1> QED BY <1>2, <1>3, <1>4, <1>5, <1>6 DEF Clocked

LEMMA InitAgree == Init => AgreeInv
<1> SUFFICES ASSUME Init PROVE AgreeInv
  OBVIOUS
<1>1. Same
  BY BornAlike DEF Init, Same
<1> QED BY <1>1 DEF Init, AgreeInv, Fed, Compared, Agree

LEMMA AgreeStart ==
    ASSUME IInv, AgreeInv, Averaging, Start
    PROVE  AgreeInv'
<1>1. /\ UNCHANGED <<kind, ticks, feed, input, samples>> /\ time = Never /\ time' = 0
      /\ samples = <<>> /\ kind \in Kind /\ input \in Input(kind)
  BY DEF Start, IInv, Shape, Started, AgreeInv, Fed
<1>2. PICK w \in Unsettled(kind, 0, input) :
         Compared => kernel' = Instant(kind, kernel, 0, w, input).mem
  BY Delivers DEF Start, Compared
<1>3. memory' = BlockScan(kind, memory, 0, Lapse(Never), input).mem
  BY DEF Start, Lapse
<1>4. Never \in Instants /\ 0 = Never + 1
  BY DEF Instants, Never
<1>5. Compared => Alike(kind, kernel', memory', 0)
  BY <1>1, <1>2, <1>3, <1>4, Twins DEF AgreeInv, Same, Averaging
<1>6. Same'
  BY <1>1, <1>5 DEF Same, Compared, Clocked
<1> QED BY <1>1, <1>6 DEF AgreeInv, Fed, Compared, Clocked, Agree

LEMMA AgreeScan ==
    ASSUME IInv, AgreeInv, Averaging, NEW u \in Input(kind), Scan(u)
    PROVE  AgreeInv'
<1>1. /\ UNCHANGED <<kind, ticks, feed>> /\ input' = u /\ kind \in Kind
      /\ time # Never /\ time \in Instants /\ time' = time + ticks
  BY DEF Scan, IInv, Shape, Started, Instants
<1>0. Compared' <=> Compared
  BY <1>1 DEF Compared, Clocked
<1>2. Fed'
  BY <1>0, <1>1 DEF AgreeInv, Fed
<1>3. CASE ~Compared
  BY <1>0, <1>2, <1>3 DEF AgreeInv, Same, Agree, Compared
<1>4. CASE Compared
  <2>1. ticks = 1 /\ Lapse(time) = ticks /\ time' = time + 1
    BY <1>1, <1>4 DEF AgreeInv, Fed, Lapse
  <2> DEFINE x == BlockScan(kind, memory, time + ticks, ticks, u)
  <2>2. PICK w \in Unsettled(kind, time + 1, u) :
           /\ kernel' = Advanced(w, u).mem /\ memory' = x.mem
           /\ samples' = Recent(Append(samples, [shadow |-> Advanced(w, u).out, block |-> x.out]))
    BY <1>4, Delivers DEF Scan, Compared
  <2> DEFINE r == Advanced(w, u)
             last == [shadow |-> r.out, block |-> x.out]
  <2>3. r = Instant(kind, kernel, time + 1, w, u)
    BY <2>1, OneTick
  <2>4. x = BlockScan(kind, memory, time + 1, Lapse(time), u)
    BY <2>1
  <2> HIDE DEF r, x
  <2>5. r.out = x.out /\ Alike(kind, r.mem, x.mem, time + 1)
    BY <1>1, <1>4, <2>3, <2>4, Twins DEF AgreeInv, Same, Averaging
  <2>6. Same'
    BY <1>0, <1>1, <2>1, <2>2, <2>5 DEF Same, r
  <2>7. last.shadow = last.block
    BY <2>5
  <2>8. samples'[Len(samples')] = last
    <3> HIDE DEF last
    <3>1. ticks \in Nat \ {0} /\ \E S : samples \in Seq(S)
      BY DEF IInv, Shape
    <3>2. samples' = Recent(Append(samples, last))
      BY <2>2 DEF last, r
    <3> QED BY <3>1, <3>2, Remembers
  <2>9. Agree'
    <3> HIDE DEF last
    <3> QED BY <2>7, <2>8 DEF Agree
  <2> QED BY <1>2, <2>6, <2>9 DEF AgreeInv
<1> QED BY <1>3, <1>4

LEMMA AgreeStep == Averaging /\ IInv /\ AgreeInv /\ [Next]_vars => AgreeInv'
<1> SUFFICES ASSUME Averaging, IInv, AgreeInv, [Next]_vars PROVE AgreeInv'
  OBVIOUS
<1>1. CASE Start
  BY <1>1, AgreeStart
<1>2. CASE \E u \in Input(kind) : Scan(u)
  BY <1>2, AgreeScan
<1>3. CASE \E u \in Input(kind) : Phase(u)
  <2>1. PICK u \in Input(kind) : Phase(u)
    BY <1>3
  <2>2. /\ UNCHANGED <<kind, ticks, feed, time, kernel, samples>> /\ input' = u
        /\ memory' = BlockScan(kind, memory, time, 0, u).mem
        /\ time \in Nat /\ feed # "blocks"
    BY <2>1 DEF Phase, IInv, Shape
  <2>3. (Compared' <=> Compared) /\ (Compared => kind \in Clocked)
    BY <2>2 DEF Compared, Clocked
  <2>4. Compared => Alike(kind, kernel, memory', time)
    BY <2>2, <2>3, ClockedRests DEF AgreeInv, Same
  <2> QED BY <2>2, <2>3, <2>4 DEF AgreeInv, Fed, Same, Agree, Clocked
<1>4. CASE UNCHANGED vars
  BY <1>4 DEF vars, AgreeInv, Fed, Same, Compared, Clocked, Agree
<1> QED BY <1>1, <1>2, <1>3, <1>4 DEF Next

-----------------------------------------------------------------------------
(* A feedback loop: what the program samples at an instant is what the     *)
(* interpreter shows at it, from the instant before.                       *)

LEMMA RemembersBefore ==
    ASSUME ticks \in Nat \ {0}, NEW S, NEW s \in Seq(S), NEW x,
           Len(Recent(Append(s, x))) > 1
    PROVE  /\ s # <<>>
           /\ Recent(Append(s, x))[Len(Recent(Append(s, x))) - 1] = s[Len(s)]
<1> DEFINE U == S \cup {x}
           r == Append(s, x)
           n == Len(s)
<1>1. s \in Seq(U) /\ n \in Nat
  BY SeqMonotonic, LenProperties
<1>2. r \in Seq(U) /\ Len(r) = n + 1 /\ \A i \in 1 .. n : r[i] = s[i]
  BY <1>1, AppendProperties
<1>3. CASE Len(r) > Reach
  <2>1. n >= 3
    BY <1>1, <1>2, <1>3 DEF Reach
  <2>2. /\ Len(Tail(r)) = n
        /\ \A i \in 1 .. n : Tail(r)[i] = r[i + 1]
    BY <1>1, <1>2, <2>1, HeadTailProperties, EmptySeq
  <2>3. n - 1 \in 1 .. n /\ n \in 1 .. n /\ (n - 1) + 1 = n
    BY <1>1, <2>1
  <2>4. Tail(r)[n - 1] = s[n]
    BY <1>2, <2>2, <2>3
  <2>5. s # <<>>
    BY <2>1, EmptySeq
  <2> HIDE DEF r, n
  <2> QED BY <1>3, <2>2, <2>4, <2>5 DEF Recent, r, n
<1>4. CASE ~(Len(r) > Reach)
  <2>1. Recent(r) = r
    BY <1>4 DEF Recent
  <2>2. n >= 1 /\ n \in 1 .. n /\ Len(r) - 1 = n
    BY <1>1, <1>2, <2>1
  <2>3. s # <<>>
    BY <2>2, EmptySeq
  <2> HIDE DEF r, n
  <2> QED BY <1>2, <2>1, <2>2, <2>3 DEF r, n
<1> QED BY <1>3, <1>4

LoopInv ==
    /\ LoopLags
    /\ feed = "loop" /\ Started =>
          /\ memory.previous = input.in
          /\ samples # <<>> => kernel.previous = samples[Len(samples)].block

LEMMA InitLoop == Init => LoopInv
BY DEF Init, LoopInv, LoopLags, Started

LEMMA LoopScan ==
    ASSUME IInv, LoopInv, feed = "loop", NEW u \in Input(kind), Scan(u)
    PROVE  LoopInv'
<1> DEFINE last == [shadow |-> kernel.previous, block |-> input.in]
<1>1. /\ ticks = 1 /\ kind = "pre" /\ Started /\ Delivered(u) = input
      /\ input' = u /\ feed' = feed
  BY DEF Scan, IInv, Shape, Started, Opens, Delivered
<1>2. PICK w :
         /\ kernel' = Advanced(w, input).mem
         /\ memory' = BlockScan(kind, memory, time + ticks, ticks, u).mem
         /\ samples' = Recent(Append(samples,
                [shadow |-> Advanced(w, input).out,
                 block |-> BlockScan(kind, memory, time + ticks, ticks, u).out]))
  BY <1>1 DEF Scan
<1>3. Advanced(w, input) = PreStep(kernel, time + 1, input)
  BY <1>1, OneTick DEF Instant, Resampled, KernelStep
<1>4. /\ kernel'.previous = input.in
      /\ memory'.previous = u.in
      /\ samples' = Recent(Append(samples, last))
  BY <1>1, <1>2, <1>3 DEF BlockScan, PreScan, PreStep, Ran, Shown, LoopInv
<1>5. PICK S : samples \in Seq(S)
  BY DEF IInv, Shape
<1>6. last.shadow = kernel.previous /\ last.block = input.in
  OBVIOUS
<1> HIDE DEF last
<1>7. samples'[Len(samples')] = last
  BY <1>1, <1>4, <1>5, Remembers
<1>8. Len(samples') > 1 => samples # <<>> /\ samples'[Len(samples') - 1] = samples[Len(samples)]
  BY <1>1, <1>4, <1>5, RemembersBefore
<1>9. LoopLags'
  BY <1>1, <1>6, <1>7, <1>8 DEF LoopInv, LoopLags
<1> QED BY <1>1, <1>4, <1>6, <1>7, <1>9 DEF LoopInv

LEMMA LoopStep == IInv /\ LoopInv /\ [Next]_vars => LoopInv'
<1> SUFFICES ASSUME IInv, LoopInv, [Next]_vars PROVE LoopInv'
  OBVIOUS
<1>1. feed' = feed
  BY DEF Next, Start, Phase, Scan, vars
<1>2. CASE feed # "loop"
  BY <1>1, <1>2 DEF LoopInv, LoopLags
<1>3. CASE feed = "loop"
  <2>1. CASE Start
    <3>1. /\ kind = "pre" /\ input' = input /\ samples = <<>> /\ samples' = <<>>
          /\ memory' = BlockScan(kind, memory, 0, 0, input).mem
      BY <1>3, <2>1 DEF Start, IInv, Shape, Started, Opens
    <3>2. memory'.previous = input.in
      BY <3>1 DEF BlockScan, PreScan, Shown
    <3>3. LoopLags'
      BY <3>1 DEF LoopLags
    <3> QED BY <3>1, <3>2, <3>3 DEF LoopInv
  <2>2. CASE \E u \in Input(kind) : Scan(u)
    BY <1>3, <2>2, LoopScan
  <2>3. CASE \E u \in Input(kind) : Phase(u)
    BY <1>3, <2>3 DEF Phase
  <2>4. CASE UNCHANGED vars
    BY <2>4 DEF vars, LoopInv, LoopLags, Started
  <2> QED BY <2>1, <2>2, <2>3, <2>4 DEF Next
<1> QED BY <1>2, <1>3

-----------------------------------------------------------------------------
(* Sums: what MapThenSumSet of the inputs of a trace is.                   *)

Summed(s, S) == MapThenSumSet(LAMBDA i : s[i + 1].in, S)
Chosen(S) == CHOOSE x \in S : TRUE
Adds(s, S, g) ==
    g = [r \in SUBSET S |-> IF r = {} THEN 0
                            ELSE s[Chosen(r) + 1].in + g[r \ {Chosen(r)}]]

(* Of some finite sets one has none of the others in it.                   *)
LEMMA Smallest ==
    ASSUME NEW W, W # {}, \A w \in W : IsFiniteSet(w)
    PROVE  \E x \in W : \A y \in W : ~(y \subseteq x /\ y # x)
<1> DEFINE A == UNION W
           R == StrictSubsetOrdering(A)
<1>1. IsWellFoundedOn(R, FiniteSubsetsOf(A))
  BY FS_StrictSubsetOrderingWellFounded
<1>2. W \subseteq FiniteSubsetsOf(A)
  BY DEF FiniteSubsetsOf
<1>3. \A x, y \in W : y \subseteq x /\ y # x => <<y, x>> \in R
  BY DEF StrictSubsetOrdering
<1> HIDE DEF R
<1>4. PICK x \in W : \A y \in W : ~(<<y, x>> \in R)
  BY <1>1, <1>2, WFMin
<1> QED BY <1>3, <1>4

(* Sums are recursive functions on the subsets of a finite set: what one  *)
(* is at a set, that two agree, and that there is one.                     *)
LEMMA ChosenFrom == ASSUME NEW S, S # {} PROVE Chosen(S) \in S
BY Zenon DEF Chosen

LEMMA AddsAt ==
    ASSUME NEW s, NEW S, NEW g, Adds(s, S, g), NEW r \in SUBSET S
    PROVE  g[r] = IF r = {} THEN 0 ELSE s[Chosen(r) + 1].in + g[r \ {Chosen(r)}]
<1> DEFINE body(q) == IF q = {} THEN 0 ELSE s[Chosen(q) + 1].in + g[q \ {Chosen(q)}]
<1>1. g = [q \in SUBSET S |-> body(q)]
  BY DEF Adds
<1> HIDE DEF body
<1>2. g[r] = body(r)
  BY <1>1
<1> QED BY <1>2 DEF body

(* Two ways to add the same numbers give the same, set for set.            *)
LEMMA OneSum ==
    ASSUME NEW s, NEW z, NEW S, NEW Z, NEW g, NEW h, Adds(s, S, g), Adds(z, Z, h),
           NEW r \in SUBSET S, r \subseteq Z, IsFiniteSet(r),
           \A x \in r : s[x + 1].in = z[x + 1].in
    PROVE  g[r] = h[r]
<1> DEFINE W == {w \in SUBSET r : g[w] # h[w]}
<1> SUFFICES ASSUME g[r] # h[r] PROVE FALSE
  OBVIOUS
<1>1. r \in W /\ \A w \in W : IsFiniteSet(w)
  BY FS_Subset
<1>2. PICK w \in W : \A y \in W : ~(y \subseteq w /\ y # w)
  <2> HIDE DEF W
  <2> QED BY <1>1, Smallest
<1>3. /\ g[w] = IF w = {} THEN 0 ELSE s[Chosen(w) + 1].in + g[w \ {Chosen(w)}]
      /\ h[w] = IF w = {} THEN 0 ELSE z[Chosen(w) + 1].in + h[w \ {Chosen(w)}]
  BY AddsAt
<1>4. w # {}
  BY <1>3
<1>5. Chosen(w) \in w
  BY <1>4, ChosenFrom
<1> DEFINE x == Chosen(w)
           y == w \ {x}
<1>6. g[y] = h[y]
  BY <1>2, <1>5
<1> QED BY <1>3, <1>4, <1>5, <1>6

LEMMA Added ==
    ASSUME NEW s, NEW S, IsFiniteSet(S)
    PROVE  \E g : Adds(s, S, g)
<1> DEFINE W == {w \in SUBSET S : ~\E g : Adds(s, w, g)}
<1> SUFFICES ASSUME ~\E g : Adds(s, S, g) PROVE FALSE
  OBVIOUS
<1>1. S \in W /\ \A w \in W : IsFiniteSet(w)
  BY FS_Subset
<1>2. PICK w \in W : \A y \in W : ~(y \subseteq w /\ y # w)
  <2> HIDE DEF W
  <2> QED BY <1>1, Smallest
<1> DEFINE sum(r) == (CHOOSE g : Adds(s, r, g))[r]
           body(r) == IF r = {} THEN 0 ELSE s[Chosen(r) + 1].in + sum(r \ {Chosen(r)})
           h == [r \in SUBSET w |-> body(r)]
<1>3. IsFiniteSet(w)
  BY <1>1
<1>4. \A y \in SUBSET w : y # w => Adds(s, y, CHOOSE g : Adds(s, y, g))
  <2> SUFFICES ASSUME NEW y \in SUBSET w, y # w PROVE Adds(s, y, CHOOSE g : Adds(s, y, g))
    OBVIOUS
  <2>1. \E g : Adds(s, y, g)
    BY <1>2
  <2> QED BY <2>1
<1>5. ASSUME NEW r \in SUBSET w, r # w PROVE sum(r) = body(r)
  <2> DEFINE g == CHOOSE f : Adds(s, r, f)
             x == Chosen(r)
             y == r \ {x}
             f == CHOOSE e : Adds(s, y, e)
  <2>1. Adds(s, r, g)
    BY <1>4, <1>5
  <2> HIDE DEF g
  <2>2. g[r] = IF r = {} THEN 0 ELSE s[x + 1].in + g[y]
    BY <2>1, AddsAt
  <2>3. CASE r = {}
    BY <2>2, <2>3 DEF g
  <2>4. CASE r # {}
    <3>1. y \in SUBSET r /\ y \in SUBSET w
      BY <1>5
    <3>2. y # w
      BY <1>5, <3>1
    <3>3. IsFiniteSet(y)
      BY <1>3, <3>1, FS_Subset
    <3> HIDE DEF y
    <3>4. Adds(s, y, f)
      BY <1>4, <3>1, <3>2
    <3> HIDE DEF f
    <3>5. g[y] = f[y]
      BY <2>1, <3>1, <3>3, <3>4, OneSum
    <3> QED BY <2>2, <2>4, <3>5 DEF g, f, y
  <2> QED BY <2>3, <2>4
<1>6. \A r \in SUBSET w : body(r) = IF r = {} THEN 0 ELSE s[Chosen(r) + 1].in + h[r \ {Chosen(r)}]
  <2> SUFFICES ASSUME NEW r \in SUBSET w
               PROVE  body(r) = IF r = {} THEN 0 ELSE s[Chosen(r) + 1].in + h[r \ {Chosen(r)}]
    BY Zenon
  <2> DEFINE y == r \ {Chosen(r)}
  <2>1. CASE r = {}
    BY <2>1, Zenon
  <2>2. CASE r # {}
    <3>1. Chosen(r) \in r
      BY <2>2, ChosenFrom
    <3>2. y \in SUBSET w /\ y # w
      BY <3>1
    <3>3. body(r) = s[Chosen(r) + 1].in + sum(y)
      BY <2>2, Zenon
    <3> HIDE DEF y, sum, body
    <3>4. sum(y) = body(y) /\ h[y] = body(y)
      BY <1>5, <3>2
    <3> QED BY <2>2, <3>3, <3>4, Zenon DEF y
  <2> QED BY <2>1, <2>2
<1>7. Adds(s, w, h)
  <2> HIDE DEF body
  <2> QED BY <1>6 DEF Adds
<1> QED BY <1>2, <1>7

LEMMA SummedIs ==
    ASSUME NEW s, NEW S, IsFiniteSet(S)
    PROVE  \E g : Adds(s, S, g) /\ Summed(s, S) = g[S]
<1>1. Summed(s, S) = (CHOOSE g : Adds(s, S, g))[S]
  BY DEF Summed, MapThenSumSet, MapThenFoldSet, Adds, Chosen
<1>2. \E g : Adds(s, S, g)
  BY Added
<1> QED BY <1>1, <1>2

LEMMA SummedBy ==
    ASSUME NEW s, NEW S, IsFiniteSet(S)
    PROVE  Summed(s, S) = IF S = {} THEN 0
                          ELSE s[Chosen(S) + 1].in + Summed(s, S \ {Chosen(S)})
<1> DEFINE r == S \ {Chosen(S)}
<1>1. PICK g : Adds(s, S, g) /\ Summed(s, S) = g[S]
  BY SummedIs
<1>2. IsFiniteSet(r)
  BY FS_Subset
<1>3. PICK h : Adds(s, r, h) /\ Summed(s, r) = h[r]
  BY <1>2, SummedIs
<1>4. r \in SUBSET S /\ r \subseteq r
  OBVIOUS
<1> HIDE DEF r
<1>5. g[r] = h[r]
  BY <1>1, <1>2, <1>3, <1>4, OneSum
<1>6. g[S] = IF S = {} THEN 0 ELSE s[Chosen(S) + 1].in + g[r]
  BY <1>1, AddsAt DEF r
<1> QED BY <1>1, <1>3, <1>5, <1>6 DEF r

LEMMA SummedSame ==
    ASSUME NEW s, NEW z, NEW S, IsFiniteSet(S), \A x \in S : s[x + 1].in = z[x + 1].in
    PROVE  Summed(s, S) = Summed(z, S)
<1>1. PICK g : Adds(s, S, g) /\ Summed(s, S) = g[S]
  BY SummedIs
<1>2. PICK h : Adds(z, S, h) /\ Summed(z, S) = h[S]
  BY SummedIs
<1> QED BY <1>1, <1>2, OneSum

(* The order in which the numbers are taken is no matter.                  *)
LEMMA SummedAny ==
    ASSUME NEW s, NEW S, IsFiniteSet(S), \A x \in S : s[x + 1].in \in Int
    PROVE  Summed(s, S) \in Int
           /\ \A x \in S : Summed(s, S) = s[x + 1].in + Summed(s, S \ {x})
<1> DEFINE Good(w) == Summed(s, w) \in Int
                      /\ \A x \in w : Summed(s, w) = s[x + 1].in + Summed(s, w \ {x})
           W == {w \in SUBSET S : ~Good(w)}
<1> SUFFICES ASSUME ~Good(S) PROVE FALSE
  OBVIOUS
<1>1. S \in W /\ \A w \in W : IsFiniteSet(w)
  BY FS_Subset
<1>2. PICK w \in W : \A y \in W : ~(y \subseteq w /\ y # w)
  <2> HIDE DEF W
  <2> QED BY <1>1, Smallest
<1> DEFINE a == Chosen(w)
           r == w \ {a}
<1>3. IsFiniteSet(w) /\ w \in SUBSET S /\ ~Good(w)
  BY <1>1
<1> HIDE DEF Good
<1>4. \A y \in SUBSET w : y # w => Good(y)
  BY <1>2, <1>3
<1> USE DEF Good
<1>5. Summed(s, w) = IF w = {} THEN 0 ELSE s[a + 1].in + Summed(s, r)
  BY <1>3, SummedBy
<1>6. w # {}
  BY <1>3, <1>5
<1>7. a \in w /\ s[a + 1].in \in Int
  BY <1>3, <1>6, ChosenFrom
<1> HIDE DEF a
<1>8. Good(r) /\ r \in SUBSET w
  BY <1>4, <1>7
<1>9. Summed(s, w) \in Int
  BY <1>5, <1>6, <1>7, <1>8
<1>10. ASSUME NEW x \in w PROVE Summed(s, w) = s[x + 1].in + Summed(s, w \ {x})
  <2>1. CASE x = a
    BY <1>5, <1>6, <2>1
  <2>2. CASE x # a
    <3> DEFINE q == w \ {x}
               v == r \ {x}
    <3>1. x \in r /\ s[x + 1].in \in Int
      BY <1>3, <2>2
    <3>2. Summed(s, r) = s[x + 1].in + Summed(s, v)
      BY <1>8, <3>1
    <3>3. q \in SUBSET w /\ q # w /\ a \in q /\ q \ {a} = v
      BY <1>7, <2>2
    <3>4. v \in SUBSET w /\ v # w
      BY <1>7
    <3> HIDE DEF q, v
    <3>5. Good(q) /\ Good(v)
      BY <1>4, <3>3, <3>4
    <3>6. Summed(s, q) = s[a + 1].in + Summed(s, v)
      BY <3>3, <3>5
    <3>7. Summed(s, v) \in Int
      BY <3>5
    <3>8. Summed(s, w) = s[x + 1].in + Summed(s, q)
      <4> HIDE DEF r
      <4> QED BY <1>5, <1>6, <1>7, <3>1, <3>2, <3>6, <3>7
    <3> QED BY <3>8 DEF q
  <2> QED BY <2>1, <2>2
<1> QED BY <1>3, <1>9, <1>10

(* Sums over the instants of an interval.                                  *)
LEMMA SummedTo ==
    ASSUME NEW s, NEW a \in Int, NEW b \in Int, a <= b + 1,
           \A x \in a .. b + 1 : s[x + 1].in \in Int
    PROVE  /\ Summed(s, a .. b) \in Int
           /\ Summed(s, a .. b + 1) = Summed(s, a .. b) + s[b + 2].in
<1>1. IsFiniteSet(a .. b) /\ IsFiniteSet(a .. b + 1)
  BY FS_Interval
<1>2. b + 1 \in a .. b + 1 /\ (a .. b + 1) \ {b + 1} = a .. b /\ (b + 1) + 1 = b + 2
  OBVIOUS
<1>3. Summed(s, a .. b) \in Int
  <2>1. \A x \in a .. b : s[x + 1].in \in Int
    OBVIOUS
  <2> QED BY <1>1, <2>1, SummedAny
<1>4. Summed(s, a .. b + 1) = s[(b + 1) + 1].in + Summed(s, a .. b)
  <2> DEFINE S == a .. b + 1
  <2>1. b + 1 \in S /\ S \ {b + 1} = a .. b /\ IsFiniteSet(S) /\ \A x \in S : s[x + 1].in \in Int
    BY <1>1, <1>2
  <2> HIDE DEF S
  <2>2. \A x \in S : Summed(s, S) = s[x + 1].in + Summed(s, S \ {x})
    BY <2>1, SummedAny
  <2>3. Summed(s, S) = s[(b + 1) + 1].in + Summed(s, S \ {b + 1})
    BY <2>1, <2>2
  <2> QED BY <2>1, <2>3 DEF S
<1>5. s[(b + 1) + 1].in \in Int
  BY <1>2
<1> QED BY <1>2, <1>3, <1>4, <1>5

LEMMA SummedNone == ASSUME NEW s, NEW a \in Int, NEW b \in Int, b < a PROVE Summed(s, a .. b) = 0
<1>1. a .. b = {} /\ IsFiniteSet(a .. b)
  BY FS_Interval
<1> QED BY <1>1, SummedBy

LEMMA SummedParts ==
    ASSUME NEW s, NEW b \in Nat, NEW c \in Nat, b <= c, \A x \in 1 .. c : s[x + 1].in \in Int
    PROVE  Summed(s, 1 .. c) = Summed(s, 1 .. b) + Summed(s, b + 1 .. c)
<1> DEFINE Good(d) == Summed(s, 1 .. d) = Summed(s, 1 .. b) + Summed(s, b + 1 .. d)
           Bad == {d \in b .. c : ~Good(d)}
<1> SUFFICES ASSUME ~Good(c) PROVE FALSE
  OBVIOUS
<1>1. Summed(s, 1 .. b) \in Int
  <2>1. IsFiniteSet(1 .. b)
    BY FS_Interval
  <2> QED BY <2>1, SummedAny
<1>2. PICK d \in Bad : \A e \in Bad : d <= e
  <2>1. c \in Bad /\ Bad \in SUBSET Nat
    OBVIOUS
  <2> HIDE DEF Bad
  <2> QED BY <2>1, Least
<1> HIDE DEF Good
<1>3. d \in Nat /\ b <= d /\ d <= c /\ ~Good(d)
  BY <1>2
<1>4. d # b
  <2>1. Summed(s, b + 1 .. b) = 0
    BY SummedNone
  <2> QED BY <1>1, <1>3, <2>1 DEF Good
<1>5. d - 1 \in b .. c /\ Good(d - 1)
  BY <1>2, <1>3, <1>4
<1> DEFINE e == d - 1
<1>6. e \in Nat /\ d = e + 1 /\ b <= e
  BY <1>3, <1>4
<1> HIDE DEF e
<1>7. \A x \in 1 .. e + 1 : s[x + 1].in \in Int
  BY <1>3, <1>6
<1>8. Summed(s, 1 .. e) \in Int /\ Summed(s, 1 .. e + 1) = Summed(s, 1 .. e) + s[e + 2].in
  BY <1>6, <1>7, SummedTo
<1>9. Summed(s, b + 1 .. e) \in Int /\ Summed(s, b + 1 .. e + 1) = Summed(s, b + 1 .. e) + s[e + 2].in
  BY <1>6, <1>7, SummedTo
<1>10. s[e + 2].in \in Int
  <2>1. e + 1 \in 1 .. e + 1 /\ (e + 1) + 1 = e + 2
    BY <1>6
  <2> QED BY <1>7, <2>1
<1> QED BY <1>1, <1>3, <1>5, <1>6, <1>8, <1>9, <1>10 DEF Good, e

-----------------------------------------------------------------------------
(* Traces: after each instant a block remembers what its definition makes  *)
(* of the inputs so far.  T is what can arrive, t the instant, u its input.*)
Lengthens(T, t, u) ==
    /\ trace \in Seq(T) /\ Len(trace) = t /\ t \in Nat /\ time = t - 1 /\ time' = t
    /\ u \in T /\ trace' = Append(trace, u)

(* The trace after one more instant. *)
LEMMA Longer ==
    ASSUME NEW CONSTANT T, NEW CONSTANT t, NEW CONSTANT u, Lengthens(T, t, u)
    PROVE  /\ time = t - 1 /\ time' = t /\ t \in Nat /\ t # Never /\ time \in Instants
           /\ (time = Never <=> t = 0) /\ u \in T
           /\ Len(trace) = t /\ Len(trace') = t + 1
           /\ \A i \in 0 .. t - 1 : trace'[i + 1] = trace[i + 1] /\ trace[i + 1] \in T
           /\ \A i \in 0 .. t : trace'[i + 1] \in T
           /\ trace'[t + 1] = u
<1>1. /\ trace' \in Seq(T) /\ Len(trace') = t + 1
      /\ \A i \in 1 .. t : trace'[i] = trace[i]
      /\ trace'[t + 1] = u
  BY AppendProperties DEF Lengthens
<1>2. \A i \in 0 .. t - 1 : i + 1 \in 1 .. t /\ trace[i + 1] \in T
  BY DEF Lengthens
<1>3. \A i \in 0 .. t : trace'[i + 1] \in T
  BY <1>1 DEF Lengthens
<1>4. \A i \in 0 .. t - 1 : trace'[i + 1] = trace[i + 1] /\ trace[i + 1] \in T
  BY <1>1, <1>2
<1> QED BY <1>1, <1>3, <1>4 DEF Lengthens, Instants, Never

(* The instants from which the input was true: all or none of them stay.   *)
LEMMA RunGrows ==
    ASSUME NEW CONSTANT T, NEW CONSTANT t, NEW CONSTANT u, Lengthens(T, t, u),
           \A v \in T : v.in \in BOOLEAN
    PROVE  /\ TrueSince' = IF u.in THEN TrueSince \cup {t} ELSE {}
           /\ TrueSince \subseteq 0 .. t - 1
           /\ TrueSince # {} => trace[t].in
           /\ t # 0 /\ trace[t].in => t - 1 \in TrueSince
<1>1. /\ Len(trace) - 1 = t - 1 /\ Len(trace') - 1 = t /\ t \in Nat
      /\ \A i \in 0 .. t - 1 : trace'[i + 1] = trace[i + 1] /\ trace[i + 1].in \in BOOLEAN
      /\ trace'[t + 1] = u /\ u.in \in BOOLEAN
  <2>1. /\ Len(trace) = t /\ Len(trace') = t + 1 /\ t \in Nat /\ u \in T
        /\ \A i \in 0 .. t - 1 : trace'[i + 1] = trace[i + 1] /\ trace[i + 1] \in T
        /\ trace'[t + 1] = u
    BY Longer
  <2> QED BY <2>1
<1>2. TrueSince = {s \in 0 .. t - 1 : \A i \in s .. t - 1 : trace[i + 1].in}
  BY <1>1 DEF TrueSince, Now, At
<1>3. TrueSince' = {s \in 0 .. t : \A i \in s .. t : trace'[i + 1].in}
  BY <1>1 DEF TrueSince, Now, At
<1>4. TrueSince \subseteq 0 .. t - 1 /\ \A s \in TrueSince : trace[t].in
  <2>1. \A s \in 0 .. t - 1 : t - 1 \in s .. t - 1 /\ (t - 1) + 1 = t
    BY <1>1
  <2> QED BY <1>2, <2>1
<1>5. t # 0 /\ trace[t].in => t - 1 \in TrueSince
  <2>1. \A i \in t - 1 .. t - 1 : i + 1 = t
    BY <1>1
  <2> QED BY <1>1, <1>2, <2>1
<1>6. CASE ~u.in
  <2>1. TrueSince' = {}
    BY <1>1, <1>3, <1>6
  <2> QED BY <1>4, <1>5, <1>6, <2>1
<1>7. CASE u.in
  <2>1. ASSUME NEW s \in TrueSince' PROVE s \in TrueSince \cup {t}
    <3>1. s \in 0 .. t /\ \A i \in s .. t : trace'[i + 1].in
      BY <1>3, <2>1
    <3> QED BY <1>1, <1>2, <3>1
  <2>2. ASSUME NEW s \in TrueSince \cup {t} PROVE s \in TrueSince'
    <3>1. s \in 0 .. t
      BY <1>1, <1>2, <2>2
    <3>2. ASSUME NEW i \in s .. t PROVE trace'[i + 1].in
      BY <1>1, <1>2, <1>7, <2>2, <3>2
    <3> QED BY <1>3, <3>1, <3>2
  <2>3. TrueSince' = TrueSince \cup {t}
    BY <2>1, <2>2
  <2> QED BY <1>4, <1>5, <1>7, <2>3
<1> QED BY <1>6, <1>7

(* A true delay: true since the start, or for the delay.                   *)
DelayKept ==
    /\ kernel.initialized \in BOOLEAN /\ kernel.held \in BOOLEAN /\ kernel.previous \in BOOLEAN
    /\ kernel.initialized <=> time # Never
    /\ kernel.held <=> DelayedTrue
    /\ kernel.previous <=> TrueSince # {}
    /\ kernel.previous /\ ~kernel.held =>
        LET waited == kernel.timer + time - kernel.at
        IN  kernel.timer \in Int /\ kernel.at \in Int /\ TrueSince = time - waited .. time

LEMMA DelayHistory ==
    ASSUME NEW CONSTANT T, NEW CONSTANT t, NEW CONSTANT u, Lengthens(T, t, u),
           \A v \in T : v.in \in BOOLEAN,
           DelayKept, kernel' = TrueDelayStep(kernel, t, u).mem
    PROVE  (TrueDelayStep(kernel, t, u).out = DelayedTrue') /\ DelayKept'
<1> DEFINE k == kernel
           r == TrueDelayStep(k, t, u)
           waited == k.timer + t - k.at
           out == /\ u.in
                  /\ \/ ~k.initialized \/ k.held
                     \/ IF k.previous THEN waited >= Delay ELSE Delay <= 0
<1>1. /\ time = t - 1 /\ time' = t /\ t \in Nat /\ t # Never /\ (time = Never <=> t = 0)
      /\ Len(trace) = t /\ Len(trace') = t + 1 /\ u.in \in BOOLEAN /\ Delay \in Int
  BY Longer, DelayAssumption
<1>2. /\ TrueSince' = IF u.in THEN TrueSince \cup {t} ELSE {}
      /\ TrueSince \subseteq 0 .. t - 1
  BY RunGrows
<1>3. DelayedTrue <=> \E s \in TrueSince : s = 0 \/ t - 1 - s >= Delay
  BY <1>1 DEF DelayedTrue, Now
<1>4. DelayedTrue' <=> \E s \in TrueSince' : s = 0 \/ t - s >= Delay
  BY <1>1 DEF DelayedTrue, Now
<1>5. /\ r.out = out /\ kernel'.initialized = TRUE /\ kernel'.previous = u.in
      /\ kernel'.held = out /\ kernel'.at = t
      /\ kernel'.timer = IF ~u.in THEN 0 ELSE IF ~k.initialized \/ k.held THEN Delay
                         ELSE IF k.previous THEN waited ELSE 0
  BY DEF TrueDelayStep, Ran
<1>6. DelayedTrue' \in BOOLEAN
  BY DEF DelayedTrue
<1>7. /\ k.initialized <=> t # 0
      /\ k.held <=> DelayedTrue
      /\ k.previous <=> TrueSince # {}
      /\ k.held \in BOOLEAN /\ k.previous \in BOOLEAN /\ k.initialized \in BOOLEAN
  BY <1>1 DEF DelayKept
<1>8. ASSUME out <=> DelayedTrue', u.in <=> TrueSince' # {},
             u.in /\ ~out => kernel'.timer \in Int
                             /\ TrueSince' = t - kernel'.timer .. t
      PROVE  (r.out = DelayedTrue') /\ DelayKept'
  <2>1. out \in BOOLEAN
    OBVIOUS
  <2> HIDE DEF out, r
  <2>2. r.out = DelayedTrue'
    BY <1>5, <1>6, <1>8, <2>1
  <2>3. u.in /\ ~out => kernel'.timer + t - kernel'.at = kernel'.timer /\ kernel'.at \in Int
    BY <1>1, <1>5, <1>8
  <2>4. /\ kernel'.initialized \in BOOLEAN /\ kernel'.held \in BOOLEAN /\ kernel'.previous \in BOOLEAN
        /\ kernel'.initialized <=> time' # Never
        /\ kernel'.held <=> DelayedTrue'
        /\ kernel'.previous <=> TrueSince' # {}
    BY <1>1, <1>5, <1>8, <2>1
  <2> QED BY <1>1, <1>5, <1>8, <2>2, <2>3, <2>4 DEF DelayKept
<1>9. CASE ~u.in
  <2>1. ~out /\ TrueSince' = {} /\ ~DelayedTrue'
    BY <1>2, <1>4, <1>9
  <2> QED BY <1>8, <1>9, <2>1
<1>10. CASE u.in /\ (t = 0 \/ k.held)
  <2>1. out
    BY <1>7, <1>10
  <2>2. DelayedTrue' /\ TrueSince' # {}
    <3>1. CASE t = 0
      BY <1>2, <1>4, <1>10, <3>1
    <3>2. CASE k.held
      BY <1>1, <1>2, <1>3, <1>4, <1>7, <1>10, <3>2
    <3> QED BY <1>10, <3>1, <3>2
  <2> HIDE DEF out
  <2> QED BY <1>1, <1>8, <1>10, <2>1, <2>2
<1>11. CASE u.in /\ t # 0 /\ ~k.held /\ ~k.previous
  <2>1. out <=> Delay <= 0
    BY <1>7, <1>11
  <2>2. kernel'.timer = 0
    BY <1>5, <1>7, <1>11
  <2>3. TrueSince = {} /\ TrueSince' = {t} /\ {t} = t .. t
    BY <1>1, <1>2, <1>7, <1>11
  <2>4. DelayedTrue' <=> Delay <= 0
    BY <1>1, <1>4, <1>11, <2>3
  <2> HIDE DEF out
  <2> QED BY <1>1, <1>8, <1>11, <2>1, <2>2, <2>3, <2>4
<1>12. CASE u.in /\ t # 0 /\ ~k.held /\ k.previous
  <2>1. /\ k.timer \in Int /\ k.at \in Int
        /\ TrueSince = t - 1 - (k.timer + (t - 1) - k.at) .. t - 1
    BY <1>1, <1>7, <1>12 DEF DelayKept
  <2>2. waited \in Int /\ TrueSince = t - waited .. t - 1
    BY <1>1, <2>1
  <2>3. out <=> waited >= Delay
    BY <1>7, <1>12
  <2>4. kernel'.timer = waited
    BY <1>5, <1>7, <1>12
  <2> HIDE DEF waited, out
  <2>5. waited >= 1
    BY <1>1, <1>7, <1>12, <2>2
  <2>6. TrueSince' = t - waited .. t /\ t - waited \in TrueSince
    BY <1>1, <1>2, <1>12, <2>2, <2>5
  <2>7. \A s \in TrueSince : s # 0
    BY <1>3, <1>7, <1>12
  <2>8. DelayedTrue' <=> waited >= Delay
    <3>1. \A s \in TrueSince' : s # 0
      BY <1>2, <1>12, <2>7
    <3>2. \A s \in TrueSince' : s \in Int /\ t - s <= waited
      BY <1>1, <2>2, <2>6
    <3>3. t - waited \in TrueSince' /\ t - (t - waited) = waited
      BY <1>1, <1>2, <1>12, <2>2, <2>6
    <3> QED BY <1>1, <1>4, <2>2, <3>1, <3>2, <3>3
  <2>9. TrueSince' # {}
    BY <1>2, <1>12
  <2>10. TrueSince' = t - kernel'.timer .. t /\ kernel'.timer \in Int
    BY <2>2, <2>4, <2>6
  <2> QED BY <1>8, <1>12, <2>3, <2>8, <2>9, <2>10
<1> QED BY <1>7, <1>9, <1>10, <1>11, <1>12

(* A timer: since its entry time, and never if the input was never true.   *)
TimerKept ==
    /\ kernel.initialized \in BOOLEAN /\ kernel.previous \in BOOLEAN /\ kernel.passed \in BOOLEAN
    /\ kernel.initialized <=> time # Never
    /\ kernel.previous <=> TrueSince # {}
    /\ kernel.previous => /\ kernel.entry \in Nat /\ TrueSince = kernel.entry .. time
                          /\ kernel.passed <=> time - kernel.entry >= Threshold
    /\ ~kernel.previous => (kernel.passed <=> Threshold <= 0 /\ \A i \in 0 .. time : ~At(i).in)

LEMMA TimerHistory ==
    ASSUME NEW CONSTANT T, NEW CONSTANT t, NEW CONSTANT u, Lengthens(T, t, u),
           \A v \in T : v.in \in BOOLEAN,
           TimerKept, kernel' = TimerStep(kernel, t, u).mem
    PROVE  TimerStep(kernel, t, u).out = TrueFor' /\ TimerKept'
<1> DEFINE k == kernel
           r == TimerStep(k, t, u)
           elapsed == IF u.in /\ k.initialized /\ k.previous THEN t - k.entry ELSE 0
           passed == IF u.in
                  THEN IF k.previous THEN k.passed \/ elapsed >= Threshold
                                     ELSE Threshold <= 0
                  ELSE k.passed /\ ~k.previous
           quiet == \A i \in 0 .. t - 1 : ~trace[i + 1].in
<1>1. /\ time = t - 1 /\ time' = t /\ t \in Nat /\ t # Never /\ (time = Never <=> t = 0)
      /\ Len(trace) = t /\ Len(trace') = t + 1 /\ u.in \in BOOLEAN /\ Threshold \in Int
      /\ trace'[t + 1] = u
      /\ \A i \in 0 .. t - 1 : trace'[i + 1] = trace[i + 1] /\ trace[i + 1].in \in BOOLEAN
  <2>1. /\ time = t - 1 /\ time' = t /\ t \in Nat /\ t # Never /\ (time = Never <=> t = 0)
        /\ Len(trace) = t /\ Len(trace') = t + 1 /\ u \in T /\ trace'[t + 1] = u
        /\ \A i \in 0 .. t - 1 : trace'[i + 1] = trace[i + 1] /\ trace[i + 1] \in T
    BY Longer
  <2> QED BY <2>1, DelayAssumption
<1>2. /\ TrueSince' = IF u.in THEN TrueSince \cup {t} ELSE {}
      /\ TrueSince \subseteq 0 .. t - 1
      /\ TrueSince # {} => trace[t].in
  BY RunGrows
<1>3. /\ r.out = <<elapsed, passed>> /\ kernel'.initialized = TRUE
      /\ kernel'.previous = u.in /\ kernel'.passed = passed
      /\ kernel'.entry = IF u.in /\ (~k.initialized \/ ~k.previous) THEN t ELSE k.entry
  BY DEF TimerStep, Ran
<1>4. /\ k.initialized \in BOOLEAN /\ k.previous \in BOOLEAN /\ k.passed \in BOOLEAN
      /\ k.initialized <=> t # 0
      /\ k.previous <=> TrueSince # {}
      /\ k.previous => /\ k.entry \in Nat /\ TrueSince = k.entry .. t - 1
                       /\ k.passed <=> t - 1 - k.entry >= Threshold
      /\ ~k.previous => (k.passed <=> Threshold <= 0 /\ quiet)
  BY <1>1 DEF TimerKept, At
<1>5. /\ (\A i \in 0 .. t : ~trace'[i + 1].in) <=> quiet /\ ~u.in
      /\ TrueSince # {} => ~quiet
  <2>1. TrueSince # {} => t # 0 /\ t - 1 \in 0 .. t - 1 /\ trace[(t - 1) + 1].in
    <3> SUFFICES ASSUME NEW s \in TrueSince PROVE t - 1 \in 0 .. t - 1 /\ trace[(t - 1) + 1].in
      BY <1>1
    <3>1. s \in 0 .. t - 1 /\ trace[t].in
      BY <1>2
    <3>2. (t - 1) + 1 = t /\ t - 1 \in 0 .. t - 1
      BY <1>1, <3>1
    <3> QED BY <3>1, <3>2
  <2>2. \A i \in 0 .. t : i = t \/ i \in 0 .. t - 1
    BY <1>1
  <2>3. 0 .. t - 1 \subseteq 0 .. t /\ t \in 0 .. t
    BY <1>1
  <2> QED BY <1>1, <2>1, <2>2, <2>3
<1>6. CASE ~u.in
  <2>1. TrueSince' = {}
    BY <1>2, <1>6
  <2>2. elapsed = 0
    BY <1>6
  <2>3. passed <=> Threshold <= 0 /\ quiet /\ ~u.in
    BY <1>4, <1>5, <1>6
  <2>4. passed \in BOOLEAN
    BY <1>4, <1>6
  <2> HIDE DEF elapsed, passed, quiet, r
  <2>5. TrueFor' = <<0, Threshold <= 0 /\ \A i \in 0 .. t : ~trace'[i + 1].in>>
    BY <1>1, <2>1 DEF TrueFor, Now, At
  <2> DEFINE z == Threshold <= 0 /\ \A i \in 0 .. t : ~trace'[i + 1].in
  <2>6. z \in BOOLEAN /\ (passed <=> z)
    BY <1>5, <2>3
  <2>7. passed = z
    <3> HIDE DEF z
    <3> QED BY <2>4, <2>6
  <2>8. r.out = TrueFor'
    BY <1>3, <2>2, <2>5, <2>7
  <2> HIDE DEF z
  <2>9. /\ kernel'.initialized \in BOOLEAN /\ kernel'.previous \in BOOLEAN /\ kernel'.passed \in BOOLEAN
        /\ kernel'.initialized <=> time' # Never
        /\ kernel'.previous <=> TrueSince' # {}
        /\ ~kernel'.previous
        /\ kernel'.passed <=> Threshold <= 0 /\ \A i \in 0 .. time' : ~trace'[i + 1].in
    BY <1>1, <1>3, <1>5, <1>6, <2>1, <2>3, <2>4
  <2>10. TimerKept'
    BY <2>9 DEF TimerKept, At
  <2> QED BY <2>8, <2>10 DEF r
<1>7. CASE u.in
  <2> DEFINE entry == IF k.previous THEN k.entry ELSE t
             z == t - entry >= Threshold
  <2>1. entry \in Nat /\ entry <= t /\ TrueSince' = entry .. t
    <3>1. CASE k.previous
      <4>1. k.entry \in Nat /\ TrueSince = k.entry .. t - 1 /\ TrueSince # {}
        BY <1>4, <3>1
      <4>2. k.entry <= t - 1
        BY <1>1, <4>1
      <4> QED BY <1>1, <1>2, <1>7, <3>1, <4>1, <4>2
    <3>2. CASE ~k.previous
      BY <1>1, <1>2, <1>4, <1>7, <3>2
    <3> QED BY <1>4, <3>1, <3>2
  <2>2. elapsed = t - entry /\ kernel'.entry = entry
    BY <1>1, <1>2, <1>3, <1>4, <1>7
  <2>3. passed <=> z
    <3>1. CASE k.previous
      <4>1. elapsed = t - k.entry /\ k.entry \in Int
        BY <1>4, <2>2, <3>1
      <4> HIDE DEF elapsed
      <4>2. passed <=> k.passed \/ elapsed >= Threshold
        BY <1>7, <3>1
      <4> HIDE DEF passed
      <4> QED BY <1>1, <1>4, <3>1, <4>1, <4>2
    <3>2. CASE ~k.previous
      BY <1>1, <1>7, <3>2
    <3> QED BY <1>4, <3>1, <3>2
  <2>4. passed \in BOOLEAN /\ z \in BOOLEAN
    BY <1>4, <1>7
  <2> HIDE DEF elapsed, passed, entry, z, r
  <2>5. passed = z
    BY <2>3, <2>4
  <2>6. Min(TrueSince') = entry
    <3>1. entry \in TrueSince' /\ \A i \in TrueSince' : entry <= i /\ i \in Nat
      BY <1>1, <2>1
    <3> QED BY <2>1, <3>1 DEF Min
  <2>7. TrueFor' = <<t - entry, z>>
    <3>1. TrueSince' # {}
      BY <1>2, <1>7
    <3> QED BY <1>1, <2>6, <3>1 DEF TrueFor, Now, z
  <2>8. /\ kernel'.initialized \in BOOLEAN /\ kernel'.previous \in BOOLEAN /\ kernel'.passed \in BOOLEAN
        /\ kernel'.initialized <=> time' # Never
        /\ kernel'.previous <=> TrueSince' # {}
        /\ kernel'.previous
        /\ kernel'.entry \in Nat /\ TrueSince' = kernel'.entry .. time'
        /\ kernel'.passed <=> time' - kernel'.entry >= Threshold
    BY <1>1, <1>2, <1>3, <1>7, <2>1, <2>2, <2>3, <2>4 DEF z
  <2>9. TimerKept'
    BY <2>8 DEF TimerKept
  <2>10. r.out = TrueFor'
    BY <1>3, <2>2, <2>5, <2>7
  <2> QED BY <2>9, <2>10 DEF r
<1> QED BY <1>1, <1>6, <1>7

(* Samplers: the sample is the input at the last boundary.                 *)
SamplerKept ==
    IF time = Never THEN memory = NumericSamplerNew
    ELSE ~memory.new /\ memory.last_index = Index(time) /\ memory.held = Sampled

UnitKept ==
    IF time = Never THEN memory = NumericUnitDelayNew
    ELSE /\ memory \in [new : {FALSE}, held : {SampledBefore}, staged : {Sampled},
                        last_index : {Index(time)}]

(* The last boundary and the one before, after one more instant.           *)
LEMMA SampleGrows ==
    ASSUME NEW CONSTANT T, NEW CONSTANT t, NEW CONSTANT u, Lengthens(T, t, u)
    PROVE  /\ Index(t) \in Nat /\ t = 0 => Index(t) = 0
           /\ t # 0 => Index(t - 1) \in Nat /\ time = t - 1 /\ t - 1 # Never
           /\ t = 0 \/ Index(t) > Index(t - 1) =>
                Sampled' = u.in /\ t = Index(t) * SamplePeriod
           /\ t # 0 /\ ~(Index(t) > Index(t - 1)) =>
                /\ Index(t) = Index(t - 1) /\ Sampled' = Sampled
                /\ SampledBefore' = SampledBefore
           /\ t # 0 /\ Index(t) > Index(t - 1) => SampledBefore' = Sampled
           /\ t = 0 => SampledBefore' = 0
<1>1. /\ time = t - 1 /\ t \in Nat /\ Len(trace) = t /\ Len(trace') = t + 1
      /\ trace'[t + 1] = u /\ \A i \in 0 .. t - 1 : trace'[i + 1] = trace[i + 1]
      /\ t # Never /\ time \in Instants /\ t = time + 1 /\ (time = Never <=> t = 0)
      /\ SamplePeriod \in Nat /\ SamplePeriod > 0
  BY Longer, PeriodAssumption
<1> DEFINE s == t - 1
           P == SamplePeriod
<1>2. /\ Index(t) \in Nat
      /\ t = 0 => Index(t) = 0 /\ t = Index(t) * P
      /\ t # 0 => /\ s \in Nat /\ s # Never /\ Index(s) \in Nat
                  /\ IF Index(t) > Index(s) THEN t = Index(t) * P /\ Index(t) = Index(s) + 1
                     ELSE Index(t) = Index(s) /\ t # Index(t) * P
  BY <1>1, Boundary
<1>3. /\ Sampled' = trace'[Index(t) * P + 1].in
      /\ SampledBefore' = IF t < P THEN 0 ELSE trace'[(Index(t) - 1) * P + 1].in
      /\ Sampled = trace[Index(s) * P + 1].in
      /\ SampledBefore = IF s < P THEN 0 ELSE trace[(Index(s) - 1) * P + 1].in
  BY <1>1 DEF Sampled, SampledBefore, Now, At
<1>4. CASE t = 0
  BY <1>1, <1>2, <1>3, <1>4
<1>5. ASSUME t # 0
      PROVE  /\ Index(s) * P \in 0 .. s
             /\ s >= P => (Index(s) - 1) * P \in 0 .. s
             /\ s >= P <=> Index(s) > 0
             /\ t >= P <=> Index(t) > 0
  <2> DEFINE a == Index(s)
             b == Index(t)
  <2>1. /\ a \in Nat /\ a * P <= s /\ s < a * P + P /\ s \in Nat
        /\ b \in Nat /\ b * P <= t /\ t < b * P + P
    BY <1>1, <1>2, <1>5, Divided
  <2> HIDE DEF a, b, s, P
  <2>2. P \in Nat /\ P > 0
    BY <1>1 DEF P
  <2>3. ASSUME NEW n \in Nat PROVE n * P \in Nat /\ (n > 0 => (n - 1) * P = n * P - P /\ n * P >= P)
    <3>1. n * P \in Nat
      BY <2>2
    <3>2. ASSUME n > 0 PROVE (n - 1) * P = n * P - P /\ n * P >= P
      <4>1. n - 1 \in Nat /\ n = (n - 1) + 1
        BY <3>2
      <4> DEFINE c == n - 1
      <4> HIDE DEF c
      <4>2. c * P \in Nat /\ (c + 1) * P = c * P + P
        BY <2>2, <4>1 DEF c
      <4> QED BY <2>2, <4>1, <4>2 DEF c
    <3> QED BY <3>1, <3>2
  <2>4. a * P \in Nat /\ b * P \in Nat /\ (a > 0 => (a - 1) * P = a * P - P /\ a * P >= P)
        /\ (b > 0 => b * P >= P)
    BY <2>1, <2>3
  <2>5. 0 * P = 0
    BY <2>2
  <2>6. s >= P <=> a > 0
    BY <2>1, <2>2, <2>4, <2>5
  <2>7. t >= P <=> b > 0
    BY <1>1, <2>1, <2>2, <2>4, <2>5
  <2> QED BY <2>1, <2>2, <2>4, <2>6, <2>7 DEF a, b
<1>6. CASE t # 0 /\ ~(Index(t) > Index(s))
  <2>1. Index(t) = Index(s) /\ Index(s) * P \in 0 .. t - 1
        /\ (s >= P => (Index(s) - 1) * P \in 0 .. t - 1) /\ (s >= P <=> t >= P)
    BY <1>2, <1>5, <1>6
  <2> HIDE DEF P
  <2>2. Sampled' = Sampled
    BY <1>1, <1>3, <2>1
  <2>3. SampledBefore' = SampledBefore
    BY <1>1, <1>3, <2>1 DEF P
  <2> QED BY <1>1, <1>2, <1>6, <2>1, <2>2, <2>3
<1>7. CASE t # 0 /\ Index(t) > Index(s)
  <2>1. /\ t = Index(t) * P /\ Index(t) - 1 = Index(s) /\ Index(s) * P \in 0 .. t - 1
        /\ ~(t < P)
    BY <1>1, <1>2, <1>5, <1>7
  <2>2. Sampled' = u.in
    BY <1>1, <1>3, <2>1
  <2>3. SampledBefore' = Sampled
    BY <1>1, <1>3, <2>1
  <2> QED BY <1>1, <1>2, <1>7, <2>1, <2>2, <2>3
<1> QED BY <1>4, <1>6, <1>7

LEMMA SamplerHistory ==
    ASSUME NEW CONSTANT T, NEW CONSTANT t, NEW CONSTANT u, NEW CONSTANT d, Lengthens(T, t, u),
           SamplerKept, memory' = NumericSamplerScan(memory, t, d, u).mem
    PROVE  NumericSamplerScan(memory, t, d, u).out = Sampled' /\ SamplerKept'
<1> DEFINE m == memory
           x == NumericSamplerScan(m, t, d, u)
           due == m.new \/ Index(t) > m.last_index
           held == IF due THEN u.in ELSE m.held
<1>1. time = t - 1 /\ time' = t /\ t # Never /\ (time = Never <=> t = 0)
  BY Longer
<1>2. /\ x.out = held /\ memory'.held = held /\ memory'.new = FALSE
      /\ memory'.last_index = IF due THEN Index(t) ELSE m.last_index
  BY DEF NumericSamplerScan, Shown
<1>3. CASE t = 0 \/ Index(t) > Index(t - 1)
  <2>1. due
    <3>1. CASE t = 0
      BY <1>1, <3>1 DEF SamplerKept, NumericSamplerNew
    <3>2. CASE t # 0
      BY <1>1, <1>3, <3>2 DEF SamplerKept
    <3> QED BY <3>1, <3>2
  <2>2. Sampled' = u.in
    BY <1>3, SampleGrows
  <2> HIDE DEF due, x
  <2>3. x.out = Sampled' /\ SamplerKept'
    BY <1>1, <1>2, <2>1, <2>2 DEF SamplerKept
  <2> QED BY <2>3 DEF x
<1>4. CASE t # 0 /\ ~(Index(t) > Index(t - 1))
  <2>1. ~due /\ m.held = Sampled /\ m.last_index = Index(t - 1)
    BY <1>1, <1>4 DEF SamplerKept
  <2>2. Sampled' = Sampled /\ Index(t) = Index(t - 1)
    BY <1>4, SampleGrows
  <2> HIDE DEF due, x
  <2>3. x.out = Sampled' /\ SamplerKept'
    BY <1>1, <1>2, <2>1, <2>2 DEF SamplerKept
  <2> QED BY <2>3 DEF x
<1> QED BY <1>3, <1>4

LEMMA UnitHistory ==
    ASSUME NEW CONSTANT T, NEW CONSTANT t, NEW CONSTANT u, NEW CONSTANT d, Lengthens(T, t, u),
           UnitKept, memory' = NumericUnitDelayScan(memory, t, d, u).mem
    PROVE  NumericUnitDelayScan(memory, t, d, u).out = SampledBefore' /\ UnitKept'
<1> DEFINE m == memory
           x == NumericUnitDelayScan(m, t, d, u)
<1>1. time = t - 1 /\ time' = t /\ t # Never /\ (time = Never <=> t = 0)
  BY Longer
<1>2. CASE t = 0
  <2>1. m.new = TRUE /\ SampledBefore' = 0 /\ Sampled' = u.in /\ t = Index(t) * SamplePeriod
    BY <1>1, <1>2, SampleGrows DEF UnitKept, NumericUnitDelayNew
  <2>2. x.out = 0 /\ x.mem = [new |-> FALSE, held |-> 0, last_index |-> Index(t), staged |-> u.in]
    BY <2>1 DEF NumericUnitDelayScan, Shown
  <2> QED BY <1>1, <2>1, <2>2 DEF UnitKept
<1>3. CASE t # 0
  <2>1. /\ m.new = FALSE /\ m.held = SampledBefore /\ m.staged = Sampled
        /\ m.last_index = Index(t - 1)
    BY <1>1, <1>3 DEF UnitKept
  <2>2. CASE Index(t) > Index(t - 1)
    <3>1. SampledBefore' = Sampled /\ Sampled' = u.in
      BY <1>3, <2>2, SampleGrows
    <3>2. x.out = m.staged
          /\ x.mem = [new |-> FALSE, held |-> m.staged, staged |-> u.in, last_index |-> Index(t)]
      BY <2>1, <2>2 DEF NumericUnitDelayScan, Shown
    <3> QED BY <1>1, <2>1, <3>1, <3>2 DEF UnitKept
  <2>3. CASE ~(Index(t) > Index(t - 1))
    <3>1. SampledBefore' = SampledBefore /\ Sampled' = Sampled /\ Index(t) = Index(t - 1)
      BY <1>3, <2>3, SampleGrows
    <3>2. x.out = m.held /\ x.mem = m
      BY <2>1, <2>3 DEF NumericUnitDelayScan, Shown
    <3> QED BY <1>1, <1>3, <2>1, <3>1, <3>2 DEF UnitKept
  <2> QED BY <2>2, <2>3
<1> QED BY <1>2, <1>3

(* The latest of some instants. *)
LEMMA LatestOf ==
    ASSUME NEW n \in Int, NEW S \in SUBSET (0 .. n)
    PROVE  IF S = {} THEN Latest(S) = -1
           ELSE Latest(S) \in S /\ \A i \in S : i <= Latest(S)
<1>1. CASE S = {}
  BY <1>1 DEF Latest
<1>2. CASE S # {}
  <2> DEFINE T == {k \in Nat : \A i \in S : i <= k}
  <2>1. n \in T
    <3>1. PICK i \in S : TRUE
      BY <1>2
    <3>2. i \in 0 .. n /\ \A j \in S : j <= n
      OBVIOUS
    <3> QED BY <3>2
  <2>2. PICK m \in T : \A k \in T : m <= k
    <3>1. T \in SUBSET Nat
      OBVIOUS
    <3> HIDE DEF T
    <3> QED BY <2>1, <3>1, Least
  <2>3. m \in S
    <3> SUFFICES ASSUME m \notin S PROVE FALSE
      OBVIOUS
    <3>1. \A i \in S : i <= m - 1 /\ i \in Nat
      BY <2>2
    <3>2. PICK i \in S : i \in Nat /\ i <= m - 1
      BY <1>2, <3>1
    <3>3. m - 1 \in T
      BY <2>2, <3>1, <3>2
    <3> QED BY <2>2, <3>3
  <2>4. \E x \in S : \A y \in S : x >= y
    BY <2>2, <2>3
  <2>5. Latest(S) = CHOOSE x \in S : \A y \in S : x >= y
    BY <1>2 DEF Latest, Max
  <2>6. Latest(S) \in S /\ \A y \in S : Latest(S) >= y
    BY <2>4, <2>5
  <2>7. \A y \in S : y \in Int
    OBVIOUS
  <2> QED BY <1>2, <2>6, <2>7
<1> QED BY <1>1, <1>2

LEMMA LatestAdded ==
    ASSUME NEW n \in Int, NEW S \in SUBSET (0 .. n), NEW t \in Nat, n < t
    PROVE  Latest(S \cup {t}) = t
<1> DEFINE R == S \cup {t}
<1>1. R \in SUBSET (0 .. t) /\ t \in R /\ \A i \in R : i \in Nat /\ (i = t \/ i < t)
  OBVIOUS
<1> HIDE DEF R
<1>2. t \in Int
  OBVIOUS
<1>3. IF R = {} THEN Latest(R) = -1 ELSE Latest(R) \in R /\ \A i \in R : i <= Latest(R)
  BY <1>1, <1>2, LatestOf
<1>4. R # {}
  BY <1>1
<1>5. Latest(R) \in R /\ t <= Latest(R)
  BY <1>1, <1>3, <1>4
<1> DEFINE m == Latest(R)
<1>6. m \in Nat /\ (m = t \/ m < t) /\ t <= m
  BY <1>1, <1>5
<1> HIDE DEF m
<1>7. m = t
  BY <1>6
<1> QED BY <1>7 DEF m, R

(* An integrator holds the integral since the trigger that set it.         *)
Pulses(s, n) == {i \in 0 .. n : s[i + 1].trigger /\ (i = 0 \/ ~s[i].trigger)}
Gathered(s, n) ==
    LET set == Latest(Pulses(s, n))
    IN  Summed(s, Larger(set + 1, 1) .. n) + (IF set < 0 THEN 0 ELSE s[set + 1].reset_value)

IntegratorKept ==
    /\ memory.x = Gathered(trace, time) /\ memory.time = time /\ memory.trigger \in BOOLEAN
    /\ memory.trigger <=> time # Never /\ trace[time + 1].trigger

(* The trace s is z without its last instant t, and holds integers. *)
Numbers(s, z, t, u) ==
    /\ z[t + 1] = u /\ u.in \in Int /\ u.reset_value \in Int
    /\ \A i \in 0 .. t - 1 : /\ z[i + 1] = s[i + 1]
                             /\ s[i + 1].in \in Int /\ s[i + 1].reset_value \in Int

(* The integral starts again at a pulse, and grows by what arrived otherwise. *)
LEMMA GatheredGrows ==
    ASSUME NEW t \in Nat, NEW s, NEW z, NEW u, Numbers(s, z, t, u)
    PROVE  /\ Gathered(z, t - 1) = Gathered(s, t - 1) /\ Gathered(s, t - 1) \in Int
           /\ Gathered(z, t) = IF u.trigger /\ (t = 0 \/ ~s[t].trigger) THEN u.reset_value
                               ELSE Gathered(s, t - 1) + (IF t = 0 THEN 0 ELSE u.in)
<1> DEFINE A == Pulses(s, t - 1)
           set == Latest(A)
           first == Larger(set + 1, 1)
           value == IF set < 0 THEN 0 ELSE s[set + 1].reset_value
<1>0. /\ z[t + 1] = u /\ u.in \in Int /\ u.reset_value \in Int
      /\ \A i \in 0 .. t - 1 : /\ z[i + 1] = s[i + 1]
                               /\ s[i + 1].in \in Int /\ s[i + 1].reset_value \in Int
  BY DEF Numbers
<1>1. Pulses(z, t - 1) = A
  <2>1. \A i \in 0 .. t - 1 : z[i + 1] = s[i + 1] /\ (i # 0 => z[i] = s[i])
    <3>1. \A i \in 0 .. t - 1 : i # 0 => i - 1 \in 0 .. t - 1 /\ (i - 1) + 1 = i
      OBVIOUS
    <3> QED BY <1>0, <3>1
  <2> QED BY <2>1 DEF Pulses
<1>2. A \in SUBSET (0 .. t - 1)
  BY DEF Pulses
<1>3. set = -1 \/ set \in 0 .. t - 1
  <2>1. t - 1 \in Int
    OBVIOUS
  <2> HIDE DEF A
  <2>2. IF A = {} THEN set = -1 ELSE set \in A /\ \A i \in A : i <= set
    BY <1>0, <1>2, <2>1, LatestOf
  <2> QED BY <1>0, <1>2, <2>2
<1> HIDE DEF A
<1>4. first \in Nat /\ first >= 1 /\ (t # 0 => first <= t)
      /\ value \in Int /\ (set >= 0 => z[set + 1] = s[set + 1])
  BY <1>0, <1>3 DEF Larger
<1>5. \A i \in first .. t - 1 : i \in 0 .. t - 1
  BY <1>0, <1>4
<1>6. Summed(s, first .. t - 1) \in Int /\ Summed(z, first .. t - 1) = Summed(s, first .. t - 1)
  <2>1. IsFiniteSet(first .. t - 1)
    BY <1>0, <1>4, FS_Interval
  <2>2. \A i \in first .. t - 1 : s[i + 1].in = z[i + 1].in /\ s[i + 1].in \in Int
    BY <1>0, <1>5
  <2> DEFINE R == first .. t - 1
  <2> HIDE DEF R, first
  <2>3. IsFiniteSet(R) /\ \A i \in R : s[i + 1].in = z[i + 1].in /\ s[i + 1].in \in Int
    BY <2>1, <2>2 DEF R
  <2>4. Summed(s, R) \in Int
    BY <2>3, SummedAny
  <2>5. Summed(s, R) = Summed(z, R)
    BY <2>3, SummedSame
  <2> QED BY <2>4, <2>5 DEF R
<1>7. Gathered(s, t - 1) = Summed(s, first .. t - 1) + value
  BY DEF Gathered, A
<1>8. Gathered(z, t - 1) = Summed(z, first .. t - 1) + value
  BY <1>0, <1>1, <1>3, <1>4 DEF Gathered
<1>9. CASE u.trigger /\ (t = 0 \/ ~s[t].trigger)
  <2>1. Pulses(z, t) = A \cup {t}
    <3>1. \A i \in 0 .. t : i \in 0 .. t - 1 \/ i = t
      OBVIOUS
    <3>2. t # 0 => z[t] = s[t]
      <4>1. t # 0 => t - 1 \in 0 .. t - 1 /\ (t - 1) + 1 = t
        OBVIOUS
      <4> QED BY <1>0, <4>1
    <3> QED BY <1>0, <1>1, <1>9, <3>1, <3>2 DEF Pulses
  <2>2. Latest(A \cup {t}) = t
    <3>1. t - 1 \in Int /\ t - 1 < t
      OBVIOUS
    <3> QED BY <1>0, <1>2, <3>1, LatestAdded
  <2>3. Summed(z, t + 1 .. t) = 0
    BY <1>0, SummedNone
  <2>4. Larger(t + 1, 1) = t + 1
    BY DEF Larger
  <2>5. Gathered(z, t) = 0 + u.reset_value
    BY <1>0, <2>1, <2>2, <2>3, <2>4 DEF Gathered
  <2> HIDE DEF first, value
  <2> QED BY <1>0, <1>4, <1>6, <1>7, <1>8, <1>9, <2>5
<1>10. CASE ~(u.trigger /\ (t = 0 \/ ~s[t].trigger))
  <2>1. Pulses(z, t) = A
    <3>1. \A i \in 0 .. t : i \in 0 .. t - 1 \/ i = t
      OBVIOUS
    <3>2. t # 0 => z[t] = s[t]
      <4>1. t # 0 => t - 1 \in 0 .. t - 1 /\ (t - 1) + 1 = t
        OBVIOUS
      <4> QED BY <1>0, <4>1
    <3> QED BY <1>0, <1>1, <1>10, <3>1, <3>2 DEF Pulses
  <2>2. Gathered(z, t) = Summed(z, first .. t) + value
    BY <1>0, <1>3, <1>4, <2>1 DEF Gathered
  <2>3. Summed(z, first .. t) = Summed(s, first .. t - 1) + (IF t = 0 THEN 0 ELSE u.in)
    <3> HIDE DEF first
    <3>1. CASE t = 0
      <4>1. Summed(z, first .. t) = 0 /\ Summed(s, first .. t - 1) = 0
        BY <1>0, <1>4, <3>1, SummedNone
      <4> QED BY <3>1, <4>1
    <3>2. CASE t # 0
      <4> DEFINE b == t - 1
      <4>1. b \in Int /\ first \in Int /\ first <= b + 1 /\ b + 1 = t /\ b + 2 = t + 1
        BY <1>0, <1>4, <3>2
      <4>2. \A i \in first .. b + 1 : z[i + 1].in \in Int
        BY <1>0, <1>4
      <4> HIDE DEF b
      <4>3. Summed(z, first .. b + 1) = Summed(z, first .. b) + z[b + 2].in
        BY <4>1, <4>2, SummedTo
      <4> QED BY <1>0, <1>6, <3>2, <4>1, <4>3 DEF b
    <3> QED BY <3>1, <3>2
  <2> HIDE DEF first, value
  <2>4. (IF t = 0 THEN 0 ELSE u.in) \in Int
    BY <1>0
  <2> QED BY <1>0, <1>4, <1>6, <1>7, <1>8, <1>10, <2>2, <2>3, <2>4
<1> QED BY <1>0, <1>9, <1>10

(* The definition, over the new trace. *)
LEMMA IntegralIs ==
    ASSUME NEW CONSTANT n \in Int, Len(trace') = n + 2
    PROVE  Integral(Now - 1)' = Gathered(trace', n)
<1>1. Now' - 1 = n
  BY DEF Now
<1>2. {i \in 0 .. n : Rises(Trigger, i)'} = Pulses(trace', n)
  <2>1. \A i \in 0 .. n : (i - 1) + 1 = i
    OBVIOUS
  <2> QED BY <2>1 DEF Rises, Trigger, At, Pulses
<1> QED BY <1>1, <1>2 DEF Integral, Gathered, Total, Summed, At, MapThenSumSet, MapThenFoldSet

LEMMA IntegralHistory ==
    ASSUME NEW CONSTANT T, NEW CONSTANT t, NEW CONSTANT u, NEW CONSTANT d, Lengthens(T, t, u),
           \A v \in T : v.in \in Int /\ v.reset_value \in Int /\ v.trigger \in BOOLEAN,
           IntegratorKept, memory' = IntegratorScan(memory, t, d, u).mem
    PROVE  (IntegratorScan(memory, t, d, u).out = Integral(Now - 1)') /\ IntegratorKept'
<1> DEFINE m == memory
           x == IntegratorScan(m, t, d, u)
<1>1. /\ time = t - 1 /\ time' = t /\ t \in Nat /\ t # Never /\ (time = Never <=> t = 0)
      /\ Len(trace') = t + 1 /\ u \in T /\ trace'[t + 1] = u
      /\ \A i \in 0 .. t - 1 : trace'[i + 1] = trace[i + 1] /\ trace[i + 1] \in T
  BY Longer
<1>2. /\ Gathered(trace', t - 1) = Gathered(trace, t - 1) /\ Gathered(trace, t - 1) \in Int
      /\ Gathered(trace', t) = IF u.trigger /\ (t = 0 \/ ~trace[t].trigger) THEN u.reset_value
                               ELSE Gathered(trace, t - 1) + (IF t = 0 THEN 0 ELSE u.in)
  <2>1. Numbers(trace, trace', t, u)
    BY <1>1 DEF Numbers
  <2> QED BY <1>1, <2>1, GatheredGrows
<1>3. x.out = m.x /\ Integral(Now - 1)' = Gathered(trace', t - 1) /\ m.x = Gathered(trace, t - 1)
  <2>1. t - 1 \in Int /\ Len(trace') = (t - 1) + 2
    BY <1>1
  <2> QED BY <1>1, <2>1, IntegralIs DEF IntegratorScan, Shown, IntegratorKept
<1>4. /\ memory'.time = t /\ memory'.trigger = u.trigger
      /\ memory'.x = IF u.trigger /\ ~m.trigger THEN u.reset_value
                     ELSE m.x + u.in * (IF m.time = Never THEN 0 ELSE t - m.time)
  BY DEF IntegratorScan, Shown
<1>5. memory'.x = Gathered(trace', t)
  <2>1. u.in \in Int
    BY <1>1
  <2>2. u.in * (IF m.time = Never THEN 0 ELSE t - m.time) = IF t = 0 THEN 0 ELSE u.in
    <3>1. CASE t = 0
      BY <1>1, <2>1, <3>1 DEF IntegratorKept
    <3>2. CASE t # 0
      <4>1. m.time # Never /\ t - m.time = 1
        BY <1>1, <3>2 DEF IntegratorKept
      <4> QED BY <2>1, <3>2, <4>1
    <3> QED BY <3>1, <3>2
  <2>3. m.trigger <=> t # 0 /\ trace[t].trigger
    BY <1>1 DEF IntegratorKept
  <2>4. (u.trigger /\ ~m.trigger) <=> u.trigger /\ (t = 0 \/ ~trace[t].trigger)
    BY <2>3
  <2> HIDE DEF m, x
  <2> QED BY <1>2, <1>3, <1>4, <2>2, <2>4
<1>6. IntegratorKept'
  <2>1. u.trigger \in BOOLEAN
    BY <1>1
  <2>2. memory'.trigger <=> time' # Never /\ trace'[time' + 1].trigger
    BY <1>1, <1>4
  <2>3. /\ memory'.x = Gathered(trace', time') /\ memory'.time = time'
        /\ memory'.trigger \in BOOLEAN
    BY <1>1, <1>4, <1>5, <2>1
  <2> QED BY <2>2, <2>3 DEF IntegratorKept
<1> QED BY <1>2, <1>3, <1>6

(* A counter holds the triggers since the last reset, and both inputs.     *)
Turns(s, i) == (s[i + 1].trigger /\ ~s[i].trigger) \/ (s[i + 1].reset /\ ~s[i].reset)
Changes(s, n) == {i \in 1 .. n : Turns(s, i)}
Cleared(s, n) == Latest({i \in Changes(s, n) : s[i + 1].reset})
Counted(s, n) == Cardinality({i \in Changes(s, n) : i > Cleared(s, n)})

CounterKept ==
    /\ memory.count = Counted(trace, time) /\ memory.history \in BOOLEAN
    /\ memory.trigger \in BOOLEAN /\ memory.reset \in BOOLEAN
    /\ memory.history <=> time # Never
    /\ memory.trigger <=> time # Never /\ trace[time + 1].trigger
    /\ memory.reset <=> time # Never /\ trace[time + 1].reset

(* A reset clears the count, and any other pulse adds one to it.           *)
LEMMA CountedGrows ==
    ASSUME NEW t \in Nat, NEW s, NEW z, \A i \in 0 .. t - 1 : z[i + 1] = s[i + 1]
    PROVE  /\ Counted(z, t - 1) = Counted(s, t - 1) /\ Counted(s, t - 1) \in Nat
           /\ Counted(z, t) = IF t # 0 /\ Turns(z, t)
                              THEN IF z[t + 1].reset THEN 0 ELSE Counted(s, t - 1) + 1
                              ELSE Counted(s, t - 1)
<1> DEFINE A == Changes(s, t - 1)
           R == {i \in A : s[i + 1].reset}
           C == {i \in A : i > Latest(R)}
<1>1. \A i \in 1 .. t - 1 : z[i + 1] = s[i + 1] /\ z[i] = s[i]
  <2>1. \A i \in 1 .. t - 1 : i \in 0 .. t - 1 /\ i - 1 \in 0 .. t - 1 /\ (i - 1) + 1 = i
    OBVIOUS
  <2> QED BY <2>1
<1>2. Changes(z, t - 1) = A /\ A \subseteq 1 .. t - 1
  BY <1>1 DEF Changes, Turns
<1>3. {i \in A : z[i + 1].reset} = R /\ R \in SUBSET (0 .. t - 1)
  BY <1>1, <1>2
<1>4. Counted(z, t - 1) = Counted(s, t - 1) /\ Counted(s, t - 1) = Cardinality(C)
  BY <1>2, <1>3 DEF Counted, Cleared
<1>5. IsFiniteSet(C) /\ t \notin C
  <2>1. IsFiniteSet(1 .. t - 1) /\ C \subseteq 1 .. t - 1 /\ t \notin 1 .. t - 1
    BY <1>2, FS_Interval
  <2> HIDE DEF C
  <2> QED BY <2>1, FS_Subset
<1>6. Cardinality(C) \in Nat /\ Cardinality(C \cup {t}) = Cardinality(C) + 1
  <2> HIDE DEF C
  <2> QED BY <1>5, FS_CardinalityType, FS_AddElement
<1>7. Latest(R) = -1 \/ Latest(R) \in 0 .. t - 1
  <2>1. t - 1 \in Int
    OBVIOUS
  <2> HIDE DEF R
  <2>2. IF R = {} THEN Latest(R) = -1 ELSE Latest(R) \in R /\ \A i \in R : i <= Latest(R)
    BY <1>3, <2>1, LatestOf
  <2> QED BY <1>3, <2>2
<1>8. \A i \in 1 .. t : i \in 1 .. t - 1 \/ (i = t /\ t # 0)
  OBVIOUS
<1>9. t # 0 => t \in 1 .. t
  OBVIOUS
<1>10. 1 .. t - 1 \subseteq 1 .. t
  OBVIOUS
<1>11. Changes(z, t) = IF t # 0 /\ Turns(z, t) THEN A \cup {t} ELSE A
  BY <1>2, <1>8, <1>9, <1>10 DEF Changes
<1>12. CASE ~(t # 0 /\ Turns(z, t))
  <2>1. Counted(z, t) = Cardinality(C)
    BY <1>3, <1>11, <1>12 DEF Counted, Cleared
  <2> HIDE DEF C
  <2> QED BY <1>4, <1>6, <1>12, <2>1
<1>13. CASE t # 0 /\ Turns(z, t) /\ z[t + 1].reset
  <2>1. {i \in A \cup {t} : z[i + 1].reset} = R \cup {t}
    BY <1>3, <1>13
  <2>2. Latest(R \cup {t}) = t
    <3>1. t - 1 \in Int /\ t - 1 < t
      OBVIOUS
    <3> HIDE DEF R
    <3> QED BY <1>3, <3>1, LatestAdded
  <2>3. {i \in A \cup {t} : i > t} = {}
    BY <1>2
  <2>4. Changes(z, t) = A \cup {t}
    BY <1>11, <1>13
  <2> HIDE DEF A, R
  <2>5. Counted(z, t) = Cardinality({})
    BY <2>1, <2>2, <2>3, <2>4 DEF Counted, Cleared
  <2> HIDE DEF C
  <2> QED BY <1>4, <1>6, <1>13, <2>5, FS_EmptySet
<1>14. CASE t # 0 /\ Turns(z, t) /\ ~z[t + 1].reset
  <2>1. {i \in A \cup {t} : z[i + 1].reset} = R
    BY <1>3, <1>14
  <2> DEFINE last == Latest(R)
  <2>2. {i \in A \cup {t} : i > last} = C \cup {t}
    <3> HIDE DEF last
    <3>1. t > last
      BY <1>7 DEF last
    <3>2. C = {i \in A : i > last}
      BY DEF last
    <3> HIDE DEF A, C
    <3> QED BY <3>1, <3>2
  <2>3. Changes(z, t) = A \cup {t}
    BY <1>11, <1>14
  <2> HIDE DEF A, R
  <2>4. Counted(z, t) = Cardinality(C \cup {t})
    BY <2>1, <2>2, <2>3 DEF Counted, Cleared
  <2> HIDE DEF C
  <2> QED BY <1>4, <1>6, <1>14, <2>4
<1> QED BY <1>12, <1>13, <1>14

LEMMA CountIs ==
    ASSUME NEW CONSTANT n \in Int, Len(trace') = n + 2
    PROVE  Count(Now - 1)' = Counted(trace', n)
<1>1. Now' - 1 = n
  BY DEF Now
<1>2. {i \in 1 .. n : (Rises(Trigger, i) \/ Rises(Resets, i))'} = Changes(trace', n)
  <2>1. \A i \in 1 .. n : (i - 1) + 1 = i /\ i # 0
    OBVIOUS
  <2> QED BY <2>1 DEF Rises, Trigger, Resets, At, Changes, Turns
<1> QED BY <1>1, <1>2 DEF Count, Counted, Cleared, Resets, At

LEMMA CounterHistory ==
    ASSUME NEW CONSTANT T, NEW CONSTANT t, NEW CONSTANT u, NEW CONSTANT d, Lengthens(T, t, u),
           \A v \in T : v.trigger \in BOOLEAN /\ v.reset \in BOOLEAN,
           CounterKept, memory' = CounterScan(memory, t, d, u).mem
    PROVE  (CounterScan(memory, t, d, u).out = Count(Now - 1)') /\ CounterKept'
<1> DEFINE m == memory
           x == CounterScan(m, t, d, u)
           counts == /\ m.history
                     /\ (u.trigger /\ ~m.trigger) \/ (u.reset /\ ~m.reset)
<1>1. /\ time = t - 1 /\ time' = t /\ t \in Nat /\ t # Never /\ (time = Never <=> t = 0)
      /\ Len(trace') = t + 1 /\ u \in T /\ trace'[t + 1] = u
      /\ \A i \in 0 .. t - 1 : trace'[i + 1] = trace[i + 1] /\ trace[i + 1] \in T
  BY Longer
<1>2. /\ Counted(trace', t - 1) = Counted(trace, t - 1) /\ Counted(trace, t - 1) \in Nat
      /\ Counted(trace', t) = IF t # 0 /\ Turns(trace', t)
                              THEN IF u.reset THEN 0 ELSE Counted(trace, t - 1) + 1
                              ELSE Counted(trace, t - 1)
  BY <1>1, CountedGrows
<1>3. x.out = m.count /\ Count(Now - 1)' = Counted(trace', t - 1)
      /\ m.count = Counted(trace, t - 1)
  <2>1. t - 1 \in Int /\ Len(trace') = (t - 1) + 2
    BY <1>1
  <2> QED BY <1>1, <2>1, CountIs DEF CounterScan, Shown, CounterKept
<1>4. /\ memory'.trigger = u.trigger /\ memory'.reset = u.reset /\ memory'.history = TRUE
      /\ memory'.count = IF counts THEN IF u.reset THEN 0 ELSE m.count + 1 ELSE m.count
  BY DEF CounterScan, Shown
<1>5. counts <=> t # 0 /\ Turns(trace', t)
  <2>1. t # 0 => trace'[t] = trace[t]
    <3>1. t # 0 => t - 1 \in 0 .. t - 1 /\ (t - 1) + 1 = t
      BY <1>1
    <3> QED BY <1>1, <3>1
  <2> QED BY <1>1, <2>1 DEF CounterKept, Turns
<1> HIDE DEF counts
<1>6. memory'.count = Counted(trace', t)
  BY <1>2, <1>3, <1>4, <1>5
<1>7. CounterKept'
  <2>1. u.trigger \in BOOLEAN /\ u.reset \in BOOLEAN
    BY <1>1
  <2>2. /\ memory'.trigger <=> time' # Never /\ trace'[time' + 1].trigger
        /\ memory'.reset <=> time' # Never /\ trace'[time' + 1].reset
        /\ memory'.history <=> time' # Never
    BY <1>1, <1>4
  <2>3. /\ memory'.count = Counted(trace', time') /\ memory'.history \in BOOLEAN
        /\ memory'.trigger \in BOOLEAN /\ memory'.reset \in BOOLEAN
    BY <1>1, <1>4, <1>6, <2>1
  <2> QED BY <2>2, <2>3 DEF CounterKept
<1> QED BY <1>2, <1>3, <1>7

(* A moving average holds the sum of what it saw, and its checkpoints the  *)
(* sums at the instants of the window.                                     *)
Marks(s, n) == {[time |-> i, mu |-> Summed(s, 1 .. i)] : i \in 0 .. n}

MeanKept ==
    IF time = Never THEN kernel = MovingAverageStart
    ELSE /\ kernel.mu = Summed(trace, 1 .. time) /\ kernel.start = 0 /\ kernel.at = time
         /\ Spaced(kernel.points, time) /\ kernel.points \in Seq(Marks(trace, time))

Amounts(s, z, t) ==
    /\ z[t + 1].in \in Int
    /\ \A i \in 0 .. t - 1 : z[i + 1] = s[i + 1] /\ s[i + 1].in \in Int

(* The sums up to the earlier instants stay. *)
LEMMA SumGrows ==
    ASSUME NEW t \in Nat, NEW s, NEW z, Amounts(s, z, t)
    PROVE  /\ \A i \in 0 .. t - 1 : Summed(z, 1 .. i) = Summed(s, 1 .. i)
           /\ \A i \in 0 .. t : Summed(z, 1 .. i) \in Int
           /\ Summed(z, 1 .. t) = IF t = 0 THEN 0 ELSE Summed(s, 1 .. t - 1) + z[t + 1].in
<1> USE DEF Amounts
<1>1. ASSUME NEW i \in 0 .. t - 1 PROVE Summed(z, 1 .. i) = Summed(s, 1 .. i)
  <2>1. \A x \in 1 .. i : s[x + 1].in = z[x + 1].in
    <3>1. 1 .. i \subseteq 0 .. t - 1
      OBVIOUS
    <3> QED BY <3>1
  <2> DEFINE R == 1 .. i
  <2> HIDE DEF R
  <2>2. IsFiniteSet(R)
    BY FS_Interval DEF R
  <2>3. Summed(z, R) = Summed(s, R)
    <3>1. \A x \in R : z[x + 1].in = s[x + 1].in
      BY <2>1 DEF R
    <3> QED BY <2>2, <3>1, SummedSame
  <2> QED BY <2>3 DEF R
<1>2. ASSUME NEW i \in 0 .. t PROVE Summed(z, 1 .. i) \in Int
  <2>1. \A x \in 1 .. i : x = t \/ x \in 0 .. t - 1
    OBVIOUS
  <2>2. \A x \in 1 .. i : z[x + 1].in \in Int
    BY <2>1
  <2> DEFINE R == 1 .. i
  <2> HIDE DEF R
  <2>3. IsFiniteSet(R) /\ \A x \in R : z[x + 1].in \in Int
    BY <2>2, FS_Interval DEF R
  <2>4. Summed(z, R) \in Int
    BY <2>3, SummedAny
  <2> QED BY <2>4 DEF R
<1>3. CASE t = 0
  <2>1. Summed(z, 1 .. t) = 0
    BY <1>3, SummedNone
  <2> QED BY <1>1, <1>2, <1>3, <2>1
<1>4. CASE t # 0
  <2> DEFINE b == t - 1
  <2>1. b \in Int /\ 1 <= b + 1 /\ b + 1 = t /\ b + 2 = t + 1 /\ b \in 0 .. t - 1
    BY <1>4
  <2>2. \A x \in 1 .. b + 1 : z[x + 1].in \in Int
    <3>1. \A x \in 1 .. t : x = t \/ x \in 0 .. t - 1
      OBVIOUS
    <3> QED BY <2>1, <3>1
  <2> DEFINE a == 1
  <2> HIDE DEF a, b
  <2>3. Summed(z, a .. b + 1) = Summed(z, a .. b) + z[b + 2].in
    <3>1. a \in Int /\ a <= b + 1 /\ \A x \in a .. b + 1 : z[x + 1].in \in Int
      BY <2>1, <2>2 DEF a
    <3> QED BY <2>1, <3>1, SummedTo
  <2>4. Summed(z, 1 .. b) = Summed(s, 1 .. b)
    BY <1>1, <2>1
  <2> QED BY <1>1, <1>2, <1>4, <2>1, <2>3, <2>4 DEF a, b
<1> QED BY <1>3, <1>4

(* The sum before the window, from the checkpoints.                        *)
LEMMA MuAtWindow ==
    ASSUME NEW s \in Nat, NEW t, t = s + 1, NEW z, \A i \in 0 .. t : Summed(z, 1 .. i) \in Int,
           NEW p, Spaced(p, s), p \in Seq(Marks(z, t)), NEW mu
    PROVE  /\ MuAt(p, t - Window, t, mu) = Summed(z, 1 .. Larger(t - Window, 0))
           /\ p # <<>> /\ p[1].time = Larger(s - Window, 0)
<1> DEFINE target == t - Window
           later == {i \in 2 .. Len(p) : target <= p[i].time}
           at == CHOOSE j \in later : \A other \in later : j <= other
           before == IF later = {} THEN p[Len(p)] ELSE p[at - 1]
           after == IF later = {} THEN [time |-> t, mu |-> mu] ELSE p[at]
<1>1. /\ t \in Nat /\ Window \in Nat /\ Window > 0 /\ t - s = 1
      /\ p \in Seq(Checkpoint) /\ Len(p) = Smaller(s, Window) + 1
      /\ \A i \in 1 .. Len(p) : p[i].time = s - Len(p) + i
  BY PeriodAssumption DEF Spaced
<1>2. \A i \in 1 .. Len(p) : p[i].mu = Summed(z, 1 .. p[i].time)
  <2> SUFFICES ASSUME NEW i \in 1 .. Len(p) PROVE p[i].mu = Summed(z, 1 .. p[i].time)
    OBVIOUS
  <2>1. p[i] \in Marks(z, t)
    BY ElementOfSeq
  <2>2. PICK n \in 0 .. t : p[i] = [time |-> n, mu |-> Summed(z, 1 .. n)]
    BY <2>1 DEF Marks
  <2> QED BY <2>2
<1>3. p # <<>>
  <2>1. Len(p) # 0
    BY <1>1 DEF Smaller
  <2> QED BY <2>1
<1>4. MuAt(p, target, t, mu) =
          IF target <= p[1].time THEN p[1].mu
          ELSE IF after.time = before.time THEN after.mu
          ELSE before.mu + ((after.mu - before.mu) * (target - before.time))
                             \div (after.time - before.time)
  BY <1>3, Zenon DEF MuAt
<1>5. CASE s < Window
  <2>1. Len(p) = s + 1 /\ 1 \in 1 .. Len(p)
    BY <1>1, <1>5 DEF Smaller
  <2>2. p[1].time = 0 /\ target <= 0 /\ target \in Int
    <3>1. p[1].time = s - Len(p) + 1
      BY <1>1, <2>1
    <3>2. s - (s + 1) + 1 = 0 /\ target <= 0 /\ target \in Int
      BY <1>1, <1>5
    <3> QED BY <2>1, <3>1, <3>2
  <2>3. Larger(target, 0) = 0 /\ Larger(s - Window, 0) = 0
    BY <1>1, <1>5, <2>2 DEF Larger
  <2>4. p[1].mu = Summed(z, 1 .. 0)
    BY <1>2, <2>1, <2>2
  <2> HIDE DEF target, before, after
  <2>5. MuAt(p, target, t, mu) = Summed(z, 1 .. Larger(target, 0))
    BY <1>4, <2>2, <2>3, <2>4
  <2> QED BY <1>3, <2>2, <2>3, <2>5 DEF target
<1>6. CASE ~(s < Window)
  <2>1. Len(p) = Window + 1 /\ target \in Nat /\ target \in 0 .. t /\ target - 1 \in 0 .. t
    BY <1>1, <1>6 DEF Smaller
  <2>2. \A i \in 1 .. Len(p) : p[i].time = target - 2 + i
    <3>1. s - (Window + 1) = target - 2 /\ target - 2 \in Int
      BY <1>1
    <3>2. \A i \in 1 .. Len(p) : p[i].time = (s - (Window + 1)) + i
      BY <1>1, <2>1
    <3> HIDE DEF target
    <3> QED BY <3>1, <3>2
  <2>3. 1 \in 1 .. Len(p) /\ 2 \in 2 .. Len(p) /\ 2 \in 1 .. Len(p)
    BY <1>1, <2>1
  <2>4. p[1].time = target - 1 /\ p[2].time = target
    BY <2>1, <2>2, <2>3
  <2>5. p[1].mu = Summed(z, 1 .. target - 1) /\ p[2].mu = Summed(z, 1 .. target)
    BY <1>2, <2>3, <2>4
  <2>6. p[1].mu \in Int /\ p[2].mu \in Int
    BY <2>1, <2>5
  <2>7. Larger(target, 0) = target /\ Larger(s - Window, 0) = target - 1
    BY <1>1, <1>6, <2>1 DEF Larger
  <2>8. 2 \in later /\ \A i \in later : 2 <= i /\ i \in Nat
    BY <2>3, <2>4, <2>1
  <2> HIDE DEF target, later
  <2>9. at = 2
    <3>1. at \in later /\ \A other \in later : at <= other
      BY <2>8
    <3> HIDE DEF at
    <3> QED BY <2>8, <3>1
  <2>10. before = p[1] /\ after = p[2]
    BY <2>8, <2>9
  <2> HIDE DEF before, after, at
  <2>11. MuAt(p, target, t, mu) =
            p[1].mu + ((p[2].mu - p[1].mu) * (target - (target - 1))) \div (target - (target - 1))
    BY <1>4, <2>1, <2>4, <2>10
  <2>12. target - (target - 1) = 1
    BY <2>1
  <2>13. \A x, y \in Int : x + ((y - x) * 1) \div 1 = y
    OBVIOUS
  <2>14. MuAt(p, target, t, mu) = p[2].mu
    BY <2>6, <2>11, <2>12, <2>13
  <2>15. MuAt(p, target, t, mu) = Summed(z, 1 .. Larger(target, 0))
    BY <2>5, <2>7, <2>14
  <2> QED BY <1>3, <2>4, <2>7, <2>15 DEF target
<1> QED BY <1>5, <1>6

LEMMA WindowIs ==
    ASSUME NEW CONSTANT n \in Int, Len(trace') = n + 1
    PROVE  WindowMean' = Mean(Summed(trace', Larger(n - Window, 0) + 1 .. n),
                              n - Larger(n - Window, 0), n >= Window)
<1>1. Now' = n
  BY DEF Now
<1> QED BY <1>1 DEF WindowMean, Total, Summed, At, MapThenSumSet, MapThenFoldSet

LEMMA MeanHistory ==
    ASSUME NEW CONSTANT T, NEW CONSTANT t, NEW CONSTANT u, Lengthens(T, t, u),
           \A v \in T : v.in \in Int,
           MeanKept, kernel' = MovingAverageStep(kernel, t, u).mem
    PROVE  (MovingAverageStep(kernel, t, u).out = WindowMean') /\ MeanKept'
<1> DEFINE k == kernel
           r == MovingAverageStep(k, t, u)
           z == trace'
           first == Larger(t - Window, 0)
           p == IF t = 0 THEN <<>> ELSE k.points
           mu == Summed(z, 1 .. t)
           target == t - Window
           low == Larger(Larger(target, IF p = <<>> THEN 0 ELSE p[1].time), 0)
           full == t >= 0 + Window
           points == Stored(Pruned(p, target), [time |-> t, mu |-> mu])
<1>1. /\ time = t - 1 /\ time' = t /\ t \in Nat /\ t # Never /\ (time = Never <=> t = 0)
      /\ Len(trace') = t + 1 /\ u \in T /\ trace'[t + 1] = u /\ u.in \in Int
      /\ time \in Instants /\ t = time + 1
      /\ \A i \in 0 .. t - 1 : trace'[i + 1] = trace[i + 1] /\ trace[i + 1] \in T
  BY Longer
<1>2. /\ \A i \in 0 .. t - 1 : Summed(z, 1 .. i) = Summed(trace, 1 .. i)
      /\ \A i \in 0 .. t : Summed(z, 1 .. i) \in Int
      /\ Summed(z, 1 .. t) = IF t = 0 THEN 0 ELSE Summed(trace, 1 .. t - 1) + u.in
  <2>1. Amounts(trace, z, t)
    BY <1>1 DEF Amounts
  <2> QED BY <1>1, <2>1, SumGrows
<1>3. /\ mu \in Int /\ Window \in Nat /\ Window > 0
      /\ first \in 0 .. t
  BY <1>1, <1>2, PeriodAssumption DEF Larger
<1>4. /\ k.points = p
      /\ (IF k.at = Never THEN t ELSE k.start) = 0
      /\ k.mu + (IF k.at = Never THEN 0 ELSE u.in * (t - k.at)) = mu
      /\ IF time = Never THEN p = <<>> ELSE Spaced(p, time) /\ p \in Seq(Marks(trace, time))
  <2>1. CASE t = 0
    BY <1>1, <1>2, <2>1 DEF MeanKept, MovingAverageStart
  <2>2. CASE t # 0
    <3>1. /\ k.mu = Summed(trace, 1 .. t - 1) /\ k.at = t - 1 /\ k.start = 0
          /\ Spaced(k.points, time) /\ k.points \in Seq(Marks(trace, time))
      BY <1>1, <2>2 DEF MeanKept
    <3>2. t - 1 # Never /\ u.in * (t - (t - 1)) = u.in
      <4>1. t - 1 # Never /\ t - (t - 1) = 1
        BY <1>1, <2>2
      <4>2. u.in \in Int
        BY <1>1
      <4>3. \A i \in Int : i * 1 = i
        OBVIOUS
      <4> QED BY <4>1, <4>2, <4>3
    <3> QED BY <1>1, <1>2, <2>2, <3>1, <3>2
  <2> QED BY <2>1, <2>2
<1>5. r.out = Mean(mu - MuAt(p, target, t, mu), IF full THEN t - low ELSE t - 0, full)
      /\ r.mem = [mu |-> mu, start |-> 0, at |-> t, points |-> points]
  <2> HIDE DEF mu, p
  <2> QED BY <1>4, Zenon DEF MovingAverageStep, Ran
<1> DEFINE C == Marks(z, t)
<1>6. C \in SUBSET Checkpoint /\ [time |-> t, mu |-> mu] \in C /\ p \in Seq(C)
  <2>1. C \in SUBSET Checkpoint /\ [time |-> t, mu |-> mu] \in C
    BY <1>1, <1>2 DEF Marks, Checkpoint
  <2>2. CASE t = 0
    <3>1. p = <<>>
      BY <2>2
    <3> HIDE DEF C, p
    <3> QED BY <2>1, <3>1, EmptySeq
  <2>3. CASE t # 0
    <3>1. Marks(trace, time) \subseteq C
      <4>1. 0 .. t - 1 \subseteq 0 .. t
        BY <1>1
      <4> QED BY <1>1, <1>2, <4>1 DEF Marks
    <3>2. p \in Seq(Marks(trace, time))
      BY <1>1, <1>4, <2>3
    <3> HIDE DEF C, p
    <3> QED BY <2>1, <3>1, <3>2, SeqMonotonic
  <2> QED BY <2>1, <2>2, <2>3
<1>7. Spaced(points, t) /\ points \in Seq(C)
  <2> HIDE DEF C, mu, p
  <2>1. IF time = Never THEN p = <<>> ELSE Spaced(p, time)
    BY <1>4
  <2> DEFINE s == time
  <2> QED BY <1>1, <1>3, <1>6, <2>1, WindowKept
<1>8. MeanKept'
  <2> HIDE DEF points, C, mu
  <2>1. /\ kernel'.mu = mu /\ kernel'.start = 0 /\ kernel'.at = t /\ kernel'.points = points
    BY <1>5 DEF r
  <2> QED BY <1>1, <1>7, <2>1 DEF MeanKept, C, mu
<1>9. MuAt(p, target, t, mu) = Summed(z, 1 .. first)
      /\ (IF full THEN t - low ELSE t - 0) = t - first
  <2>1. CASE t = 0
    <3>1. p = <<>> /\ mu = 0 /\ first = 0 /\ ~full
      BY <1>2, <1>3, <2>1 DEF Larger
    <3>2. Summed(z, 1 .. 0) = mu
      BY <2>1
    <3>3. MuAt(p, target, t, mu) = mu
      <4> HIDE DEF p, target, mu
      <4> QED BY <3>1, Zenon DEF MuAt
    <3> HIDE DEF p, z, target, first, full, low, mu
    <3>4. MuAt(p, target, t, mu) = Summed(z, 1 .. first)
      BY <3>1, <3>2, <3>3
    <3>5. (IF full THEN t - low ELSE t - 0) = t - first
      BY <2>1, <3>1
    <3> QED BY <3>4, <3>5
  <2>2. CASE t # 0
    <3> DEFINE s == t - 1
    <3>1. s \in Nat /\ t = s + 1 /\ s = time /\ Spaced(p, s)
      BY <1>1, <1>4, <2>2
    <3> HIDE DEF s, p, mu
    <3>2. /\ MuAt(p, target, t, mu) = Summed(z, 1 .. first)
          /\ p # <<>> /\ p[1].time = Larger(s - Window, 0)
      <4> HIDE DEF z
      <4>1. /\ \A i \in 0 .. t : Summed(z, 1 .. i) \in Int
            /\ Spaced(p, s) /\ p \in Seq(Marks(z, t)) /\ s \in Nat /\ t = s + 1
        BY <1>2, <1>6, <3>1 DEF C
      <4>2. /\ MuAt(p, t - Window, t, mu) = Summed(z, 1 .. Larger(t - Window, 0))
            /\ p # <<>> /\ p[1].time = Larger(s - Window, 0)
        <5> HIDE DEF C, low, full, first, target, points, r, k
        <5> QED BY <4>1, MuAtWindow
      <4> QED BY <4>2
    <3>3. (IF full THEN t - low ELSE t - 0) = t - first
      <4>1. low = Larger(Larger(t - Window, Larger(s - Window, 0)), 0)
        BY <3>2
      <4>2. /\ t \in Nat /\ s \in Nat /\ t = s + 1
            /\ Window \in Nat /\ Window > 0
        BY <1>1, <1>3, <3>1
      <4> HIDE DEF low, z, C
      <4> QED BY <4>1, <4>2 DEF Larger
    <3> QED BY <3>2, <3>3
  <2> QED BY <2>1, <2>2
<1>10. mu - Summed(z, 1 .. first) = Summed(z, first + 1 .. t)
  <2>1. \A x \in 1 .. t : z[x + 1].in \in Int
    <3>1. \A x \in 1 .. t : x = t \/ x \in 0 .. t - 1
      BY <1>1
    <3> QED BY <1>1, <3>1
  <2>2. mu = Summed(z, 1 .. first) + Summed(z, first + 1 .. t)
    <3>1. first \in Nat /\ t \in Nat /\ first <= t
      BY <1>1, <1>3
    <3> HIDE DEF z, first
    <3> QED BY <2>1, <3>1, SummedParts
  <2>3. Summed(z, first + 1 .. t) \in Int
    <3> DEFINE R == first + 1 .. t
    <3>1. IsFiniteSet(R) /\ \A x \in R : z[x + 1].in \in Int
      <4>1. R \subseteq 1 .. t
        BY <1>1, <1>3
      <4>2. IsFiniteSet(R)
        BY <1>1, <1>3, FS_Interval
      <4> QED BY <2>1, <4>1, <4>2
    <3> HIDE DEF R, z
    <3>2. Summed(z, R) \in Int
      BY <3>1, SummedAny
    <3> QED BY <3>2 DEF R
  <2>4. Summed(z, 1 .. first) \in Int
    BY <1>2, <1>3
  <2> HIDE DEF mu, z, first
  <2> QED BY <2>2, <2>3, <2>4
<1>11. WindowMean' = Mean(Summed(z, first + 1 .. t), t - first, t >= Window)
  <2>1. t \in Int /\ Len(trace') = t + 1
    BY <1>1
  <2> QED BY <2>1, WindowIs
<1>12. full = (t >= Window)
  <2>1. 0 + Window = Window
    BY <1>3
  <2> QED BY <2>1
<1>13. r.out = WindowMean'
  <2> HIDE DEF mu, z, p, first, full, low, r, target
  <2> QED BY <1>5, <1>9, <1>10, <1>11, <1>12
<1> QED BY <1>8, <1>13

-----------------------------------------------------------------------------
(* MeetsDefinition: the history of each kind, in the program of a kernel   *)
(* that runs once in an instant, and in the block of the interpreter where *)
(* the program runs twice, which shows the same (Agree).                   *)
Once == {"true_delay", "timer", "moving_average"}

History ==
    IF feed = "blocks" /\ kind \in Defined
    THEN /\ trace \in Seq(Input(kind)) /\ Len(trace) = time + 1
         /\ kind = "true_delay" => DelayKept
         /\ kind = "timer" => TimerKept
         /\ kind = "sampler" => SamplerKept
         /\ kind = "unit_delay" => UnitKept
         /\ kind = "integrator" => IntegratorKept
         /\ kind = "on_counter" => CounterKept
         /\ kind = "moving_average" => MeanKept
    ELSE trace = <<>>

(* What an instant shows is what the definition makes of the new trace.    *)
Meets(out) ==
    /\ kind = "true_delay" => (out = DelayedTrue')
    /\ kind = "timer" => (out = TrueFor')
    /\ kind = "sampler" => (out = Sampled')
    /\ kind = "unit_delay" => (out = SampledBefore')
    /\ kind = "integrator" => (out = Integral(Now - 1)')
    /\ kind = "on_counter" => (out = Count(Now - 1)')
    /\ kind = "moving_average" => (out = WindowMean')

Evaluated(t, d, w, u) ==
    /\ t \in Nat /\ t = time + 1 /\ time' = t /\ u \in Input(kind)
    /\ trace' = Append(trace, u)
    /\ UNCHANGED <<kind, feed>>
    /\ kernel' = Instant(kind, kernel, t, w, u).mem
    /\ memory' = BlockScan(kind, memory, t, d, u).mem

LEMMA Reckons ==
    ASSUME IInv, History, feed = "blocks", kind \in Defined,
           NEW CONSTANT t, NEW CONSTANT d, NEW CONSTANT w, NEW CONSTANT u, Evaluated(t, d, w, u)
    PROVE  /\ History'
           /\ Meets(IF kind \in Once THEN Instant(kind, kernel, t, w, u).out
                                     ELSE BlockScan(kind, memory, t, d, u).out)
<1> DEFINE r == Instant(kind, kernel, t, w, u)
           x == BlockScan(kind, memory, t, d, u)
           out == IF kind \in Once THEN r.out ELSE x.out
<1>1. PICK T : T = Input(kind)
  OBVIOUS
<1>2. Lengthens(T, t, u)
  <2>1. t \in Nat /\ time = t - 1 /\ time + 1 = t
    BY DEF Evaluated, IInv, Shape, Never
  <2> QED BY <1>1, <2>1 DEF Evaluated, History, Lengthens
<1>3. \A v \in T : v \in Ports(kind)
  <2>1. kind \in Kind
    BY DEF IInv, Shape
  <2> QED BY <1>1, <2>1, InputAssumption
<1>4. /\ kind' = kind /\ feed' = feed /\ kernel' = r.mem /\ memory' = x.mem
      /\ trace' \in Seq(Input(kind)) /\ Len(trace') = time' + 1
  BY <1>1, <1>2, AppendProperties DEF Evaluated, Lengthens
<1> HIDE DEF out
<1>5. CASE kind = "true_delay"
  <2>1. r = TrueDelayStep(kernel, t, u) /\ out = r.out
    BY <1>5 DEF Instant, KernelStep, Resampled, Once, out
  <2>2. \A v \in T : v.in \in BOOLEAN
    BY <1>3, <1>5 DEF Ports
  <2>3. kernel' = TrueDelayStep(kernel, t, u).mem /\ DelayKept
    BY <1>4, <1>5, <2>1 DEF History
  <2> HIDE DEF r, x
  <2>4. (out = DelayedTrue') /\ DelayKept'
    BY <1>2, <2>1, <2>2, <2>3, DelayHistory
  <2> QED BY <1>4, <1>5, <2>4 DEF History, Meets, r, x, out
<1>6. CASE kind = "timer"
  <2>1. r = TimerStep(kernel, t, u) /\ out = r.out
    BY <1>6 DEF Instant, KernelStep, Resampled, Once, out
  <2>2. \A v \in T : v.in \in BOOLEAN
    BY <1>3, <1>6 DEF Ports
  <2>3. kernel' = TimerStep(kernel, t, u).mem /\ TimerKept
    BY <1>4, <1>6, <2>1 DEF History
  <2> HIDE DEF r, x
  <2>4. (out = TrueFor') /\ TimerKept'
    BY <1>2, <2>1, <2>2, <2>3, TimerHistory
  <2> QED BY <1>4, <1>6, <2>4 DEF History, Meets, r, x, out
<1>7. CASE kind = "sampler"
  <2>1. x = NumericSamplerScan(memory, t, d, u) /\ out = x.out
    BY <1>7 DEF BlockScan, Once, out
  <2>2. memory' = NumericSamplerScan(memory, t, d, u).mem /\ SamplerKept
    BY <1>4, <1>7, <2>1 DEF History
  <2> HIDE DEF r, x
  <2>3. (out = Sampled') /\ SamplerKept'
    BY <1>2, <2>1, <2>2, SamplerHistory
  <2> QED BY <1>4, <1>7, <2>3 DEF History, Meets, r, x, out
<1>8. CASE kind = "unit_delay"
  <2>1. x = NumericUnitDelayScan(memory, t, d, u) /\ out = x.out
    BY <1>8 DEF BlockScan, Once, out
  <2>2. memory' = NumericUnitDelayScan(memory, t, d, u).mem /\ UnitKept
    BY <1>4, <1>8, <2>1 DEF History
  <2> HIDE DEF r, x
  <2>3. (out = SampledBefore') /\ UnitKept'
    BY <1>2, <2>1, <2>2, UnitHistory
  <2> QED BY <1>4, <1>8, <2>3 DEF History, Meets, r, x, out
<1>9. CASE kind = "integrator"
  <2>1. x = IntegratorScan(memory, t, d, u) /\ out = x.out
    BY <1>9 DEF BlockScan, Once, out
  <2>2. \A v \in T : v.in \in Int /\ v.reset_value \in Int /\ v.trigger \in BOOLEAN
    BY <1>3, <1>9 DEF Ports
  <2>3. memory' = IntegratorScan(memory, t, d, u).mem /\ IntegratorKept
    BY <1>4, <1>9, <2>1 DEF History
  <2> HIDE DEF r, x
  <2>4. (out = Integral(Now - 1)') /\ IntegratorKept'
    BY <1>2, <2>1, <2>2, <2>3, IntegralHistory
  <2> QED BY <1>4, <1>9, <2>4 DEF History, Meets, r, x, out
<1>10. CASE kind = "on_counter"
  <2>1. x = CounterScan(memory, t, d, u) /\ out = x.out
    BY <1>10 DEF BlockScan, Once, out
  <2>2. \A v \in T : v.trigger \in BOOLEAN /\ v.reset \in BOOLEAN
    BY <1>3, <1>10 DEF Ports
  <2>3. memory' = CounterScan(memory, t, d, u).mem /\ CounterKept
    BY <1>4, <1>10, <2>1 DEF History
  <2> HIDE DEF r, x
  <2>4. (out = Count(Now - 1)') /\ CounterKept'
    BY <1>2, <2>1, <2>2, <2>3, CounterHistory
  <2> QED BY <1>4, <1>10, <2>4 DEF History, Meets, r, x, out
<1>11. CASE kind = "moving_average"
  <2>1. r = MovingAverageStep(kernel, t, u) /\ out = r.out
    BY <1>11 DEF Instant, KernelStep, Resampled, Once, out
  <2>2. \A v \in T : v.in \in Int
    BY <1>3, <1>11 DEF Ports
  <2>3. kernel' = MovingAverageStep(kernel, t, u).mem /\ MeanKept
    BY <1>4, <1>11, <2>1 DEF History
  <2> HIDE DEF r, x
  <2>4. (out = WindowMean') /\ MeanKept'
    BY <1>2, <2>1, <2>2, <2>3, MeanHistory
  <2> QED BY <1>4, <1>11, <2>4 DEF History, Meets, r, x, out
<1> QED BY <1>5, <1>6, <1>7, <1>8, <1>9, <1>10, <1>11 DEF Defined, out

(* A moving average needs no other engine, and no bound on its window.     *)
MeetInv ==
    /\ Fed /\ (kind # "moving_average" => Same /\ Agree)
    /\ History /\ MeetsDefinition

LEMMA InitMeet == Init => MeetInv
<1> SUFFICES ASSUME Init PROVE MeetInv
  OBVIOUS
<1>1. AgreeInv
  BY InitAgree
<1>2. /\ time = Never /\ Len(trace) = time + 1 /\ trace \in Seq(Input(kind))
      /\ kernel = KernelStart(kind) /\ memory = BlockNew(kind)
      /\ trace = <<>> /\ samples = <<>>
  BY EmptySeq DEF Init, Never
<1>3. kind = "true_delay" => DelayKept
  <2> SUFFICES ASSUME kind = "true_delay" PROVE DelayKept
    OBVIOUS
  <2>1. kernel = TrueDelayStart
    BY <1>2 DEF KernelStart
  <2>2. TrueSince = {} /\ ~DelayedTrue
    BY <1>2 DEF TrueSince, Now, DelayedTrue, Never
  <2>3. kernel.initialized = FALSE /\ kernel.held = FALSE /\ kernel.previous = FALSE
    BY <2>1 DEF TrueDelayStart
  <2> QED BY <1>2, <2>2, <2>3, Zenon DEF DelayKept
<1>4. kind = "timer" => TimerKept
  <2> SUFFICES ASSUME kind = "timer" PROVE TimerKept
    OBVIOUS
  <2>1. kernel = TimerStart
    BY <1>2 DEF KernelStart
  <2>2. TrueSince = {} /\ 0 .. time = {}
    BY <1>2 DEF TrueSince, Now, Never
  <2>3. kernel.passed = (Threshold <= 0) /\ ~kernel.previous /\ kernel.previous = FALSE
        /\ kernel.initialized = FALSE
    BY <2>1 DEF TimerStart
  <2>4. kernel.passed \in BOOLEAN /\ (kernel.passed <=> Threshold <= 0)
    <3>1. (Threshold <= 0) \in BOOLEAN
      OBVIOUS
    <3> QED BY <2>3, <3>1, Zenon
  <2>5. kernel.passed <=> Threshold <= 0 /\ \A i \in 0 .. time : ~At(i).in
    BY <2>2, <2>4
  <2> QED BY <1>2, <2>2, <2>3, <2>4, <2>5, Zenon DEF TimerKept
<1>5. kind = "sampler" => SamplerKept
  BY <1>2 DEF BlockNew, SamplerKept
<1>6. kind = "unit_delay" => UnitKept
  BY <1>2 DEF BlockNew, UnitKept
<1>7. kind = "integrator" => IntegratorKept
  <2> SUFFICES ASSUME kind = "integrator" PROVE IntegratorKept
    OBVIOUS
  <2>1. memory = IntegratorNew
    BY <1>2 DEF BlockNew
  <2>2. Pulses(trace, time) = {} /\ Latest({}) = -1
    BY <1>2 DEF Pulses, Latest, Never
  <2>3. Summed(trace, Larger(-1 + 1, 1) .. time) = 0
    <3>1. Larger(-1 + 1, 1) \in Int /\ time \in Int /\ time < Larger(-1 + 1, 1)
      BY <1>2 DEF Larger, Never
    <3> QED BY <3>1, SummedNone
  <2>4. Gathered(trace, time) = 0
    BY <2>2, <2>3 DEF Gathered
  <2>5. memory.x = 0 /\ memory.time = Never /\ memory.trigger = FALSE
    BY <2>1 DEF IntegratorNew
  <2> QED BY <1>2, <2>4, <2>5, Zenon DEF IntegratorKept
<1>8. kind = "on_counter" => CounterKept
  <2> SUFFICES ASSUME kind = "on_counter" PROVE CounterKept
    OBVIOUS
  <2>1. memory = CounterNew
    BY <1>2 DEF BlockNew
  <2>2. Changes(trace, time) = {}
    BY <1>2 DEF Changes, Never
  <2>3. Counted(trace, time) = 0
    BY <2>2, FS_EmptySet DEF Counted
  <2>4. /\ memory.count = 0 /\ memory.history = FALSE
        /\ memory.trigger = FALSE /\ memory.reset = FALSE
    BY <2>1 DEF CounterNew
  <2> QED BY <1>2, <2>3, <2>4, Zenon DEF CounterKept
<1>9. kind = "moving_average" => MeanKept
  BY <1>2 DEF KernelStart, MeanKept
<1>10. History
  BY <1>2, <1>3, <1>4, <1>5, <1>6, <1>7, <1>8, <1>9 DEF History
<1>11. MeetsDefinition
  BY <1>2 DEF MeetsDefinition
<1> QED BY <1>1, <1>10, <1>11 DEF MeetInv, AgreeInv

LEMMA AgreeBeside ==
    ASSUME IInv, MeetInv, [Next]_vars
    PROVE  Fed' /\ (kind' # "moving_average" => Same' /\ Agree')
<1>1. kind' = kind
  BY DEF Next, Start, Phase, Scan, vars
<1>2. CASE kind # "moving_average"
  <2>1. Averaging /\ AgreeInv
    BY <1>2 DEF Averaging, MeetInv, AgreeInv
  <2> QED BY <2>1, AgreeStep DEF AgreeInv
<1>3. CASE kind = "moving_average"
  BY <1>1, <1>3 DEF MeetInv, Fed, Compared, Clocked, Next, Start, Phase, Scan, vars
<1> QED BY <1>1, <1>2, <1>3

LEMMA MeetStart ==
    ASSUME IInv, MeetInv, Start
    PROVE  History' /\ MeetsDefinition'
<1>1. /\ UNCHANGED <<kind, feed, samples>> /\ samples = <<>> /\ trace' = Traced(input)
      /\ input \in Input(kind) /\ time = Never /\ time' = 0 /\ 0 = time + 1
  BY DEF Start, IInv, Shape, Started, MeetInv, Fed, Never
<1>2. PICK w : feed = "blocks" => kernel' = Instant(kind, kernel, 0, w, input).mem
  BY Delivers DEF Start
<1>3. memory' = BlockScan(kind, memory, 0, 0, input).mem
  BY DEF Start
<1>4. MeetsDefinition'
  BY <1>1 DEF MeetsDefinition
<1>5. CASE feed = "blocks" /\ kind \in Defined
  <2>1. Evaluated(0, 0, w, input)
    BY <1>1, <1>2, <1>3, <1>5 DEF Evaluated, Traced
  <2> QED BY <1>4, <1>5, <2>1, Reckons DEF MeetInv
<1>6. CASE ~(feed = "blocks" /\ kind \in Defined)
  BY <1>1, <1>4, <1>6 DEF MeetInv, History, Traced
<1> QED BY <1>5, <1>6

LEMMA MeetScan ==
    ASSUME IInv, MeetInv, NEW u \in Input(kind), Scan(u), kind' # "moving_average" => Agree'
    PROVE  History' /\ MeetsDefinition'
<1>1. /\ UNCHANGED <<kind, ticks, feed>> /\ trace' = Traced(u) /\ time # Never
      /\ time' = time + ticks
  BY DEF Scan
<1>2. CASE ~(feed = "blocks" /\ kind \in Defined)
  <2>1. trace' = <<>> /\ History'
    BY <1>1, <1>2 DEF MeetInv, History, Traced
  <2> QED BY <2>1 DEF MeetsDefinition
<1>3. CASE feed = "blocks" /\ kind \in Defined
  <2>1. ticks = 1 /\ time + 1 \in Nat
    BY <1>1, <1>3 DEF MeetInv, Fed, Compared, IInv, Shape
  <2> DEFINE x == BlockScan(kind, memory, time + 1, 1, u)
  <2>2. PICK w :
           /\ kernel' = Advanced(w, u).mem /\ memory' = x.mem
           /\ samples' = Recent(Append(samples, [shadow |-> Advanced(w, u).out, block |-> x.out]))
    BY <1>3, <2>1, Delivers DEF Scan
  <2> DEFINE r == Advanced(w, u)
             last == [shadow |-> r.out, block |-> x.out]
             out == IF kind \in Once THEN r.out ELSE x.out
  <2>3. r = Instant(kind, kernel, time + 1, w, u)
    BY <2>1, OneTick
  <2> HIDE DEF r, x
  <2>4. Evaluated(time + 1, 1, w, u)
    BY <1>1, <1>3, <2>1, <2>2, <2>3 DEF Evaluated, Traced, r, x
  <2>5. History' /\ Meets(out)
    BY <1>3, <2>3, <2>4, Reckons DEF MeetInv, x
  <2>6. samples'[Len(samples')] = last
    <3> HIDE DEF last
    <3>1. ticks \in Nat \ {0} /\ \E S : samples \in Seq(S)
      BY DEF IInv, Shape
    <3>2. samples' = Recent(Append(samples, last))
      BY <2>2 DEF last, r
    <3> QED BY <3>1, <3>2, Remembers
  <2>7. samples' # <<>> => samples'[Len(samples')].shadow = out
    <3>1. CASE kind \in Once
      BY <2>6, <3>1
    <3>2. CASE kind \notin Once
      <4>1. kind # "moving_average"
        BY <3>2 DEF Once
      <4> QED BY <1>1, <1>3, <2>6, <3>2, <4>1 DEF Agree
    <3> QED BY <3>1, <3>2
  <2> HIDE DEF out, last
  <2>8. MeetsDefinition'
    BY <1>1, <1>3, <2>5, <2>7 DEF MeetsDefinition, Meets, Defined
  <2> QED BY <2>5, <2>8
<1> QED BY <1>2, <1>3

LEMMA MeetRests ==
    ASSUME MeetInv, UNCHANGED vars
    PROVE  History' /\ MeetsDefinition'
<1>1. UNCHANGED <<kind, feed, time, trace, kernel, memory, samples>>
  BY DEF vars
<1>2. TrueSince' = TrueSince /\ Now' = Now
  BY <1>1 DEF TrueSince, Now, At
<1>3. (DelayedTrue' <=> DelayedTrue) /\ DelayedTrue' = DelayedTrue /\ TrueFor' = TrueFor
  BY <1>1, <1>2 DEF DelayedTrue, TrueFor, Now, At
<1>4. Sampled' = Sampled /\ SampledBefore' = SampledBefore
  BY <1>1, <1>2 DEF Sampled, SampledBefore, Now, At
<1>5. Integral(Now - 1)' = Integral(Now - 1)
  BY <1>1, <1>2 DEF Integral, Now, At, Rises, Trigger, Total, MapThenSumSet, MapThenFoldSet
<1>6. Count(Now - 1)' = Count(Now - 1)
  BY <1>1, <1>2 DEF Count, Now, At, Rises, Trigger, Resets
<1>7. WindowMean' = WindowMean
  BY <1>1, <1>2 DEF WindowMean, Now, At, Total, MapThenSumSet, MapThenFoldSet
<1>8. /\ DelayKept' <=> DelayKept
      /\ TimerKept' <=> TimerKept
  BY <1>1, <1>2, <1>3 DEF DelayKept, TimerKept, At
<1>9. /\ SamplerKept' <=> SamplerKept
      /\ UnitKept' <=> UnitKept
      /\ IntegratorKept' <=> IntegratorKept
      /\ CounterKept' <=> CounterKept
      /\ MeanKept' <=> MeanKept
  BY <1>1, <1>4 DEF SamplerKept, UnitKept, IntegratorKept, CounterKept, MeanKept
<1>10. History'
  BY <1>1, <1>8, <1>9 DEF MeetInv, History
<1>11. MeetsDefinition'
  BY <1>1, <1>3, <1>4, <1>5, <1>6, <1>7 DEF MeetInv, MeetsDefinition
<1> QED BY <1>10, <1>11

LEMMA MeetStep == IInv /\ MeetInv /\ [Next]_vars => MeetInv'
<1> SUFFICES ASSUME IInv, MeetInv, [Next]_vars PROVE MeetInv'
  OBVIOUS
<1>1. Fed' /\ (kind' # "moving_average" => Same' /\ Agree')
  BY AgreeBeside
<1>2. History' /\ MeetsDefinition'
  <2>1. CASE Start
    BY <2>1, MeetStart
  <2>2. CASE \E u \in Input(kind) : Scan(u)
    BY <1>1, <2>2, MeetScan
  <2>3. ASSUME NEW u \in Input(kind), Phase(u) PROVE History' /\ MeetsDefinition'
    <3>1. UNCHANGED <<kind, feed, trace>> /\ feed # "blocks"
      BY <2>3 DEF Phase
    <3>2. trace = <<>> /\ trace' = <<>>
      BY <3>1 DEF MeetInv, History
    <3> QED BY <3>1, <3>2 DEF History, MeetsDefinition
  <2>4. CASE UNCHANGED vars
    BY <2>4, MeetRests
  <2> QED BY <2>1, <2>2, <2>3, <2>4 DEF Next
<1> QED BY <1>1, <1>2 DEF MeetInv

-----------------------------------------------------------------------------
(* The band.  A phase changes an input point at once for the interpreter,  *)
(* which is primed with it; the program sees it a second later, at its     *)
(* next tick.  For each kind that is judged by the band: how the fields k  *)
(* of the program, n ticks into a scan, trail the state m in which the     *)
(* interpreter entered the scan at t with the input u.  s is what the      *)
(* program has shown at the n-th tick, o what the interpreter showed in    *)
(* the sample before, and e says that there has been none.                 *)

DelayState == [out : BOOLEAN, pending : BOOLEAN, elapsed : Int, first : BOOLEAN]

DelayTrails(s, k, m, t, n, u, e, o) ==
    /\ k.initialized = TRUE /\ k.at = t + n /\ k.timer \in Int
    /\ k.held \in BOOLEAN /\ k.previous \in BOOLEAN /\ (k.held => k.previous)
    /\ m \in DelayState /\ m.first = FALSE /\ m.pending = u.in
    /\ n > 0 => k.previous = u.in /\ s = k.held
    /\ ~u.in => ~m.out
    /\ u.in /\ m.out =>
          \/ k.held
          \/ n = 0 /\ IF k.previous THEN k.timer + 1 >= Delay ELSE Delay <= 0
    /\ u.in /\ ~m.out =>
          /\ ~e /\ o = FALSE /\ Delay > 0
          /\ 0 <= m.elapsed /\ m.elapsed < Delay
          /\ k.held => n > 0 /\ m.elapsed + n >= Delay
          /\ k.previous /\ ~k.held =>
                /\ k.timer < Delay
                /\ m.elapsed + n - 1 <= k.timer /\ k.timer <= m.elapsed + n
          /\ ~k.previous => m.elapsed = 0 /\ n = 0

TimerTrails(s, k, m, t, n, u, e, o) ==
    /\ k.initialized = TRUE /\ k.previous \in BOOLEAN /\ k.passed \in BOOLEAN
    /\ k.entry \in Int /\ k.entry <= t + n
    /\ m.first = FALSE /\ m.previous = u.in /\ m.passed \in BOOLEAN
    /\ m.entry_time \in Int /\ m.entry_time <= t
    /\ n > 0 => k.previous = u.in /\ s = k.passed
    /\ Threshold > 0 /\ ~k.previous => ~k.passed
    /\ ~u.in => m.passed <=> (k.passed /\ ~k.previous)
    /\ u.in =>
          /\ m.passed <=> t - m.entry_time >= Threshold
          /\ k.previous =>
                /\ m.entry_time <= k.entry /\ k.entry <= m.entry_time + 1
                /\ k.passed <=> t + n - k.entry >= Threshold
          /\ ~k.previous => m.entry_time = t /\ n = 0
          /\ ~m.passed => IF e THEN k.previous /\ k.entry = m.entry_time ELSE o = FALSE

\* A reset restarts a timer that runs: its sample before may still be that it has passed.
ResetRises(k, u) == (u.in /\ ~k.previous) \/ (u.reset /\ ~k.reset)

ResetTimerTrails(s, k, m, t, n, u, e, o) ==
    /\ k.initialized = TRUE /\ k.previous \in BOOLEAN /\ k.reset \in BOOLEAN
    /\ k.passed \in BOOLEAN /\ k.entry \in Int /\ k.entry <= t + n
    /\ m.new = FALSE /\ m.previous = u.in /\ m.reset = u.reset /\ m.passed \in BOOLEAN
    /\ m.entry_time \in Int /\ m.entry_time <= t
    /\ n > 0 => k.previous = u.in /\ k.reset = u.reset /\ s = k.passed
    /\ ~k.previous => ~k.passed
    /\ ~u.in => ~m.passed
    /\ u.in =>
          /\ m.passed <=> t - m.entry_time >= Threshold
          /\ ResetRises(k, u) => m.entry_time = t /\ n = 0
          /\ ~ResetRises(k, u) =>
                /\ m.entry_time <= k.entry /\ k.entry <= m.entry_time + 1
                /\ k.passed <=> t + n - k.entry >= Threshold
          /\ ~m.passed => IF e THEN ~ResetRises(k, u) /\ k.entry = m.entry_time
                          ELSE o = FALSE \/ m.entry_time = t

PreTrails(s, k, m, n, u, e, o) ==
    /\ m.previous = u.in
    /\ n > 0 => k.previous = u.in /\ (s = u.in \/ (~e /\ s = o))
    /\ n = 0 => IF e THEN k.previous = u.in ELSE k.previous = o \/ k.previous = u.in

InitializationTrails(s, k, m, n, u) ==
    k.first = FALSE /\ m.initialized = TRUE /\ (n > 0 => s = u.in)

LatchTrails(s, k, m, n, u) ==
    /\ k.output \in BOOLEAN /\ k.set \in BOOLEAN
    /\ m.previous_set = u.set
    /\ m.out = (~u.clear /\ ((u.set /\ ~k.set) \/ k.output))
    /\ n > 0 => k.set = u.set /\ k.output = m.out /\ s = m.out

HysteresisTrails(s, k, m, n, u) ==
    /\ k.output \in BOOLEAN
    /\ m.out = (IF k.output THEN u.in >= Low ELSE u.in > High)
    /\ n > 0 => k.output = m.out /\ s = m.out

SamplerTrails(s, k, m, t, n, u) ==
    /\ k.initialized /\ k.index = Index(t + n)
    /\ ~m.new /\ m.last_index = Index(t)
    /\ k.held = IF Index(t + n) > Index(t) THEN u.in ELSE m.held
    /\ n > 0 => s = k.held

\* A scan that is longer than the period takes more than one sample in the program.
UnitTrails(s, k, m, t, n, u, e) ==
    /\ k.initialized = TRUE /\ k.index = Index(t + n)
    /\ m.new = FALSE /\ m.last_index = Index(t)
    /\ n > 0 => s = k.held
    /\ e => m.staged = u.in
    /\ Index(t + n) = Index(t) =>
          k.staged = m.staged /\ (ticks <= SamplePeriod => k.held = m.held)
    /\ Index(t + n) = Index(t) + 1 => k.staged = u.in /\ k.held = m.staged
    /\ Index(t + n) > Index(t) + 1 =>
          k.staged = u.in /\ k.held = u.in /\ ticks > SamplePeriod

CounterTrails(s, k, m, t, n, u, e, o) ==
    /\ k.instant = t + n
    /\ m = k.now \/ m = CounterScan(k.now, t, 0, u).mem
    /\ m = [count |-> m.count, trigger |-> u.trigger, reset |-> u.reset, history |-> TRUE]
    /\ n > 0 => k.now = m /\ (s = m.count \/ (~e /\ s = o))
    /\ n = 0 => IF e THEN k.now = m ELSE k.now.count = o

Trails(s, k, m, t, n, u, e, o) ==
    /\ kind = "true_delay" => DelayTrails(s, k, m, t, n, u, e, o)
    /\ kind = "timer" => TimerTrails(s, k, m, t, n, u, e, o)
    /\ kind = "timer_with_reset" => ResetTimerTrails(s, k, m, t, n, u, e, o)
    /\ kind = "pre" => PreTrails(s, k, m, n, u, e, o)
    /\ kind = "initialization" => InitializationTrails(s, k, m, n, u)
    /\ kind = "set_reset" => LatchTrails(s, k, m, n, u)
    /\ kind = "hysteresis" => HysteresisTrails(s, k, m, n, u)
    /\ kind = "sampler" => SamplerTrails(s, k, m, t, n, u)
    /\ kind = "unit_delay" => UnitTrails(s, k, m, t, n, u, e)
    /\ kind = "on_counter" => CounterTrails(s, k, m, t, n, u, e, o)

\* Once a scan is over the program has seen what the interpreter has.
Rests(k, m, u, o) ==
    /\ kind = "true_delay" => k.previous = u.in /\ o = m.out
    /\ kind = "timer" => k.previous = u.in /\ o = m.passed
    /\ kind = "timer_with_reset" => k.previous = u.in /\ k.reset = u.reset /\ o = m.passed
    /\ kind = "pre" => k.previous = u.in /\ o = u.in
    /\ kind = "set_reset" => k.set = u.set /\ k.output = m.out
    /\ kind = "hysteresis" => k.output = m.out
    /\ kind = "on_counter" => k.now = m /\ o = m.count

\* A sample shows what the interpreter shows at it or showed at the one before; a unit delay
\* whose period is shorter than the scan shows what the interpreter will show at the next.
Overtakes == kind = "unit_delay" /\ ticks > SamplePeriod
Shows(s, x, e, o) ==
    s = Judged(kind, x.out) \/ (~e /\ s = o) \/ (~e /\ Overtakes /\ s = x.mem.staged)

(* What holds when the first phase has begun (1), when a later one begins  *)
(* (2), after each tick (3), and what a scan of n ticks shows and leaves (4).*)
LEMMA PreBegins ==
    ASSUME NEW s, NEW u, NEW o
    PROVE  PreTrails(s, PreStep(PreviousStart, 0, u).mem, PreScan(PreviousNew, 0, 0, u).mem,
                     0, u, TRUE, o)
<1> DEFINE a == PreStep(PreviousStart, 0, u).mem
           b == PreScan(PreviousNew, 0, 0, u).mem
<1>1. a.previous = u.in /\ b.previous = u.in
  BY DEF PreStep, PreScan, Ran, Shown
<1> HIDE DEF a, b
<1>2. PreTrails(s, a, b, 0, u, TRUE, o)
  BY <1>1 DEF PreTrails
<1> QED BY <1>2 DEF a, b

LEMMA PrePrimed ==
    ASSUME NEW s, NEW k, NEW m, NEW t, NEW d, NEW v, NEW u, NEW o,
           PreTrails(s, k, m, 0, v, FALSE, o), k.previous = v.in, o = v.in
    PROVE  PreTrails(s, k, PreScan(m, t, d, u).mem, 0, u, FALSE, o)
<1> DEFINE b == PreScan(m, t, d, u).mem
<1>1. b.previous = u.in
  BY DEF PreScan, Shown
<1> HIDE DEF b
<1>2. PreTrails(s, k, b, 0, u, FALSE, o)
  BY <1>1 DEF PreTrails
<1> QED BY <1>2 DEF b

LEMMA PreTicks ==
    ASSUME NEW s, NEW k, NEW m, NEW t, NEW n \in Nat, NEW u, NEW e \in BOOLEAN, NEW o,
           PreTrails(s, k, m, n, u, e, o)
    PROVE  PreTrails(PreStep(k, t, u).out, PreStep(k, t, u).mem, m, n + 1, u, e, o)
<1> DEFINE r == PreStep(k, t, u)
<1>1. r.mem.previous = u.in /\ r.out = k.previous
  BY DEF PreStep, Ran
<1> HIDE DEF r
<1>2. PreTrails(r.out, r.mem, m, n + 1, u, e, o)
  BY <1>1 DEF PreTrails
<1> QED BY <1>2 DEF r

PreLanded(s, k, x, u, e, o) ==
    /\ s = x.out \/ (~e /\ s = o)
    /\ PreTrails(s, k, x.mem, 0, u, FALSE, x.out)
    /\ k.previous = u.in /\ x.out = u.in

LEMMA PreLands ==
    ASSUME NEW s, NEW k, NEW m, NEW t, NEW n \in Nat, n > 0, NEW d, NEW u,
           NEW e \in BOOLEAN, NEW o, PreTrails(s, k, m, n, u, e, o)
    PROVE  PreLanded(s, k, PreScan(m, t, d, u), u, e, o)
<1> DEFINE x == PreScan(m, t, d, u)
<1>1. x.mem.previous = u.in /\ x.out = m.previous
  BY DEF PreScan, Shown
<1> HIDE DEF x
<1>2. PreLanded(s, k, x, u, e, o)
  BY <1>1 DEF PreTrails, PreLanded
<1> QED BY <1>2 DEF x

LEMMA InitializationBand ==
    ASSUME NEW s, NEW k, NEW m, NEW t, NEW d, NEW n \in Nat, NEW u, u.in \in BOOLEAN, NEW v
    PROVE  /\ InitializationTrails(s, InitializationStep(InitializationStart, t, u).mem,
                                   InitializationScan(InitializationNew, t, d, u).mem, 0, u)
           /\ InitializationTrails(s, k, m, 0, v) =>
                 InitializationTrails(s, k, InitializationScan(m, t, d, u).mem, 0, u)
           /\ InitializationTrails(s, k, m, n, u) =>
                 LET r == InitializationStep(k, t, u)
                 IN  InitializationTrails(r.out, r.mem, m, n + 1, u)
           /\ n > 0 /\ InitializationTrails(s, k, m, n, u) =>
                 LET x == InitializationScan(m, t, d, u)
                 IN  s = x.out /\ InitializationTrails(s, k, x.mem, 0, u)
<1>1. \A p : /\ InitializationStep(p, t, u).mem.first = FALSE
             /\ p.first = FALSE => InitializationStep(p, t, u).out = u.in
  BY DEF InitializationStep, Ran
<1>2. \A p : /\ InitializationScan(p, t, d, u).mem.initialized = TRUE
             /\ p.initialized = TRUE => InitializationScan(p, t, d, u).out = u.in
  BY DEF InitializationScan, Shown
<1> QED BY <1>1, <1>2 DEF InitializationTrails

\* A second execution with the same inputs changes nothing.
LEMMA LatchBand ==
    ASSUME NEW s, NEW k, NEW m, NEW t, NEW d, NEW n \in Nat,
           NEW u \in [set : BOOLEAN, clear : BOOLEAN],
           NEW v \in [set : BOOLEAN, clear : BOOLEAN]
    PROVE  /\ LatchTrails(s, SetResetStep(SetResetStart, t, u).mem,
                          SetResetScan(SetResetNew, t, d, u).mem, 0, u)
           /\ LatchTrails(s, k, m, 0, v) /\ k.set = v.set /\ k.output = m.out =>
                 LatchTrails(s, k, SetResetScan(m, t, d, u).mem, 0, u)
           /\ LatchTrails(s, k, m, n, u) =>
                 LET r == SetResetStep(k, t, u) IN LatchTrails(r.out, r.mem, m, n + 1, u)
           /\ n > 0 /\ LatchTrails(s, k, m, n, u) =>
                 LET x == SetResetScan(m, t, d, u)
                 IN  /\ s = x.out /\ LatchTrails(s, k, x.mem, 0, u)
                     /\ k.set = u.set /\ k.output = x.mem.out
<1> DEFINE r == SetResetStep(k, t, u)
           x == SetResetScan(m, t, d, u)
           output == ~u.clear /\ ((u.set /\ ~k.set) \/ k.output)
           shows == ~u.clear /\ ((u.set /\ ~m.previous_set) \/ m.out)
<1>1. r.out = output /\ r.mem.output = output /\ r.mem.set = u.set
  BY DEF SetResetStep, Ran
<1>2. x.out = shows /\ x.mem.out = shows /\ x.mem.previous_set = u.set
  BY DEF SetResetScan, Shown
<1>3. output \in BOOLEAN /\ shows \in BOOLEAN
  BY Zenon
<1>4. LatchTrails(s, SetResetStep(SetResetStart, t, u).mem,
                  SetResetScan(SetResetNew, t, d, u).mem, 0, u)
  <2> DEFINE first == ~u.clear /\ u.set
             a == SetResetStep(SetResetStart, t, u).mem
             b == SetResetScan(SetResetNew, t, d, u).mem
  <2>1. a.output = first /\ a.set = u.set
    BY DEF SetResetStep, SetResetStart, Ran
  <2>2. b.out = first /\ b.previous_set = u.set
    BY DEF SetResetScan, SetResetNew, Shown
  <2>3. first \in BOOLEAN /\ first = (~u.clear /\ first)
    BY Zenon
  <2> HIDE DEF a, b
  <2>4. LatchTrails(s, a, b, 0, u)
    <3>1. (~u.clear /\ ((u.set /\ ~a.set) \/ a.output)) = first
      BY <2>1
    <3> HIDE DEF first
    <3> QED BY <2>1, <2>2, <2>3, <3>1 DEF LatchTrails
  <2> QED BY <2>4 DEF a, b
<1> HIDE DEF r, x
<1>5. ASSUME LatchTrails(s, k, m, 0, v), k.set = v.set, k.output = m.out
      PROVE  LatchTrails(s, k, x.mem, 0, u)
  <2>1. m.previous_set = k.set /\ m.out = k.output /\ k.output \in BOOLEAN /\ k.set \in BOOLEAN
    BY <1>5 DEF LatchTrails
  <2>2. shows = output
    BY <2>1
  <2> HIDE DEF shows
  <2> QED BY <2>1, <2>2, <1>2 DEF LatchTrails
<1>6. ASSUME LatchTrails(s, k, m, n, u)
      PROVE  LatchTrails(r.out, r.mem, m, n + 1, u)
  <2>1. k.output \in BOOLEAN /\ k.set \in BOOLEAN /\ m.previous_set = u.set /\ m.out = output
    BY <1>6 DEF LatchTrails
  <2>2. output = (~u.clear /\ output)
    OBVIOUS
  <2>3. (~u.clear /\ ((u.set /\ ~r.mem.set) \/ r.mem.output)) = output
    BY <1>1, <2>2
  <2> HIDE DEF output
  <2> QED BY <2>1, <2>3, <1>1, <1>3 DEF LatchTrails
<1>7. ASSUME n > 0, LatchTrails(s, k, m, n, u)
      PROVE  /\ s = x.out /\ LatchTrails(s, k, x.mem, 0, u)
             /\ k.set = u.set /\ k.output = x.mem.out
  <2>1. /\ k.output \in BOOLEAN /\ k.set = u.set /\ m.previous_set = u.set
        /\ m.out = output /\ k.output = m.out /\ s = m.out
    BY <1>7 DEF LatchTrails
  <2>2. shows = output
    BY <2>1
  <2> HIDE DEF output, shows
  <2>3. LatchTrails(s, k, x.mem, 0, u)
    BY <2>1, <2>2, <1>2 DEF LatchTrails, output
  <2> QED BY <2>1, <2>2, <2>3, <1>2
<1> QED BY <1>4, <1>5, <1>6, <1>7 DEF r, x

Limits == Low \in Int /\ High \in Int /\ Low < High

LEMMA HysteresisBand ==
    ASSUME Limits, NEW s, NEW k, NEW m, NEW t, NEW d, NEW n \in Nat, NEW u, NEW v, u.in \in Int
    PROVE  /\ HysteresisTrails(s, HysteresisStep(HysteresisStart, t, u).mem,
                               HysteresisScan(HysteresisNew, t, d, u).mem, 0, u)
           /\ HysteresisTrails(s, k, m, 0, v) /\ k.output = m.out =>
                 HysteresisTrails(s, k, HysteresisScan(m, t, d, u).mem, 0, u)
           /\ HysteresisTrails(s, k, m, n, u) =>
                 LET r == HysteresisStep(k, t, u) IN HysteresisTrails(r.out, r.mem, m, n + 1, u)
           /\ n > 0 /\ HysteresisTrails(s, k, m, n, u) =>
                 LET x == HysteresisScan(m, t, d, u)
                 IN  s = x.out /\ HysteresisTrails(s, k, x.mem, 0, u) /\ k.output = x.mem.out
<1> DEFINE low == u.in >= Low
           high == u.in > High
           G == [q \in BOOLEAN |-> IF q THEN low ELSE high]
<1>1. G \in [BOOLEAN -> BOOLEAN] /\ \A q \in BOOLEAN : G[G[q]] = G[q]
  <2>1. low \in BOOLEAN /\ high \in BOOLEAN /\ (high => low)
    BY DEF Limits
  <2> HIDE DEF low, high
  <2>2. G \in [BOOLEAN -> BOOLEAN] /\ G[TRUE] = low /\ G[FALSE] = high
    BY <2>1
  <2> HIDE DEF G
  <2> QED BY <2>1, <2>2
<1>2. \A p : p.output \in BOOLEAN =>
             LET r == HysteresisStep(p, t, u)
             IN  r.out = G[p.output] /\ r.mem.output = G[p.output]
  <2> SUFFICES ASSUME NEW p, p.output \in BOOLEAN
               PROVE  LET r == HysteresisStep(p, t, u)
                      IN  r.out = G[p.output] /\ r.mem.output = G[p.output]
    OBVIOUS
  <2> DEFINE shows == IF p.output THEN low ELSE high
  <2>1. LET r == HysteresisStep(p, t, u) IN r.out = shows /\ r.mem.output = shows
    BY DEF HysteresisStep, Ran
  <2>2. G[p.output] = shows
    OBVIOUS
  <2> HIDE DEF shows, G
  <2> QED BY <2>1, <2>2
<1>3. \A p : p.out \in BOOLEAN =>
             LET x == HysteresisScan(p, t, d, u) IN x.out = G[p.out] /\ x.mem.out = G[p.out]
  <2> SUFFICES ASSUME NEW p, p.out \in BOOLEAN
               PROVE  LET x == HysteresisScan(p, t, d, u)
                      IN  x.out = G[p.out] /\ x.mem.out = G[p.out]
    OBVIOUS
  <2> DEFINE q == p.out
             shows == (~q /\ high) \/ (q /\ low)
  <2>1. LET x == HysteresisScan(p, t, d, u) IN x.out = shows /\ x.mem.out = shows
    BY DEF HysteresisScan, Shown
  <2>2. low \in BOOLEAN /\ high \in BOOLEAN /\ q \in BOOLEAN
    OBVIOUS
  <2> HIDE DEF low, high, q
  <2>3. G[q] = shows
    BY <2>2
  <2> HIDE DEF shows, G
  <2> QED BY <2>1, <2>3 DEF q
<1>4. \A p, q, z, y : HysteresisTrails(p, q, z, y, u) <=>
          /\ q.output \in BOOLEAN /\ z.out = G[q.output]
          /\ y > 0 => q.output = z.out /\ p = z.out
  <2> SUFFICES ASSUME NEW q PROVE q.output \in BOOLEAN => \A z : (z.out = G[q.output]) <=>
                                    z.out = (IF q.output THEN u.in >= Low ELSE u.in > High)
    BY DEF HysteresisTrails
  <2> QED OBVIOUS
<1>5. HysteresisTrails(s, HysteresisStep(HysteresisStart, t, u).mem,
                       HysteresisScan(HysteresisNew, t, d, u).mem, 0, u)
  <2> DEFINE a == HysteresisStep(HysteresisStart, t, u).mem
             b == HysteresisScan(HysteresisNew, t, d, u).mem
  <2> DEFINE first == u.in > High
  <2>1. a.output = first
    BY DEF HysteresisStep, HysteresisStart, Ran
  <2>2. b.out = first
    <3> DEFINE shows == (~FALSE /\ first) \/ (FALSE /\ u.in >= Low)
    <3>1. b.out = shows
      BY DEF HysteresisScan, HysteresisNew, Shown
    <3>2. first \in BOOLEAN
      OBVIOUS
    <3>3. shows = first
      <4> HIDE DEF first
      <4> QED BY <3>2
    <3> QED BY <3>1, <3>3
  <2> HIDE DEF a, b
  <2>3. a.output \in BOOLEAN /\ b.out = a.output
    <3>1. first \in BOOLEAN
      OBVIOUS
    <3> HIDE DEF first
    <3> QED BY <2>1, <2>2, <3>1
  <2>4. a.output <=> u.in > High
    BY <2>1
  <2>5. G[a.output] = a.output
    BY <2>3, <2>4 DEF Limits
  <2>6. HysteresisTrails(s, a, b, 0, u)
    <3> HIDE DEF G
    <3> QED BY <2>3, <2>5, <1>4
  <2> QED BY <2>6 DEF a, b
<1> HIDE DEF G, low, high
<1>6. ASSUME HysteresisTrails(s, k, m, 0, v), k.output = m.out
      PROVE  HysteresisTrails(s, k, HysteresisScan(m, t, d, u).mem, 0, u)
  <2>1. k.output \in BOOLEAN
    BY <1>6 DEF HysteresisTrails
  <2> QED BY <1>6, <2>1, <1>3, <1>4
<1>7. ASSUME HysteresisTrails(s, k, m, n, u)
      PROVE  LET r == HysteresisStep(k, t, u) IN HysteresisTrails(r.out, r.mem, m, n + 1, u)
  BY <1>7, <1>1, <1>2, <1>4
<1>8. ASSUME n > 0, HysteresisTrails(s, k, m, n, u)
      PROVE  LET x == HysteresisScan(m, t, d, u)
             IN  s = x.out /\ HysteresisTrails(s, k, x.mem, 0, u) /\ k.output = x.mem.out
  BY <1>8, <1>1, <1>3, <1>4
<1> QED BY <1>5, <1>6, <1>7, <1>8

(* A timer's entry time is the phase for the interpreter, and the tick     *)
(* after it for the program: the program passes a second later or at once. *)
TimerScanned(x, m, t, u) ==
    /\ x.out[2] = x.mem.passed /\ x.mem.passed \in BOOLEAN
    /\ x.mem.first = FALSE /\ x.mem.previous = u.in
    /\ x.mem.entry_time = IF u.in /\ ~m.previous THEN t ELSE m.entry_time
    /\ x.mem.passed <=> IF u.in THEN IF m.previous
                                     THEN m.passed \/ t - m.entry_time >= Threshold
                                     ELSE Threshold <= 0
                        ELSE m.passed /\ ~m.previous

TimerStepped(r, k, t, u) ==
    /\ r.out[2] = r.mem.passed /\ r.mem.passed \in BOOLEAN
    /\ r.mem.initialized = TRUE /\ r.mem.previous = u.in
    /\ r.mem.entry = IF u.in /\ ~k.previous THEN t ELSE k.entry
    /\ r.mem.passed <=> IF u.in THEN IF k.previous
                                     THEN k.passed \/ t - k.entry >= Threshold
                                     ELSE Threshold <= 0
                        ELSE k.passed /\ ~k.previous

LEMMA TimerScans ==
    ASSUME NEW m, NEW t, NEW d, NEW u \in [in : BOOLEAN],
           m.previous \in BOOLEAN, m.previous => m.first = FALSE, m.passed \in BOOLEAN
    PROVE  TimerScanned(TimerScan(m, t, d, u), m, t, u)
<1> DEFINE x == TimerScan(m, t, d, u)
           goes == u.in /\ ~m.first /\ m.previous
           lasts == IF goes THEN t - m.entry_time ELSE 0
           zero == Threshold <= 0
           late == lasts >= Threshold
           passes == IF u.in /\ ~m.previous THEN zero
                     ELSE IF u.in /\ late THEN TRUE
                     ELSE IF ~u.in /\ m.previous THEN FALSE
                     ELSE m.passed
<1>1. /\ x.out = <<lasts, passes>> /\ x.mem.first = FALSE /\ x.mem.previous = u.in
      /\ x.mem.passed = passes /\ x.mem.entry_time = IF u.in /\ ~goes THEN t ELSE m.entry_time
  BY DEF TimerScan, Shown
<1>2. zero \in BOOLEAN /\ late \in BOOLEAN
  OBVIOUS
<1> HIDE DEF x
<1>3. passes \in BOOLEAN
  BY <1>2
<1>4. passes <=> IF u.in THEN IF m.previous THEN m.passed \/ late ELSE zero
                 ELSE m.passed /\ ~m.previous
  <2> HIDE DEF zero, late
  <2> QED BY <1>2
<1>5. u.in /\ m.previous => lasts = t - m.entry_time
  OBVIOUS
<1>8. passes <=> IF u.in THEN IF m.previous THEN m.passed \/ t - m.entry_time >= Threshold
                              ELSE Threshold <= 0
                 ELSE m.passed /\ ~m.previous
  BY <1>4, <1>5
<1>6. x.out[2] = passes
  <2> HIDE DEF passes, lasts
  <2> QED BY <1>1
<1>7. x.mem.entry_time = IF u.in /\ ~m.previous THEN t ELSE m.entry_time
  BY <1>1
<1> HIDE DEF passes
<1> QED BY <1>1, <1>3, <1>6, <1>7, <1>8 DEF x, TimerScanned

LEMMA TimerSteps ==
    ASSUME NEW k, NEW t, NEW u \in [in : BOOLEAN],
           k.previous \in BOOLEAN, k.previous => k.initialized = TRUE, k.passed \in BOOLEAN
    PROVE  TimerStepped(TimerStep(k, t, u), k, t, u)
<1> DEFINE r == TimerStep(k, t, u)
           elapsed == IF u.in /\ k.initialized /\ k.previous THEN t - k.entry ELSE 0
           late == elapsed >= Threshold
           zero == Threshold <= 0
           passed == IF u.in THEN IF k.previous THEN k.passed \/ late ELSE zero
                     ELSE k.passed /\ ~k.previous
<1>1. /\ r.out = <<elapsed, passed>> /\ r.mem.initialized = TRUE /\ r.mem.previous = u.in
      /\ r.mem.passed = passed
      /\ r.mem.entry = IF u.in /\ (~k.initialized \/ ~k.previous) THEN t ELSE k.entry
  BY DEF TimerStep, Ran
<1>2. late \in BOOLEAN /\ zero \in BOOLEAN
  OBVIOUS
<1>3. passed \in BOOLEAN
  <2> HIDE DEF late, zero
  <2> QED BY <1>2
<1> HIDE DEF r
<1>4. r.out[2] = passed
  <2> HIDE DEF passed, elapsed
  <2> QED BY <1>1
<1>5. u.in /\ k.previous => elapsed = t - k.entry
  OBVIOUS
<1>6. passed <=> IF u.in THEN IF k.previous THEN k.passed \/ t - k.entry >= Threshold
                              ELSE Threshold <= 0
                 ELSE k.passed /\ ~k.previous
  BY <1>5
<1> HIDE DEF passed
<1> QED BY <1>1, <1>3, <1>4, <1>6 DEF r, TimerStepped

LEMMA TimerBegins ==
    ASSUME NEW s, NEW u \in [in : BOOLEAN], NEW o
    PROVE  TimerTrails(s, TimerStep(TimerStart, 0, u).mem, TimerScan(TimerNew, 0, 0, u).mem,
                       0, 0, u, TRUE, o)
<1> DEFINE k == TimerStart
           m == TimerNew
           r == TimerStep(k, 0, u)
           x == TimerScan(m, 0, 0, u)
           zero == Threshold <= 0
<1>1. /\ k.previous = FALSE /\ k.passed = zero /\ k.entry = 0
      /\ m.previous = FALSE /\ m.passed = zero /\ m.entry_time = 0
  BY DEF TimerStart, TimerNew
<1>2. zero \in BOOLEAN /\ Threshold \in Int /\ (zero <=> 0 - 0 >= Threshold)
  BY DelayAssumption
<1> HIDE DEF k, m
<1>3. k.passed \in BOOLEAN /\ m.passed \in BOOLEAN /\ (k.passed <=> zero) /\ (m.passed <=> zero)
  <2> HIDE DEF zero
  <2> QED BY <1>1, <1>2
<1>4. TimerStepped(r, k, 0, u)
  BY <1>1, <1>3, TimerSteps
<1>5. TimerScanned(x, m, 0, u)
  BY <1>1, <1>3, TimerScans
<1> HIDE DEF r, x
<1>6. TimerTrails(s, r.mem, x.mem, 0, 0, u, TRUE, o)
  BY <1>1, <1>2, <1>3, <1>4, <1>5 DEF TimerTrails, TimerStepped, TimerScanned
<1> QED BY <1>6 DEF r, x, k, m

LEMMA TimerPrimed ==
    ASSUME NEW s, NEW k, NEW m, NEW t \in Nat, NEW d, NEW v \in [in : BOOLEAN], NEW u \in [in : BOOLEAN],
           NEW o,
           TimerTrails(s, k, m, t, 0, v, FALSE, o), k.previous = v.in, o = m.passed
    PROVE  TimerTrails(s, k, TimerScan(m, t, d, u).mem, t, 0, u, FALSE, o)
<1> DEFINE x == TimerScan(m, t, d, u)
<1>1. /\ m.first = FALSE /\ m.previous = v.in /\ m.passed \in BOOLEAN /\ Threshold \in Int
  BY DelayAssumption DEF TimerTrails, TimerScanned
<1>2. TimerScanned(x, m, t, u)
  BY <1>1, TimerScans
<1> HIDE DEF x
<1>3. TimerTrails(s, k, x.mem, t, 0, u, FALSE, o)
  BY <1>1, <1>2 DEF TimerTrails, TimerScanned
<1> QED BY <1>3 DEF x

LEMMA TimerTicks ==
    ASSUME NEW s, NEW k, NEW m, NEW t \in Nat, NEW n \in Nat, NEW u \in [in : BOOLEAN],
           NEW e \in BOOLEAN, NEW o, TimerTrails(s, k, m, t, n, u, e, o)
    PROVE  LET r == TimerStep(k, t + (n + 1), u)
           IN  TimerTrails(r.out[2], r.mem, m, t, n + 1, u, e, o)
<1> DEFINE z == t + (n + 1)
           r == TimerStep(k, z, u)
<1>1. k.initialized = TRUE /\ k.previous \in BOOLEAN /\ k.passed \in BOOLEAN /\ Threshold \in Int
  BY DelayAssumption DEF TimerTrails
<1>2. TimerStepped(r, k, z, u)
  BY <1>1, TimerSteps
<1> HIDE DEF r
<1>3. TimerTrails(r.out[2], r.mem, m, t, n + 1, u, e, o)
  BY <1>1, <1>2 DEF TimerTrails, TimerStepped
<1> QED BY <1>3 DEF r

TimerLanded(s, k, x, t, u, e, o) ==
    /\ s = x.out[2] \/ (~e /\ s = o)
    /\ TimerTrails(s, k, x.mem, t, 0, u, FALSE, x.out[2])
    /\ k.previous = u.in /\ x.out[2] = x.mem.passed

LEMMA TimerLands ==
    ASSUME NEW s, NEW k, NEW m, NEW t \in Nat, NEW n \in Nat, n > 0, NEW d, NEW u \in [in : BOOLEAN],
           NEW e \in BOOLEAN, NEW o, TimerTrails(s, k, m, t, n, u, e, o)
    PROVE  TimerLanded(s, k, TimerScan(m, t + n, d, u), t + n, u, e, o)
<1> DEFINE z == t + n
           x == TimerScan(m, z, d, u)
<1>1. /\ m.first = FALSE /\ m.previous = u.in /\ m.passed \in BOOLEAN /\ Threshold \in Int
  BY DelayAssumption DEF TimerTrails, TimerScanned
<1>2. TimerScanned(x, m, z, u)
  BY <1>1, TimerScans
<1> HIDE DEF x
<1>3. s = x.mem.passed \/ (~e /\ s = o)
  <2>1. CASE ~u.in
    <3>1. s = k.passed /\ k.passed \in BOOLEAN /\ (m.passed <=> k.passed)
      BY <2>1 DEF TimerTrails
    <3>2. x.mem.passed <=> m.passed
      BY <1>1, <1>2, <2>1 DEF TimerScanned
    <3> QED BY <1>1, <1>2, <3>1, <3>2 DEF TimerScanned
  <2>2. CASE u.in
    <3>1. /\ s = k.passed /\ k.passed \in BOOLEAN /\ k.entry \in Int /\ m.entry_time \in Int
          /\ m.entry_time <= k.entry /\ k.entry <= m.entry_time + 1
          /\ k.passed <=> t + n - k.entry >= Threshold
          /\ m.passed <=> t - m.entry_time >= Threshold
          /\ ~m.passed => IF e THEN k.entry = m.entry_time ELSE o = FALSE
      BY <2>2 DEF TimerTrails
    <3>2. x.mem.passed \in BOOLEAN /\ (x.mem.passed <=> z - m.entry_time >= Threshold)
      BY <1>1, <1>2, <2>2, <3>1 DEF TimerScanned
    <3>3. ASSUME s # x.mem.passed PROVE ~k.passed /\ x.mem.passed /\ ~m.passed /\ k.entry # m.entry_time
      BY <3>3, <3>1, <3>2, <1>1
    <3> QED BY <3>1, <3>3
  <2> QED BY <2>1, <2>2
<1>4. TimerTrails(s, k, x.mem, z, 0, u, FALSE, x.mem.passed)
  BY <1>1, <1>2 DEF TimerTrails, TimerScanned
<1>5. k.previous = u.in /\ x.out[2] = x.mem.passed
  BY <1>2 DEF TimerTrails, TimerScanned
<1>6. TimerLanded(s, k, x, z, u, e, o)
  BY <1>1, <1>2, <1>3, <1>4, <1>5 DEF TimerLanded, TimerScanned
<1> QED BY <1>6 DEF x


(* A timer with a reset, likewise; when a scan is as long as the threshold *)
(* a restart at the phase would show a sample later what it never showed   *)
(* before.                                                                 *)
ResetScanned(x, m, t, u) ==
    /\ x.out[2] = x.mem.passed /\ x.mem.passed \in BOOLEAN
    /\ x.mem.new = FALSE /\ x.mem.previous = u.in /\ x.mem.reset = u.reset
    /\ x.mem.entry_time = IF m.new \/ ResetRises(m, u) THEN t ELSE m.entry_time
    /\ x.mem.passed <=> IF m.new \/ ResetRises(m, u) THEN u.in /\ Threshold <= 0
                        ELSE IF u.in THEN m.passed \/ t >= m.entry_time + Threshold
                        ELSE m.passed /\ ~m.previous

ResetStepped(r, k, t, u) ==
    /\ r.out[2] = r.mem.passed /\ r.mem.passed \in BOOLEAN
    /\ r.mem.initialized = TRUE /\ r.mem.previous = u.in /\ r.mem.reset = u.reset
    /\ r.mem.entry = IF ~k.initialized \/ ResetRises(k, u) THEN t ELSE k.entry
    /\ r.mem.passed <=> IF ~k.initialized \/ ResetRises(k, u) THEN u.in /\ Threshold <= 0
                        ELSE IF u.in THEN k.passed \/ t >= k.entry + Threshold
                        ELSE k.passed /\ ~k.previous

LEMMA ResetTimerScans ==
    ASSUME NEW m, NEW t, NEW d, NEW u \in [in : BOOLEAN, reset : BOOLEAN],
           m.new \in BOOLEAN, m.previous \in BOOLEAN, m.reset \in BOOLEAN, m.passed \in BOOLEAN
    PROVE  ResetScanned(TimerWithResetScan(m, t, d, u), m, t, u)
<1> DEFINE x == TimerWithResetScan(m, t, d, u)
           starts == m.new \/ ((u.in /\ ~m.previous) \/ (u.reset /\ ~m.reset))
           zero == Threshold <= 0
           late == t >= m.entry_time + Threshold
           entry == IF starts THEN t ELSE m.entry_time
           lasts == IF u.in /\ ~m.new THEN t - entry ELSE 0
           passes == IF starts THEN u.in /\ zero
                     ELSE IF u.in /\ late THEN TRUE
                     ELSE IF ~u.in /\ m.previous THEN FALSE
                     ELSE m.passed
<1>1. /\ x.out = <<lasts, passes>> /\ x.mem.new = FALSE /\ x.mem.previous = u.in
      /\ x.mem.reset = u.reset /\ x.mem.passed = passes /\ x.mem.entry_time = entry
  BY DEF TimerWithResetScan, Shown
<1>2. zero \in BOOLEAN /\ late \in BOOLEAN /\ starts \in BOOLEAN
  OBVIOUS
<1> HIDE DEF x
<1>3. starts <=> m.new \/ ResetRises(m, u)
  BY DEF ResetRises
<1> HIDE DEF starts, zero, late
<1>4. passes \in BOOLEAN
  BY <1>2
<1>5. passes <=> IF starts THEN u.in /\ zero
                 ELSE IF u.in THEN m.passed \/ late ELSE m.passed /\ ~m.previous
  BY <1>2
<1>6. x.out[2] = passes
  <2> HIDE DEF passes, lasts
  <2> QED BY <1>1
<1> HIDE DEF passes
<1>7. passes <=> IF starts THEN u.in /\ Threshold <= 0
                 ELSE IF u.in THEN m.passed \/ t >= m.entry_time + Threshold
                 ELSE m.passed /\ ~m.previous
  BY <1>5, Zenon DEF zero, late
<1> QED BY <1>1, <1>3, <1>4, <1>6, <1>7 DEF x, ResetScanned

LEMMA ResetTimerSteps ==
    ASSUME NEW k, NEW t, NEW u \in [in : BOOLEAN, reset : BOOLEAN],
           k.initialized \in BOOLEAN, k.previous \in BOOLEAN, k.reset \in BOOLEAN,
           k.passed \in BOOLEAN
    PROVE  ResetStepped(TimerWithResetStep(k, t, u), k, t, u)
<1> DEFINE r == TimerWithResetStep(k, t, u)
           rises == (u.in /\ ~k.previous) \/ (u.reset /\ ~k.reset)
           starts == ~k.initialized \/ rises
           zero == Threshold <= 0
           late == t >= k.entry + Threshold
           entry == IF starts THEN t ELSE k.entry
           lasts == IF u.in /\ k.initialized THEN t - entry ELSE 0
           passed == IF starts THEN u.in /\ zero
                     ELSE IF u.in /\ late THEN TRUE
                     ELSE k.passed /\ ~(~u.in /\ k.previous)
<1>1. /\ r.out = <<lasts, passed>> /\ r.mem.initialized = TRUE /\ r.mem.previous = u.in
      /\ r.mem.reset = u.reset /\ r.mem.passed = passed /\ r.mem.entry = entry
  BY DEF TimerWithResetStep, Ran
<1>2. zero \in BOOLEAN /\ late \in BOOLEAN /\ starts \in BOOLEAN
  OBVIOUS
<1> HIDE DEF r
<1>3. starts <=> ~k.initialized \/ ResetRises(k, u)
  BY DEF ResetRises
<1> HIDE DEF starts, zero, late
<1>4. passed \in BOOLEAN
  BY <1>2
<1>5. passed <=> IF starts THEN u.in /\ zero
                 ELSE IF u.in THEN k.passed \/ late ELSE k.passed /\ ~k.previous
  BY <1>2
<1>6. r.out[2] = passed
  <2> HIDE DEF passed, lasts
  <2> QED BY <1>1
<1> HIDE DEF passed
<1>7. passed <=> IF starts THEN u.in /\ Threshold <= 0
                 ELSE IF u.in THEN k.passed \/ t >= k.entry + Threshold
                 ELSE k.passed /\ ~k.previous
  BY <1>5, Zenon DEF zero, late
<1> QED BY <1>1, <1>3, <1>4, <1>6, <1>7 DEF r, ResetStepped

LEMMA ResetTimerBegins ==
    ASSUME NEW s, NEW u \in [in : BOOLEAN, reset : BOOLEAN], NEW o
    PROVE  ResetTimerTrails(s, TimerWithResetStep(TimerWithResetStart, 0, u).mem,
                            TimerWithResetScan(TimerWithResetNew, 0, 0, u).mem,
                            0, 0, u, TRUE, o)
<1> DEFINE k == TimerWithResetStart
           m == TimerWithResetNew
           r == TimerWithResetStep(k, 0, u)
           x == TimerWithResetScan(m, 0, 0, u)
<1>1. /\ k.initialized = FALSE /\ k.previous = FALSE /\ k.reset = FALSE /\ k.passed = FALSE
      /\ m.new = TRUE /\ m.previous = FALSE /\ m.reset = FALSE /\ m.passed = FALSE
  BY DEF TimerWithResetStart, TimerWithResetNew
<1> HIDE DEF k, m
<1>2. Threshold \in Int
  BY DelayAssumption
<1>3. ResetStepped(r, k, 0, u)
  BY <1>1, ResetTimerSteps
<1>4. ResetScanned(x, m, 0, u)
  BY <1>1, ResetTimerScans
<1> HIDE DEF r, x
<1>5. /\ r.mem.initialized = TRUE /\ r.mem.previous = u.in /\ r.mem.reset = u.reset
      /\ r.mem.entry = 0 /\ r.mem.passed \in BOOLEAN
      /\ r.mem.passed <=> u.in /\ Threshold <= 0
  BY <1>1, <1>3 DEF ResetStepped
<1>6. /\ x.mem.new = FALSE /\ x.mem.previous = u.in /\ x.mem.reset = u.reset
      /\ x.mem.entry_time = 0 /\ x.mem.passed \in BOOLEAN
      /\ x.mem.passed <=> u.in /\ Threshold <= 0
  BY <1>1, <1>4 DEF ResetScanned
<1>7. ~ResetRises(r.mem, u)
  BY <1>5 DEF ResetRises
<1>8. ResetTimerTrails(s, r.mem, x.mem, 0, 0, u, TRUE, o)
  BY <1>2, <1>5, <1>6, <1>7 DEF ResetTimerTrails
<1> QED BY <1>8 DEF r, x, k, m

LEMMA ResetTimerPrimed ==
    ASSUME NEW s, NEW k, NEW m, NEW t \in Nat, NEW d,
           NEW v \in [in : BOOLEAN, reset : BOOLEAN], NEW u \in [in : BOOLEAN, reset : BOOLEAN],
           NEW o, ResetTimerTrails(s, k, m, t, 0, v, FALSE, o),
           k.previous = v.in, k.reset = v.reset, o = m.passed
    PROVE  ResetTimerTrails(s, k, TimerWithResetScan(m, t, d, u).mem, t, 0, u, FALSE, o)
<1> DEFINE x == TimerWithResetScan(m, t, d, u)
<1>1. /\ m.new = FALSE /\ m.previous = v.in /\ m.reset = v.reset /\ m.passed \in BOOLEAN
      /\ Threshold \in Int
  BY DelayAssumption DEF ResetTimerTrails
<1>2. ResetScanned(x, m, t, u)
  BY <1>1, ResetTimerScans
<1> HIDE DEF x
<1>3. (ResetRises(m, u) <=> ResetRises(k, u)) /\ ~ResetRises(k, v)
  BY <1>1 DEF ResetRises
<1>4. /\ x.mem.new = FALSE /\ x.mem.previous = u.in /\ x.mem.reset = u.reset
      /\ x.mem.passed \in BOOLEAN
      /\ x.mem.entry_time = IF ResetRises(k, u) THEN t ELSE m.entry_time
      /\ x.mem.passed <=> IF ResetRises(k, u) THEN u.in /\ Threshold <= 0
                          ELSE IF u.in THEN m.passed \/ t >= m.entry_time + Threshold
                          ELSE m.passed /\ ~m.previous
  BY <1>1, <1>2, <1>3 DEF ResetScanned
<1>5. u.in /\ ~ResetRises(k, u) => v.in
  BY DEF ResetRises
<1>6. ResetTimerTrails(s, k, x.mem, t, 0, u, FALSE, o)
  BY <1>1, <1>3, <1>4, <1>5 DEF ResetTimerTrails
<1> QED BY <1>6 DEF x

LEMMA ResetTimerTicks ==
    ASSUME NEW s, NEW k, NEW m, NEW t \in Nat, NEW n \in Nat,
           NEW u \in [in : BOOLEAN, reset : BOOLEAN], NEW e \in BOOLEAN, NEW o,
           ResetTimerTrails(s, k, m, t, n, u, e, o)
    PROVE  LET r == TimerWithResetStep(k, t + (n + 1), u)
           IN  ResetTimerTrails(r.out[2], r.mem, m, t, n + 1, u, e, o)
<1> DEFINE z == t + (n + 1)
           r == TimerWithResetStep(k, z, u)
<1>1. /\ k.initialized = TRUE /\ k.previous \in BOOLEAN /\ k.reset \in BOOLEAN
      /\ k.passed \in BOOLEAN /\ Threshold \in Int
  BY DelayAssumption DEF ResetTimerTrails
<1>2. ResetStepped(r, k, z, u)
  BY <1>1, ResetTimerSteps
<1> HIDE DEF r
<1>3. /\ r.mem.initialized = TRUE /\ r.mem.previous = u.in /\ r.mem.reset = u.reset
      /\ r.out[2] = r.mem.passed /\ r.mem.passed \in BOOLEAN
      /\ r.mem.entry = IF ResetRises(k, u) THEN z ELSE k.entry
      /\ r.mem.passed <=> IF ResetRises(k, u) THEN u.in /\ Threshold <= 0
                          ELSE IF u.in THEN k.passed \/ z >= k.entry + Threshold
                          ELSE k.passed /\ ~k.previous
  BY <1>1, <1>2 DEF ResetStepped
<1>4. ~ResetRises(r.mem, u)
  BY <1>3 DEF ResetRises
<1>5. ResetTimerTrails(r.out[2], r.mem, m, t, n + 1, u, e, o)
  <2>1. CASE ~u.in
    BY <1>1, <1>3, <1>4, <2>1 DEF ResetTimerTrails
  <2>2. CASE u.in /\ ResetRises(k, u)
    BY <1>1, <1>3, <1>4, <2>2 DEF ResetTimerTrails
  <2>3. CASE u.in /\ ~ResetRises(k, u)
    BY <1>1, <1>3, <1>4, <2>3 DEF ResetTimerTrails
  <2> QED BY <2>1, <2>2, <2>3
<1> QED BY <1>5 DEF r

ResetTimerLanded(s, k, x, t, u, e, o) ==
    /\ s = x.out[2] \/ (~e /\ s = o)
    /\ ResetTimerTrails(s, k, x.mem, t, 0, u, FALSE, x.out[2])
    /\ k.previous = u.in /\ k.reset = u.reset /\ x.out[2] = x.mem.passed

LEMMA ResetTimerLands ==
    ASSUME NEW s, NEW k, NEW m, NEW t \in Nat, NEW n \in Nat, n > 0, NEW d,
           NEW u \in [in : BOOLEAN, reset : BOOLEAN], NEW e \in BOOLEAN, NEW o,
           ResetTimerTrails(s, k, m, t, n, u, e, o), Threshold # n
    PROVE  ResetTimerLanded(s, k, TimerWithResetScan(m, t + n, d, u), t + n, u, e, o)
<1> DEFINE z == t + n
           x == TimerWithResetScan(m, z, d, u)
<1>1. /\ m.new = FALSE /\ m.previous = u.in /\ m.reset = u.reset /\ m.passed \in BOOLEAN
      /\ Threshold \in Int
  BY DelayAssumption DEF ResetTimerTrails
<1>2. ResetScanned(x, m, z, u)
  BY <1>1, ResetTimerScans
<1> HIDE DEF x
<1>3. k.previous = u.in /\ k.reset = u.reset /\ s = k.passed /\ k.passed \in BOOLEAN
  BY DEF ResetTimerTrails
<1>4. ~ResetRises(m, u) /\ ~ResetRises(k, u)
  BY <1>1, <1>3 DEF ResetRises
<1>5. /\ x.mem.new = FALSE /\ x.mem.previous = u.in /\ x.mem.reset = u.reset
      /\ x.out[2] = x.mem.passed /\ x.mem.passed \in BOOLEAN /\ x.mem.entry_time = m.entry_time
      /\ x.mem.passed <=> IF u.in THEN m.passed \/ z >= m.entry_time + Threshold
                          ELSE m.passed /\ ~m.previous
  BY <1>1, <1>2, <1>4 DEF ResetScanned
<1>6. s = x.mem.passed \/ (~e /\ s = o)
  <2>1. CASE ~u.in
    BY <1>1, <1>3, <1>5, <2>1 DEF ResetTimerTrails
  <2>2. CASE u.in
    <3>1. /\ k.entry \in Int /\ m.entry_time \in Int
          /\ m.entry_time <= k.entry /\ k.entry <= m.entry_time + 1
          /\ k.passed <=> t + n - k.entry >= Threshold
          /\ m.passed <=> t - m.entry_time >= Threshold
          /\ ~m.passed => IF e THEN k.entry = m.entry_time ELSE o = FALSE \/ m.entry_time = t
      BY <2>2, <1>4 DEF ResetTimerTrails
    <3>2. x.mem.passed <=> z - m.entry_time >= Threshold
      BY <1>1, <1>5, <2>2, <3>1
    <3>3. ASSUME s # x.mem.passed
          PROVE  ~k.passed /\ ~m.passed /\ k.entry # m.entry_time /\ m.entry_time # t
      BY <3>3, <3>1, <3>2, <1>1, <1>3, <1>5
    <3> QED BY <1>3, <3>1, <3>3
  <2> QED BY <2>1, <2>2
<1>7. ResetTimerTrails(s, k, x.mem, z, 0, u, FALSE, x.mem.passed)
  <2>1. CASE ~u.in
    BY <1>1, <1>3, <1>4, <1>5, <2>1 DEF ResetTimerTrails
  <2>2. CASE u.in
    BY <1>1, <1>3, <1>4, <1>5, <2>2 DEF ResetTimerTrails
  <2> QED BY <2>1, <2>2
<1>8. ResetTimerLanded(s, k, x, z, u, e, o)
  BY <1>3, <1>5, <1>6, <1>7 DEF ResetTimerLanded
<1> QED BY <1>8 DEF x


(* A true delay: the interpreter has waited since the phase, the program   *)
(* since the tick after it.                                                *)
DelayScanned(x, m, d, u) ==
    /\ x.out = x.mem.out /\ x.mem \in DelayState /\ x.mem.first = FALSE
    /\ x.mem.pending = u.in
    /\ ~u.in => ~x.mem.out
    /\ u.in /\ m.out => x.mem.out
    /\ u.in /\ ~m.out =>
          /\ x.mem.out <=> IF m.pending THEN m.elapsed + d >= Delay ELSE Delay <= 0
          /\ ~x.mem.out => x.mem.elapsed = IF m.pending THEN m.elapsed + d ELSE 0

DelayStepped(r, k, t, u) ==
    /\ r.out = r.mem.held /\ r.mem.held \in BOOLEAN
    /\ r.mem.initialized = TRUE /\ r.mem.previous = u.in /\ r.mem.at = t
    /\ r.mem.timer \in Int
    /\ r.mem.held <=> /\ u.in
                      /\ \/ ~k.initialized \/ k.held
                         \/ IF k.previous THEN k.timer + t - k.at >= Delay ELSE Delay <= 0
    /\ u.in /\ k.initialized /\ ~k.held =>
          r.mem.timer = IF k.previous THEN k.timer + t - k.at ELSE 0

LEMMA DelayScans ==
    ASSUME NEW m \in DelayState, m.first = FALSE, NEW t, NEW d \in Nat, NEW u \in [in : BOOLEAN],
           ~m.pending => ~m.out
    PROVE  DelayScanned(BooleanDelayScan(m, t, d, u), m, d, u)
<1> DEFINE x == BooleanDelayScan(m, t, d, u)
           wait == IF u.in THEN Delay ELSE 0
           elapsed == m.elapsed + d
           next == IF m.first /\ u.in
                THEN [m EXCEPT !.out = TRUE, !.pending = TRUE, !.elapsed = Delay]
                ELSE IF u.in = m.out THEN [m EXCEPT !.elapsed = 0, !.pending = u.in]
                ELSE IF u.in # m.pending
                THEN [m EXCEPT !.pending = u.in, !.elapsed = 0,
                               !.out = IF wait <= 0 THEN u.in ELSE @]
                ELSE IF elapsed >= wait THEN [m EXCEPT !.out = u.in, !.elapsed = 0]
                ELSE [m EXCEPT !.elapsed = elapsed]
<1>0. /\ u.in \in BOOLEAN /\ m.out \in BOOLEAN /\ m.pending \in BOOLEAN /\ m.first = FALSE
      /\ m.elapsed \in Int /\ Delay \in Int /\ elapsed \in Int /\ wait \in Int
  BY DelayAssumption DEF DelayState
<1>1. x.out = next.out /\ x.mem = [next EXCEPT !.first = FALSE]
  BY DEF BooleanDelayScan, Shown
<1> DEFINE Goes(n) ==
              /\ n \in DelayState /\ n.pending = u.in
              /\ ~u.in => ~n.out
              /\ u.in /\ m.out => n.out
              /\ u.in /\ ~m.out =>
                    /\ n.out <=> IF m.pending THEN elapsed >= Delay ELSE Delay <= 0
                    /\ ~n.out => n.elapsed = IF m.pending THEN elapsed ELSE 0
<1> HIDE DEF x, elapsed
<1>2. Goes(next)
  <2>1. CASE u.in = m.out
    <3> DEFINE a == [m EXCEPT !.elapsed = 0]
               b == [a EXCEPT !.pending = u.in]
    <3>1. next = b
      BY <1>0, <2>1
    <3>2. a \in DelayState /\ a.out = m.out
      BY <1>0 DEF DelayState
    <3> HIDE DEF next, a
    <3>3. b \in DelayState /\ b.pending = u.in /\ b.out = m.out
      BY <3>2, <1>0 DEF DelayState
    <3> HIDE DEF b
    <3> QED BY <2>1, <3>1, <3>3
  <2>2. CASE u.in # m.out /\ u.in # m.pending
    <3> DEFINE out == IF wait <= 0 THEN u.in ELSE m.out
    <3> DEFINE a == [m EXCEPT !.pending = u.in]
               b == [a EXCEPT !.elapsed = 0]
               c == [b EXCEPT !.out = out]
    <3>1. next = c
      BY <1>0, <2>2
    <3>2. out \in BOOLEAN /\ (~u.in => ~out) /\ (u.in => (out <=> Delay <= 0))
      BY <1>0, <2>2
    <3> HIDE DEF next, out
    <3>6. a \in DelayState /\ a.pending = u.in
      BY <1>0 DEF DelayState
    <3> HIDE DEF a
    <3>7. b \in DelayState /\ b.pending = u.in /\ b.elapsed = 0
      BY <3>6, <1>0 DEF DelayState
    <3> HIDE DEF b
    <3>8. c \in DelayState /\ c.pending = u.in /\ c.out = out /\ c.elapsed = 0
      BY <3>2, <3>7, <1>0 DEF DelayState
    <3> HIDE DEF c
    <3>3. next \in DelayState /\ next.pending = u.in /\ next.out = out /\ next.elapsed = 0
      BY <3>1, <3>8
    <3>4. u.in => ~m.out /\ ~m.pending
      BY <1>0, <2>2
    <3> HIDE DEF wait
    <3>5. next.out \in BOOLEAN /\ (~u.in => ~next.out) /\ (u.in => (next.out <=> Delay <= 0))
      BY <3>2, <3>3
    <3> QED BY <3>3, <3>4, <3>5
  <2>3. CASE u.in # m.out /\ u.in = m.pending
    <3>1. u.in = TRUE /\ m.out = FALSE /\ m.pending = TRUE /\ wait = Delay
      BY <1>0, <2>3
    <3>2. CASE elapsed >= Delay
      <4> DEFINE a == [m EXCEPT !.out = TRUE]
                 b == [a EXCEPT !.elapsed = 0]
      <4>1. next = b
        BY <1>0, <3>1, <3>2
      <4> HIDE DEF next
      <4>2. a \in DelayState /\ a.pending = TRUE /\ a.out = TRUE
        BY <3>1, <1>0 DEF DelayState
      <4> HIDE DEF a
      <4>3. b \in DelayState /\ b.pending = TRUE /\ b.out = TRUE
        BY <4>2, <1>0 DEF DelayState
      <4> HIDE DEF b
      <4> QED BY <4>1, <4>3, <3>1, <3>2
    <3>3. CASE ~(elapsed >= Delay)
      <4>1. next = [m EXCEPT !.elapsed = elapsed]
        BY <1>0, <3>1, <3>3
      <4> HIDE DEF next
      <4>2. /\ next \in DelayState /\ next.pending = TRUE /\ next.out = FALSE
            /\ next.elapsed = elapsed
        BY <4>1, <3>1, <1>0 DEF DelayState
      <4> QED BY <4>2, <3>1, <3>3
    <3> QED BY <3>2, <3>3
  <2> QED BY <2>1, <2>2, <2>3
<1> HIDE DEF next
<1>3. /\ x.mem \in DelayState /\ x.mem.first = FALSE /\ x.mem.out = next.out
      /\ x.mem.pending = next.pending /\ x.mem.elapsed = next.elapsed
  BY <1>1, <1>2 DEF DelayState
<1> QED BY <1>1, <1>2, <1>3 DEF x, DelayScanned, elapsed

LEMMA DelayScansFirst ==
    ASSUME NEW u \in [in : BOOLEAN]
    PROVE  LET x == BooleanDelayScan(BooleanDelayNew, 0, 0, u)
           IN  /\ x.mem \in DelayState /\ x.mem.first = FALSE /\ x.mem.pending = u.in
               /\ x.mem.out = u.in
<1> DEFINE m == BooleanDelayNew
           x == BooleanDelayScan(m, 0, 0, u)
           wait == IF u.in THEN Delay ELSE 0
           elapsed == m.elapsed + 0
           next == IF m.first /\ u.in
                THEN [m EXCEPT !.out = TRUE, !.pending = TRUE, !.elapsed = Delay]
                ELSE IF u.in = m.out THEN [m EXCEPT !.elapsed = 0, !.pending = u.in]
                ELSE IF u.in # m.pending
                THEN [m EXCEPT !.pending = u.in, !.elapsed = 0,
                               !.out = IF wait <= 0 THEN u.in ELSE @]
                ELSE IF elapsed >= wait THEN [m EXCEPT !.out = u.in, !.elapsed = 0]
                ELSE [m EXCEPT !.elapsed = elapsed]
<1>1. x.mem = [next EXCEPT !.first = FALSE]
  BY DEF BooleanDelayScan, Shown
<1>2. m \in DelayState /\ m.first = TRUE /\ m.out = FALSE /\ Delay \in Int /\ u.in \in BOOLEAN
  BY DelayAssumption DEF BooleanDelayNew, DelayState
<1> HIDE DEF m, x
<1>3. next \in DelayState /\ next.pending = u.in /\ next.out = u.in
  <2>1. CASE u.in
    <3>1. next = [m EXCEPT !.out = TRUE, !.pending = TRUE, !.elapsed = Delay]
      BY <1>2, <2>1
    <3> HIDE DEF next
    <3> QED BY <3>1, <1>2, <2>1 DEF DelayState
  <2>2. CASE ~u.in
    <3> DEFINE a == [m EXCEPT !.elapsed = 0]
               b == [a EXCEPT !.pending = u.in]
    <3>1. next = b
      BY <1>2, <2>2
    <3>2. a \in DelayState /\ a.out = FALSE
      BY <1>2 DEF DelayState
    <3> HIDE DEF next, a
    <3>3. b \in DelayState /\ b.pending = u.in /\ b.out = u.in
      BY <3>2, <1>2, <2>2 DEF DelayState
    <3> HIDE DEF b
    <3> QED BY <3>1, <3>3
  <2> QED BY <2>1, <2>2
<1> HIDE DEF next
<1>4. x.mem \in DelayState /\ x.mem.first = FALSE /\ x.mem.pending = u.in /\ x.mem.out = u.in
  BY <1>1, <1>3 DEF DelayState
<1> QED BY <1>4 DEF x, m

LEMMA DelaySteps ==
    ASSUME NEW k, NEW t \in Int, NEW u \in [in : BOOLEAN],
           k.previous \in BOOLEAN, k.held \in BOOLEAN,
           k.timer \in Int, k.at \in Int
    PROVE  DelayStepped(TrueDelayStep(k, t, u), k, t, u)
<1> DEFINE r == TrueDelayStep(k, t, u)
           waited == k.timer + t - k.at
           late == waited >= Delay
           zero == Delay <= 0
           out == u.in /\ (~k.initialized \/ k.held \/ IF k.previous THEN late ELSE zero)
           timer == IF ~u.in THEN 0
                    ELSE IF ~k.initialized \/ k.held THEN Delay
                    ELSE IF k.previous THEN waited ELSE 0
<1>1. /\ r.out = out /\ r.mem.initialized = TRUE /\ r.mem.previous = u.in
      /\ r.mem.held = out /\ r.mem.timer = timer /\ r.mem.at = t
  BY DEF TrueDelayStep, Ran
<1>2. late \in BOOLEAN /\ zero \in BOOLEAN /\ timer \in Int /\ Delay \in Int
  BY DelayAssumption
<1> HIDE DEF r
<1>3. u.in /\ k.initialized /\ ~k.held => timer = IF k.previous THEN waited ELSE 0
  OBVIOUS
<1> HIDE DEF timer
<1>4. out \in BOOLEAN
  <2> HIDE DEF late, zero
  <2> QED BY <1>2
<1>5. out <=> /\ u.in
              /\ \/ ~k.initialized \/ k.held
                 \/ IF k.previous THEN k.timer + t - k.at >= Delay ELSE Delay <= 0
  OBVIOUS
<1> HIDE DEF out
<1> QED BY <1>1, <1>2, <1>3, <1>4, <1>5 DEF r, DelayStepped

LEMMA DelayBegins ==
    ASSUME NEW s, NEW u \in [in : BOOLEAN], NEW o
    PROVE  DelayTrails(s, TrueDelayStep(TrueDelayStart, 0, u).mem,
                       BooleanDelayScan(BooleanDelayNew, 0, 0, u).mem, 0, 0, u, TRUE, o)
<1> DEFINE k == TrueDelayStart
           r == TrueDelayStep(k, 0, u)
           x == BooleanDelayScan(BooleanDelayNew, 0, 0, u)
<1>1. /\ k.initialized = FALSE /\ k.previous = FALSE /\ k.held = FALSE /\ k.timer = 0
      /\ k.at = -1
  BY DEF TrueDelayStart, Never
<1> HIDE DEF k
<1>2. DelayStepped(r, k, 0, u)
  <2>1. k.previous \in BOOLEAN /\ k.held \in BOOLEAN
    BY <1>1, Zenon
  <2>2. k.timer \in Int /\ k.at \in Int /\ 0 \in Int
    BY <1>1
  <2> HIDE DEF r
  <2> QED BY <2>1, <2>2, DelaySteps DEF r
<1>3. x.mem \in DelayState /\ x.mem.first = FALSE /\ x.mem.pending = u.in /\ x.mem.out = u.in
  BY DelayScansFirst
<1> HIDE DEF r, x
<1>4. DelayTrails(s, r.mem, x.mem, 0, 0, u, TRUE, o)
  BY <1>1, <1>2, <1>3 DEF DelayTrails, DelayStepped
<1> QED BY <1>4 DEF r, x, k

LEMMA DelayPrimed ==
    ASSUME NEW s, NEW k, NEW m, NEW t \in Nat, NEW v \in [in : BOOLEAN], NEW u \in [in : BOOLEAN],
           NEW o, DelayTrails(s, k, m, t, 0, v, FALSE, o), k.previous = v.in, o = m.out
    PROVE  DelayTrails(s, k, BooleanDelayScan(m, t, 0, u).mem, t, 0, u, FALSE, o)
<1> DEFINE x == BooleanDelayScan(m, t, 0, u)
<1>1. /\ m \in DelayState /\ m.first = FALSE /\ m.pending = v.in /\ (~m.pending => ~m.out)
      /\ Delay \in Int
  BY DelayAssumption DEF DelayTrails
<1>2. DelayScanned(x, m, 0, u)
  BY <1>1, DelayScans
<1> HIDE DEF x
<1>3. /\ m.out \in BOOLEAN /\ m.elapsed \in Int /\ x.mem.out \in BOOLEAN /\ x.mem.elapsed \in Int
  BY <1>1, <1>2 DEF DelayScanned, DelayState
<1>4. DelayTrails(s, k, x.mem, t, 0, u, FALSE, o)
  BY <1>1, <1>2, <1>3 DEF DelayTrails, DelayScanned
<1> QED BY <1>4 DEF x

LEMMA DelayTicks ==
    ASSUME NEW s, NEW k, NEW m, NEW t \in Nat, NEW n \in Nat, NEW u \in [in : BOOLEAN],
           NEW e \in BOOLEAN, NEW o, DelayTrails(s, k, m, t, n, u, e, o)
    PROVE  LET r == TrueDelayStep(k, t + (n + 1), u)
           IN  DelayTrails(r.out, r.mem, m, t, n + 1, u, e, o)
<1> DEFINE z == t + (n + 1)
           r == TrueDelayStep(k, z, u)
<1>1. /\ k.initialized = TRUE /\ k.previous \in BOOLEAN /\ k.held \in BOOLEAN
      /\ k.timer \in Int /\ k.at = t + n /\ k.at \in Int /\ Delay \in Int
      /\ m.elapsed \in Int
  BY DelayAssumption DEF DelayTrails, DelayState
<1>2. DelayStepped(r, k, z, u)
  <2>1. /\ k.previous \in BOOLEAN /\ k.held \in BOOLEAN
        /\ k.timer \in Int /\ k.at \in Int /\ z \in Int
    BY <1>1
  <2> HIDE DEF r, z
  <2> QED BY <2>1, DelaySteps DEF r
<1>3. k.timer + z - k.at = k.timer + 1
  BY <1>1
<1> HIDE DEF r
<1>4. DelayTrails(r.out, r.mem, m, t, n + 1, u, e, o)
  BY <1>1, <1>2, <1>3 DEF DelayTrails, DelayStepped
<1> QED BY <1>4 DEF r

DelayLanded(s, k, x, t, u, e, o) ==
    /\ s = x.out \/ (~e /\ s = o)
    /\ DelayTrails(s, k, x.mem, t, 0, u, FALSE, x.out)
    /\ k.previous = u.in /\ x.out = x.mem.out

LEMMA DelayLands ==
    ASSUME NEW s, NEW k, NEW m, NEW t \in Nat, NEW n \in Nat, n > 0, NEW u \in [in : BOOLEAN],
           NEW e \in BOOLEAN, NEW o, DelayTrails(s, k, m, t, n, u, e, o)
    PROVE  DelayLanded(s, k, BooleanDelayScan(m, t + n, n, u), t + n, u, e, o)
<1> DEFINE z == t + n
           x == BooleanDelayScan(m, z, n, u)
<1>1. /\ m \in DelayState /\ m.first = FALSE /\ m.pending = u.in /\ (~m.pending => ~m.out)
      /\ Delay \in Int
  BY DelayAssumption DEF DelayTrails
<1>2. DelayScanned(x, m, n, u)
  BY <1>1, DelayScans
<1> HIDE DEF x
<1>3. /\ m.out \in BOOLEAN /\ m.elapsed \in Int /\ x.mem.out \in BOOLEAN /\ x.mem.elapsed \in Int
      /\ x.out = x.mem.out
  BY <1>1, <1>2 DEF DelayScanned, DelayState
<1>4. s = k.held /\ k.held \in BOOLEAN /\ k.previous = u.in
  BY DEF DelayTrails
<1>5. s = x.out \/ (~e /\ s = o)
  <2>1. CASE ~u.in
    BY <1>2, <1>3, <1>4, <2>1 DEF DelayTrails, DelayScanned
  <2>2. CASE u.in /\ m.out
    BY <1>2, <1>3, <1>4, <2>2 DEF DelayTrails, DelayScanned
  <2>3. CASE u.in /\ ~m.out
    <3>1. ~e /\ o = FALSE /\ (s => m.elapsed + n >= Delay)
      BY <1>4, <2>3 DEF DelayTrails
    <3>2. x.mem.out <=> m.elapsed + n >= Delay
      BY <1>1, <1>2, <2>3 DEF DelayScanned
    <3> QED BY <1>3, <1>4, <3>1, <3>2
  <2> QED BY <2>1, <2>2, <2>3
<1>6. DelayTrails(s, k, x.mem, z, 0, u, FALSE, x.mem.out)
  <2>1. /\ x.mem \in DelayState /\ x.mem.first = FALSE /\ x.mem.pending = u.in
        /\ ~u.in => ~x.mem.out
    BY <1>2 DEF DelayScanned
  <2>2. CASE ~u.in
    BY <1>1, <1>3, <1>4, <2>1, <2>2 DEF DelayTrails
  <2>3. CASE u.in /\ m.out
    BY <1>1, <1>2, <1>3, <1>4, <2>1, <2>3 DEF DelayTrails, DelayScanned
  <2>4. CASE u.in /\ ~m.out
    <3>1. /\ x.mem.out <=> m.elapsed + n >= Delay
          /\ ~x.mem.out => x.mem.elapsed = m.elapsed + n
      BY <1>1, <1>2, <2>4 DEF DelayScanned
    <3> QED BY <1>1, <1>3, <1>4, <2>1, <2>4, <3>1 DEF DelayTrails
  <2> QED BY <2>2, <2>3, <2>4
<1>7. DelayLanded(s, k, x, z, u, e, o)
  BY <1>3, <1>4, <1>5, <1>6 DEF DelayLanded
<1> QED BY <1>7 DEF x


LEMMA Ordered ==
    ASSUME NEW a \in Nat, NEW b \in Nat, a <= b
    PROVE  Index(a) <= Index(b)
<1> DEFINE P == SamplePeriod
           i == Index(a)
           j == Index(b)
<1>1. /\ i \in Nat /\ i * P <= a /\ j \in Nat /\ b < j * P + P /\ P \in Nat
  BY Divided, PeriodAssumption
<1> HIDE DEF P, i, j
<1>2. ~(i >= j + 1)
  <2> SUFFICES ASSUME i >= j + 1 PROVE FALSE
    OBVIOUS
  <2>1. i * P >= (j + 1) * P /\ (j + 1) * P = j * P + P
    BY <1>1
  <2> QED BY <1>1, <2>1
<1>3. i <= j
  BY <1>1, <1>2
<1> QED BY <1>3 DEF i, j

(* A sampler: a boundary that the program has passed in the scan has shown *)
(* it the input that the interpreter will sample at the end.               *)
SamplerStepped(r, k, s, t, u) ==
    /\ r.out = r.mem.held /\ r.mem.initialized /\ r.mem.index = Index(t)
    /\ r.mem.held = IF Index(t) > Index(s) THEN u.in ELSE k.held

LEMMA SamplerSteps ==
    ASSUME NEW k, NEW s \in Nat, NEW t, t = s + 1, NEW w, NEW u,
           k.initialized, k.index = Index(s)
    PROVE  SamplerStepped(SamplerStep(SamplerStep(k, t, w).mem, t, u), k, s, t, u)
<1> DEFINE r == SamplerStep(SamplerStep(k, t, w).mem, t, u)
           m == [new |-> FALSE, held |-> k.held, last_index |-> Index(s)]
           x == NumericSamplerScan(m, t, 0, u)
           takes == m.new \/ Index(t) > m.last_index
           held == IF takes THEN u.in ELSE m.held
<1>1. s \in Instants /\ s # Never
  BY DEF Instants, Never
<1>2. x.out = held /\ x.mem.held = held
  BY DEF NumericSamplerScan, Shown
<1>3. ~m.new /\ m.held = k.held /\ m.last_index = Index(s)
  OBVIOUS
<1> HIDE DEF r, m, x
<1>4. SamplerAlike(k, m, s)
  BY <1>1, <1>3 DEF SamplerAlike
<1>5. r.out = x.out /\ SamplerAlike(r.mem, x.mem, t)
  BY <1>1, <1>4, SamplerTwin DEF r, x
<1>6. t # Never
  BY DEF Never
<1>7. held = IF Index(t) > Index(s) THEN u.in ELSE k.held
  BY <1>3
<1> HIDE DEF held
<1> QED BY <1>2, <1>5, <1>6, <1>7 DEF SamplerAlike, SamplerStepped, r

LEMMA SamplerScans ==
    ASSUME NEW m, NEW t, NEW d, NEW u, ~m.new
    PROVE  LET x == NumericSamplerScan(m, t, d, u)
           IN  /\ x.out = x.mem.held /\ ~x.mem.new
               /\ x.mem.held = IF Index(t) > m.last_index THEN u.in ELSE m.held
               /\ x.mem.last_index = IF Index(t) > m.last_index THEN Index(t) ELSE m.last_index
<1> DEFINE x == NumericSamplerScan(m, t, d, u)
           takes == m.new \/ Index(t) > m.last_index
           held == IF takes THEN u.in ELSE m.held
           last == IF takes THEN Index(t) ELSE m.last_index
<1>1. x.out = held /\ x.mem.held = held /\ ~x.mem.new /\ x.mem.last_index = last
  BY DEF NumericSamplerScan, Shown
<1>2. /\ held = IF Index(t) > m.last_index THEN u.in ELSE m.held
      /\ last = IF Index(t) > m.last_index THEN Index(t) ELSE m.last_index
  OBVIOUS
<1> HIDE DEF x, held, last
<1> QED BY <1>1, <1>2 DEF x

LEMMA SamplerBegins ==
    ASSUME NEW s, NEW w, NEW u
    PROVE  SamplerTrails(s, SamplerStep(SamplerStep(SamplerStart, 0, w).mem, 0, u).mem,
                         NumericSamplerScan(NumericSamplerNew, 0, 0, u).mem, 0, 0, u)
<1> DEFINE k == SamplerStart
           m == NumericSamplerNew
           r == SamplerStep(SamplerStep(k, 0, w).mem, 0, u)
           x == NumericSamplerScan(m, 0, 0, u)
<1>1. SamplerAlike(k, m, Never) /\ Never \in Instants /\ 0 = Never + 1
  BY DEF SamplerAlike, Instants, Never
<1> HIDE DEF k, m
<1>2. SamplerAlike(r.mem, x.mem, 0)
  BY <1>1, SamplerTwin
<1>3. 0 # Never /\ Index(0) \in Nat
  BY Divided DEF Never
<1> HIDE DEF r, x
<1>4. SamplerTrails(s, r.mem, x.mem, 0, 0, u)
  BY <1>2, <1>3 DEF SamplerTrails, SamplerAlike
<1> QED BY <1>4 DEF r, x, k, m

LEMMA SamplerPrimed ==
    ASSUME NEW s, NEW k, NEW m, NEW t \in Nat, NEW d, NEW v, NEW u,
           SamplerTrails(s, k, m, t, 0, v)
    PROVE  SamplerTrails(s, k, NumericSamplerScan(m, t, d, u).mem, t, 0, u)
<1> DEFINE x == NumericSamplerScan(m, t, d, u)
<1>1. ~m.new /\ m.last_index = Index(t) /\ t + 0 = t /\ Index(t) \in Nat
  BY Divided DEF SamplerTrails
<1>2. ~x.mem.new /\ x.mem.held = m.held /\ x.mem.last_index = Index(t)
  BY <1>1, SamplerScans
<1> HIDE DEF x
<1>3. SamplerTrails(s, k, x.mem, t, 0, u)
  BY <1>1, <1>2 DEF SamplerTrails
<1> QED BY <1>3 DEF x

LEMMA SamplerTicks ==
    ASSUME NEW s, NEW k, NEW m, NEW t \in Nat, NEW n \in Nat, NEW w, NEW u,
           SamplerTrails(s, k, m, t, n, u)
    PROVE  LET r == SamplerStep(SamplerStep(k, t + (n + 1), w).mem, t + (n + 1), u)
           IN  SamplerTrails(r.out, r.mem, m, t, n + 1, u)
<1> DEFINE y == t + n
           z == t + (n + 1)
           r == SamplerStep(SamplerStep(k, z, w).mem, z, u)
<1>1. y \in Nat /\ z = y + 1 /\ z \in Nat /\ t <= y /\ y <= z
  OBVIOUS
<1>2. k.initialized /\ k.index = Index(y)
  BY DEF SamplerTrails
<1> HIDE DEF z, y
<1>8. SamplerStepped(r, k, y, z, u)
  BY <1>1, <1>2, SamplerSteps
<1>3. /\ r.out = r.mem.held /\ r.mem.initialized /\ r.mem.index = Index(z)
      /\ r.mem.held = IF Index(z) > Index(y) THEN u.in ELSE k.held
  BY <1>8 DEF SamplerStepped
<1>4. Index(t) \in Nat /\ Index(y) \in Nat /\ Index(z) \in Nat
      /\ Index(t) <= Index(y) /\ Index(y) <= Index(z)
  BY <1>1, Divided, Ordered
<1> HIDE DEF r
<1>5. /\ ~m.new /\ m.last_index = Index(t)
      /\ k.held = IF Index(y) > Index(t) THEN u.in ELSE m.held
  BY DEF SamplerTrails, y
<1>6. r.mem.held = IF Index(z) > Index(t) THEN u.in ELSE m.held
  BY <1>3, <1>4, <1>5
<1>7. SamplerTrails(r.out, r.mem, m, t, n + 1, u)
  BY <1>3, <1>5, <1>6 DEF SamplerTrails, z
<1> QED BY <1>7 DEF r, z

LEMMA SamplerLands ==
    ASSUME NEW s, NEW k, NEW m, NEW t \in Nat, NEW n \in Nat, n > 0, NEW d, NEW u,
           SamplerTrails(s, k, m, t, n, u)
    PROVE  LET x == NumericSamplerScan(m, t + n, d, u)
           IN  s = x.out /\ SamplerTrails(s, k, x.mem, t + n, 0, u)
<1> DEFINE z == t + n
           x == NumericSamplerScan(m, z, d, u)
<1>1. /\ ~m.new /\ m.last_index = Index(t) /\ k.initialized /\ k.index = Index(z)
      /\ k.held = IF Index(z) > Index(t) THEN u.in ELSE m.held
      /\ s = k.held
  BY DEF SamplerTrails
<1>2. z \in Nat /\ t <= z /\ z + 0 = z
  OBVIOUS
<1> HIDE DEF z
<1>3. Index(t) \in Nat /\ Index(z) \in Nat /\ Index(t) <= Index(z)
  BY <1>2, Divided, Ordered
<1>4. /\ x.out = x.mem.held /\ ~x.mem.new
      /\ x.mem.held = IF Index(z) > m.last_index THEN u.in ELSE m.held
      /\ x.mem.last_index = IF Index(z) > m.last_index THEN Index(z) ELSE m.last_index
  BY <1>1, SamplerScans
<1> HIDE DEF x
<1>5. x.mem.last_index = Index(z) /\ x.mem.held = k.held
  BY <1>1, <1>3, <1>4
<1>6. SamplerTrails(s, k, x.mem, z, 0, u)
  BY <1>1, <1>2, <1>3, <1>4, <1>5 DEF SamplerTrails
<1> QED BY <1>1, <1>4, <1>5, <1>6 DEF x, z

(* A counter shows what the instant before left.                           *)
LEMMA CounterStays ==
    ASSUME NEW m, NEW t, NEW d, NEW u,
           m = [count |-> m.count, trigger |-> u.trigger, reset |-> u.reset, history |-> TRUE]
    PROVE  CounterScan(m, t, d, u).mem = m /\ CounterScan(m, t, d, u).out = m.count
<1> DEFINE counts == m.history /\ ((u.trigger /\ ~m.trigger) \/ (u.reset /\ ~m.reset))
           count == IF ~counts THEN m.count ELSE IF u.reset THEN 0 ELSE m.count + 1
           x == CounterScan(m, t, d, u)
<1>1. /\ x.out = m.count
      /\ x.mem = [count |-> count, trigger |-> u.trigger, reset |-> u.reset, history |-> TRUE]
  BY DEF CounterScan, Shown
<1>2. m.trigger = u.trigger /\ m.reset = u.reset
  OBVIOUS
<1>3. count = m.count
  BY <1>2
<1> HIDE DEF count, x
<1>4. x.mem = m /\ x.out = m.count
  BY <1>1, <1>3
<1> QED BY <1>4 DEF x

CounterScanned(x, m, u) ==
    /\ x.out = m.count
    /\ x.mem = [count |-> x.mem.count, trigger |-> u.trigger, reset |-> u.reset,
                history |-> TRUE]

LEMMA CounterScans ==
    ASSUME NEW m, NEW t, NEW d, NEW u, NEW a, NEW b
    PROVE  /\ CounterScanned(CounterScan(m, t, d, u), m, u)
           /\ CounterScan(m, t, d, u).mem = CounterScan(m, a, b, u).mem
<1> DEFINE counts == m.history /\ ((u.trigger /\ ~m.trigger) \/ (u.reset /\ ~m.reset))
           count == IF ~counts THEN m.count ELSE IF u.reset THEN 0 ELSE m.count + 1
           mem == [count |-> count, trigger |-> u.trigger, reset |-> u.reset, history |-> TRUE]
           x == CounterScan(m, t, d, u)
           y == CounterScan(m, a, b, u)
<1>1. x.out = m.count /\ x.mem = mem /\ y.mem = mem
  BY DEF CounterScan, Shown
<1>2. mem = [count |-> mem.count, trigger |-> u.trigger, reset |-> u.reset, history |-> TRUE]
  OBVIOUS
<1> HIDE DEF mem, x, y
<1>3. CounterScanned(x, m, u) /\ x.mem = y.mem
  BY <1>1, <1>2 DEF CounterScanned
<1> QED BY <1>3 DEF x, y

LEMMA CounterBegins ==
    ASSUME NEW s, NEW w, NEW u, NEW o
    PROVE  CounterTrails(s, OnCounterStep(OnCounterStep(OnCounterStart, 0, w).mem, 0, u).mem,
                         CounterScan(CounterNew, 0, 0, u).mem, 0, 0, u, TRUE, o)
<1> DEFINE k == OnCounterStart
           m == CounterNew
           r == OnCounterStep(OnCounterStep(k, 0, w).mem, 0, u)
           x == CounterScan(m, 0, 0, u)
<1>1. k.now = m /\ k.instant = Never
  BY DEF OnCounterStart, CounterNew
<1>2. Never \in Instants /\ 0 = Never + 1
  BY DEF Instants, Never
<1> HIDE DEF k, m
<1>3. r.mem.now = x.mem /\ r.mem.instant = 0
  BY <1>1, <1>2, CounterTwin
<1>6. CounterScanned(x, m, u)
  BY CounterScans
<1> HIDE DEF r, x
<1>4. x.mem = [count |-> x.mem.count, trigger |-> u.trigger, reset |-> u.reset, history |-> TRUE]
  BY <1>6 DEF CounterScanned
<1>5. CounterTrails(s, r.mem, x.mem, 0, 0, u, TRUE, o)
  BY <1>3, <1>4 DEF CounterTrails
<1> QED BY <1>5 DEF r, x, k, m

LEMMA CounterPrimed ==
    ASSUME NEW s, NEW k, NEW m, NEW t \in Nat, NEW d, NEW v, NEW u, NEW o,
           CounterTrails(s, k, m, t, 0, v, FALSE, o), k.now = m, o = m.count
    PROVE  CounterTrails(s, k, CounterScan(m, t, d, u).mem, t, 0, u, FALSE, o)
<1> DEFINE x == CounterScan(m, t, d, u)
<1>1. CounterScanned(x, m, u) /\ x.mem = CounterScan(k.now, t, 0, u).mem
  BY CounterScans
<1> HIDE DEF x
<1>2. CounterTrails(s, k, x.mem, t, 0, u, FALSE, o)
  BY <1>1 DEF CounterTrails, CounterScanned
<1> QED BY <1>2 DEF x

LEMMA CounterTicks ==
    ASSUME NEW s, NEW k, NEW m, NEW t \in Nat, NEW n \in Nat, NEW w, NEW u,
           NEW e \in BOOLEAN, NEW o, CounterTrails(s, k, m, t, n, u, e, o)
    PROVE  LET r == OnCounterStep(OnCounterStep(k, t + (n + 1), w).mem, t + (n + 1), u)
           IN  CounterTrails(r.out, r.mem, m, t, n + 1, u, e, o)
<1> DEFINE y == t + n
           z == t + (n + 1)
           c == k.now
           r == OnCounterStep(OnCounterStep(k, z, w).mem, z, u)
           x == CounterScan(c, z, 0, u)
<1>1. y \in Instants /\ z = y + 1
  BY DEF Instants
<1>2. k.instant = y /\ k.now = c
  BY DEF CounterTrails
<1> HIDE DEF y, z
<1>3. r.out = x.out /\ r.mem.now = x.mem /\ r.mem.instant = z
  <2> HIDE DEF c
  <2> QED BY <1>1, <1>2, CounterTwin
<1>4. x.out = c.count /\ x.mem = CounterScan(c, t, 0, u).mem
  <2> HIDE DEF c, r
  <2>1. CounterScanned(x, c, u) /\ x.mem = CounterScan(c, t, 0, u).mem
    BY CounterScans
  <2> QED BY <2>1 DEF CounterScanned
<1>5. x.mem = m
  <2>1. m = c \/ m = CounterScan(c, t, 0, u).mem
    BY DEF CounterTrails
  <2>2. ASSUME m = c PROVE x.mem = m
    <3>1. c = [count |-> c.count, trigger |-> u.trigger, reset |-> u.reset, history |-> TRUE]
      BY <2>2 DEF CounterTrails
    <3> HIDE DEF c
    <3> QED BY <2>2, <3>1, CounterStays
  <2> QED BY <1>4, <2>1, <2>2
<1> HIDE DEF r, x
<1>6. CounterTrails(r.out, r.mem, m, t, n + 1, u, e, o)
  BY <1>3, <1>4, <1>5 DEF CounterTrails, z
<1> QED BY <1>6 DEF r, z

CounterLanded(s, k, x, t, u, e, o) ==
    /\ s = x.out \/ (~e /\ s = o)
    /\ CounterTrails(s, k, x.mem, t, 0, u, FALSE, x.out)
    /\ k.now = x.mem /\ x.out = x.mem.count

LEMMA CounterLands ==
    ASSUME NEW s, NEW k, NEW m, NEW t \in Nat, NEW n \in Nat, n > 0, NEW d, NEW u,
           NEW e \in BOOLEAN, NEW o, CounterTrails(s, k, m, t, n, u, e, o)
    PROVE  CounterLanded(s, k, CounterScan(m, t + n, d, u), t + n, u, e, o)
<1> DEFINE z == t + n
           x == CounterScan(m, z, d, u)
<1>1. m = [count |-> m.count, trigger |-> u.trigger, reset |-> u.reset, history |-> TRUE]
  BY DEF CounterTrails
<1>2. x.mem = m /\ x.out = m.count
  <2> HIDE DEF z
  <2> QED BY <1>1, CounterStays
<1> HIDE DEF x
<1>3. CounterLanded(s, k, x, z, u, e, o)
  BY <1>2 DEF CounterTrails, CounterLanded
<1> QED BY <1>3 DEF x


(* A unit delay: in a scan without a boundary the two hold the same, in    *)
(* one with a boundary the program has shown what was staged, and with     *)
(* more than one it has shown already what is staged now.                  *)
UnitScanned(x, m, t, u) ==
    /\ x.out = x.mem.held /\ x.mem.new = FALSE
    /\ x.mem.held = IF Index(t) > m.last_index THEN m.staged ELSE m.held
    /\ x.mem.staged = IF Index(t) > m.last_index THEN u.in ELSE m.staged
    /\ x.mem.last_index = IF Index(t) > m.last_index THEN Index(t) ELSE m.last_index

LEMMA UnitScans ==
    ASSUME NEW m, NEW t, NEW d, NEW u, m.new = FALSE
    PROVE  UnitScanned(NumericUnitDelayScan(m, t, d, u), m, t, u)
<1> DEFINE x == NumericUnitDelayScan(m, t, d, u)
<1>1. CASE Index(t) > m.last_index
  <2>1. x = Shown(m.staged, [new |-> FALSE, held |-> m.staged, staged |-> u.in,
                             last_index |-> Index(t)])
    BY <1>1 DEF NumericUnitDelayScan
  <2> HIDE DEF x
  <2>2. UnitScanned(x, m, t, u)
    BY <1>1, <2>1 DEF Shown, UnitScanned
  <2> QED BY <2>2 DEF x
<1>2. CASE ~(Index(t) > m.last_index)
  <2>1. x = Shown(m.held, m)
    BY <1>2 DEF NumericUnitDelayScan
  <2> HIDE DEF x
  <2>2. UnitScanned(x, m, t, u)
    BY <1>2, <2>1 DEF Shown, UnitScanned
  <2> QED BY <2>2 DEF x
<1> QED BY <1>1, <1>2

LEMMA UnitBegins ==
    ASSUME NEW s, NEW w, NEW u
    PROVE  UnitTrails(s, UnitDelayStep(UnitDelayStep(UnitDelayStart, 0, w).mem, 0, u).mem,
                      NumericUnitDelayScan(NumericUnitDelayNew, 0, 0, u).mem, 0, 0, u, TRUE)
<1> DEFINE k == UnitDelayStart
           m == NumericUnitDelayNew
           r == UnitDelayStep(UnitDelayStep(k, 0, w).mem, 0, u)
           x == NumericUnitDelayScan(m, 0, 0, u)
           z == Never
<1>1. /\ k.initialized = FALSE /\ k.index = 0 /\ k.held = 0 /\ m.new = TRUE
  BY DEF UnitDelayStart, NumericUnitDelayNew
<1>2. z \in Instants /\ 0 = z + 1 /\ z = Never /\ Index(0) = 0
  BY PeriodAssumption DEF Instants, Never, Index
<1> HIDE DEF k, m, z
<1>3. k.initialized = (z # Never) /\ k.index = IF z = Never THEN 0 ELSE Index(z)
  <2>1. (z # Never) = FALSE
    BY <1>2
  <2> QED BY <1>1, <1>2, <2>1
<1>4. UnitLeft(k, z, 0, u, r)
  BY <1>2, <1>3, UnitTwice
<1>5. x = Shown(0, [new |-> FALSE, held |-> 0, last_index |-> Index(0), staged |-> u.in])
  <2>1. 0 = Index(0) * SamplePeriod
    BY <1>2, PeriodAssumption
  <2> QED BY <1>1, <2>1 DEF NumericUnitDelayScan
<1> HIDE DEF r, x
<1>6. /\ x.mem.new = FALSE /\ x.mem.held = 0 /\ x.mem.last_index = Index(0)
      /\ x.mem.staged = u.in
  BY <1>5 DEF Shown
<1>7. /\ r.mem.held = 0 /\ r.mem.initialized = TRUE /\ r.mem.index = Index(0)
      /\ r.mem.staged = u.in
  BY <1>1, <1>2, <1>4 DEF UnitLeft, UnitHeld, UnitDue
<1>8. UnitTrails(s, r.mem, x.mem, 0, 0, u, TRUE)
  BY <1>2, <1>6, <1>7 DEF UnitTrails
<1> QED BY <1>8 DEF r, x, k, m

UnitStays(s, k, x, m, t, u) ==
    UnitTrails(s, k, x.mem, t, 0, u, FALSE) /\ x.mem.staged = m.staged

LEMMA UnitPrimed ==
    ASSUME NEW s, NEW k, NEW m, NEW t \in Nat, NEW v, NEW u,
           UnitTrails(s, k, m, t, 0, v, FALSE)
    PROVE  UnitStays(s, k, NumericUnitDelayScan(m, t, 0, u), m, t, u)
<1> DEFINE x == NumericUnitDelayScan(m, t, 0, u)
<1>1. /\ m.new = FALSE /\ m.last_index = Index(t) /\ Index(t) \in Nat
  BY Divided DEF UnitTrails
<1>2. UnitScanned(x, m, t, u)
  BY <1>1, UnitScans
<1> HIDE DEF x
<1>3. /\ x.mem.new = FALSE /\ x.mem.held = m.held /\ x.mem.staged = m.staged
      /\ x.mem.last_index = m.last_index
  BY <1>1, <1>2 DEF UnitScanned
<1>4. UnitTrails(s, k, x.mem, t, 0, u, FALSE)
  <2>1. t + 0 = t
    OBVIOUS
  <2> QED BY <1>1, <1>3, <2>1 DEF UnitTrails
<1>5. UnitStays(s, k, x, m, t, u)
  BY <1>3, <1>4 DEF UnitStays
<1> QED BY <1>5 DEF x

LEMMA UnitTicks ==
    ASSUME NEW s, NEW k, NEW m, NEW t \in Nat, NEW n \in Nat, n < ticks, ticks \in Nat,
           NEW w, NEW u, NEW e \in BOOLEAN, UnitTrails(s, k, m, t, n, u, e)
    PROVE  LET r == UnitDelayStep(UnitDelayStep(k, t + (n + 1), w).mem, t + (n + 1), u)
           IN  UnitTrails(r.out, r.mem, m, t, n + 1, u, e)
<1> DEFINE y == t + n
           z == t + (n + 1)
           r == UnitDelayStep(UnitDelayStep(k, z, w).mem, z, u)
           i == Index(t)
           j == Index(y)
           l == Index(z)
           P == SamplePeriod
<1>1. y \in Nat /\ y \in Instants /\ z = y + 1 /\ z \in Nat /\ t <= y /\ y # Never
      /\ z <= t + ticks
  BY DEF Instants, Never
<1>2. k.initialized = TRUE /\ k.index = j
  BY DEF UnitTrails
<1> HIDE DEF z, y
<1>3. i \in Nat /\ j \in Nat /\ l \in Nat /\ i <= j /\ P \in Nat \ {0}
      /\ t < i * P + P
  BY <1>1, Divided, Ordered, PeriodAssumption
<1>4. UnitLeft(k, y, z, u, r)
  <2>1. k.initialized = (y # Never) /\ k.index = IF y = Never THEN 0 ELSE Index(y)
    BY <1>1, <1>2
  <2> HIDE DEF r
  <2> QED BY <1>1, <2>1, UnitTwice DEF r
<1>5. IF l > j THEN z = l * P /\ l = j + 1 ELSE l = j
  BY <1>1, Boundary
<1> HIDE DEF r
<1>6. /\ r.out = r.mem.held /\ r.mem.initialized = TRUE /\ r.mem.index = l
      /\ r.mem.held = IF l > j THEN k.staged ELSE k.held
      /\ r.mem.staged = IF l > j THEN u.in ELSE k.staged
  BY <1>1, <1>4 DEF UnitLeft, UnitHeld, UnitDue
<1>7. /\ m.new = FALSE /\ m.last_index = i /\ (e => m.staged = u.in)
      /\ j = i => k.staged = m.staged /\ (ticks <= P => k.held = m.held)
      /\ j = i + 1 => k.staged = u.in /\ k.held = m.staged
      /\ j > i + 1 => k.staged = u.in /\ k.held = u.in /\ ticks > P
  BY DEF UnitTrails, y
<1> HIDE DEF i, j, l, P
<1>8. l > j /\ j = i + 1 => ticks > P
  <2> SUFFICES ASSUME l > j, j = i + 1 PROVE ticks > P
    OBVIOUS
  <2>1. l = i + 2 /\ z = l * P
    BY <1>3, <1>5
  <2>2. (i + 2) * P = i * P + P + P
    BY <1>3
  <2>3. z = i * P + P + P
    BY <2>1, <2>2
  <2>4. i * P \in Int
    BY <1>3
  <2> QED BY <1>1, <1>3, <2>3, <2>4
<1>9. /\ l = i => r.mem.staged = m.staged /\ (ticks <= P => r.mem.held = m.held)
      /\ l = i + 1 => r.mem.staged = u.in /\ r.mem.held = m.staged
      /\ l > i + 1 => r.mem.staged = u.in /\ r.mem.held = u.in /\ ticks > P
  <2>1. CASE l > j
    <3>1. l = j + 1
      BY <2>1, <1>5
    <3>2. CASE j = i
      BY <1>3, <1>6, <1>7, <2>1, <3>1, <3>2
    <3>3. CASE j = i + 1
      BY <1>3, <1>6, <1>7, <1>8, <2>1, <3>1, <3>3
    <3>4. CASE j > i + 1
      BY <1>3, <1>6, <1>7, <2>1, <3>1, <3>4
    <3> QED BY <1>3, <3>2, <3>3, <3>4
  <2>2. CASE ~(l > j)
    BY <1>5, <1>6, <1>7, <2>2
  <2> QED BY <2>1, <2>2
<1>10. UnitTrails(r.out, r.mem, m, t, n + 1, u, e)
  BY <1>6, <1>7, <1>9 DEF UnitTrails, z, i, l, P
<1> QED BY <1>10 DEF r, z

LEMMA UnitLands ==
    ASSUME NEW s, NEW k, NEW m, NEW t \in Nat, ticks \in Nat, ticks > 0, NEW d, NEW u,
           NEW e \in BOOLEAN, UnitTrails(s, k, m, t, ticks, u, e)
    PROVE  LET x == NumericUnitDelayScan(m, t + ticks, d, u)
           IN  /\ s = x.out \/ (~e /\ ticks > SamplePeriod /\ s = x.mem.staged)
               /\ ticks > SamplePeriod => x.out = m.staged
               /\ UnitTrails(s, k, x.mem, t + ticks, 0, u, FALSE)
<1> DEFINE z == t + ticks
           x == NumericUnitDelayScan(m, z, d, u)
           i == Index(t)
           j == Index(z)
           P == SamplePeriod
<1>1. z \in Nat /\ t <= z /\ z + 0 = z
  OBVIOUS
<1>2. /\ s = k.held /\ k.initialized = TRUE /\ k.index = j
      /\ m.new = FALSE /\ m.last_index = i /\ (e => m.staged = u.in)
      /\ j = i => k.staged = m.staged /\ (ticks <= P => k.held = m.held)
      /\ j = i + 1 => k.staged = u.in /\ k.held = m.staged
      /\ j > i + 1 => k.staged = u.in /\ k.held = u.in /\ ticks > P
  BY DEF UnitTrails
<1>3. i \in Nat /\ j \in Nat /\ i <= j /\ P \in Nat /\ i * P <= t /\ z < j * P + P
  <2> HIDE DEF z
  <2> QED BY <1>1, Divided, Ordered, PeriodAssumption
<1>4. ticks > P => j > i
  <2> SUFFICES ASSUME ticks > P, j = i PROVE FALSE
    BY <1>3
  <2>1. i * P <= t /\ t + ticks < i * P + P
    BY <1>3
  <2>2. i * P \in Int
    BY <1>3
  <2> HIDE DEF i, j, P
  <2> QED BY <1>3, <2>1, <2>2
<1>5. UnitScanned(x, m, z, u)
  BY <1>2, UnitScans
<1> HIDE DEF x
<1>6. /\ x.out = x.mem.held /\ x.mem.new = FALSE
      /\ x.mem.held = IF j > i THEN m.staged ELSE m.held
      /\ x.mem.staged = IF j > i THEN u.in ELSE m.staged
      /\ x.mem.last_index = IF j > i THEN j ELSE i
  BY <1>2, <1>5 DEF UnitScanned
<1> HIDE DEF z, i, j, P
<1>11. j = i \/ j = i + 1 \/ j > i + 1
  BY <1>3
<1>7. s = x.out \/ (~e /\ ticks > P /\ s = x.mem.staged)
  <2>1. CASE j = i
    BY <1>2, <1>3, <1>4, <1>6, <2>1
  <2>2. CASE j = i + 1
    BY <1>2, <1>3, <1>6, <2>2
  <2>3. CASE j > i + 1
    BY <1>2, <1>3, <1>6, <2>3
  <2> QED BY <1>11, <2>1, <2>2, <2>3, Zenon
<1>8. x.mem.last_index = j /\ k.staged = x.mem.staged /\ (ticks <= P => k.held = x.mem.held)
  <2>1. CASE j = i
    BY <1>2, <1>3, <1>6, <2>1
  <2>2. CASE j = i + 1
    BY <1>2, <1>3, <1>6, <2>2
  <2>3. CASE j > i + 1
    BY <1>2, <1>3, <1>6, <2>3
  <2> QED BY <1>11, <2>1, <2>2, <2>3, Zenon
<1>9. UnitTrails(s, k, x.mem, z, 0, u, FALSE)
  BY <1>1, <1>2, <1>3, <1>6, <1>8 DEF UnitTrails, j, P
<1>10. ticks > P => x.out = m.staged
  BY <1>4, <1>6
<1> QED BY <1>7, <1>9, <1>10 DEF x, z, P


(* The four together, for every kind that is judged by the band.           *)
LEMMA BandBegins ==
    ASSUME kind \in Level, kind = "hysteresis" => Limits,
           NEW u \in Ports(kind), NEW w, NEW s, NEW o
    PROVE  Trails(s, Instant(kind, KernelStart(kind), 0, w, u).mem,
                  BlockScan(kind, BlockNew(kind), 0, 0, u).mem, 0, 0, u, TRUE, o)
<1> DEFINE r == Instant(kind, KernelStart(kind), 0, w, u)
           x == BlockScan(kind, BlockNew(kind), 0, 0, u)
           Begun == Trails(s, r.mem, x.mem, 0, 0, u, TRUE, o)
<1>0. u \in Ports(kind)
  OBVIOUS
<1>1. ASSUME kind = "true_delay" PROVE Begun
  <2>0. KernelStart(kind) = TrueDelayStart
    BY <1>1 DEF KernelStart
  <2>1. r = TrueDelayStep(TrueDelayStart, 0, u)
    BY <1>1, <2>0 DEF Instant, KernelStep, Resampled
  <2>2. x = BooleanDelayScan(BooleanDelayNew, 0, 0, u)
    BY <1>1 DEF BlockNew, BlockScan
  <2>3. u \in [in : BOOLEAN]
    BY <1>1, <1>0 DEF Ports
  <2> HIDE DEF r, x
  <2>5. DelayTrails(s, r.mem, x.mem, 0, 0, u, TRUE, o)
    BY <2>1, <2>2, <2>3, DelayBegins
  <2> QED BY <1>1, <2>5 DEF Trails
<1>2. ASSUME kind = "timer" PROVE Begun
  <2>0. KernelStart(kind) = TimerStart
    BY <1>2 DEF KernelStart
  <2>1. r = TimerStep(TimerStart, 0, u)
    BY <1>2, <2>0 DEF Instant, KernelStep, Resampled
  <2>2. x = TimerScan(TimerNew, 0, 0, u)
    BY <1>2 DEF BlockNew, BlockScan
  <2>3. u \in [in : BOOLEAN]
    BY <1>2, <1>0 DEF Ports
  <2> HIDE DEF r, x
  <2>5. TimerTrails(s, r.mem, x.mem, 0, 0, u, TRUE, o)
    BY <2>1, <2>2, <2>3, TimerBegins
  <2> QED BY <1>2, <2>5 DEF Trails
<1>3. ASSUME kind = "timer_with_reset" PROVE Begun
  <2>0. KernelStart(kind) = TimerWithResetStart
    BY <1>3 DEF KernelStart
  <2>1. r = TimerWithResetStep(TimerWithResetStart, 0, u)
    BY <1>3, <2>0 DEF Instant, KernelStep, Resampled
  <2>2. x = TimerWithResetScan(TimerWithResetNew, 0, 0, u)
    BY <1>3 DEF BlockNew, BlockScan
  <2>3. u \in [in : BOOLEAN, reset : BOOLEAN]
    BY <1>3, <1>0 DEF Ports
  <2> HIDE DEF r, x
  <2>5. ResetTimerTrails(s, r.mem, x.mem, 0, 0, u, TRUE, o)
    BY <2>1, <2>2, <2>3, ResetTimerBegins
  <2> QED BY <1>3, <2>5 DEF Trails
<1>4. ASSUME kind = "pre" PROVE Begun
  <2>0. KernelStart(kind) = PreviousStart
    BY <1>4 DEF KernelStart
  <2>1. r = PreStep(PreviousStart, 0, u)
    BY <1>4, <2>0 DEF Instant, KernelStep, Resampled
  <2>2. x = PreScan(PreviousNew, 0, 0, u)
    BY <1>4 DEF BlockNew, BlockScan
  <2>3. u \in [in : BOOLEAN]
    BY <1>4, <1>0 DEF Ports
  <2> HIDE DEF r, x
  <2>5. PreTrails(s, r.mem, x.mem, 0, u, TRUE, o)
    BY <2>1, <2>2, <2>3, PreBegins
  <2> QED BY <1>4, <2>5 DEF Trails
<1>5. ASSUME kind = "initialization" PROVE Begun
  <2>0. KernelStart(kind) = InitializationStart
    BY <1>5 DEF KernelStart
  <2>1. r = InitializationStep(InitializationStart, 0, u)
    BY <1>5, <2>0 DEF Instant, KernelStep, Resampled
  <2>2. x = InitializationScan(InitializationNew, 0, 0, u)
    BY <1>5 DEF BlockNew, BlockScan
  <2>3. u \in [in : BOOLEAN]
    BY <1>5, <1>0 DEF Ports
  <2>4. u.in \in BOOLEAN
    BY <1>5, <2>3
  <2> HIDE DEF r, x
  <2>5. InitializationTrails(s, r.mem, x.mem, 0, u)
    BY <2>1, <2>2, <2>3, <2>4, InitializationBand
  <2> QED BY <1>5, <2>5 DEF Trails
<1>6. ASSUME kind = "set_reset" PROVE Begun
  <2>0. KernelStart(kind) = SetResetStart
    BY <1>6 DEF KernelStart
  <2>1. r = SetResetStep(SetResetStart, 0, u)
    BY <1>6, <2>0 DEF Instant, KernelStep, Resampled
  <2>2. x = SetResetScan(SetResetNew, 0, 0, u)
    BY <1>6 DEF BlockNew, BlockScan
  <2>3. u \in [set : BOOLEAN, clear : BOOLEAN]
    BY <1>6, <1>0 DEF Ports
  <2> HIDE DEF r, x
  <2>5. LatchTrails(s, r.mem, x.mem, 0, u)
    BY <2>1, <2>2, <2>3, LatchBand
  <2> QED BY <1>6, <2>5 DEF Trails
<1>7. ASSUME kind = "hysteresis" PROVE Begun
  <2>0. KernelStart(kind) = HysteresisStart
    BY <1>7 DEF KernelStart
  <2>1. r = HysteresisStep(HysteresisStart, 0, u)
    BY <1>7, <2>0 DEF Instant, KernelStep, Resampled
  <2>2. x = HysteresisScan(HysteresisNew, 0, 0, u)
    BY <1>7 DEF BlockNew, BlockScan
  <2>3. u \in [in : Int]
    BY <1>7, <1>0 DEF Ports
  <2>4. u.in \in Int /\ Limits
    BY <1>7, <2>3
  <2> HIDE DEF r, x
  <2>5. HysteresisTrails(s, r.mem, x.mem, 0, u)
    BY <2>1, <2>2, <2>3, <2>4, HysteresisBand
  <2> QED BY <1>7, <2>5 DEF Trails
<1>8. ASSUME kind = "sampler" PROVE Begun
  <2>0. KernelStart(kind) = SamplerStart
    BY <1>8 DEF KernelStart
  <2>1. r = SamplerStep(SamplerStep(SamplerStart, 0, w).mem, 0, u)
    BY <1>8, <2>0 DEF Instant, KernelStep, Resampled
  <2>2. x = NumericSamplerScan(NumericSamplerNew, 0, 0, u)
    BY <1>8 DEF BlockNew, BlockScan
  <2>3. u \in [in : Int]
    BY <1>8, <1>0 DEF Ports
  <2> HIDE DEF r, x
  <2>5. SamplerTrails(s, r.mem, x.mem, 0, 0, u)
    BY <2>1, <2>2, <2>3, SamplerBegins
  <2> QED BY <1>8, <2>5 DEF Trails
<1>9. ASSUME kind = "unit_delay" PROVE Begun
  <2>0. KernelStart(kind) = UnitDelayStart
    BY <1>9 DEF KernelStart
  <2>1. r = UnitDelayStep(UnitDelayStep(UnitDelayStart, 0, w).mem, 0, u)
    BY <1>9, <2>0 DEF Instant, KernelStep, Resampled
  <2>2. x = NumericUnitDelayScan(NumericUnitDelayNew, 0, 0, u)
    BY <1>9 DEF BlockNew, BlockScan
  <2>3. u \in [in : Int]
    BY <1>9, <1>0 DEF Ports
  <2> HIDE DEF r, x
  <2>5. UnitTrails(s, r.mem, x.mem, 0, 0, u, TRUE)
    BY <2>1, <2>2, <2>3, UnitBegins
  <2> QED BY <1>9, <2>5 DEF Trails
<1>10. ASSUME kind = "on_counter" PROVE Begun
  <2>0. KernelStart(kind) = OnCounterStart
    BY <1>10 DEF KernelStart
  <2>1. r = OnCounterStep(OnCounterStep(OnCounterStart, 0, w).mem, 0, u)
    BY <1>10, <2>0 DEF Instant, KernelStep, Resampled
  <2>2. x = CounterScan(CounterNew, 0, 0, u)
    BY <1>10 DEF BlockNew, BlockScan
  <2>3. u \in [trigger : BOOLEAN, reset : BOOLEAN]
    BY <1>10, <1>0 DEF Ports
  <2> HIDE DEF r, x
  <2>5. CounterTrails(s, r.mem, x.mem, 0, 0, u, TRUE, o)
    BY <2>1, <2>2, <2>3, CounterBegins
  <2> QED BY <1>10, <2>5 DEF Trails
<1> QED BY <1>1, <1>2, <1>3, <1>4, <1>5, <1>6, <1>7, <1>8, <1>9, <1>10 DEF Level

Primed(s, k, x, m, t, u, o) ==
    /\ Trails(s, k, x.mem, t, 0, u, FALSE, o)
    /\ Overtakes => x.mem.staged = m.staged

LEMMA BandPrimed ==
    ASSUME kind \in Level, kind = "hysteresis" => Limits,
           NEW u \in Ports(kind), NEW v \in Ports(kind), NEW s, NEW k, NEW m,
           NEW t \in Nat, NEW o, Trails(s, k, m, t, 0, v, FALSE, o), Rests(k, m, v, o)
    PROVE  Primed(s, k, BlockScan(kind, m, t, 0, u), m, t, u, o)
<1> DEFINE x == BlockScan(kind, m, t, 0, u)
           Goal == Primed(s, k, x, m, t, u, o)
<1>0. u \in Ports(kind) /\ v \in Ports(kind)
  OBVIOUS
<1>1. ASSUME kind = "true_delay" PROVE Goal
  <2>1. x = BooleanDelayScan(m, t, 0, u)
    BY <1>1 DEF BlockScan
  <2>2. DelayTrails(s, k, m, t, 0, v, FALSE, o) /\ k.previous = v.in /\ o = m.out
    BY <1>1 DEF Trails, Rests
  <2>3. u \in [in : BOOLEAN] /\ v \in [in : BOOLEAN]
    BY <1>1, <1>0 DEF Ports
  <2> HIDE DEF x
  <2>5. DelayTrails(s, k, x.mem, t, 0, u, FALSE, o)
    BY <2>1, <2>2, <2>3, DelayPrimed
  <2> QED BY <1>1, <2>5 DEF Primed, Trails, Overtakes
<1>2. ASSUME kind = "timer" PROVE Goal
  <2>1. x = TimerScan(m, t, 0, u)
    BY <1>2 DEF BlockScan
  <2>2. TimerTrails(s, k, m, t, 0, v, FALSE, o) /\ k.previous = v.in /\ o = m.passed
    BY <1>2 DEF Trails, Rests
  <2>3. u \in [in : BOOLEAN] /\ v \in [in : BOOLEAN]
    BY <1>2, <1>0 DEF Ports
  <2> HIDE DEF x
  <2>5. TimerTrails(s, k, x.mem, t, 0, u, FALSE, o)
    BY <2>1, <2>2, <2>3, TimerPrimed
  <2> QED BY <1>2, <2>5 DEF Primed, Trails, Overtakes
<1>3. ASSUME kind = "timer_with_reset" PROVE Goal
  <2>1. x = TimerWithResetScan(m, t, 0, u)
    BY <1>3 DEF BlockScan
  <2>2. ResetTimerTrails(s, k, m, t, 0, v, FALSE, o) /\ k.previous = v.in
        /\ k.reset = v.reset /\ o = m.passed
    BY <1>3 DEF Trails, Rests
  <2>3. u \in [in : BOOLEAN, reset : BOOLEAN] /\ v \in [in : BOOLEAN, reset : BOOLEAN]
    BY <1>3, <1>0 DEF Ports
  <2> HIDE DEF x
  <2>5. ResetTimerTrails(s, k, x.mem, t, 0, u, FALSE, o)
    BY <2>1, <2>2, <2>3, ResetTimerPrimed
  <2> QED BY <1>3, <2>5 DEF Primed, Trails, Overtakes
<1>4. ASSUME kind = "pre" PROVE Goal
  <2>1. x = PreScan(m, t, 0, u)
    BY <1>4 DEF BlockScan
  <2>2. PreTrails(s, k, m, 0, v, FALSE, o) /\ k.previous = v.in /\ o = v.in
    BY <1>4 DEF Trails, Rests
  <2>3. u \in [in : BOOLEAN] /\ v \in [in : BOOLEAN]
    BY <1>4, <1>0 DEF Ports
  <2> HIDE DEF x
  <2>5. PreTrails(s, k, x.mem, 0, u, FALSE, o)
    BY <2>1, <2>2, <2>3, PrePrimed
  <2> QED BY <1>4, <2>5 DEF Primed, Trails, Overtakes
<1>5. ASSUME kind = "initialization" PROVE Goal
  <2>1. x = InitializationScan(m, t, 0, u)
    BY <1>5 DEF BlockScan
  <2>2. InitializationTrails(s, k, m, 0, v)
    BY <1>5 DEF Trails
  <2>3. u \in [in : BOOLEAN] /\ v \in [in : BOOLEAN]
    BY <1>5, <1>0 DEF Ports
  <2>4. u.in \in BOOLEAN
    BY <1>5, <2>3
  <2> HIDE DEF x
  <2>9. /\ InitializationTrails(s, k, InitializationScan(m, t, 0, u).mem, 0, u)
    BY <2>2, <2>3, <2>4, InitializationBand
  <2>5. InitializationTrails(s, k, x.mem, 0, u)
    BY <2>1, <2>9
  <2> QED BY <1>5, <2>5 DEF Primed, Trails, Overtakes
<1>6. ASSUME kind = "set_reset" PROVE Goal
  <2>1. x = SetResetScan(m, t, 0, u)
    BY <1>6 DEF BlockScan
  <2>2. LatchTrails(s, k, m, 0, v) /\ k.set = v.set /\ k.output = m.out
    BY <1>6 DEF Trails, Rests
  <2>3. u \in [set : BOOLEAN, clear : BOOLEAN] /\ v \in [set : BOOLEAN, clear : BOOLEAN]
    BY <1>6, <1>0 DEF Ports
  <2> HIDE DEF x
  <2>9. /\ LatchTrails(s, k, SetResetScan(m, t, 0, u).mem, 0, u)
    BY <2>2, <2>3, LatchBand
  <2>5. LatchTrails(s, k, x.mem, 0, u)
    BY <2>1, <2>9
  <2> QED BY <1>6, <2>5 DEF Primed, Trails, Overtakes
<1>7. ASSUME kind = "hysteresis" PROVE Goal
  <2>1. x = HysteresisScan(m, t, 0, u)
    BY <1>7 DEF BlockScan
  <2>2. HysteresisTrails(s, k, m, 0, v) /\ k.output = m.out
    BY <1>7 DEF Trails, Rests
  <2>3. u \in [in : Int] /\ v \in [in : Int]
    BY <1>7, <1>0 DEF Ports
  <2>4. u.in \in Int /\ Limits
    BY <1>7, <2>3
  <2> HIDE DEF x
  <2>5. HysteresisTrails(s, k, x.mem, 0, u)
    BY <2>1, <2>2, <2>3, <2>4, HysteresisBand
  <2> QED BY <1>7, <2>5 DEF Primed, Trails, Overtakes
<1>8. ASSUME kind = "sampler" PROVE Goal
  <2>1. x = NumericSamplerScan(m, t, 0, u)
    BY <1>8 DEF BlockScan
  <2>2. SamplerTrails(s, k, m, t, 0, v)
    BY <1>8 DEF Trails
  <2>3. u \in [in : Int] /\ v \in [in : Int]
    BY <1>8, <1>0 DEF Ports
  <2> HIDE DEF x
  <2>5. SamplerTrails(s, k, x.mem, t, 0, u)
    BY <2>1, <2>2, <2>3, SamplerPrimed
  <2> QED BY <1>8, <2>5 DEF Primed, Trails, Overtakes
<1>9. ASSUME kind = "unit_delay" PROVE Goal
  <2>1. x = NumericUnitDelayScan(m, t, 0, u)
    BY <1>9 DEF BlockScan
  <2>2. UnitTrails(s, k, m, t, 0, v, FALSE)
    BY <1>9 DEF Trails
  <2>3. u \in [in : Int] /\ v \in [in : Int]
    BY <1>9, <1>0 DEF Ports
  <2> HIDE DEF x
  <2>9. UnitStays(s, k, NumericUnitDelayScan(m, t, 0, u), m, t, u)
    BY <2>2, UnitPrimed
  <2>5. UnitTrails(s, k, x.mem, t, 0, u, FALSE) /\ x.mem.staged = m.staged
    BY <2>1, <2>9 DEF UnitStays
  <2> QED BY <1>9, <2>5 DEF Primed, Trails, Overtakes
<1>10. ASSUME kind = "on_counter" PROVE Goal
  <2>1. x = CounterScan(m, t, 0, u)
    BY <1>10 DEF BlockScan
  <2>2. CounterTrails(s, k, m, t, 0, v, FALSE, o) /\ k.now = m /\ o = m.count
    BY <1>10 DEF Trails, Rests
  <2>3. u \in [trigger : BOOLEAN, reset : BOOLEAN] /\ v \in [trigger : BOOLEAN, reset : BOOLEAN]
    BY <1>10, <1>0 DEF Ports
  <2> HIDE DEF x
  <2>5. CounterTrails(s, k, x.mem, t, 0, u, FALSE, o)
    BY <2>1, <2>2, <2>3, CounterPrimed
  <2> QED BY <1>10, <2>5 DEF Primed, Trails, Overtakes
<1> QED BY <1>1, <1>2, <1>3, <1>4, <1>5, <1>6, <1>7, <1>8, <1>9, <1>10 DEF Level

LEMMA BandTicks ==
    ASSUME kind \in Level, kind = "hysteresis" => Limits,
           NEW u \in Ports(kind), NEW w, NEW s, NEW k, NEW m, NEW t \in Nat,
           ticks \in Nat, NEW n \in Nat, n < ticks, NEW e \in BOOLEAN, NEW o,
           Trails(s, k, m, t, n, u, e, o)
    PROVE  LET r == Instant(kind, k, t + (n + 1), w, u)
           IN  Trails(Judged(kind, r.out), r.mem, m, t, n + 1, u, e, o)
<1> DEFINE z == t + (n + 1)
           r == Instant(kind, k, z, w, u)
           Ticked == Trails(Judged(kind, r.out), r.mem, m, t, n + 1, u, e, o)
<1>0. u \in Ports(kind)
  OBVIOUS
<1>1. ASSUME kind = "true_delay" PROVE Ticked
  <2>1. r = TrueDelayStep(k, z, u)
    BY <1>1 DEF Instant, KernelStep, Resampled
  <2>2. DelayTrails(s, k, m, t, n, u, e, o)
    BY <1>1 DEF Trails
  <2>3. u \in [in : BOOLEAN]
    BY <1>1, <1>0 DEF Ports
  <2>6. Judged(kind, r.out) = r.out
    BY <1>1 DEF Judged
  <2> HIDE DEF r
  <2>5. DelayTrails(r.out, r.mem, m, t, n + 1, u, e, o)
    BY <2>1, <2>2, <2>3, DelayTicks
  <2> QED BY <1>1, <2>5, <2>6 DEF Trails
<1>2. ASSUME kind = "timer" PROVE Ticked
  <2>1. r = TimerStep(k, z, u)
    BY <1>2 DEF Instant, KernelStep, Resampled
  <2>2. TimerTrails(s, k, m, t, n, u, e, o)
    BY <1>2 DEF Trails
  <2>3. u \in [in : BOOLEAN]
    BY <1>2, <1>0 DEF Ports
  <2>6. Judged(kind, r.out) = r.out[2]
    BY <1>2 DEF Judged
  <2> HIDE DEF r
  <2>5. TimerTrails(r.out[2], r.mem, m, t, n + 1, u, e, o)
    BY <2>1, <2>2, <2>3, TimerTicks
  <2> QED BY <1>2, <2>5, <2>6 DEF Trails
<1>3. ASSUME kind = "timer_with_reset" PROVE Ticked
  <2>1. r = TimerWithResetStep(k, z, u)
    BY <1>3 DEF Instant, KernelStep, Resampled
  <2>2. ResetTimerTrails(s, k, m, t, n, u, e, o)
    BY <1>3 DEF Trails
  <2>3. u \in [in : BOOLEAN, reset : BOOLEAN]
    BY <1>3, <1>0 DEF Ports
  <2>6. Judged(kind, r.out) = r.out[2]
    BY <1>3 DEF Judged
  <2> HIDE DEF r
  <2>5. ResetTimerTrails(r.out[2], r.mem, m, t, n + 1, u, e, o)
    BY <2>1, <2>2, <2>3, ResetTimerTicks
  <2> QED BY <1>3, <2>5, <2>6 DEF Trails
<1>4. ASSUME kind = "pre" PROVE Ticked
  <2>1. r = PreStep(k, z, u)
    BY <1>4 DEF Instant, KernelStep, Resampled
  <2>2. PreTrails(s, k, m, n, u, e, o)
    BY <1>4 DEF Trails
  <2>3. u \in [in : BOOLEAN]
    BY <1>4, <1>0 DEF Ports
  <2>6. Judged(kind, r.out) = r.out
    BY <1>4 DEF Judged
  <2> HIDE DEF r
  <2>5. PreTrails(r.out, r.mem, m, n + 1, u, e, o)
    BY <2>1, <2>2, <2>3, PreTicks
  <2> QED BY <1>4, <2>5, <2>6 DEF Trails
<1>5. ASSUME kind = "initialization" PROVE Ticked
  <2>1. r = InitializationStep(k, z, u)
    BY <1>5 DEF Instant, KernelStep, Resampled
  <2>2. InitializationTrails(s, k, m, n, u)
    BY <1>5 DEF Trails
  <2>3. u \in [in : BOOLEAN]
    BY <1>5, <1>0 DEF Ports
  <2>4. u.in \in BOOLEAN
    BY <1>5, <2>3
  <2>6. Judged(kind, r.out) = r.out
    BY <1>5 DEF Judged
  <2> HIDE DEF r
  <2>5. InitializationTrails(r.out, r.mem, m, n + 1, u)
    BY <2>1, <2>2, <2>3, <2>4, InitializationBand
  <2> QED BY <1>5, <2>5, <2>6 DEF Trails
<1>6. ASSUME kind = "set_reset" PROVE Ticked
  <2>1. r = SetResetStep(k, z, u)
    BY <1>6 DEF Instant, KernelStep, Resampled
  <2>2. LatchTrails(s, k, m, n, u)
    BY <1>6 DEF Trails
  <2>3. u \in [set : BOOLEAN, clear : BOOLEAN]
    BY <1>6, <1>0 DEF Ports
  <2>6. Judged(kind, r.out) = r.out
    BY <1>6 DEF Judged
  <2> HIDE DEF r
  <2>5. LatchTrails(r.out, r.mem, m, n + 1, u)
    BY <2>1, <2>2, <2>3, LatchBand
  <2> QED BY <1>6, <2>5, <2>6 DEF Trails
<1>7. ASSUME kind = "hysteresis" PROVE Ticked
  <2>1. r = HysteresisStep(k, z, u)
    BY <1>7 DEF Instant, KernelStep, Resampled
  <2>2. HysteresisTrails(s, k, m, n, u)
    BY <1>7 DEF Trails
  <2>3. u \in [in : Int]
    BY <1>7, <1>0 DEF Ports
  <2>4. u.in \in Int /\ Limits
    BY <1>7, <2>3
  <2>6. Judged(kind, r.out) = r.out
    BY <1>7 DEF Judged
  <2> HIDE DEF r
  <2>5. HysteresisTrails(r.out, r.mem, m, n + 1, u)
    BY <2>1, <2>2, <2>3, <2>4, HysteresisBand
  <2> QED BY <1>7, <2>5, <2>6 DEF Trails
<1>8. ASSUME kind = "sampler" PROVE Ticked
  <2>1. r = SamplerStep(SamplerStep(k, z, w).mem, z, u)
    BY <1>8 DEF Instant, KernelStep, Resampled
  <2>2. SamplerTrails(s, k, m, t, n, u)
    BY <1>8 DEF Trails
  <2>3. u \in [in : Int]
    BY <1>8, <1>0 DEF Ports
  <2>6. Judged(kind, r.out) = r.out
    BY <1>8 DEF Judged
  <2> HIDE DEF r
  <2>5. SamplerTrails(r.out, r.mem, m, t, n + 1, u)
    BY <2>1, <2>2, <2>3, SamplerTicks
  <2> QED BY <1>8, <2>5, <2>6 DEF Trails
<1>9. ASSUME kind = "unit_delay" PROVE Ticked
  <2>1. r = UnitDelayStep(UnitDelayStep(k, z, w).mem, z, u)
    BY <1>9 DEF Instant, KernelStep, Resampled
  <2>2. UnitTrails(s, k, m, t, n, u, e)
    BY <1>9 DEF Trails
  <2>3. u \in [in : Int]
    BY <1>9, <1>0 DEF Ports
  <2>6. Judged(kind, r.out) = r.out
    BY <1>9 DEF Judged
  <2> HIDE DEF r
  <2>5. UnitTrails(r.out, r.mem, m, t, n + 1, u, e)
    BY <2>1, <2>2, <2>3, UnitTicks
  <2> QED BY <1>9, <2>5, <2>6 DEF Trails
<1>10. ASSUME kind = "on_counter" PROVE Ticked
  <2>1. r = OnCounterStep(OnCounterStep(k, z, w).mem, z, u)
    BY <1>10 DEF Instant, KernelStep, Resampled
  <2>2. CounterTrails(s, k, m, t, n, u, e, o)
    BY <1>10 DEF Trails
  <2>3. u \in [trigger : BOOLEAN, reset : BOOLEAN]
    BY <1>10, <1>0 DEF Ports
  <2>6. Judged(kind, r.out) = r.out
    BY <1>10 DEF Judged
  <2> HIDE DEF r
  <2>5. CounterTrails(r.out, r.mem, m, t, n + 1, u, e, o)
    BY <2>1, <2>2, <2>3, CounterTicks
  <2> QED BY <1>10, <2>5, <2>6 DEF Trails
<1> QED BY <1>1, <1>2, <1>3, <1>4, <1>5, <1>6, <1>7, <1>8, <1>9, <1>10 DEF Level

LEMMA BandLands ==
    ASSUME kind \in Level, kind = "hysteresis" => Limits,
           NEW u \in Ports(kind), NEW s, NEW k, NEW m, NEW t \in Nat,
           ticks \in Nat, ticks > 0, NEW e \in BOOLEAN, NEW o,
           kind = "timer_with_reset" => Threshold # ticks,
           Trails(s, k, m, t, ticks, u, e, o)
    PROVE  LET x == BlockScan(kind, m, t + ticks, ticks, u)
               shows == Judged(kind, x.out)
           IN  /\ Shows(s, x, e, o)
               /\ Overtakes => shows = m.staged
               /\ Trails(s, k, x.mem, t + ticks, 0, u, FALSE, shows)
               /\ Rests(k, x.mem, u, shows)
<1> DEFINE x == BlockScan(kind, m, t + ticks, ticks, u)
           shows == Judged(kind, x.out)
           Landed == /\ Shows(s, x, e, o)
                     /\ Overtakes => shows = m.staged
                     /\ Trails(s, k, x.mem, t + ticks, 0, u, FALSE, shows)
                     /\ Rests(k, x.mem, u, shows)
<1>0. u \in Ports(kind)
  OBVIOUS
<1>1. ASSUME kind = "true_delay" PROVE Landed
  <2>1. x = BooleanDelayScan(m, t + ticks, ticks, u)
    BY <1>1 DEF BlockScan
  <2>2. DelayTrails(s, k, m, t, ticks, u, e, o)
    BY <1>1 DEF Trails
  <2>3. u \in [in : BOOLEAN]
    BY <1>1, <1>0 DEF Ports
  <2>6. shows = x.out
    BY <1>1 DEF Judged
  <2> HIDE DEF x
  <2>9. DelayLanded(s, k, x, t + ticks, u, e, o)
    BY <2>1, <2>2, <2>3, DelayLands
  <2>5. /\ s = x.out \/ (~e /\ s = o)
        /\ DelayTrails(s, k, x.mem, t + ticks, 0, u, FALSE, x.out)
        /\ k.previous = u.in /\ x.out = x.mem.out
    BY <2>1, <2>9 DEF DelayLanded
  <2> HIDE DEF shows
  <2>7. Shows(s, x, e, o)
    BY <1>1, <2>5, <2>6 DEF Shows, shows, Overtakes
  <2>8. Trails(s, k, x.mem, t + ticks, 0, u, FALSE, shows) /\ Rests(k, x.mem, u, shows)
    BY <1>1, <2>5, <2>6 DEF Trails, Rests
  <2> QED BY <1>1, <2>5, <2>6, <2>7, <2>8 DEF Overtakes
<1>2. ASSUME kind = "timer" PROVE Landed
  <2>1. x = TimerScan(m, t + ticks, ticks, u)
    BY <1>2 DEF BlockScan
  <2>2. TimerTrails(s, k, m, t, ticks, u, e, o)
    BY <1>2 DEF Trails
  <2>3. u \in [in : BOOLEAN]
    BY <1>2, <1>0 DEF Ports
  <2>6. shows = x.out[2]
    BY <1>2 DEF Judged
  <2> HIDE DEF x
  <2>9. TimerLanded(s, k, x, t + ticks, u, e, o)
    BY <2>1, <2>2, <2>3, TimerLands
  <2>5. /\ s = x.out[2] \/ (~e /\ s = o)
        /\ TimerTrails(s, k, x.mem, t + ticks, 0, u, FALSE, x.out[2])
        /\ k.previous = u.in /\ x.out[2] = x.mem.passed
    BY <2>1, <2>9 DEF TimerLanded
  <2> HIDE DEF shows
  <2>7. Shows(s, x, e, o)
    BY <1>2, <2>5, <2>6 DEF Shows, shows, Overtakes
  <2>8. Trails(s, k, x.mem, t + ticks, 0, u, FALSE, shows) /\ Rests(k, x.mem, u, shows)
    BY <1>2, <2>5, <2>6 DEF Trails, Rests
  <2> QED BY <1>2, <2>5, <2>6, <2>7, <2>8 DEF Overtakes
<1>3. ASSUME kind = "timer_with_reset" PROVE Landed
  <2>1. x = TimerWithResetScan(m, t + ticks, ticks, u)
    BY <1>3 DEF BlockScan
  <2>2. ResetTimerTrails(s, k, m, t, ticks, u, e, o)
    BY <1>3 DEF Trails
  <2>3. u \in [in : BOOLEAN, reset : BOOLEAN]
    BY <1>3, <1>0 DEF Ports
  <2>4. Threshold # ticks
    BY <1>3, <2>3
  <2>6. shows = x.out[2]
    BY <1>3 DEF Judged
  <2> HIDE DEF x
  <2>9. ResetTimerLanded(s, k, x, t + ticks, u, e, o)
    BY <2>1, <2>2, <2>3, <2>4, ResetTimerLands
  <2>5. /\ s = x.out[2] \/ (~e /\ s = o)
        /\ ResetTimerTrails(s, k, x.mem, t + ticks, 0, u, FALSE, x.out[2])
        /\ k.previous = u.in /\ k.reset = u.reset /\ x.out[2] = x.mem.passed
    BY <2>1, <2>9 DEF ResetTimerLanded
  <2> HIDE DEF shows
  <2>7. Shows(s, x, e, o)
    BY <1>3, <2>5, <2>6 DEF Shows, shows, Overtakes
  <2>8. Trails(s, k, x.mem, t + ticks, 0, u, FALSE, shows) /\ Rests(k, x.mem, u, shows)
    BY <1>3, <2>5, <2>6 DEF Trails, Rests
  <2> QED BY <1>3, <2>5, <2>6, <2>7, <2>8 DEF Overtakes
<1>4. ASSUME kind = "pre" PROVE Landed
  <2>1. x = PreScan(m, t + ticks, ticks, u)
    BY <1>4 DEF BlockScan
  <2>2. PreTrails(s, k, m, ticks, u, e, o)
    BY <1>4 DEF Trails
  <2>3. u \in [in : BOOLEAN]
    BY <1>4, <1>0 DEF Ports
  <2>6. shows = x.out
    BY <1>4 DEF Judged
  <2> HIDE DEF x
  <2>9. PreLanded(s, k, x, u, e, o)
    BY <2>1, <2>2, <2>3, PreLands
  <2>5. /\ s = x.out \/ (~e /\ s = o)
        /\ PreTrails(s, k, x.mem, 0, u, FALSE, x.out)
        /\ k.previous = u.in /\ x.out = u.in
    BY <2>1, <2>9 DEF PreLanded
  <2> HIDE DEF shows
  <2>7. Shows(s, x, e, o)
    BY <1>4, <2>5, <2>6 DEF Shows, shows, Overtakes
  <2>8. Trails(s, k, x.mem, t + ticks, 0, u, FALSE, shows) /\ Rests(k, x.mem, u, shows)
    BY <1>4, <2>5, <2>6 DEF Trails, Rests
  <2> QED BY <1>4, <2>5, <2>6, <2>7, <2>8 DEF Overtakes
<1>5. ASSUME kind = "initialization" PROVE Landed
  <2>1. x = InitializationScan(m, t + ticks, ticks, u)
    BY <1>5 DEF BlockScan
  <2>2. InitializationTrails(s, k, m, ticks, u)
    BY <1>5 DEF Trails
  <2>3. u \in [in : BOOLEAN]
    BY <1>5, <1>0 DEF Ports
  <2>4. u.in \in BOOLEAN
    BY <1>5, <2>3
  <2>6. shows = x.out
    BY <1>5 DEF Judged
  <2> HIDE DEF x
  <2>9. LET y == InitializationScan(m, t + ticks, ticks, u)
        IN  /\ s = y.out
            /\ InitializationTrails(s, k, y.mem, 0, u)
    BY <2>2, <2>3, <2>4, InitializationBand
  <2>5. /\ s = x.out
        /\ InitializationTrails(s, k, x.mem, 0, u)
    BY <2>1, <2>9
  <2> HIDE DEF shows
  <2>7. Shows(s, x, e, o)
    BY <1>5, <2>5, <2>6 DEF Shows, shows, Overtakes
  <2>8. Trails(s, k, x.mem, t + ticks, 0, u, FALSE, shows) /\ Rests(k, x.mem, u, shows)
    BY <1>5, <2>5, <2>6 DEF Trails, Rests
  <2> QED BY <1>5, <2>5, <2>6, <2>7, <2>8 DEF Overtakes
<1>6. ASSUME kind = "set_reset" PROVE Landed
  <2>1. x = SetResetScan(m, t + ticks, ticks, u)
    BY <1>6 DEF BlockScan
  <2>2. LatchTrails(s, k, m, ticks, u)
    BY <1>6 DEF Trails
  <2>3. u \in [set : BOOLEAN, clear : BOOLEAN]
    BY <1>6, <1>0 DEF Ports
  <2>6. shows = x.out
    BY <1>6 DEF Judged
  <2> HIDE DEF x
  <2>9. LET y == SetResetScan(m, t + ticks, ticks, u)
        IN  /\ s = y.out
            /\ LatchTrails(s, k, y.mem, 0, u)
            /\ k.set = u.set /\ k.output = y.mem.out
    BY <2>2, <2>3, LatchBand
  <2>5. /\ s = x.out
        /\ LatchTrails(s, k, x.mem, 0, u)
        /\ k.set = u.set /\ k.output = x.mem.out
    BY <2>1, <2>9
  <2> HIDE DEF shows
  <2>7. Shows(s, x, e, o)
    BY <1>6, <2>5, <2>6 DEF Shows, shows, Overtakes
  <2>8. Trails(s, k, x.mem, t + ticks, 0, u, FALSE, shows) /\ Rests(k, x.mem, u, shows)
    BY <1>6, <2>5, <2>6 DEF Trails, Rests
  <2> QED BY <1>6, <2>5, <2>6, <2>7, <2>8 DEF Overtakes
<1>7. ASSUME kind = "hysteresis" PROVE Landed
  <2>1. x = HysteresisScan(m, t + ticks, ticks, u)
    BY <1>7 DEF BlockScan
  <2>2. HysteresisTrails(s, k, m, ticks, u)
    BY <1>7 DEF Trails
  <2>3. u \in [in : Int]
    BY <1>7, <1>0 DEF Ports
  <2>4. u.in \in Int /\ Limits
    BY <1>7, <2>3
  <2>6. shows = x.out
    BY <1>7 DEF Judged
  <2> HIDE DEF x
  <2>9. LET y == HysteresisScan(m, t + ticks, ticks, u)
        IN  /\ s = y.out
            /\ HysteresisTrails(s, k, y.mem, 0, u)
            /\ k.output = y.mem.out
    BY <2>2, <2>3, <2>4, HysteresisBand
  <2>5. /\ s = x.out
        /\ HysteresisTrails(s, k, x.mem, 0, u)
        /\ k.output = x.mem.out
    BY <2>1, <2>9
  <2> HIDE DEF shows
  <2>7. Shows(s, x, e, o)
    BY <1>7, <2>5, <2>6 DEF Shows, shows, Overtakes
  <2>8. Trails(s, k, x.mem, t + ticks, 0, u, FALSE, shows) /\ Rests(k, x.mem, u, shows)
    BY <1>7, <2>5, <2>6 DEF Trails, Rests
  <2> QED BY <1>7, <2>5, <2>6, <2>7, <2>8 DEF Overtakes
<1>8. ASSUME kind = "sampler" PROVE Landed
  <2>1. x = NumericSamplerScan(m, t + ticks, ticks, u)
    BY <1>8 DEF BlockScan
  <2>2. SamplerTrails(s, k, m, t, ticks, u)
    BY <1>8 DEF Trails
  <2>3. u \in [in : Int]
    BY <1>8, <1>0 DEF Ports
  <2>6. shows = x.out
    BY <1>8 DEF Judged
  <2> HIDE DEF x
  <2>9. LET y == NumericSamplerScan(m, t + ticks, ticks, u)
        IN  /\ s = y.out
            /\ SamplerTrails(s, k, y.mem, t + ticks, 0, u)
    BY <2>2, <2>3, SamplerLands
  <2>5. /\ s = x.out
        /\ SamplerTrails(s, k, x.mem, t + ticks, 0, u)
    BY <2>1, <2>9
  <2> HIDE DEF shows
  <2>7. Shows(s, x, e, o)
    BY <1>8, <2>5, <2>6 DEF Shows, shows, Overtakes
  <2>8. Trails(s, k, x.mem, t + ticks, 0, u, FALSE, shows) /\ Rests(k, x.mem, u, shows)
    BY <1>8, <2>5, <2>6 DEF Trails, Rests
  <2> QED BY <1>8, <2>5, <2>6, <2>7, <2>8 DEF Overtakes
<1>9. ASSUME kind = "unit_delay" PROVE Landed
  <2>1. x = NumericUnitDelayScan(m, t + ticks, ticks, u)
    BY <1>9 DEF BlockScan
  <2>2. UnitTrails(s, k, m, t, ticks, u, e)
    BY <1>9 DEF Trails
  <2>3. u \in [in : Int]
    BY <1>9, <1>0 DEF Ports
  <2>6. shows = x.out
    BY <1>9 DEF Judged
  <2> HIDE DEF x
  <2>9. LET y == NumericUnitDelayScan(m, t + ticks, ticks, u)
        IN  /\ s = y.out \/ (~e /\ ticks > SamplePeriod /\ s = y.mem.staged)
            /\ ticks > SamplePeriod => y.out = m.staged
            /\ UnitTrails(s, k, y.mem, t + ticks, 0, u, FALSE)
    BY <2>2, <2>3, UnitLands
  <2>5. /\ s = x.out \/ (~e /\ ticks > SamplePeriod /\ s = x.mem.staged)
        /\ ticks > SamplePeriod => x.out = m.staged
        /\ UnitTrails(s, k, x.mem, t + ticks, 0, u, FALSE)
    BY <2>1, <2>9
  <2> HIDE DEF shows
  <2>7. Shows(s, x, e, o)
    BY <1>9, <2>5, <2>6 DEF Shows, shows, Overtakes
  <2>8. Trails(s, k, x.mem, t + ticks, 0, u, FALSE, shows) /\ Rests(k, x.mem, u, shows)
    BY <1>9, <2>5, <2>6 DEF Trails, Rests
  <2> QED BY <1>9, <2>5, <2>6, <2>7, <2>8 DEF Overtakes
<1>10. ASSUME kind = "on_counter" PROVE Landed
  <2>1. x = CounterScan(m, t + ticks, ticks, u)
    BY <1>10 DEF BlockScan
  <2>2. CounterTrails(s, k, m, t, ticks, u, e, o)
    BY <1>10 DEF Trails
  <2>3. u \in [trigger : BOOLEAN, reset : BOOLEAN]
    BY <1>10, <1>0 DEF Ports
  <2>6. shows = x.out
    BY <1>10 DEF Judged
  <2> HIDE DEF x
  <2>9. CounterLanded(s, k, x, t + ticks, u, e, o)
    BY <2>1, <2>2, <2>3, CounterLands
  <2>5. /\ s = x.out \/ (~e /\ s = o)
        /\ CounterTrails(s, k, x.mem, t + ticks, 0, u, FALSE, x.out)
        /\ k.now = x.mem /\ x.out = x.mem.count
    BY <2>1, <2>9 DEF CounterLanded
  <2> HIDE DEF shows
  <2>7. Shows(s, x, e, o)
    BY <1>10, <2>5, <2>6 DEF Shows, shows, Overtakes
  <2>8. Trails(s, k, x.mem, t + ticks, 0, u, FALSE, shows) /\ Rests(k, x.mem, u, shows)
    BY <1>10, <2>5, <2>6 DEF Trails, Rests
  <2> QED BY <1>10, <2>5, <2>6, <2>7, <2>8 DEF Overtakes
<1> QED BY <1>1, <1>2, <1>3, <1>4, <1>5, <1>6, <1>7, <1>8, <1>9, <1>10 DEF Level


-----------------------------------------------------------------------------
(* A scan of any number of ticks.                                          *)
Passes(w, u, c, g) ==
    g = [n \in 0 .. c |-> IF n = 0 THEN [out |-> <<>>, mem |-> kernel]
                                   ELSE Instant(kind, g[n - 1].mem, time + n, w, u)]

LEMMA PassesExist ==
    ASSUME NEW w, NEW u, NEW c \in Nat
    PROVE  \E g : Passes(w, u, c, g)
<1> DEFINE T == {n \in Nat : ~\E g : Passes(w, u, n, g)}
<1> SUFFICES ASSUME c \in T PROVE FALSE
  OBVIOUS
<1>1. PICK m \in T : \A k \in T : m <= k
  <2>1. T \in SUBSET Nat
    OBVIOUS
  <2> HIDE DEF T
  <2> QED BY <2>1, Least
<1>2. m \in Nat
  OBVIOUS
<1> DEFINE body(f, n) == IF n = 0 THEN [out |-> <<>>, mem |-> kernel]
                                  ELSE Instant(kind, f[n - 1].mem, time + n, w, u)
<1>3. \E h : \A n \in 0 .. m : h = [i \in 0 .. m |-> h[i]] /\ h[n] = body(h, n)
  <2>1. CASE m = 0
    <3> DEFINE h == [i \in 0 .. m |-> [out |-> <<>>, mem |-> kernel]]
    <3>1. \A n \in 0 .. m : h[n] = body(h, n)
      BY <2>1
    <3>2. h = [i \in 0 .. m |-> h[i]]
      OBVIOUS
    <3> HIDE DEF h, body
    <3> QED BY <3>1, <3>2
  <2>2. CASE m # 0
    <3>1. m - 1 \in Nat /\ m - 1 \notin T
      BY <1>1, <1>2, <2>2
    <3>2. PICK g : Passes(w, u, m - 1, g)
      BY <3>1
    <3> DEFINE h == [i \in 0 .. m |-> IF i = m THEN Instant(kind, g[m - 1].mem, time + m, w, u)
                                               ELSE g[i]]
    <3>3. h = [i \in 0 .. m |-> h[i]]
      OBVIOUS
    <3>4. \A n \in 0 .. m - 1 : h[n] = g[n] /\ g[n] = body(g, n)
      <4> SUFFICES ASSUME NEW n \in 0 .. m - 1 PROVE h[n] = g[n] /\ g[n] = body(g, n)
        OBVIOUS
      <4>1. n \in 0 .. m /\ n # m
        BY <1>2
      <4>2. g[n] = body(g, n)
        <5>1. g = [i \in 0 .. m - 1 |-> body(g, i)]
          BY <3>2 DEF Passes
        <5> HIDE DEF T, h, body
        <5> QED BY <5>1
      <4> QED BY <4>1, <4>2
    <3>5. h[m] = Instant(kind, g[m - 1].mem, time + m, w, u)
      BY <1>2
    <3> HIDE DEF h
    <3>6. \A n \in 0 .. m : h[n] = body(h, n)
      <4> SUFFICES ASSUME NEW n \in 0 .. m PROVE h[n] = body(h, n)
        OBVIOUS
      <4>1. CASE n = m
        <5>1. m - 1 \in 0 .. m - 1
          BY <3>1
        <5>2. h[m - 1] = g[m - 1]
          BY <3>4, <5>1
        <5> QED BY <2>2, <3>5, <4>1, <5>2
      <4>2. CASE n # m /\ n = 0
        <5>1. n \in 0 .. m - 1
          BY <1>2, <4>2
        <5> QED BY <3>4, <4>2, <5>1
      <4>3. CASE n # m /\ n # 0
        <5>1. n \in 0 .. m - 1 /\ n - 1 \in 0 .. m - 1
          BY <1>2, <4>3
        <5>2. h[n] = Instant(kind, g[n - 1].mem, time + n, w, u) /\ h[n - 1] = g[n - 1]
          BY <3>4, <4>3, <5>1
        <5> QED BY <4>3, <5>2
      <4> QED BY <4>1, <4>2, <4>3
    <3> HIDE DEF body
    <3> QED BY <3>3, <3>6
  <2> QED BY <2>1, <2>2
<1>4. PICK h : \A n \in 0 .. m : h = [i \in 0 .. m |-> h[i]] /\ h[n] = body(h, n)
  BY <1>3
<1>5. h = [n \in 0 .. m |-> body(h, n)]
  <2>1. 0 \in 0 .. m
    BY <1>2
  <2>2. h = [i \in 0 .. m |-> h[i]]
    BY <1>4, <2>1
  <2>3. \A n \in 0 .. m : h[n] = body(h, n)
    BY <1>4
  <2> HIDE DEF body
  <2> QED BY <2>2, <2>3
<1>6. Passes(w, u, m, h)
  BY <1>5 DEF Passes
<1> QED BY <1>6

LEMMA AdvancedIs ==
    ASSUME NEW w, NEW u, ticks \in Nat
    PROVE  \E g : Passes(w, u, ticks, g) /\ Advanced(w, u) = g[ticks]
<1>1. Advanced(w, u) = (CHOOSE g : Passes(w, u, ticks, g))[ticks]
  BY DEF Advanced, Passes
<1>2. \E g : Passes(w, u, ticks, g)
  BY PassesExist
<1>3. Passes(w, u, ticks, CHOOSE g : Passes(w, u, ticks, g))
  BY <1>2
<1> QED BY <1>1, <1>3

LEMMA BandAdvances ==
    ASSUME kind \in Level, kind = "hysteresis" => Limits, ticks \in Nat, ticks > 0,
           time \in Nat, NEW w, NEW u \in Ports(kind), NEW s, NEW m, NEW e \in BOOLEAN, NEW o,
           Trails(s, kernel, m, time, 0, u, e, o)
    PROVE  Trails(Judged(kind, Advanced(w, u).out), Advanced(w, u).mem, m, time, ticks, u, e, o)
<1>1. PICK g : Passes(w, u, ticks, g) /\ Advanced(w, u) = g[ticks]
  BY AdvancedIs
<1>2. ASSUME NEW i \in 0 .. ticks
      PROVE  g[i] = IF i = 0 THEN [out |-> <<>>, mem |-> kernel]
                             ELSE Instant(kind, g[i - 1].mem, time + i, w, u)
  <2> DEFINE body(n) == IF n = 0 THEN [out |-> <<>>, mem |-> kernel]
                                 ELSE Instant(kind, g[n - 1].mem, time + n, w, u)
  <2>1. g = [n \in 0 .. ticks |-> body(n)]
    BY <1>1 DEF Passes
  <2> HIDE DEF body
  <2>2. g[i] = body(i)
    BY <2>1
  <2> QED BY <2>2 DEF body
<1> DEFINE seen(n) == IF n = 0 THEN s ELSE Judged(kind, g[n].out)
           holds(n) == Trails(seen(n), g[n].mem, m, time, n, u, e, o)
           T == {n \in 0 .. ticks : ~holds(n)}
<1>3. holds(0)
  <2>1. 0 \in 0 .. ticks
    OBVIOUS
  <2>2. g[0] = [out |-> <<>>, mem |-> kernel]
    <3>1. g[0] = IF 0 = 0 THEN [out |-> <<>>, mem |-> kernel]
                          ELSE Instant(kind, g[0 - 1].mem, time + 0, w, u)
      BY <2>1, <1>2
    <3> QED BY <3>1
  <2>3. g[0].mem = kernel
    BY <2>2
  <2> QED BY <2>3
<1>4. ASSUME NEW n \in Nat, n < ticks, holds(n) PROVE holds(n + 1)
  <2>1. n + 1 \in 0 .. ticks /\ n + 1 # 0 /\ (n + 1) - 1 = n
    BY <1>4
  <2>2. g[n + 1] = Instant(kind, g[n].mem, time + (n + 1), w, u)
    <3> DEFINE i == n + 1
    <3>1. i \in 0 .. ticks /\ i # 0 /\ i - 1 = n
      BY <2>1
    <3> HIDE DEF i
    <3>2. g[i] = IF i = 0 THEN [out |-> <<>>, mem |-> kernel]
                          ELSE Instant(kind, g[i - 1].mem, time + i, w, u)
      BY <3>1, <1>2
    <3>3. g[i] = Instant(kind, g[n].mem, time + i, w, u)
      BY <3>1, <3>2
    <3> QED BY <3>3 DEF i
  <2>3. Trails(seen(n), g[n].mem, m, time, n, u, e, o)
    BY <1>4
  <2> DEFINE r == Instant(kind, g[n].mem, time + (n + 1), w, u)
  <2> HIDE DEF seen
  <2>4. Trails(Judged(kind, r.out), r.mem, m, time, n + 1, u, e, o)
    BY <1>4, <2>3, BandTicks
  <2> HIDE DEF r
  <2>5. seen(n + 1) = Judged(kind, r.out) /\ g[n + 1].mem = r.mem
    BY <2>1, <2>2 DEF seen, r
  <2> QED BY <2>4, <2>5
<1>5. holds(ticks)
  <2> SUFFICES ASSUME ~holds(ticks) PROVE FALSE
    OBVIOUS
  <2> HIDE DEF holds
  <2>1. T \in SUBSET Nat /\ ticks \in T
    OBVIOUS
  <2>2. PICK n \in T : \A k \in T : n <= k
    <3> HIDE DEF T
    <3> QED BY <2>1, Least
  <2>3. n # 0 /\ n \in Nat /\ n <= ticks /\ ~holds(n)
    BY <1>3, <2>2
  <2>4. n - 1 \in Nat /\ n - 1 < ticks /\ n - 1 \notin T /\ (n - 1) + 1 = n
    BY <2>2, <2>3
  <2>5. holds(n - 1)
    BY <2>4
  <2>6. holds((n - 1) + 1)
    BY <1>4, <2>4, <2>5
  <2> QED BY <2>3, <2>4, <2>6
<1>6. seen(ticks) = Judged(kind, g[ticks].out)
  OBVIOUS
<1> HIDE DEF seen
<1> QED BY <1>1, <1>5, <1>6

-----------------------------------------------------------------------------
(* The invariant of the band.                                              *)
Before == IF samples = <<>> THEN 0 ELSE Judged(kind, samples[Len(samples)].block)

Trailing ==
    IF Started
    THEN /\ \E s : Trails(s, kernel, memory, time, 0, input, samples = <<>>, Before)
         /\ ~fresh => samples # <<>> /\ Rests(kernel, memory, input, Before)
    ELSE memory = BlockNew(kind)

LEMMA TrailsUnder ==
    ASSUME UNCHANGED <<kind, ticks>>, Started',
           NEW CONSTANT s, NEW CONSTANT k, NEW CONSTANT m, NEW CONSTANT t, NEW CONSTANT u,
           NEW CONSTANT e, NEW CONSTANT o, NEW CONSTANT f,
           k = kernel', m = memory', t = time', u = input', e = (samples' = <<>>), o = Before',
           f = fresh',
           Trails(s, k, m, t, 0, u, e, o), f \/ (~e /\ Rests(k, m, u, o))
    PROVE  Trailing'
<1>1. UnitTrails(s, k, m, t, 0, u, e)' <=> UnitTrails(s, k, m, t, 0, u, e)
  BY DEF UnitTrails
<1>2. Trails(s, k, m, t, 0, u, e, o)'
  BY <1>1 DEF Trails
<1>3. f \/ (~e /\ Rests(k, m, u, o)')
  BY DEF Rests
<1> QED BY <1>2, <1>3 DEF Trailing

(* What the band needs of the samples: each sample of the program but the  *)
(* last equals one of the interpreter beside it, and the last equals the   *)
(* one at it or before it, or, where the program overtakes, the next: v.   *)
Matched(q, i, j) == Judged(kind, q[j].block) = Judged(kind, q[i].shadow)

Spread(q, v) ==
    /\ \A i \in 2 .. Len(q) - 1 : \E j \in i - 1 .. i + 1 : Matched(q, i, j)
    /\ Len(q) < Reach => Matched(q, 1, 1)
    /\ \/ Matched(q, Len(q), Len(q))
       \/ Len(q) > 1 /\ Matched(q, Len(q), Len(q) - 1)
       \/ Overtakes /\ Judged(kind, q[Len(q)].shadow) = v

Paired(q, v) == q # <<>> => Len(q) <= Reach /\ Spread(q, v)

LEMMA PairsJoin ==
    ASSUME NEW S, NEW q \in Seq(S), NEW x, NEW v, NEW w, NEW r \in Seq(S), Paired(q, v),
           Len(q) <= Reach, Reach \in Nat, Reach > 2,
           Len(r) = Len(q) + 1, \A i \in 1 .. Len(q) : r[i] = q[i], r[Len(r)] = x,
           Overtakes => Judged(kind, x.block) = v,
           \/ Judged(kind, x.shadow) = Judged(kind, x.block)
           \/ q # <<>> /\ Judged(kind, x.shadow) = Judged(kind, q[Len(q)].block)
           \/ q # <<>> /\ Overtakes /\ Judged(kind, x.shadow) = w
    PROVE  Spread(r, w)
<1> DEFINE n == Len(q)
<1>1. n \in Nat /\ Len(r) = n + 1 /\ r[n + 1] = x /\ (q # <<>> <=> n > 0)
  BY LenProperties, EmptySeq
<1>2. q # <<>> =>
        /\ \A i \in 2 .. n - 1 : \E j \in i - 1 .. i + 1 : Matched(q, i, j)
        /\ n < Reach => Matched(q, 1, 1)
        /\ \/ Matched(q, n, n)
           \/ n > 1 /\ Matched(q, n, n - 1)
           \/ Overtakes /\ Judged(kind, q[n].shadow) = v
  BY DEF Paired, Spread
<1>3. \A i, j \in 1 .. n : Matched(r, i, j) <=> Matched(q, i, j)
  BY <1>1 DEF Matched
<1>4. q # <<>> => Matched(r, n, n) \/ (n > 1 /\ Matched(r, n, n - 1)) \/ Matched(r, n, n + 1)
  <2> SUFFICES ASSUME q # <<>>
               PROVE  Matched(r, n, n) \/ (n > 1 /\ Matched(r, n, n - 1)) \/ Matched(r, n, n + 1)
    OBVIOUS
  <2>1. n \in 1 .. n /\ (n > 1 => n - 1 \in 1 .. n)
    BY <1>1
  <2>2. r[n] = q[n]
    BY <2>1
  <2>3. CASE Matched(q, n, n) \/ (n > 1 /\ Matched(q, n, n - 1))
    BY <1>3, <2>1, <2>3
  <2>4. CASE Overtakes /\ Judged(kind, q[n].shadow) = v
    BY <1>1, <2>2, <2>4 DEF Matched
  <2> QED BY <1>2, <2>3, <2>4
<1>5. ASSUME NEW i \in 2 .. Len(r) - 1 PROVE \E j \in i - 1 .. i + 1 : Matched(r, i, j)
  <2>1. i \in 2 .. n /\ q # <<>>
    BY <1>1
  <2>2. CASE i = n
    <3>1. n \in n - 1 .. n + 1 /\ n - 1 \in n - 1 .. n + 1 /\ n + 1 \in n - 1 .. n + 1
      BY <1>1
    <3> QED BY <1>4, <2>1, <2>2, <3>1
  <2>3. CASE i # n
    <3>1. i \in 2 .. n - 1
      BY <1>1, <2>1, <2>3
    <3>2. PICK j \in i - 1 .. i + 1 : Matched(q, i, j)
      BY <1>2, <2>1, <3>1
    <3>3. i \in 1 .. n /\ j \in 1 .. n
      BY <1>1, <3>1
    <3> QED BY <1>3, <3>2, <3>3
  <2> QED BY <2>2, <2>3
<1>6. Len(r) < Reach => Matched(r, 1, 1)
  <2> SUFFICES ASSUME n + 1 < Reach PROVE Matched(r, 1, 1)
    BY <1>1
  <2>1. CASE q # <<>>
    <3>1. 1 \in 1 .. n
      BY <1>1, <2>1
    <3> QED BY <1>1, <1>2, <1>3, <2>1, <3>1
  <2>2. CASE q = <<>>
    <3>1. n + 1 = 1
      BY <1>1, <2>2
    <3>2. r[1] = x
      BY <1>1, <3>1
    <3>3. Judged(kind, x.shadow) = Judged(kind, x.block)
      BY <2>2
    <3> QED BY <3>2, <3>3 DEF Matched
  <2> QED BY <2>1, <2>2
<1>7. \/ Matched(r, n + 1, n + 1)
      \/ n + 1 > 1 /\ Matched(r, n + 1, n + 1 - 1)
      \/ Overtakes /\ Judged(kind, r[n + 1].shadow) = w
  <2>1. CASE Judged(kind, x.shadow) = Judged(kind, x.block)
    BY <1>1, <2>1 DEF Matched
  <2>2. CASE q # <<>> /\ Judged(kind, x.shadow) = Judged(kind, q[n].block)
    <3>1. n \in 1 .. n /\ n + 1 > 1 /\ n + 1 - 1 = n
      BY <1>1, <2>2
    <3>2. r[n] = q[n]
      BY <3>1
    <3>3. Matched(r, n + 1, n)
      BY <1>1, <2>2, <3>2 DEF Matched
    <3> QED BY <3>1, <3>3
  <2>3. CASE q # <<>> /\ Overtakes /\ Judged(kind, x.shadow) = w
    BY <1>1, <2>3
  <2> QED BY <2>1, <2>2, <2>3
<1> QED BY <1>1, <1>5, <1>6, <1>7 DEF Spread

LEMMA PairsKeep ==
    ASSUME ticks \in Nat \ {0}, NEW S, NEW q \in Seq(S), NEW x, NEW v, NEW w, Paired(q, v),
           Overtakes => Judged(kind, x.block) = v,
           \/ Judged(kind, x.shadow) = Judged(kind, x.block)
           \/ q # <<>> /\ Judged(kind, x.shadow) = Judged(kind, q[Len(q)].block)
           \/ q # <<>> /\ Overtakes /\ Judged(kind, x.shadow) = w
    PROVE  Paired(Recent(Append(q, x)), w)
<1> DEFINE U == S \cup {x}
           r == Append(q, x)
           n == Len(q)
<1>1. Reach \in Nat /\ Reach > 2
  BY DEF Reach
<1>2. q \in Seq(U) /\ n \in Nat
  BY SeqMonotonic, LenProperties
<1>3. n <= Reach
  <2>1. q = <<>> => n = 0
    BY EmptySeq
  <2> QED BY <1>1, <2>1 DEF Paired
<1>4. r \in Seq(U) /\ r # <<>> /\ Len(r) = n + 1 /\ r[n + 1] = x
      /\ \A i \in 1 .. n : r[i] = q[i]
  BY <1>2, AppendProperties
<1> HIDE DEF r, U
<1>5. Spread(r, w)
  <2>1. q \in Seq(U) /\ r \in Seq(U) /\ n <= Reach /\ r[Len(r)] = x
    BY <1>2, <1>3, <1>4
  <2> HIDE DEF n
  <2> QED BY <1>1, <1>4, <2>1, PairsJoin DEF n
<1>6. CASE n < Reach
  <2>1. Recent(r) = r /\ Len(r) <= Reach
    BY <1>1, <1>2, <1>4, <1>6 DEF Recent
  <2> QED BY <1>5, <2>1 DEF Paired, r
<1>7. CASE n = Reach
  <2> DEFINE p == Tail(r)
  <2>1. /\ Recent(r) = p /\ p \in Seq(U) /\ Len(p) = n
        /\ \A i \in 1 .. n : p[i] = r[i + 1]
    <3>1. p \in Seq(U) /\ Len(p) = Len(r) - 1 /\ \A i \in 1 .. Len(p) : p[i] = r[i + 1]
      BY <1>4, HeadTailProperties
    <3> QED BY <1>1, <1>2, <1>4, <1>7, <3>1 DEF Recent
  <2> HIDE DEF p
  <2>2. \A i, j \in 1 .. n : Matched(p, i, j) <=> Matched(r, i + 1, j + 1)
    BY <2>1 DEF Matched
  <2>3. ASSUME NEW i \in 2 .. n - 1 PROVE \E j \in i - 1 .. i + 1 : Matched(p, i, j)
    <3>1. i + 1 \in 2 .. Len(r) - 1 /\ i \in 1 .. n
      BY <1>2, <1>4
    <3>2. PICK j \in (i + 1) - 1 .. (i + 1) + 1 : Matched(r, i + 1, j)
      BY <1>5, <3>1 DEF Spread
    <3>3. j - 1 \in i - 1 .. i + 1 /\ j - 1 \in 1 .. n /\ (j - 1) + 1 = j
      BY <1>2, <3>1, <3>2
    <3> QED BY <2>2, <3>1, <3>2, <3>3
  <2>4. \/ Matched(p, n, n)
        \/ n > 1 /\ Matched(p, n, n - 1)
        \/ Overtakes /\ Judged(kind, p[n].shadow) = w
    <3>1. n \in 1 .. n /\ n - 1 \in 1 .. n /\ n > 1 /\ (n - 1) + 1 = n
      BY <1>1, <1>7
    <3>2. p[n] = r[n + 1]
      BY <2>1, <3>1
    <3>3. CASE Matched(r, n + 1, n + 1)
      BY <2>2, <3>1, <3>3
    <3>4. CASE Matched(r, n + 1, n)
      BY <2>2, <3>1, <3>4
    <3>5. CASE Overtakes /\ Judged(kind, r[n + 1].shadow) = w
      BY <3>2, <3>5
    <3>6. n + 1 - 1 = n
      BY <1>2
    <3> QED BY <1>4, <1>5, <3>3, <3>4, <3>5, <3>6 DEF Spread
  <2>5. Paired(p, w)
    BY <1>1, <1>2, <1>7, <2>1, <2>3, <2>4 DEF Paired, Spread
  <2> QED BY <2>1, <2>5 DEF r
<1> QED BY <1>1, <1>2, <1>3, <1>6, <1>7

LEMMA PairsBand ==
    ASSUME ticks \in Nat \ {0}, NEW S, samples \in Seq(S), NEW v, Paired(samples, v)
    PROVE  InBand
<1> DEFINE n == Len(samples)
           m == n - ticks
           near == {i \in 1 .. n : i - m \in (0 - ticks) .. ticks}
<1>1. n \in Nat /\ m \in Int
  BY LenProperties
<1>2. ASSUME m >= 1 PROVE \E i \in near : Matched(samples, m, i)
  <2>1. samples # <<>> /\ m < n /\ n = m + ticks
    BY <1>1, <1>2, EmptySeq
  <2>2. CASE m = 1
    <3>1. n < Reach
      BY <2>1, <2>2 DEF Reach
    <3>2. Matched(samples, 1, 1)
      BY <2>1, <3>1 DEF Paired, Spread
    <3>3. 1 \in near
      BY <1>1, <2>1, <2>2
    <3> HIDE DEF near
    <3> QED BY <2>2, <3>2, <3>3
  <2>3. CASE m # 1
    <3>1. m \in 2 .. n - 1
      <4> HIDE DEF m, n
      <4> QED BY <1>1, <1>2, <2>1, <2>3
    <3> HIDE DEF m
    <3>2. PICK j \in m - 1 .. m + 1 : Matched(samples, m, j)
      BY <2>1, <3>1 DEF Paired, Spread
    <3>3. j \in near
      BY <1>1, <2>1, <3>1
    <3> HIDE DEF near
    <3> QED BY <3>2, <3>3
  <2> QED BY <2>2, <2>3
<1> QED BY <1>2 DEF InBand, Matched

LEMMA RecentSome ==
    ASSUME ticks \in Nat \ {0}, NEW S, NEW q \in Seq(S), NEW x
    PROVE  Recent(Append(q, x)) # <<>>
<1> DEFINE U == S \cup {x}
           r == Append(q, x)
<1>1. q \in Seq(U)
  BY SeqMonotonic
<1>2. r \in Seq(U) /\ r # <<>>
  BY <1>1, AppendProperties
<1>3. CASE Len(r) > Reach
  <2>1. Tail(r) \in Seq(U) /\ Len(Tail(r)) = Len(r) - 1
    BY <1>2, HeadTailProperties
  <2>2. Len(r) - 1 > 0
    BY <1>3 DEF Reach
  <2>3. Tail(r) # <<>>
    BY <2>1, <2>2, EmptySeq
  <2> QED BY <1>3, <2>3 DEF Recent
<1>4. CASE ~(Len(r) > Reach)
  BY <1>2, <1>4 DEF Recent
<1> QED BY <1>3, <1>4

LEMMA PairedUnder ==
    ASSUME UNCHANGED <<kind, ticks>>, NEW CONSTANT q, NEW CONSTANT v, q = samples',
           Overtakes => v = memory'.staged, Paired(q, v)
    PROVE  Paired(samples, memory.staged)'
<1> DEFINE last == \/ Matched(q, Len(q), Len(q))
                   \/ Len(q) > 1 /\ Matched(q, Len(q), Len(q) - 1)
                   \/ Overtakes /\ Judged(kind, q[Len(q)].shadow) = v
<1>1. Reach' = Reach /\ (Overtakes' <=> Overtakes)
  BY DEF Reach, Overtakes
<1>2. \A i, j : Matched(q, i, j)' <=> Matched(q, i, j)
  BY DEF Matched
<1>3. Paired(q, memory'.staged)
  BY DEF Paired, Spread
<1> QED BY <1>1, <1>2, <1>3 DEF Paired, Spread

BandInv ==
    /\ ticks \in TicksPerScan /\ input \in Input(kind)
    /\ feed = "points" /\ kind \in Level => Trailing /\ Paired(samples, memory.staged)

\* What the code asks of a hysteresis, and of a timer with reset that it is not as long as a scan.
Judgeable ==
    /\ "timer_with_reset" \in Kind => Threshold \notin TicksPerScan
    /\ "hysteresis" \in Kind => Limits

LEMMA InitBand == Init => BandInv
BY DEF Init, BandInv, Trailing, Started, Paired

LEMMA BandStart ==
    ASSUME IInv, BandInv, Judgeable, feed = "points", kind \in Level, Start
    PROVE  Trailing' /\ Paired(samples, memory.staged)'
<1>1. /\ UNCHANGED <<kind, ticks, input, samples>> /\ samples = <<>> /\ time' = 0 /\ fresh' = TRUE
      /\ kernel = KernelStart(kind) /\ memory = BlockNew(kind) /\ Started'
  BY DEF Start, IInv, Shape, Started, BandInv, Trailing, Never
<1>2. PICK w : kernel' = Instant(kind, KernelStart(kind), 0, w, input).mem
  BY <1>1, Delivers DEF Start
<1>3. memory' = BlockScan(kind, BlockNew(kind), 0, 0, input).mem
  BY <1>1 DEF Start
<1>4. kind \in Kind /\ input \in Ports(kind) /\ (kind = "hysteresis" => Limits)
  BY InputAssumption DEF IInv, Shape, BandInv, Judgeable
<1>5. PICK u \in Ports(kind) : u = input
  BY <1>4
<1>6. PICK k, m : k = kernel' /\ m = memory'
  OBVIOUS
<1>7. /\ k = Instant(kind, KernelStart(kind), 0, w, u).mem
      /\ m = BlockScan(kind, BlockNew(kind), 0, 0, u).mem
  BY <1>2, <1>3, <1>5, <1>6
<1>8. Trails(0, k, m, 0, 0, u, TRUE, 0)
  BY <1>4, <1>7, BandBegins
<1>9. u = input' /\ (samples' = <<>>) = TRUE /\ Before' = 0
  BY <1>1, <1>5 DEF Before
<1>10. Trailing'
  BY <1>1, <1>6, <1>8, <1>9, TrailsUnder
<1> QED BY <1>1, <1>10 DEF Paired

LEMMA BandPhase ==
    ASSUME IInv, BandInv, Judgeable, feed = "points", kind \in Level,
           NEW u \in Input(kind), Phase(u)
    PROVE  Trailing' /\ Paired(samples, memory.staged)'
<1>1. /\ UNCHANGED <<kind, ticks, time, kernel, samples>> /\ fresh' = TRUE /\ ~fresh
      /\ Started /\ Started' /\ input' = u /\ time \in Nat
      /\ memory' = BlockScan(kind, memory, time, 0, u).mem
  BY DEF Phase, IInv, Shape, Started, BandInv
<1>2. kind \in Kind /\ input \in Ports(kind) /\ u \in Ports(kind) /\ (kind = "hysteresis" => Limits)
  BY InputAssumption DEF IInv, Shape, BandInv, Judgeable
<1>3. samples # <<>> /\ Rests(kernel, memory, input, Before) /\ Paired(samples, memory.staged)
  BY <1>1 DEF BandInv, Trailing
<1>4. PICK s : Trails(s, kernel, memory, time, 0, input, FALSE, Before)
  <2>1. (samples = <<>>) = FALSE
    BY <1>3
  <2> QED BY <1>1, <2>1 DEF BandInv, Trailing
<1> DEFINE x == BlockScan(kind, memory, time, 0, u)
<1>5. /\ Trails(s, kernel, x.mem, time, 0, u, FALSE, Before)
      /\ Overtakes => x.mem.staged = memory.staged
  <2>1. Primed(s, kernel, x, memory, time, u, Before)
    BY <1>1, <1>2, <1>3, <1>4, BandPrimed
  <2> QED BY <2>1 DEF Primed
<1>6. PICK k, m, t, o : k = kernel' /\ m = memory' /\ t = time' /\ o = Before'
  OBVIOUS
<1>7. k = kernel /\ m = x.mem /\ t = time /\ o = Before
  BY <1>1, <1>6 DEF Before
<1> HIDE DEF x
<1>8. Trails(s, k, m, t, 0, u, FALSE, o)
  BY <1>5, <1>7
<1>9. (samples' = <<>>) = FALSE
  BY <1>1, <1>3
<1>10. Trailing'
  BY <1>1, <1>6, <1>8, <1>9, TrailsUnder
<1>11. Paired(samples, memory.staged)'
  <2>1. PICK q, v : q = samples' /\ v = memory.staged
    OBVIOUS
  <2>2. Paired(q, v) /\ (Overtakes => v = memory'.staged)
    BY <1>1, <1>3, <1>5, <2>1 DEF x
  <2> QED BY <1>1, <2>1, <2>2, PairedUnder
<1> QED BY <1>10, <1>11

LEMMA BandScan ==
    ASSUME IInv, BandInv, Judgeable, feed = "points", kind \in Level,
           NEW u \in Input(kind), Scan(u)
    PROVE  Trailing' /\ Paired(samples, memory.staged)'
<1> DEFINE x == BlockScan(kind, memory, time + ticks, ticks, u)
           shows == Judged(kind, x.out)
           e == (samples = <<>>)
<1>1. /\ UNCHANGED <<kind, ticks>> /\ Started /\ Started' /\ time \in Nat /\ input = u /\ input' = u
      /\ ticks \in Nat /\ ticks > 0 /\ ticks \in Nat \ {0} /\ time' = time + ticks /\ fresh' = FALSE
      /\ e \in BOOLEAN
  <2>1. /\ time # Never /\ time' = time + ticks /\ fresh' = FALSE /\ input' = u /\ u = input
        /\ UNCHANGED <<kind, ticks>>
    BY DEF Scan
  <2>2. time \in Nat /\ ticks \in Nat \ {0}
    BY <2>1 DEF IInv, Shape
  <2> QED BY <2>1, <2>2 DEF Started, Never
<1>2. /\ kind \in Kind /\ u \in Ports(kind) /\ (kind = "hysteresis" => Limits)
      /\ kind = "timer_with_reset" => Threshold # ticks
  BY InputAssumption DEF IInv, Shape, BandInv, Judgeable
<1>3. PICK w :
         /\ kernel' = Advanced(w, u).mem /\ memory' = x.mem
         /\ samples' = Recent(Append(samples, [shadow |-> Advanced(w, u).out, block |-> x.out]))
  BY Delivers DEF Scan
<1> DEFINE r == Advanced(w, u)
           last == [shadow |-> r.out, block |-> x.out]
           sees == Judged(kind, r.out)
<1>4. PICK s : Trails(s, kernel, memory, time, 0, u, e, Before)
  BY <1>1 DEF BandInv, Trailing
<1>5. Paired(samples, memory.staged)
  BY DEF BandInv
<1> HIDE DEF e
<1>6. Trails(sees, r.mem, memory, time, ticks, u, e, Before)
  BY <1>1, <1>2, <1>4, BandAdvances
<1> HIDE DEF r
<1>7. /\ Shows(sees, x, e, Before)
      /\ Overtakes => shows = memory.staged
      /\ Trails(sees, r.mem, x.mem, time + ticks, 0, u, FALSE, shows)
      /\ Rests(r.mem, x.mem, u, shows)
  <2> HIDE DEF sees
  <2> QED BY <1>1, <1>2, <1>6, BandLands
<1> HIDE DEF x
<1>8. PICK S : samples \in Seq(S)
  BY DEF IInv, Shape
<1>9. samples' # <<>> /\ samples'[Len(samples')] = last
  <2> HIDE DEF last
  <2> QED BY <1>1, <1>3, <1>8, Remembers, RecentSome DEF last, r
<1>10. last.shadow = r.out /\ last.block = x.out
  OBVIOUS
<1> HIDE DEF last
<1>11. Before' = shows
  BY <1>1, <1>9, <1>10 DEF Before
<1>12. Trailing'
  <2>1. PICK y, k, m, t, o : y = sees /\ k = kernel' /\ m = memory' /\ t = time' /\ o = Before'
    OBVIOUS
  <2>2. Trails(y, k, m, t, 0, u, FALSE, o) /\ Rests(k, m, u, o)
    BY <1>1, <1>3, <1>7, <1>11, <2>1 DEF r
  <2>3. (samples' = <<>>) = FALSE
    BY <1>9
  <2> HIDE DEF sees, shows
  <2> QED BY <1>1, <2>1, <2>2, <2>3, TrailsUnder
<1>13. Paired(Recent(Append(samples, last)), x.mem.staged)
  <2>1. Overtakes => Judged(kind, last.block) = memory.staged
    BY <1>7, <1>10
  <2>2. \/ Judged(kind, last.shadow) = Judged(kind, last.block)
        \/ samples # <<>> /\ Judged(kind, last.shadow) = Judged(kind, samples[Len(samples)].block)
        \/ samples # <<>> /\ Overtakes /\ Judged(kind, last.shadow) = x.mem.staged
    BY <1>7, <1>10 DEF Shows, Before, e
  <2> QED BY <1>1, <1>5, <1>8, <2>1, <2>2, PairsKeep
<1>14. Paired(samples, memory.staged)'
  <2>1. PICK q, v : q = samples' /\ v = memory'.staged
    OBVIOUS
  <2>2. Paired(q, v)
    BY <1>3, <1>13, <2>1 DEF last, r
  <2> QED BY <1>1, <2>1, <2>2, PairedUnder
<1> QED BY <1>12, <1>14

LEMMA BandStep == ASSUME Judgeable PROVE IInv /\ BandInv /\ [Next]_vars => BandInv'
<1> SUFFICES ASSUME IInv, BandInv, [Next]_vars PROVE BandInv'
  OBVIOUS
<1>1. ticks' \in TicksPerScan /\ input' \in Input(kind') /\ UNCHANGED <<kind, ticks, feed>>
  BY DEF BandInv, Next, Start, Phase, Scan, vars
<1>2. CASE feed = "points" /\ kind \in Level
  <2>1. CASE Start
    BY <1>1, <1>2, <2>1, BandStart DEF BandInv
  <2>2. CASE \E u \in Input(kind) : Phase(u)
    BY <1>1, <1>2, <2>2, BandPhase DEF BandInv
  <2>3. CASE \E u \in Input(kind) : Scan(u)
    BY <1>1, <1>2, <2>3, BandScan DEF BandInv
  <2>4. CASE UNCHANGED vars
    <3>1. Trailing'
      BY <1>2, <2>4 DEF BandInv, vars, Trailing, Started, Before, Trails, Rests, UnitTrails
    <3>2. Paired(samples, memory.staged)'
      BY <1>2, <2>4 DEF BandInv, vars, Paired, Spread, Matched, Overtakes, Reach
    <3> QED BY <1>1, <3>1, <3>2 DEF BandInv
  <2> QED BY <2>1, <2>2, <2>3, <2>4 DEF Next
<1>3. CASE ~(feed = "points" /\ kind \in Level)
  <2>1. ~(feed' = "points" /\ kind' \in Level')
    BY <1>1, <1>3 DEF Level
  <2> QED BY <1>1, <2>1 DEF BandInv
<1> QED BY <1>2, <1>3

-----------------------------------------------------------------------------
(* The theorems.                                                           *)

(* What the fields of a kernel say of what it has shown, at every instant. *)
THEOREM Invariance == Spec => []IInv
BY InitIInv, StepIInv, PTL DEF Spec

(* ChillerPermitted: the chiller never runs at a scan at which a plant it  *)
(* needs is disabled, nor changes its mode while it runs (the Java kernel  *)
(* of PLANT_HRC_ENABLE in niagara_program_codegen.py).                     *)
THEOREM ChillerInterlock == Spec => []ChillerPermitted
<1>1. IInv => ChillerPermitted
  BY DEF IInv
<1> QED BY Invariance, <1>1, PTL

(* DwellTimes: no output changes before its minimum time is over, of a     *)
(* hold (kernels.py), a plant, a stage, a chiller that has stopped and     *)
(* equipment that was switched off (niagara_program_codegen.py).           *)
THEOREM MinimumTimes == Spec => DwellTimes
<1>1. IInv /\ [Next]_vars =>
         [shown # <<>> /\ shown'.value # shown.value =>
            shown'.since - shown.since >= Waits(shown, shown'.value)]_vars
  <2> SUFFICES ASSUME IInv, Next, shown # <<>>, shown'.value # shown.value
               PROVE  shown'.since - shown.since >= Waits(shown, shown'.value)
    OBVIOUS
  <2>1. CASE Start \/ \E u \in Input(kind) : Scan(u)
    <3>1. Started
      BY DEF IInv, Shape
    <3> QED BY <2>1, <3>1, Evaluates DEF IInv, Dwells
  <2>2. CASE \E u \in Input(kind) : Phase(u)
    BY <2>2, PhaseStep
  <2> QED BY <2>1, <2>2 DEF Next
<1> QED BY Invariance, <1>1, PTL DEF Spec, DwellTimes

(* Agree: in a case of one phase, the program and the interpreter show the *)
(* same at every scan of a block of any kind that opens no feedback loop   *)
(* and is fed by blocks that tick before it, for all parameters and inputs *)
(* and a case of any length; in a case of several phases they do for the   *)
(* kinds that go by a clock.  A moving average agrees as long as its       *)
(* window is shorter than the checkpoints that the interpreter keeps       *)
(* (kernels.py and the programs of niagara_program_codegen.py against      *)
(* simulator.py).                                                          *)
THEOREM EnginesAgree ==
    ASSUME "moving_average" \in Kind => MaxPoints \in Int /\ Window < MaxPoints
    PROVE  Spec => []Agree
<1>1. IInv => Averaging
  BY DEF IInv, Shape, Averaging, Averaged
<1>2. IInv /\ AgreeInv /\ [Next]_vars => AgreeInv'
  BY <1>1, AgreeStep
<1>3. AgreeInv => Agree
  BY DEF AgreeInv
<1> QED BY <1>2, <1>3, InitAgree, Invariance, PTL DEF Spec

(* LoopLags: a pre block that opens a feedback loop shows at each scan     *)
(* what the interpreter's, of the same source, showed at the scan before   *)
(* (Pre of kernels.py, rooted first by _topological_order and not sampled  *)
(* again, against the deferred pre of simulator.py).                       *)
THEOREM FeedbackLags == Spec => []LoopLags
<1>1. LoopInv => LoopLags
  BY DEF LoopInv
<1> QED BY <1>1, InitLoop, LoopStep, Invariance, PTL DEF Spec

(* MeetsDefinition: what a block shows is what its definition makes of the *)
(* whole sequence of its inputs, for every length of it and every value of *)
(* the parameters: the waits of TrueDelay and Timer, the samples of        *)
(* Sampler and UnitDelay, the sums of IntegratorWithReset and              *)
(* MovingAverage and the counts of OnCounter (kernels.py), which remember  *)
(* only a few numbers of it.                                               *)
THEOREM BlocksMeetDefinition == Spec => []MeetsDefinition
<1>1. MeetInv => MeetsDefinition
  BY DEF MeetInv
<1> QED BY <1>1, InitMeet, MeetStep, Invariance, PTL DEF Spec

(* InBand: between input points that change when a phase begins, what the  *)
(* program shows at a scan is what the interpreter shows within the band   *)
(* that the comparison allows, for every kind that is judged by it, every  *)
(* parameter, policy and sequence of phases and a case of any length.  The *)
(* limits of a hysteresis are those that kernels.py takes; a timer with    *)
(* reset whose time is exactly one scan leaves the band (_pure_funnel in   *)
(* differential.py, whose interpreter is primed when a phase begins).      *)
THEOREM BandHolds ==
    ASSUME Judgeable
    PROVE  Spec => []InBand
<1>1. IInv /\ BandInv => InBand
  <2> SUFFICES ASSUME IInv, BandInv, feed = "points", kind \in Level PROVE InBand
    BY DEF InBand
  <2>1. ticks \in Nat \ {0} /\ Paired(samples, memory.staged)
    BY DEF IInv, Shape, BandInv
  <2>2. PICK S : samples \in Seq(S)
    BY DEF IInv, Shape
  <2> QED BY <2>1, <2>2, PairsBand
<1>2. IInv /\ BandInv /\ [Next]_vars => BandInv'
  BY BandStep
<1> QED BY <1>1, <1>2, InitBand, Invariance, PTL DEF Spec
=============================================================================
