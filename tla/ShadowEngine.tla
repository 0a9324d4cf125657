---------------------------- MODULE ShadowEngine ----------------------------
(***************************************************************************)
(* The engine of the shadow runtime (niagara/shadow/engine.py): a network  *)
(* of blocks joined by links, run on a simulated clock.                    *)
(*                                                                         *)
(* A block that executes and changes its output fires its links; fired     *)
(* links wait in a deque until they are delivered, and what a delivery     *)
(* carries is the value the source has then.  Blocks of the module palette *)
(* execute on a timer only; those that sample execute once more when       *)
(* everything else due at the instant has run.  What the blocks compute is *)
(* given by Gate and Compute; where Niagara's order is not known the       *)
(* engine follows an execution policy, chosen once.                        *)
(***************************************************************************)
EXTENDS Integers, Sequences

CONSTANTS
    Block,
    Slot,             \* input slots, those of a writable point among them
    Value,
    Null,             \* every value with the null status
    Memory,           \* what a block remembers from one execution to the next
    Wire,             \* links: [source, target : Block, slot : Slot]
    Gate(_, _),       \* output of a memoryless block, from its inputs
    Compute(_, _, _, _),   \* output of any other, from inputs, memory and clock
    Remember(_, _, _, _),  \* what it remembers then
    Pure,             \* memoryless blocks
    Reactive,         \* blocks that execute when an input changes
    Writable,         \* writable points
    Point,            \* the writable points no link drives
    Operated,         \* bound of the model: those an operator acts on
    Resampling,       \* module blocks that sample
    Period,           \* execution period of each block, 0 if it has none
    SavedInput, SavedOutput, FirstMemory,    \* what configure() leaves
    Policy,           \* execution policies
    LoopLimit,        \* executions of one block in one propagation
    SampleOrder,      \* the sampling blocks in document order
    Stride,           \* durations of an advance, and of an override
    Horizon           \* bound of the model: where the clock stops

Operator == "in8"
Emergency == "in1"
Input == "in16"
Inputs == [Slot -> Value]

ASSUME NetAssumption ==
    /\ Null \in Value
    /\ {Operator, Emergency, Input} \subseteq Slot
    /\ Wire \subseteq [source : Block, target : Block, slot : Slot]
    /\ \A v, w \in Wire : v.target = w.target /\ v.slot = w.slot => v = w
    /\ Pure \subseteq Reactive /\ Reactive \subseteq Block
    /\ Writable \subseteq Pure
    /\ Point \subseteq Writable /\ Operated \subseteq Writable
    /\ Resampling \subseteq Block
    /\ \A w \in Wire : /\ w.target \notin Point
                       /\ w.target \in Writable => w.slot \notin {Operator, Emergency}

ASSUME PeriodAssumption ==
    /\ Period \in [Block -> Nat]
    /\ \A b \in Block : Period[b] > 0 => b \notin Reactive
    /\ \A b \in Resampling : Period[b] > 0

ASSUME SavedAssumption ==
    /\ SavedInput \in [Block -> Inputs]
    /\ SavedOutput \in [Block -> Value]
    /\ FirstMemory \in [Block -> Memory]
    /\ SampleOrder \in Seq(Resampling)

ASSUME BoundAssumption ==
    /\ LoopLimit \in Nat \ {0}
    /\ Stride \subseteq Nat \ {0}
    /\ Horizon \in Nat

ASSUME GateAssumption ==
    \A b \in Pure : \A i \in Inputs : Gate(b, i) \in Value

(* The clock is any number the model lets it reach. *)
ASSUME ComputeAssumption ==
    \A b \in Block \ Pure : \A i \in Inputs : \A m \in Memory : \A t \in 0..Horizon :
        Compute(b, i, m, t) \in Value /\ Remember(b, i, m, t) \in Memory

Members(s) == {s[i] : i \in 1..Len(s)}

(* A policy fixes the order in which a block's links fire, whether what a  *)
(* link causes runs before the next link, the ties of timers due together  *)
(* and the order of the first executions.                                  *)
ASSUME PolicyAssumption ==
    \A p \in Policy :
        /\ p.depth \in BOOLEAN
        /\ p.fanout \in [Block -> Seq(Wire)]
        /\ \A b \in Block : Members(p.fanout[b]) = {w \in Wire : w.source = b}
        /\ p.tie \in [Block -> SUBSET Int]
        /\ \A b \in Block : p.tie[b] # {}
        /\ p.start \in Seq(Block)
        /\ Members(p.start) = Block

VARIABLES
    policy,
    phase,      \* "new", "pass", "settle", "rest", "advance" or "loop"
    input,      \* input slots of each block
    output,     \* its output
    memory,     \* its state
    work,       \* links that have fired and are not delivered
    counts,     \* executions of each block in this propagation
    remaining,  \* blocks the first pass has not reached
    dirty,      \* blocks whose input changed after the pass had executed them
    timers,     \* ordinary timers
    late,       \* late timers; all are due now
    now,        \* the clock
    target,     \* where the running advance ends
    until       \* history: when the operator override of each block ends

netVars == <<input, output, memory, counts>>
startVars == <<remaining, dirty>>
clockVars == <<timers, late, now, target>>
vars == <<policy, phase, netVars, work, startVars, clockVars, until>>

Timer == [due : Nat, tie : Int, block : Block, tag : {"tick", "expiry"}]
Forever == -1
Zero == [b \in Block |-> 0]
AtRest == phase = "rest" /\ work = <<>>

Init ==
    /\ policy \in Policy
    /\ phase = "new"
    /\ input = SavedInput /\ output = SavedOutput /\ memory = FirstMemory
    /\ counts = Zero
    /\ work = <<>> /\ remaining = <<>> /\ dirty = {}
    /\ timers = {} /\ late = <<>>
    /\ now = 0 /\ target = 0
    /\ until = [b \in Block |-> IF b \in Writable /\ SavedInput[b][Operator] # Null
                               THEN Forever ELSE 0]

-----------------------------------------------------------------------------
(* Execution of one block.                                                 *)

Result(b, i, t) == IF b \in Pure THEN Gate(b, i) ELSE Compute(b, i, memory[b], t)
Remembered(b, i, t) == IF b \in Pure THEN memory[b] ELSE Remember(b, i, memory[b], t)

Execute(b, i, t) ==
    /\ output' = [output EXCEPT ![b] = Result(b, i, t)]
    /\ memory' = [memory EXCEPT ![b] = Remembered(b, i, t)]

(* Mutant: what fires takes the place of what waits. *)
QueueReplaced(b, i, t, waiting) ==
    IF Result(b, i, t) = output[b] THEN waiting ELSE policy.fanout[b]

(* What fires when b executes, put before or behind what waits already.    *)
Queue(b, i, t, waiting) ==
    LET fired == IF Result(b, i, t) = output[b] THEN <<>> ELSE policy.fanout[b]
    IN  IF policy.depth THEN fired \o waiting ELSE waiting \o fired

(* Mutant: each delivery counts for itself. *)
KeptNever(c, waiting) == Zero

(* The counts belong to one propagation; the start has one for all of it.  *)
Kept(c, waiting) == IF waiting = <<>> /\ phase # "settle" THEN Zero ELSE c

(* A block that has used up its executions ends the propagation, and what  *)
(* waited is gone; the error leaves the engine.                            *)
Overrun(b, c) ==
    /\ c[b] >= LoopLimit
    /\ phase' = "loop"
    /\ work' = <<>>
    /\ UNCHANGED <<output, memory, counts>>

Run(b, i, c, waiting) ==
    /\ c[b] < LoopLimit
    /\ Execute(b, i, now)
    /\ work' = Queue(b, i, now, waiting)
    /\ counts' = Kept([c EXCEPT ![b] = @ + 1], work')
    /\ UNCHANGED phase

CountedRun(b, i, c, waiting) == Overrun(b, c) \/ Run(b, i, c, waiting)

-----------------------------------------------------------------------------
(* Propagation: the loop of _run.  A link carries what its source has now. *)

Carried(w) == input[w.target][w.slot] = output[w.source]
Taken(w) == [input[w.target] EXCEPT ![w.slot] = output[w.source]]
Carry(w) == input' = [input EXCEPT ![w.target] = Taken(w)]

(* The target has the value already. *)
Skip ==
    /\ work # <<>>
    /\ Carried(Head(work))
    /\ work' = Tail(work)
    /\ counts' = Kept(counts, work')
    /\ UNCHANGED <<policy, phase, input, output, memory, startVars, clockVars, until>>

(* The target samples its inputs; it will see the value on its tick. *)
Store ==
    /\ work # <<>>
    /\ LET w == Head(work) IN
       /\ ~Carried(w)
       /\ w.target \notin Reactive
       /\ Carry(w)
    /\ work' = Tail(work)
    /\ counts' = Kept(counts, work')
    /\ UNCHANGED <<policy, phase, output, memory, startVars, clockVars, until>>

(* The target executes at once. *)
React ==
    /\ work # <<>>
    /\ LET w == Head(work) IN
       /\ ~Carried(w)
       /\ w.target \in Reactive
       /\ Carry(w)
       /\ CountedRun(w.target, Taken(w), counts, Tail(work))
    /\ UNCHANGED <<policy, startVars, clockVars, until>>

Deliver == Skip \/ Store \/ React

-----------------------------------------------------------------------------
(* Station start.                                                          *)

Ticking == {b \in Block : Period[b] > 0}

TickTimer(b, t, tie) == [due |-> t + Period[b], tie |-> tie, block |-> b, tag |-> "tick"]

(* Blocks start (writable points execute, module blocks ask for their      *)
(* ticks), then every link pushes the value of its source.                 *)
Start ==
    /\ phase = "new"
    /\ phase' = "pass"
    /\ output' = [b \in Block |-> IF b \in Writable THEN Gate(b, input[b]) ELSE output[b]]
    /\ input' = [b \in Block |-> [s \in Slot |->
                    IF \E w \in Wire : w.target = b /\ w.slot = s
                    THEN output'[(CHOOSE w \in Wire : w.target = b /\ w.slot = s).source]
                    ELSE input[b][s]]]
    /\ \E tie \in [Ticking -> UNION {policy.tie[b] : b \in Ticking}] :
        /\ \A b \in Ticking : tie[b] \in policy.tie[b]
        /\ timers' = {TickTimer(b, 0, tie[b]) : b \in Ticking}
    /\ late' = SampleOrder
    /\ remaining' = policy.start
    /\ UNCHANGED <<policy, memory, counts, work, dirty, now, target, until>>

(* One synchronous pass: each block executes and hands its output on; a    *)
(* block that should react to it is noted, for later.                      *)
PassOne ==
    /\ phase = "pass" /\ remaining # <<>>
    /\ LET b == Head(remaining)
           v == Result(b, input[b], now)
           hit == IF v = output[b] THEN {}
                  ELSE {w \in Wire : w.source = b /\ input[w.target][w.slot] # v}
       IN  /\ Execute(b, input[b], now)
           /\ input' = [c \in Block |-> [s \in Slot |->
                           IF \E w \in hit : w.target = c /\ w.slot = s
                           THEN v ELSE input[c][s]]]
           /\ dirty' = (dirty \ {b}) \cup ({w.target : w \in hit} \cap Reactive)
           /\ counts' = [counts EXCEPT ![b] = @ + 1]
    /\ remaining' = Tail(remaining)
    /\ UNCHANGED <<policy, phase, work, clockVars, until>>

PassDone ==
    /\ phase = "pass" /\ remaining = <<>>
    /\ phase' = "settle"
    /\ UNCHANGED <<policy, netVars, work, startVars, clockVars, until>>

(* The noted blocks execute, each with what follows from it. *)
Settle ==
    /\ phase = "settle" /\ work = <<>>
    /\ \E b \in dirty :
        /\ dirty' = dirty \ {b}
        /\ CountedRun(b, input[b], counts, <<>>)
    /\ UNCHANGED <<policy, input, remaining, clockVars, until>>

(* _drain_zero_timers *)
SettleDone ==
    /\ phase = "settle" /\ work = <<>> /\ dirty = {}
    /\ phase' = "advance"
    /\ target' = now
    /\ counts' = Zero
    /\ UNCHANGED <<policy, input, output, memory, work, startVars, timers, late, now, until>>
-----------------------------------------------------------------------------
(* The clock: the loop of advance.                                         *)

Advance(d) ==
    /\ AtRest
    /\ now + d <= Horizon
    /\ target' = now + d
    /\ phase' = "advance"
    /\ UNCHANGED <<policy, netVars, work, startVars, timers, late, now, until>>

(* Timers fire in order of their due time, ties in the order of the        *)
(* policy, late timers after all others of the instant.                    *)
IsNext(t) ==
    /\ t.due <= target
    /\ late # <<>> => t.due <= now
    /\ \A u \in timers : t.due < u.due \/ (t.due = u.due /\ t.tie <= u.tie)

Later(t) == IF t > now THEN t ELSE now

(* The callback has executed the block; its changes are propagated. *)
OnTimer(b, i, t) ==
    /\ Execute(b, i, t)
    /\ work' = Queue(b, i, t, <<>>)
    /\ counts' = Zero

(* Mutant: a sampling block does not sample again. *)
TickOnce(t) ==
    /\ phase = "advance" /\ work = <<>>
    /\ IsNext(t) /\ t.tag = "tick"
    /\ now' = Later(t.due)
    /\ OnTimer(t.block, input[t.block], now')
    /\ \E tie \in policy.tie[t.block] :
        timers' = (timers \ {t}) \cup {TickTimer(t.block, now', tie)}
    /\ UNCHANGED <<policy, phase, input, startVars, late, target, until>>

(* A module block's tick, and what on_timer schedules. *)
Tick(t) ==
    /\ phase = "advance" /\ work = <<>>
    /\ IsNext(t) /\ t.tag = "tick"
    /\ now' = Later(t.due)
    /\ OnTimer(t.block, input[t.block], now')
    /\ \E tie \in policy.tie[t.block] :
        timers' = (timers \ {t}) \cup {TickTimer(t.block, now', tie)}
    /\ late' = IF t.block \in Resampling THEN Append(late, t.block) ELSE late
    /\ UNCHANGED <<policy, phase, input, startVars, target, until>>

(* The end of a timed override. *)
Expire(t) ==
    /\ phase = "advance" /\ work = <<>>
    /\ IsNext(t) /\ t.tag = "expiry"
    /\ now' = Later(t.due)
    /\ LET i == [input[t.block] EXCEPT ![Operator] = Null] IN
       /\ input' = [input EXCEPT ![t.block] = i]
       /\ OnTimer(t.block, i, now')
    /\ timers' = timers \ {t}
    /\ UNCHANGED <<policy, phase, startVars, late, target, until>>

(* Mutant: a second sample schedules a tick, as the first does. *)
ResampleTicks ==
    /\ phase = "advance" /\ work = <<>>
    /\ late # <<>>
    /\ \A t \in timers : t.due > now
    /\ OnTimer(Head(late), input[Head(late)], now)
    /\ late' = Tail(late)
    /\ \E tie \in policy.tie[Head(late)] :
        timers' = timers \cup {TickTimer(Head(late), now + 1, tie)}
    /\ UNCHANGED <<policy, phase, input, startVars, now, target, until>>

(* A sampling block takes its sample again at the end of the instant. *)
Resample ==
    /\ phase = "advance" /\ work = <<>>
    /\ late # <<>>
    /\ \A t \in timers : t.due > now
    /\ OnTimer(Head(late), input[Head(late)], now)
    /\ late' = Tail(late)
    /\ UNCHANGED <<policy, phase, input, startVars, timers, now, target, until>>

AdvanceDone ==
    /\ phase = "advance" /\ work = <<>>
    /\ late = <<>> /\ \A t \in timers : t.due > target
    /\ now' = target
    /\ phase' = "rest"
    /\ UNCHANGED <<policy, netVars, work, startVars, timers, late, target, until>>

-----------------------------------------------------------------------------
(* Stimuli.                                                                *)

(* write_point: level 16 of an input point.  Before the start the value    *)
(* waits; afterwards a changed value is propagated.                        *)
WriteEarly(b, v) ==
    /\ phase = "new"
    /\ input' = [input EXCEPT ![b][Input] = v]
    /\ UNCHANGED <<policy, phase, output, memory, counts, work, startVars, clockVars, until>>

Propagate(b, i) ==
    /\ input' = [input EXCEPT ![b] = i]
    /\ CountedRun(b, i, Zero, <<>>)

Write(b, v) ==
    /\ AtRest
    /\ v # input[b][Input]
    /\ Propagate(b, [input[b] EXCEPT ![Input] = v])
    /\ UNCHANGED <<policy, startVars, clockVars, until>>

(* Mutant: an earlier expiry stays scheduled. *)
ExpiriesKept(b) == {}

Expiries(b) == {t \in timers : t.block = b /\ t.tag = "expiry"}
ExpiryTimers(b, d, tie) ==
    IF d = 0 THEN {}
    ELSE {[due |-> now + d, tie |-> tie, block |-> b, tag |-> "expiry"]}

(* Operator override, with a duration or (0) without; it replaces the one  *)
(* in force.  Auto ends it.                                                *)
Override(b, v, d) ==
    /\ AtRest
    /\ Propagate(b, [input[b] EXCEPT ![Operator] = v])
    /\ \E tie \in policy.tie[b] :
        timers' = (timers \ Expiries(b)) \cup ExpiryTimers(b, d, tie)
    /\ until' = [until EXCEPT ![b] = IF d = 0 THEN Forever ELSE now + d]
    /\ UNCHANGED <<policy, startVars, late, now, target>>

AutoAction(b) ==
    /\ AtRest
    /\ Propagate(b, [input[b] EXCEPT ![Operator] = Null])
    /\ timers' = timers \ Expiries(b)
    /\ until' = [until EXCEPT ![b] = 0]
    /\ UNCHANGED <<policy, startVars, late, now, target>>

(* emergency_override, and emergency_auto with Null *)
EmergencyOverride(b, v) ==
    /\ AtRest
    /\ Propagate(b, [input[b] EXCEPT ![Emergency] = v])
    /\ UNCHANGED <<policy, startVars, clockVars, until>>

-----------------------------------------------------------------------------
Engine ==
    \/ Deliver
    \/ PassOne \/ PassDone \/ Settle \/ SettleDone
    \/ \E t \in timers : Tick(t) \/ Expire(t)
    \/ Resample \/ AdvanceDone

Environment ==
    \/ Start
    \/ \E d \in Stride : Advance(d)
    \/ \E b \in Point, v \in Value \ {Null} : WriteEarly(b, v) \/ Write(b, v)
    \/ \E b \in Operated :
        \/ \E v \in Value \ {Null}, d \in Stride \cup {0} : Override(b, v, d)
        \/ AutoAction(b)
        \/ \E v \in Value : EmergencyOverride(b, v)

Next == Engine \/ Environment

Spec == Init /\ [][Next]_vars

(* A call into the engine runs to its end. *)
FairSpec == Spec /\ WF_vars(Engine)
-----------------------------------------------------------------------------
(* Properties.                                                             *)

TypeOK ==
    /\ policy \in Policy
    /\ phase \in {"new", "pass", "settle", "rest", "advance", "loop"}
    /\ input \in [Block -> Inputs]
    /\ output \in [Block -> Value]
    /\ memory \in [Block -> Memory]
    /\ counts \in [Block -> Nat]
    /\ work \in Seq(Wire)
    /\ remaining \in Seq(Block)
    /\ dirty \subseteq Block
    /\ timers \subseteq Timer
    /\ late \in Seq(Resampling)
    /\ now \in 0..Horizon /\ target \in 0..Horizon
    /\ until \in [Block -> Nat \cup {Forever}]

(* S-LINK-1: no change is lost on the way: whatever order links are        *)
(* followed in, an input that differs from the output that drives it has   *)
(* a delivery to come, which will carry the present value.                 *)
LinksCarry ==
    phase \notin {"new", "loop"} =>
        \A w \in Wire : Carried(w) \/ w \in Members(work)

(* S-LINK-2, S-LINK-4: outside the start a memoryless block always shows   *)
(* the function of its inputs, and in the start one that does not will     *)
(* still be executed.  With LinksCarry: at rest the network satisfies all  *)
(* its equations at once, so on a network without loops the result does    *)
(* not depend on the policy.                                               *)
Settled ==
    phase \notin {"new", "loop"} =>
        \A b \in Pure :
            \/ output[b] = Gate(b, input[b])
            \/ b \in dirty \/ b \in Members(remaining)

(* Where each part of the start is over. *)
Shape ==
    /\ phase \in {"new", "pass", "loop"} => work = <<>>
    /\ phase \in {"settle", "rest", "advance"} => remaining = <<>>
    /\ phase \in {"rest", "advance"} => dirty = {}

(* S-LINK-1: at rest every link shows its source and every memoryless      *)
(* block the function of its inputs, loops or not, under every policy.     *)
RestIsFixpoint ==
    AtRest => /\ \A w \in Wire : Carried(w)
              /\ \A b \in Pure : output[b] = Gate(b, input[b])

(* S-MODULE-1, S-MODULE-2: however the clock is advanced, each module      *)
(* block has one tick to come, at the next multiple of its period; no tick *)
(* is lost, doubled or drifts, and no sample is outstanding.               *)
TicksKeepTime ==
    AtRest =>
        \A b \in Ticking :
            \E t \in timers :
                /\ {u \in timers : u.block = b} = {t}
                /\ t.due % Period[b] = 0
                /\ now < t.due /\ t.due <= now + Period[b]

(* To execute again, now, would change nothing. *)
Sampled(b) ==
    /\ Result(b, input[b], now) = output[b]
    /\ Remembered(b, input[b], now) = memory[b]

(* What the property asks of a network, of places given to its blocks, of  *)
(* the blocks stirred: those whose output a second sample may change, and  *)
(* of the values that links carry and the memories blocks then have.       *)
Fed(b, values) == {i \in Inputs : \A w \in Wire : w.target = b => i[w.slot] \in values}

(* To execute again at the same instant changes nothing ...                *)
Repeats(b, values, memories) ==
    \A i \in Fed(b, values), m \in memories, t \in 0..Horizon :
        LET n == Remember(b, i, m, t)
        IN  Remember(b, i, n, t) = n /\ Compute(b, i, n, t) = Compute(b, i, m, t)

(* ... nor, with another input, what is shown: so a unit delay.            *)
Steady(b, values, memories) ==
    \A i, j \in Fed(b, values), m \in memories, t \in 0..Horizon :
        Compute(b, j, Remember(b, i, m, t), t) = Compute(b, i, m, t)

(* No block answers values of links with anything else.                    *)
Closed(values, memories) ==
    /\ \A b \in Block : FirstMemory[b] \in memories
    /\ \A b \in Block \ Pure : \A i \in Fed(b, values), m \in memories, t \in 0..Horizon :
          Remember(b, i, m, t) \in memories
    /\ \A w \in Wire : LET b == w.source IN
          /\ SavedOutput[b] \in values
          /\ b \in Pure => \A i \in IF b \in Writable THEN Inputs ELSE Fed(b, values) :
                Gate(b, i) \in values
          /\ b \notin Pure => \A i \in Fed(b, values), m \in memories, t \in 0..Horizon :
                Compute(b, i, m, t) \in values

(* What a second sample stirs up lies ahead of it, and the first and the   *)
(* second samples are taken in the order of the places.                    *)
Ordered(place, stirred) ==
    /\ place \in [Block -> Int]
    /\ \A w \in Wire : w.source \in stirred =>
          /\ place[w.source] <= place[w.target]
          /\ w.target \in Resampling => place[w.source] < place[w.target]
          /\ w.target \in Reactive => w.target \in stirred
    /\ Members(SampleOrder) = Resampling
    /\ \A i, j \in 1..Len(SampleOrder) :
          i < j => place[SampleOrder[i]] <= place[SampleOrder[j]]
    /\ \A p \in Policy, b, c \in Resampling : place[b] < place[c] =>
          \A x \in p.tie[b], y \in p.tie[c] : x < y

Sampling(place, stirred, values, memories) ==
    /\ Ordered(place, stirred)
    /\ Closed(values, memories)
    /\ \A b \in Resampling : /\ Repeats(b, values, memories)
                             /\ b \in stirred \/ Steady(b, values, memories)

(* S-MODULE-6: when the clock stops at an instant at which a sampling      *)
(* block ticked, the sample it took is the settled value of its input.     *)
SamplesSettled ==
    [][ AdvanceDone =>
          \A b \in Resampling : target % Period[b] = 0 => Sampled(b) ]_vars

(* S-WRITABLE-3: an operator override is in force until its own duration   *)
(* has elapsed, no longer and no less, whatever was overridden or released *)
(* in between; one without a duration stays.                               *)
OverridesEnd ==
    AtRest =>
        \A b \in Writable :
            input[b][Operator] # Null <=> until[b] = Forever \/ until[b] > now

(* Every call returns: propagation ends, at rest or in an error.           *)
Settles == (phase \notin {"new", "loop"} /\ ~AtRest) ~> (AtRest \/ phase = "loop")
=============================================================================
