------------------------ MODULE ShadowEngine_proofs ------------------------
(***************************************************************************)
(* The network satisfies all its equations when the engine is at rest, for *)
(* every network, every policy and every behaviour of the blocks.          *)
(*                                                                         *)
(* The inductive invariant says of every instant what is still owed: a     *)
(* link that does not show its source has a delivery to come, a memoryless *)
(* block that does not show the function of its inputs will be executed.   *)
(*                                                                         *)
(* Behind it the clock: ticks and overrides keep time, and the samples a   *)
(* sampling block takes are settled when the clock stops.                  *)
(***************************************************************************)
EXTENDS ShadowEngine, SequenceTheorems, TLAPS

Unlooped == phase \notin {"new", "loop"}

(* Only an operator override has an expiry, and no link drives its level.  *)
Expiring == \A t \in timers : t.tag = "expiry" => t.block \in Writable

IInv == TypeOK /\ Shape /\ Expiring /\ LinksCarry /\ Settled

-----------------------------------------------------------------------------
(* Sequences as sets of their members.                                     *)

LEMMA MembersEmpty == Members(<<>>) = {}
BY DEF Members

LEMMA MembersType ==
    ASSUME NEW S, NEW s \in Seq(S) PROVE Members(s) \subseteq S
BY DEF Members

LEMMA MembersConcat ==
    ASSUME NEW S, NEW s \in Seq(S), NEW t \in Seq(S)
    PROVE  /\ s \o t \in Seq(S)
           /\ Members(s \o t) = Members(s) \cup Members(t)
<1>1. s \o t \in Seq(S) /\ Len(s \o t) = Len(s) + Len(t)
  BY ConcatProperties
<1>2. \A i \in 1..Len(s) + Len(t) :
        (s \o t)[i] = IF i <= Len(s) THEN s[i] ELSE t[i - Len(s)]
  BY ConcatProperties
<1>3. Members(s \o t) \subseteq Members(s) \cup Members(t)
  BY <1>1, <1>2 DEF Members
<1>4. Members(s) \subseteq Members(s \o t)
  BY <1>1, <1>2 DEF Members
<1>5. ASSUME NEW j \in 1..Len(t) PROVE t[j] \in Members(s \o t)
  <2>1. Len(s) + j \in 1..Len(s) + Len(t) /\ ~(Len(s) + j <= Len(s))
    OBVIOUS
  <2>2. (s \o t)[Len(s) + j] = t[j]
    BY <2>1, <1>2
  <2> QED BY <2>1, <2>2, <1>1 DEF Members
<1> QED BY <1>1, <1>3, <1>4, <1>5 DEF Members

LEMMA MembersHead ==
    ASSUME NEW S, NEW s \in Seq(S), s # <<>>
    PROVE  /\ Head(s) \in S /\ Tail(s) \in Seq(S)
           /\ Members(s) = {Head(s)} \cup Members(Tail(s))
<1>1. Head(s) \in S /\ Tail(s) \in Seq(S) /\ Len(s) \in Nat \ {0} /\ Len(Tail(s)) = Len(s) - 1
  BY HeadTailProperties
<1>2. Head(s) = s[1]
  BY HeadTailProperties
<1>3. \A i \in 1..Len(s) - 1 : Tail(s)[i] = s[i + 1]
  BY HeadTailProperties
<1>4. Members(s) \subseteq {Head(s)} \cup Members(Tail(s))
  <2> SUFFICES ASSUME NEW i \in 1..Len(s) PROVE s[i] \in {Head(s)} \cup Members(Tail(s))
    BY DEF Members
  <2>1. CASE i = 1
    BY <2>1, <1>2
  <2>2. CASE i # 1
    <3>1. i - 1 \in 1..Len(s) - 1
      BY <2>2, <1>1
    <3>2. Tail(s)[i - 1] = s[i]
      BY <3>1, <1>3
    <3> QED BY <3>1, <3>2, <1>1 DEF Members
  <2> QED BY <2>1, <2>2
<1>5. {Head(s)} \cup Members(Tail(s)) \subseteq Members(s)
  <2>1. Head(s) \in Members(s)
    BY <1>1, <1>2 DEF Members
  <2>2. ASSUME NEW i \in 1..Len(s) - 1 PROVE Tail(s)[i] \in Members(s)
    <3>1. i + 1 \in 1..Len(s)
      BY <1>1
    <3> QED BY <3>1, <1>3 DEF Members
  <2> QED BY <2>1, <2>2, <1>1 DEF Members
<1> QED BY <1>1, <1>4, <1>5
-----------------------------------------------------------------------------
(* One execution.                                                          *)

LEMMA ResultType ==
    ASSUME TypeOK, NEW b \in Block, NEW i \in Inputs, NEW t \in 0..Horizon
    PROVE  Result(b, i, t) \in Value /\ Remembered(b, i, t) \in Memory
<1>1. memory[b] \in Memory
  BY DEF TypeOK
<1>2. CASE b \in Pure
  BY <1>1, <1>2, GateAssumption DEF Result, Remembered
<1>3. CASE b \notin Pure
  BY <1>1, <1>3, ComputeAssumption DEF Result, Remembered
<1> QED BY <1>2, <1>3

LEMMA QueueMembers ==
    ASSUME TypeOK, NEW b \in Block, NEW i, NEW t, NEW waiting \in Seq(Wire)
    PROVE  /\ Queue(b, i, t, waiting) \in Seq(Wire)
           /\ Members(waiting) \subseteq Members(Queue(b, i, t, waiting))
           /\ Result(b, i, t) # output[b] =>
                \A w \in Wire : w.source = b => w \in Members(Queue(b, i, t, waiting))
<1> DEFINE fired == IF Result(b, i, t) = output[b] THEN <<>> ELSE policy.fanout[b]
<1>1. policy \in Policy
  BY DEF TypeOK
<1>2. policy.fanout[b] \in Seq(Wire) /\ Members(policy.fanout[b]) = {w \in Wire : w.source = b}
  BY <1>1, PolicyAssumption
<1>3. fired \in Seq(Wire)
  BY <1>2
<1>4. Result(b, i, t) # output[b] => Members(fired) = {w \in Wire : w.source = b}
  BY <1>2
<1> HIDE DEF fired
<1>5. /\ fired \o waiting \in Seq(Wire) /\ waiting \o fired \in Seq(Wire)
      /\ Members(fired \o waiting) = Members(fired) \cup Members(waiting)
      /\ Members(waiting \o fired) = Members(fired) \cup Members(waiting)
  BY <1>3, MembersConcat
<1>6. Queue(b, i, t, waiting) = IF policy.depth THEN fired \o waiting ELSE waiting \o fired
  BY DEF Queue, fired
<1>7. CASE policy.depth
  BY <1>7, <1>4, <1>5, <1>6
<1>8. CASE ~policy.depth
  BY <1>8, <1>4, <1>5, <1>6
<1> QED BY <1>7, <1>8

(* Once block b has the inputs i, a link shows its source or is waiting.   *)
Accounted(b, i, waiting) ==
    \A w \in Wire :
        \/ (IF w.target = b THEN i[w.slot] ELSE input[w.target][w.slot]) = output[w.source]
        \/ w \in Members(waiting)

(* What an execution of block b leaves behind: values of their types, no   *)
(* link unaccounted for, no gate other than b made wrong.                  *)
Paid(b) ==
    /\ \A w \in Wire : Carried(w)' \/ w \in Members(work)'
    /\ \A d \in Pure :
         d = b \/ output[d] = Gate(d, input[d]) => output'[d] = Gate(d, input'[d])

Leaves(b) ==
    /\ input' \in [Block -> Inputs] /\ output' \in [Block -> Value]
    /\ memory' \in [Block -> Memory] /\ work' \in Seq(Wire)
    /\ Paid(b)

CountedLeaves(b) ==
    /\ input' \in [Block -> Inputs] /\ output' \in [Block -> Value]
    /\ memory' \in [Block -> Memory] /\ counts' \in [Block -> Nat]
    /\ work' \in Seq(Wire)
    /\ phase' = phase \/ (phase' = "loop" /\ work' = <<>>)
    /\ phase' # "loop" => Paid(b)

(* A block that executes leaves the network owing no more than before: the *)
(* links it disturbs are queued, and its own output fits its inputs.       *)
LEMMA Executed ==
    ASSUME TypeOK, NEW b \in Block, NEW i \in Inputs, NEW t \in 0..Horizon,
           NEW waiting \in Seq(Wire),
           input' = [input EXCEPT ![b] = i],
           Execute(b, i, t),
           work' = Queue(b, i, t, waiting),
           Accounted(b, i, waiting)
    PROVE  Leaves(b)
<1>1. Result(b, i, t) \in Value /\ Remembered(b, i, t) \in Memory
  BY ResultType
<1>2. /\ input \in [Block -> Inputs] /\ output \in [Block -> Value]
      /\ memory \in [Block -> Memory]
  BY DEF TypeOK
<1>3. output' = [output EXCEPT ![b] = Result(b, i, t)]
  BY DEF Execute
<1>4. memory' = [memory EXCEPT ![b] = Remembered(b, i, t)]
  BY DEF Execute
<1>5. /\ input' \in [Block -> Inputs] /\ output' \in [Block -> Value]
      /\ memory' \in [Block -> Memory]
  BY <1>1, <1>2, <1>3, <1>4
<1>6. /\ work' \in Seq(Wire)
      /\ Members(waiting) \subseteq Members(work)'
      /\ Result(b, i, t) # output[b] => \A w \in Wire : w.source = b => w \in Members(work)'
  <2>1. Members(work)' = Members(work')
    BY DEF Members
  <2> QED BY <2>1, QueueMembers
<1>7. ASSUME NEW w \in Wire PROVE Carried(w)' \/ w \in Members(work)'
  <2>1. w.source \in Block /\ w.target \in Block /\ w.slot \in Slot
    BY NetAssumption
  <2>2. CASE w \in Members(waiting)
    BY <2>2, <1>6
  <2>3. CASE w.source = b /\ Result(b, i, t) # output[b]
    BY <2>3, <1>6
  <2>4. CASE w \notin Members(waiting) /\ ~(w.source = b /\ Result(b, i, t) # output[b])
    <3>1. output'[w.source] = output[w.source]
      BY <2>1, <2>4, <1>2, <1>3
    <3>2. input'[w.target][w.slot]
             = IF w.target = b THEN i[w.slot] ELSE input[w.target][w.slot]
      BY <2>1, <1>2
    <3> QED BY <3>1, <3>2, <2>4 DEF Carried, Accounted
  <2> QED BY <2>2, <2>3, <2>4
<1>8. ASSUME NEW c \in Pure, c = b \/ output[c] = Gate(c, input[c])
      PROVE  output'[c] = Gate(c, input'[c])
  <2>1. c \in Block
    BY NetAssumption
  <2>2. CASE c = b
    BY <2>1, <2>2, <1>2, <1>3 DEF Result
  <2>3. CASE c # b
    BY <2>1, <2>3, <1>2, <1>3, <1>8
  <2> QED BY <2>2, <2>3
<1> QED BY <1>5, <1>6, <1>7, <1>8 DEF Leaves, Paid

(* The same of an execution that counts: it may also end the propagation.  *)
LEMMA Counted ==
    ASSUME TypeOK, NEW b \in Block, NEW i \in Inputs, NEW c \in [Block -> Nat],
           NEW waiting \in Seq(Wire),
           input' = [input EXCEPT ![b] = i],
           CountedRun(b, i, c, waiting),
           Accounted(b, i, waiting),
           phase # "loop"
    PROVE  CountedLeaves(b)
<1>1. CASE Overrun(b, c)
  BY <1>1 DEF Overrun, TypeOK, CountedLeaves
<1>2. CASE Run(b, i, c, waiting)
  <2>1. now \in 0..Horizon
    BY DEF TypeOK
  <2>2. Execute(b, i, now) /\ work' = Queue(b, i, now, waiting) /\ phase' = phase
    BY <1>2 DEF Run
  <2>3. counts' \in [Block -> Nat]
    BY <1>2 DEF Run, Kept, Zero
  <2>4. Leaves(b)
    BY <2>1, <2>2, Executed
  <2> QED BY <2>2, <2>3, <2>4 DEF Leaves, CountedLeaves
<1> QED BY <1>1, <1>2 DEF CountedRun

-----------------------------------------------------------------------------
(* The invariant.                                                          *)

LEMMA InitIInv == Init => IInv
<1> SUFFICES ASSUME Init PROVE IInv
  OBVIOUS
<1>1. TypeOK
  BY NetAssumption, SavedAssumption, BoundAssumption DEF Init, TypeOK, Zero
<1>2. Shape /\ Expiring /\ LinksCarry /\ Settled
  BY DEF Init, Shape, Expiring, LinksCarry, Settled
<1> QED BY <1>1, <1>2 DEF IInv

LEMMA SkipStep == IInv /\ Skip => IInv'
<1> SUFFICES ASSUME IInv, Skip PROVE IInv'
  OBVIOUS
<1> USE DEF IInv
<1>1. /\ Head(work) \in Wire /\ Tail(work) \in Seq(Wire)
      /\ Members(work) = {Head(work)} \cup Members(Tail(work))
  BY MembersHead DEF TypeOK, Skip
<1>2. TypeOK'
  BY <1>1 DEF TypeOK, Skip, Kept, Zero, startVars, clockVars
<1>3. Shape' /\ Expiring'
  BY DEF Shape, Expiring, Skip, startVars, clockVars
<1>4. LinksCarry'
  BY <1>1 DEF LinksCarry, Skip, Carried, Members
<1>5. Settled'
  BY DEF Settled, Skip, startVars, Members
<1> QED BY <1>2, <1>3, <1>4, <1>5

LEMMA StoreStep == IInv /\ Store => IInv'
<1> SUFFICES ASSUME IInv, Store PROVE IInv'
  OBVIOUS
<1> USE DEF IInv
<1> DEFINE w0 == Head(work)
<1>1. /\ w0 \in Wire /\ Tail(work) \in Seq(Wire)
      /\ Members(work) = {w0} \cup Members(Tail(work))
  BY MembersHead DEF TypeOK, Store
<1>2. w0.source \in Block /\ w0.target \in Block /\ w0.slot \in Slot
  BY <1>1, NetAssumption
<1>3. /\ input \in [Block -> Inputs] /\ output \in [Block -> Value]
      /\ input' = [input EXCEPT ![w0.target] = Taken(w0)]
      /\ Taken(w0) = [input[w0.target] EXCEPT ![w0.slot] = output[w0.source]]
      /\ output' = output /\ work' = Tail(work) /\ phase' = phase
      /\ w0.target \notin Reactive
  BY DEF TypeOK, Store, Carry, Taken
<1>4. Taken(w0) \in Inputs
  BY <1>2, <1>3 DEF Inputs
<1>5. TypeOK'
  BY <1>1, <1>2, <1>3, <1>4 DEF TypeOK, Store, Kept, Zero, startVars, clockVars
<1>6. Shape' /\ Expiring'
  BY DEF Shape, Expiring, Store, startVars, clockVars
<1>7. LinksCarry'
  <2> SUFFICES ASSUME Unlooped', NEW w \in Wire PROVE Carried(w)' \/ w \in Members(work')
    BY DEF LinksCarry, Unlooped, Members
  <2>1. w.source \in Block /\ w.target \in Block /\ w.slot \in Slot
    BY NetAssumption
  <2>2. Carried(w) \/ w = w0 \/ w \in Members(work')
    BY <1>1, <1>3 DEF LinksCarry, Unlooped
  <2>3. CASE w.target = w0.target /\ w.slot = w0.slot
    <3>1. w = w0
      BY <2>3, <1>1, NetAssumption
    <3> QED BY <3>1, <1>2, <1>3, <1>4 DEF Carried, Inputs
  <2>4. CASE ~(w.target = w0.target /\ w.slot = w0.slot)
    <3>1. input'[w.target][w.slot] = input[w.target][w.slot]
      BY <2>1, <2>4, <1>2, <1>3 DEF Inputs
    <3> QED BY <3>1, <2>2, <2>4, <1>3 DEF Carried
  <2> QED BY <2>3, <2>4
<1>8. Settled'
  <2> SUFFICES ASSUME Unlooped', NEW b \in Pure
               PROVE  output'[b] = Gate(b, input'[b]) \/ b \in dirty' \/ b \in Members(remaining')
    BY DEF Settled, Unlooped, Members
  <2>1. b \in Block /\ b # w0.target
    BY <1>3, NetAssumption
  <2>2. input'[b] = input[b]
    BY <2>1, <1>3
  <2> QED BY <2>2, <1>3 DEF Settled, Store, startVars, Unlooped
<1> QED BY <1>5, <1>6, <1>7, <1>8
(* What the rest of a step's proof needs once its execution is known.      *)
LEMMA SettledAfter ==
    ASSUME Settled, Unlooped, NEW b,
           phase' # "loop" =>
             \A c \in Pure :
               c = b \/ output[c] = Gate(c, input[c]) => output'[c] = Gate(c, input'[c]),
           dirty \ {b} \subseteq dirty', remaining' = remaining
    PROVE  Settled'
BY DEF Settled, Unlooped, Members

LEMMA ReactStep == IInv /\ React => IInv'
<1> SUFFICES ASSUME IInv, React PROVE IInv'
  OBVIOUS
<1> USE DEF IInv
<1> DEFINE w0 == Head(work)
           b == w0.target
           i == Taken(w0)
<1>1. /\ w0 \in Wire /\ Tail(work) \in Seq(Wire)
      /\ Members(work) = {w0} \cup Members(Tail(work))
  BY MembersHead DEF TypeOK, React
<1>2. w0.source \in Block /\ b \in Block /\ w0.slot \in Slot
  BY <1>1, NetAssumption
<1>3. /\ input \in [Block -> Inputs] /\ output \in [Block -> Value] /\ counts \in [Block -> Nat]
      /\ i = [input[b] EXCEPT ![w0.slot] = output[w0.source]]
      /\ input' = [input EXCEPT ![b] = i]
      /\ CountedRun(b, i, counts, Tail(work))
  BY DEF TypeOK, React, Carry, Taken
<1>4. i \in Inputs
  BY <1>2, <1>3 DEF Inputs
<1>5. Unlooped
  BY DEF React, Shape, Unlooped, CountedRun, Overrun, Run
<1>6. Accounted(b, i, Tail(work))
  <2> SUFFICES ASSUME NEW w \in Wire
               PROVE  \/ (IF w.target = b THEN i[w.slot] ELSE input[w.target][w.slot])
                            = output[w.source]
                      \/ w \in Members(Tail(work))
    BY DEF Accounted
  <2>1. w.source \in Block /\ w.target \in Block /\ w.slot \in Slot
    BY NetAssumption
  <2>2. Carried(w) \/ w = w0 \/ w \in Members(Tail(work))
    BY <1>1, <1>5 DEF LinksCarry, Unlooped
  <2>3. CASE w.target = b /\ w.slot = w0.slot
    <3>1. w = w0
      BY <2>3, <1>1, NetAssumption
    <3> QED BY <3>1, <1>2, <1>3 DEF Inputs
  <2>4. CASE ~(w.target = b /\ w.slot = w0.slot)
    BY <2>1, <2>2, <2>4, <1>2, <1>3 DEF Carried, Inputs
  <2> QED BY <2>3, <2>4
<1> HIDE DEF w0, b, i
<1>7. CountedLeaves(b)
  <2>1. TypeOK /\ phase # "loop"
    BY <1>5 DEF Unlooped
  <2> HIDE DEF IInv
  <2> QED BY <1>1, <1>2, <1>3, <1>4, <1>6, <2>1, Counted
<1>8. UNCHANGED <<policy, startVars, clockVars, until>>
  BY DEF React
<1>9. TypeOK'
  BY <1>7, <1>8 DEF TypeOK, startVars, clockVars, CountedLeaves
<1>10. Shape' /\ Expiring'
  BY <1>5, <1>7, <1>8
  DEF Shape, Expiring, Unlooped, startVars, clockVars, React, CountedLeaves
<1>11. LinksCarry'
  BY <1>7 DEF LinksCarry, CountedLeaves, Paid
<1>12. Settled'
  BY <1>5, <1>7, <1>8, SettledAfter DEF startVars, CountedLeaves, Paid
<1> QED BY <1>9, <1>10, <1>11, <1>12

LEMMA StartStep == IInv /\ Start => IInv'
<1> SUFFICES ASSUME IInv, Start PROVE IInv'
  OBVIOUS
<1> USE DEF IInv
<1> DEFINE Driver(b, s) == CHOOSE w \in Wire : w.target = b /\ w.slot = s
           Driven(b, s) == \E w \in Wire : w.target = b /\ w.slot = s
<1>1. /\ input \in [Block -> Inputs] /\ output \in [Block -> Value]
      /\ policy \in Policy /\ work = <<>>
  BY DEF TypeOK, Shape, Start
<1>2. output' \in [Block -> Value]
  <2>1. \A b \in Writable : Gate(b, input[b]) \in Value
    BY <1>1, NetAssumption, GateAssumption
  <2> QED BY <1>1, <2>1 DEF Start
<1>3. ASSUME NEW w \in Wire
      PROVE  Driven(w.target, w.slot) /\ Driver(w.target, w.slot) = w
  BY NetAssumption
<1>4. input' = [b \in Block |-> [s \in Slot |->
                  IF Driven(b, s) THEN output'[Driver(b, s).source] ELSE input[b][s]]]
  BY DEF Start
<1>5. ASSUME NEW b \in Block, NEW s \in Slot, Driven(b, s)
      PROVE  Driver(b, s).source \in Block
  <2>1. Driver(b, s) \in Wire
    BY <1>5
  <2> QED BY <2>1, NetAssumption
<1> HIDE DEF Driver, Driven
<1>6. input' \in [Block -> Inputs]
  BY <1>1, <1>2, <1>4, <1>5 DEF Inputs
<1>7. timers' \subseteq Timer /\ Expiring'
  <2>1. PICK tie \in [Ticking -> UNION {policy.tie[b] : b \in Ticking}] :
            /\ \A b \in Ticking : tie[b] \in policy.tie[b]
            /\ timers' = {TickTimer(b, 0, tie[b]) : b \in Ticking}
    BY DEF Start
  <2>2. \A b \in Ticking : b \in Block /\ tie[b] \in Int /\ Period[b] \in Nat
    BY <2>1, <1>1, PolicyAssumption, PeriodAssumption DEF Ticking
  <2> QED BY <2>1, <2>2 DEF TickTimer, Timer, Expiring
<1>8. TypeOK'
  BY <1>1, <1>2, <1>6, <1>7, PolicyAssumption, SavedAssumption DEF TypeOK, Start
<1>9. Shape'
  BY <1>1 DEF Shape, Start
<1>10. LinksCarry'
  <2> SUFFICES ASSUME NEW w \in Wire PROVE Carried(w)'
    BY DEF LinksCarry
  <2>1. w.source \in Block /\ w.target \in Block /\ w.slot \in Slot
    BY NetAssumption
  <2> QED BY <2>1, <1>3, <1>4 DEF Carried
<1>11. Settled'
  <2>1. Members(remaining') = Block
    BY <1>1, PolicyAssumption DEF Start
  <2>2. Pure \subseteq Block
    BY NetAssumption
  <2> QED BY <2>1, <2>2 DEF Settled, Members
<1> QED BY <1>7, <1>8, <1>9, <1>10, <1>11
LEMMA PassStep == IInv /\ PassOne => IInv'
<1> SUFFICES ASSUME IInv, PassOne PROVE IInv'
  OBVIOUS
<1> USE DEF IInv
<1> DEFINE b == Head(remaining)
           v == Result(b, input[b], now)
           hit == IF v = output[b] THEN {}
                  ELSE {w \in Wire : w.source = b /\ input[w.target][w.slot] # v}
           Hit(c, s) == \E w \in hit : w.target = c /\ w.slot = s
<1>1. /\ b \in Block /\ Tail(remaining) \in Seq(Block)
      /\ Members(remaining) = {b} \cup Members(Tail(remaining))
  BY MembersHead DEF TypeOK, PassOne
<1>2. /\ input \in [Block -> Inputs] /\ output \in [Block -> Value]
      /\ memory \in [Block -> Memory] /\ now \in 0..Horizon
      /\ work = <<>> /\ phase = "pass"
  BY DEF TypeOK, Shape, PassOne
<1>3. v \in Value /\ Remembered(b, input[b], now) \in Memory
  BY <1>1, <1>2, ResultType
<1>4. hit \subseteq {w \in Wire : w.source = b}
  OBVIOUS
<1>5. /\ output' = [output EXCEPT ![b] = v]
      /\ memory' = [memory EXCEPT ![b] = Remembered(b, input[b], now)]
      /\ input' = [c \in Block |-> [s \in Slot |-> IF Hit(c, s) THEN v ELSE input[c][s]]]
      /\ dirty' = (dirty \ {b}) \cup ({w.target : w \in hit} \cap Reactive)
      /\ remaining' = Tail(remaining)
      /\ UNCHANGED <<policy, phase, work, clockVars, until>>
      /\ counts' = [counts EXCEPT ![b] = @ + 1]
  BY DEF PassOne, Execute
<1>6. input' \in [Block -> Inputs]
  BY <1>2, <1>3, <1>5 DEF Inputs
<1>7. TypeOK'
  <2>1. dirty' \subseteq Block
    BY <1>5, NetAssumption DEF TypeOK
  <2> HIDE DEF b, v, hit, Hit
  <2>2. output' \in [Block -> Value] /\ memory' \in [Block -> Memory]
    BY <1>2, <1>3, <1>5
  <2>3. counts' \in [Block -> Nat]
    BY <1>1, <1>5 DEF TypeOK
  <2> QED BY <1>1, <1>5, <1>6, <2>1, <2>2, <2>3 DEF TypeOK, clockVars
<1>8. Shape' /\ Expiring'
  BY <1>2, <1>5 DEF Shape, Expiring, clockVars
<1>9. ASSUME NEW w \in Wire PROVE Carried(w)'
  <2>1. w.source \in Block /\ w.target \in Block /\ w.slot \in Slot
    BY NetAssumption
  <2>2. Carried(w)
    BY <1>2, MembersEmpty DEF LinksCarry
  <2>3. input'[w.target][w.slot] = IF Hit(w.target, w.slot) THEN v ELSE input[w.target][w.slot]
    BY <2>1, <1>5
  <2>4. Hit(w.target, w.slot) <=> w \in hit
    BY <1>4, NetAssumption
  <2>5. CASE w.source = b
    <3>1. output'[w.source] = v
      BY <2>1, <2>5, <1>2, <1>5
    <3> QED BY <3>1, <2>2, <2>3, <2>4, <2>5 DEF Carried
  <2>6. CASE w.source # b
    <3>1. output'[w.source] = output[w.source] /\ w \notin hit
      BY <2>1, <2>6, <1>2, <1>4, <1>5
    <3> QED BY <3>1, <2>2, <2>3, <2>4 DEF Carried
  <2> QED BY <2>5, <2>6
<1>10. LinksCarry'
  BY <1>9 DEF LinksCarry
<1>11. Settled'
  <2> SUFFICES ASSUME NEW c \in Pure
               PROVE  \/ output'[c] = Gate(c, input'[c])
                      \/ c \in dirty' \/ c \in Members(remaining')
    BY DEF Settled, Members
  <2>1. c \in Block /\ c \in Reactive
    BY NetAssumption
  <2>2. CASE \E s \in Slot : Hit(c, s)
    BY <2>1, <2>2, <1>5
  <2>3. CASE ~\E s \in Slot : Hit(c, s)
    <3>1. input'[c] = input[c]
      BY <2>1, <2>3, <1>2, <1>5 DEF Inputs
    <3>2. CASE c = b
      BY <3>1, <3>2, <2>1, <1>2, <1>5 DEF Result
    <3>3. CASE c # b
      <4>1. output'[c] = output[c]
        BY <3>3, <2>1, <1>2, <1>5
      <4>2. output[c] = Gate(c, input[c]) \/ c \in dirty \/ c \in Members(remaining)
        BY <1>2 DEF Settled
      <4> HIDE DEF b, v, hit, Hit
      <4> QED BY <4>1, <4>2, <3>1, <3>3, <1>1, <1>5
    <3> QED BY <3>2, <3>3
  <2> QED BY <2>2, <2>3
<1> QED BY <1>7, <1>8, <1>10, <1>11

LEMMA PassDoneStep == IInv /\ PassDone => IInv'
<1> SUFFICES ASSUME IInv, PassDone PROVE IInv'
  OBVIOUS
<1> USE DEF IInv
<1>1. TypeOK' /\ Shape' /\ Expiring'
  BY DEF TypeOK, Shape, Expiring, PassDone, netVars, startVars, clockVars
<1>2. LinksCarry' /\ Settled'
  BY DEF LinksCarry, Settled, PassDone, netVars, startVars, Carried, Members
<1> QED BY <1>1, <1>2

LEMMA SettleStep == IInv /\ Settle => IInv'
<1> SUFFICES ASSUME IInv, Settle PROVE IInv'
  OBVIOUS
<1> USE DEF IInv
<1>1. PICK b \in dirty : dirty' = dirty \ {b} /\ CountedRun(b, input[b], counts, <<>>)
  BY DEF Settle
<1>2. /\ b \in Block /\ input \in [Block -> Inputs] /\ counts \in [Block -> Nat]
      /\ work = <<>> /\ phase = "settle" /\ Unlooped /\ dirty \subseteq Block
      /\ UNCHANGED <<policy, input, remaining, clockVars, until>>
  BY DEF TypeOK, Settle, Unlooped
<1>3. input' = [input EXCEPT ![b] = input[b]] /\ input[b] \in Inputs
  BY <1>2
<1>4. Accounted(b, input[b], <<>>)
  BY <1>2, MembersEmpty DEF LinksCarry, Unlooped, Carried, Accounted
<1>5. <<>> \in Seq(Wire)
  OBVIOUS
<1>6. CountedLeaves(b)
  <2>1. TypeOK /\ phase # "loop"
    BY <1>2
  <2> HIDE DEF IInv
  <2> QED BY <1>1, <1>2, <1>3, <1>4, <1>5, <2>1, Counted
<1>7. TypeOK'
  BY <1>1, <1>2, <1>6 DEF TypeOK, clockVars, CountedLeaves
<1>8. Shape' /\ Expiring'
  BY <1>2, <1>6 DEF Shape, Expiring, clockVars, CountedLeaves
<1>9. LinksCarry'
  BY <1>6 DEF LinksCarry, CountedLeaves, Paid
<1>10. Settled'
  BY <1>1, <1>2, <1>6, SettledAfter DEF CountedLeaves, Paid
<1> QED BY <1>7, <1>8, <1>9, <1>10

(* Steps that move the clock or the phase and execute nothing.             *)
LEMMA IdleStep ==
    IInv /\ (SettleDone \/ AdvanceDone \/ \E d \in Stride : Advance(d)) => IInv'
<1> SUFFICES ASSUME IInv, SettleDone \/ AdvanceDone \/ \E d \in Stride : Advance(d)
             PROVE  IInv'
  OBVIOUS
<1> USE DEF IInv
<1>1. /\ UNCHANGED <<policy, input, output, memory, work, startVars, timers, late, until>>
      /\ counts' \in [Block -> Nat]
      /\ phase \in {"settle", "rest", "advance"} /\ phase' \in {"rest", "advance"}
      /\ now' \in 0..Horizon /\ target' \in 0..Horizon
      /\ dirty = {} /\ remaining = <<>>
  BY BoundAssumption
  DEF SettleDone, AdvanceDone, Advance, AtRest, TypeOK, Shape, netVars, Zero
<1>2. TypeOK' /\ Shape' /\ Expiring'
  BY <1>1 DEF TypeOK, Shape, Expiring, startVars
<1>3. LinksCarry' /\ Settled'
  BY <1>1 DEF LinksCarry, Settled, startVars, Carried, Members
<1> QED BY <1>2, <1>3

LEMMA EarlyStep == IInv /\ (\E b \in Point, v \in Value \ {Null} : WriteEarly(b, v)) => IInv'
<1> SUFFICES ASSUME IInv, NEW b \in Point, NEW v \in Value, WriteEarly(b, v) PROVE IInv'
  OBVIOUS
<1> USE DEF IInv
<1>1. b \in Block /\ Input \in Slot
  BY NetAssumption
<1>2. input' \in [Block -> Inputs]
  BY <1>1 DEF WriteEarly, TypeOK, Inputs
<1>3. TypeOK' /\ Shape' /\ Expiring'
  BY <1>2 DEF WriteEarly, TypeOK, Shape, Expiring, startVars, clockVars
<1>4. LinksCarry' /\ Settled'
  BY DEF WriteEarly, LinksCarry, Settled
<1> QED BY <1>3, <1>4

-----------------------------------------------------------------------------
(* Executions at rest: by a timer, or by an operator.  What they change of *)
(* the inputs no link drives.                                              *)

(* The inputs i of b differ from those it has only where no link arrives.  *)
Undisturbed(b, i) == \A w \in Wire : w.target = b => i[w.slot] = input[b][w.slot]

LEMMA Undriven ==
    ASSUME IInv, Unlooped, work = <<>>, NEW b \in Block, NEW i, Undisturbed(b, i)
    PROVE  Accounted(b, i, <<>>)
BY MembersEmpty DEF IInv, LinksCarry, Unlooped, Carried, Accounted, Undisturbed

LEMMA TimerExecution ==
    ASSUME IInv, phase = "advance", work = <<>>,
           NEW b \in Block, NEW i \in Inputs, NEW t \in 0..Horizon,
           Undisturbed(b, i),
           input' = [input EXCEPT ![b] = i],
           OnTimer(b, i, t), now' = t,
           timers' \subseteq Timer, Expiring', late' \in Seq(Resampling),
           UNCHANGED <<policy, phase, startVars, target, until>>
    PROVE  IInv'
<1> USE DEF IInv
<1>1. Unlooped /\ <<>> \in Seq(Wire)
  BY DEF Unlooped
<1>2. Execute(b, i, t) /\ work' = Queue(b, i, t, <<>>) /\ counts' \in [Block -> Nat]
  BY DEF OnTimer, Zero
<1>3. Accounted(b, i, <<>>)
  BY <1>1, Undriven
<1>4. Leaves(b)
  <2>1. TypeOK
    OBVIOUS
  <2> HIDE DEF IInv
  <2> QED BY <1>1, <1>2, <1>3, <2>1, Executed
<1>5. TypeOK' /\ Shape'
  BY <1>2, <1>4 DEF TypeOK, Shape, startVars, Leaves
<1>6. LinksCarry'
  BY <1>4 DEF LinksCarry, Leaves, Paid
<1>7. Settled'
  <2>1. dirty' = dirty /\ remaining' = remaining
    BY DEF startVars
  <2>2. Settled
    OBVIOUS
  <2> HIDE DEF IInv
  <2> QED BY <1>1, <1>4, <2>1, <2>2, SettledAfter DEF Leaves, Paid
<1> QED BY <1>5, <1>6, <1>7

LEMMA Stimulus ==
    ASSUME IInv, AtRest, NEW b \in Block, NEW i \in Inputs,
           Undisturbed(b, i),
           Propagate(b, i),
           timers' \subseteq Timer, Expiring', until' \in [Block -> Nat \cup {Forever}],
           UNCHANGED <<policy, startVars, late, now, target>>
    PROVE  IInv'
<1> USE DEF IInv
<1>1. Unlooped /\ phase = "rest" /\ work = <<>> /\ <<>> \in Seq(Wire) /\ Zero \in [Block -> Nat]
  BY DEF Unlooped, AtRest, Zero
<1>2. input' = [input EXCEPT ![b] = i] /\ CountedRun(b, i, Zero, <<>>)
  BY DEF Propagate
<1>3. Accounted(b, i, <<>>)
  BY <1>1, Undriven
<1>4. CountedLeaves(b)
  <2>1. TypeOK /\ phase # "loop"
    BY <1>1
  <2> HIDE DEF IInv
  <2> QED BY <1>1, <1>2, <1>3, <2>1, Counted
<1>5. TypeOK' /\ Shape'
  BY <1>1, <1>4 DEF TypeOK, Shape, startVars, CountedLeaves
<1>6. LinksCarry'
  BY <1>4 DEF LinksCarry, CountedLeaves, Paid
<1>7. Settled'
  <2>1. dirty' = dirty /\ remaining' = remaining
    BY DEF startVars
  <2>2. Settled
    OBVIOUS
  <2> HIDE DEF IInv
  <2> QED BY <1>1, <1>4, <2>1, <2>2, SettledAfter DEF CountedLeaves, Paid
<1> QED BY <1>5, <1>6, <1>7

LEMMA TickStep == IInv /\ (\E t \in timers : Tick(t)) => IInv'
<1> SUFFICES ASSUME IInv, NEW t \in timers, Tick(t) PROVE IInv'
  OBVIOUS
<1> DEFINE b == t.block
           i == input[t.block]
<1>1. /\ t \in Timer /\ policy \in Policy /\ now \in 0..Horizon /\ target \in 0..Horizon
      /\ late \in Seq(Resampling) /\ timers \subseteq Timer /\ input \in [Block -> Inputs]
  BY DEF IInv, TypeOK
<1>2. t.due \in Nat /\ b \in Block
  BY <1>1 DEF Timer
<1>3. now' \in 0..Horizon
  BY <1>1, <1>2, BoundAssumption DEF Tick, IsNext, Later
<1>4. i \in Inputs
  BY <1>1, <1>2
<1>5. PICK tie \in policy.tie[b] : timers' = (timers \ {t}) \cup {TickTimer(b, now', tie)}
  BY DEF Tick
<1>6. tie \in Int /\ Period[b] \in Nat
  BY <1>1, <1>2, PolicyAssumption, PeriodAssumption
<1>7. timers' \subseteq Timer /\ Expiring'
  <2>1. TickTimer(b, now', tie) \in Timer /\ TickTimer(b, now', tie).tag = "tick"
    BY <1>2, <1>3, <1>6 DEF TickTimer, Timer
  <2> QED BY <2>1, <1>1, <1>5 DEF Expiring, IInv
<1>8. late' \in Seq(Resampling)
  BY <1>1 DEF Tick
<1>9. /\ phase = "advance" /\ work = <<>> /\ input' = [input EXCEPT ![b] = i]
      /\ OnTimer(b, i, now')
      /\ UNCHANGED <<policy, phase, startVars, target, until>>
  BY <1>1, <1>2 DEF Tick
<1>10. Undisturbed(b, i)
  BY DEF Undisturbed
<1> HIDE DEF b, i
<1> QED BY <1>2, <1>3, <1>4, <1>7, <1>8, <1>9, <1>10, TimerExecution

LEMMA ExpireStep == IInv /\ (\E t \in timers : Expire(t)) => IInv'
<1> SUFFICES ASSUME IInv, NEW t \in timers, Expire(t) PROVE IInv'
  OBVIOUS
<1> DEFINE b == t.block
           i == [input[t.block] EXCEPT ![Operator] = Null]
<1>1. /\ t \in Timer /\ now \in 0..Horizon /\ target \in 0..Horizon
      /\ late \in Seq(Resampling) /\ timers \subseteq Timer /\ input \in [Block -> Inputs]
  BY DEF IInv, TypeOK
<1>2. t.due \in Nat /\ b \in Block
  BY <1>1 DEF Timer
<1>3. now' \in 0..Horizon
  BY <1>1, <1>2, BoundAssumption DEF Expire, IsNext, Later
<1>4. i \in Inputs
  BY <1>1, <1>2, NetAssumption DEF Inputs
<1>5. timers' \subseteq Timer /\ Expiring' /\ late' \in Seq(Resampling)
  BY <1>1 DEF Expire, Expiring, IInv
<1>6. /\ phase = "advance" /\ work = <<>> /\ input' = [input EXCEPT ![b] = i]
      /\ OnTimer(b, i, now')
      /\ UNCHANGED <<policy, phase, startVars, target, until>>
  BY DEF Expire
<1>7. Undisturbed(b, i)
  <2> SUFFICES ASSUME NEW w \in Wire, w.target = b PROVE i[w.slot] = input[b][w.slot]
    BY DEF Undisturbed
  <2>1. b \in Writable
    BY DEF Expire, Expiring, IInv
  <2>2. w.slot # Operator /\ w.slot \in Slot
    BY <2>1, NetAssumption
  <2> QED BY <2>2, <1>1, <1>2 DEF Inputs
<1> HIDE DEF b, i
<1> QED BY <1>2, <1>3, <1>4, <1>5, <1>6, <1>7, TimerExecution

LEMMA ResampleStep == IInv /\ Resample => IInv'
<1> SUFFICES ASSUME IInv, Resample PROVE IInv'
  OBVIOUS
<1> DEFINE b == Head(late)
           i == input[Head(late)]
<1>1. /\ now \in 0..Horizon /\ late \in Seq(Resampling) /\ late # <<>>
      /\ timers \subseteq Timer /\ input \in [Block -> Inputs]
  BY DEF IInv, TypeOK, Resample
<1>2. b \in Block /\ Tail(late) \in Seq(Resampling)
  BY <1>1, HeadTailProperties, NetAssumption
<1>3. i \in Inputs
  BY <1>1, <1>2
<1>4. /\ phase = "advance" /\ work = <<>> /\ input' = [input EXCEPT ![b] = i]
      /\ OnTimer(b, i, now) /\ now' = now
      /\ timers' \subseteq Timer /\ late' \in Seq(Resampling)
      /\ UNCHANGED <<policy, phase, startVars, target, until>>
  BY <1>1, <1>2 DEF Resample
<1>5. Expiring'
  BY DEF Resample, Expiring, IInv
<1>6. Undisturbed(b, i)
  BY DEF Undisturbed
<1> HIDE DEF b, i
<1> QED BY <1>1, <1>2, <1>3, <1>4, <1>5, <1>6, TimerExecution


LEMMA WriteStep == IInv /\ (\E b \in Point, v \in Value \ {Null} : Write(b, v)) => IInv'
<1> SUFFICES ASSUME IInv, NEW b \in Point, NEW v \in Value, Write(b, v) PROVE IInv'
  OBVIOUS
<1> DEFINE i == [input[b] EXCEPT ![Input] = v]
<1>1. /\ b \in Block /\ timers \subseteq Timer /\ input \in [Block -> Inputs]
      /\ until \in [Block -> Nat \cup {Forever}]
  BY NetAssumption DEF IInv, TypeOK
<1>2. i \in Inputs
  BY <1>1, NetAssumption DEF Inputs
<1>3. /\ AtRest /\ Propagate(b, i)
      /\ timers' \subseteq Timer /\ until' \in [Block -> Nat \cup {Forever}]
      /\ UNCHANGED <<policy, startVars, late, now, target>>
  BY <1>1 DEF Write, clockVars
<1>4. Expiring'
  BY DEF Write, clockVars, Expiring, IInv
<1>5. Undisturbed(b, i)
  BY <1>1, NetAssumption DEF Undisturbed, Inputs
<1> HIDE DEF i
<1> QED BY <1>1, <1>2, <1>3, <1>4, <1>5, Stimulus

(* No link drives the levels an operator writes.                           *)
LEMMA OperatorLevels ==
    ASSUME IInv, NEW b \in Operated, NEW v \in Value, NEW s \in {Operator, Emergency}
    PROVE  /\ b \in Block
           /\ [input[b] EXCEPT ![s] = v] \in Inputs
           /\ Undisturbed(b, [input[b] EXCEPT ![s] = v])
<1>1. b \in Block /\ b \in Writable /\ s \in Slot /\ input[b] \in Inputs
  BY NetAssumption DEF IInv, TypeOK
<1>2. [input[b] EXCEPT ![s] = v] \in Inputs
  BY <1>1 DEF Inputs
<1>3. ASSUME NEW w \in Wire, w.target = b
      PROVE  [input[b] EXCEPT ![s] = v][w.slot] = input[b][w.slot]
  <2>1. w.slot \in Slot /\ w.slot # s
    BY <1>1, <1>3, NetAssumption
  <2> QED BY <2>1, <1>1 DEF Inputs
<1> QED BY <1>1, <1>2, <1>3 DEF Undisturbed

LEMMA OverrideStep ==
    IInv /\ (\E b \in Operated, v \in Value \ {Null}, d \in Stride \cup {0} : Override(b, v, d))
      => IInv'
<1> SUFFICES ASSUME IInv, NEW b \in Operated, NEW v \in Value, NEW d \in Stride \cup {0},
                    Override(b, v, d)
             PROVE  IInv'
  OBVIOUS
<1> DEFINE i == [input[b] EXCEPT ![Operator] = v]
<1>1. /\ b \in Block /\ b \in Writable /\ timers \subseteq Timer /\ policy \in Policy
      /\ until \in [Block -> Nat \cup {Forever}] /\ now \in Nat /\ d \in Nat
  BY NetAssumption, BoundAssumption DEF IInv, TypeOK
<1>2. i \in Inputs /\ Undisturbed(b, i)
  BY OperatorLevels
<1>3. PICK tie \in policy.tie[b] : timers' = (timers \ Expiries(b)) \cup ExpiryTimers(b, d, tie)
  BY DEF Override
<1>4. tie \in Int
  BY <1>1, PolicyAssumption
<1>5. timers' \subseteq Timer /\ Expiring'
  <2>1. \A t \in ExpiryTimers(b, d, tie) : t \in Timer /\ t.block = b
    BY <1>1, <1>4 DEF ExpiryTimers, Timer
  <2> QED BY <2>1, <1>1, <1>3 DEF Expiring, IInv
<1>6. until' \in [Block -> Nat \cup {Forever}]
  BY <1>1 DEF Override
<1>7. AtRest /\ Propagate(b, i) /\ UNCHANGED <<policy, startVars, late, now, target>>
  BY DEF Override
<1> HIDE DEF i
<1> QED BY <1>1, <1>2, <1>5, <1>6, <1>7, Stimulus

LEMMA AutoStep == IInv /\ (\E b \in Operated : AutoAction(b)) => IInv'
<1> SUFFICES ASSUME IInv, NEW b \in Operated, AutoAction(b) PROVE IInv'
  OBVIOUS
<1> DEFINE i == [input[b] EXCEPT ![Operator] = Null]
<1>1. /\ b \in Block /\ timers \subseteq Timer /\ until \in [Block -> Nat \cup {Forever}]
  BY NetAssumption DEF IInv, TypeOK
<1>2. i \in Inputs /\ Undisturbed(b, i)
  BY OperatorLevels, NetAssumption
<1>3. /\ timers' \subseteq Timer /\ Expiring' /\ until' \in [Block -> Nat \cup {Forever}]
  BY <1>1 DEF AutoAction, Expiring, IInv
<1>4. AtRest /\ Propagate(b, i) /\ UNCHANGED <<policy, startVars, late, now, target>>
  BY DEF AutoAction
<1> HIDE DEF i
<1> QED BY <1>1, <1>2, <1>3, <1>4, Stimulus

LEMMA EmergencyStep ==
    IInv /\ (\E b \in Operated, v \in Value : EmergencyOverride(b, v)) => IInv'
<1> SUFFICES ASSUME IInv, NEW b \in Operated, NEW v \in Value, EmergencyOverride(b, v)
             PROVE  IInv'
  OBVIOUS
<1> DEFINE i == [input[b] EXCEPT ![Emergency] = v]
<1>1. /\ b \in Block /\ timers \subseteq Timer /\ until \in [Block -> Nat \cup {Forever}]
  BY NetAssumption DEF IInv, TypeOK
<1>2. i \in Inputs /\ Undisturbed(b, i)
  BY OperatorLevels
<1>3. /\ timers' \subseteq Timer /\ Expiring' /\ until' \in [Block -> Nat \cup {Forever}]
  BY <1>1 DEF EmergencyOverride, clockVars, Expiring, IInv
<1>4. AtRest /\ Propagate(b, i) /\ UNCHANGED <<policy, startVars, late, now, target>>
  BY DEF EmergencyOverride, clockVars
<1> HIDE DEF i
<1> QED BY <1>1, <1>2, <1>3, <1>4, Stimulus

LEMMA StepIInv == IInv /\ [Next]_vars => IInv'
<1> SUFFICES ASSUME IInv, [Next]_vars PROVE IInv'
  OBVIOUS
<1>1. CASE Engine
  BY <1>1, SkipStep, StoreStep, ReactStep, PassStep, PassDoneStep, SettleStep, IdleStep,
     TickStep, ExpireStep, ResampleStep
  DEF Engine, Deliver
<1>2. CASE Environment
  BY <1>2, StartStep, IdleStep, EarlyStep, WriteStep, OverrideStep, AutoStep, EmergencyStep
  DEF Environment
<1>3. CASE UNCHANGED vars
  BY <1>3
  DEF vars, netVars, startVars, clockVars, IInv, TypeOK, Shape, Expiring, LinksCarry, Settled,
      Carried, Members
<1> QED BY <1>1, <1>2, <1>3 DEF Next

-----------------------------------------------------------------------------
(* The theorems.                                                           *)

(* Inputs, outputs, the deque, the timers and the clock stay what          *)
(* engine.py takes them for.                                               *)
THEOREM TypeCorrect == Spec => []TypeOK
<1>1. IInv => TypeOK
  BY DEF IInv
<1> QED BY <1>1, InitIInv, StepIInv, PTL DEF Spec

(* No change is lost between blocks, whatever order an execution policy    *)
(* follows links in (_run, _fire_links, station_start).                    *)
THEOREM LinksCarryAlways == Spec => []LinksCarry
<1>1. IInv => LinksCarry
  BY DEF IInv
<1> QED BY <1>1, InitIInv, StepIInv, PTL DEF Spec

(* A memoryless block whose inputs changed is never forgotten (_run, the   *)
(* first pass and the blocks it notes).                                    *)
THEOREM SettledAlways == Spec => []Settled
<1>1. IInv => Settled
  BY DEF IInv
<1> QED BY <1>1, InitIInv, StepIInv, PTL DEF Spec

(* When a call into the engine has returned, every link shows its source   *)
(* and every memoryless block the function of its inputs: what a network   *)
(* without loops computes does not depend on the execution policy.         *)
THEOREM Fixpoint == Spec => []RestIsFixpoint
<1>1. IInv => RestIsFixpoint
  BY MembersEmpty, NetAssumption
  DEF IInv, Shape, LinksCarry, Settled, RestIsFixpoint, AtRest
<1> QED BY <1>1, InitIInv, StepIInv, PTL DEF Spec

-----------------------------------------------------------------------------
(* The clock: ticks stay on the multiples of their period and overrides    *)
(* end when they should, however the caller advances the clock.            *)
(*                                                                         *)
(* The inductive invariant ties the timers to what they stand for: nothing *)
(* due is left behind the clock, a module block has exactly its next tick, *)
(* and a point has an expiry exactly while an override of it has an end.   *)


Due == /\ \A t \in timers : now <= t.due
       /\ phase = "rest" => \A t \in timers : now < t.due
       /\ phase = "advance" => now <= target
       /\ phase = "new" => now = 0 /\ timers = {}

(* The next tick of a block. *)
OneTick(b) ==
    \E t \in timers :
        /\ {u \in timers : u.block = b} = {t}
        /\ t.due <= now + Period[b]
        /\ \E k \in Nat : t.due = k * Period[b]

Ticks == /\ \A t \in timers : t.tag = "tick" => t.block \in Ticking
         /\ phase # "new" => \A b \in Ticking : OneTick(b)

(* An override has no end, or one timer for it, or it is over. *)
Overridden(b) ==
    /\ \A t \in Expiries(b) : Expiries(b) = {t} /\ t.due = until[b]
    /\ Expiries(b) = {} => until[b] <= now
    /\ input[b][Operator] # Null <=> until[b] = Forever \/ Expiries(b) # {}

Overrides == \A b \in Writable : Overridden(b)

CInv == IInv /\ Due /\ Ticks /\ Overrides

-----------------------------------------------------------------------------
(* What two steps apart from the clock have in common.                     *)

LEMMA Apart == Ticking \subseteq Block /\ Writable \subseteq Block /\ Ticking \cap Writable = {}
BY NetAssumption, PeriodAssumption DEF Ticking

(* A due time that is a multiple of the period shows no remainder.         *)
LEMMA Multiple ==
    ASSUME NEW p \in Nat \ {0}, NEW k \in Nat PROVE (k * p) % p = 0
OBVIOUS

LEMMA NextMultiple ==
    ASSUME NEW p \in Nat, NEW k \in Nat
    PROVE  k + 1 \in Nat /\ k * p + p = (k + 1) * p
OBVIOUS

(* A step that leaves the clock alone and the operator's level of every    *)
(* point keeps what the timers stand for.                                  *)
LEMMA Still ==
    ASSUME CInv, IInv',
           UNCHANGED <<timers, now, until>>,
           \A b \in Writable : input'[b][Operator] = input[b][Operator],
           phase' = "rest" => phase = "rest",
           phase' = "advance" => now <= target',
           phase' = "new" <=> phase = "new"
    PROVE  CInv'
<1>1. Due'
  BY DEF CInv, Due
<1>2. Ticks'
  BY DEF CInv, Ticks, OneTick
<1>3. Overrides'
  BY DEF CInv, Overrides, Overridden, Expiries
<1> QED BY <1>1, <1>2, <1>3 DEF CInv

LEMMA InitCInv == Init => CInv
<1> SUFFICES ASSUME Init PROVE CInv
  OBVIOUS
<1>1. IInv
  BY InitIInv
<1>2. Due /\ Ticks
  BY DEF Init, Due, Ticks
<1>3. ASSUME NEW b \in Writable PROVE Overridden(b)
  BY Apart DEF Init, Overridden, Expiries, Forever
<1> QED BY <1>1, <1>2, <1>3 DEF CInv, Overrides

-----------------------------------------------------------------------------
(* Steps that do not touch the clock.                                      *)

(* No link drives the operator's level of a point.                         *)
LEMMA Untaken ==
    ASSUME IInv, NEW w \in Wire, Carry(w), NEW b \in Writable
    PROVE  input'[b][Operator] = input[b][Operator]
<1>1. input \in [Block -> Inputs] /\ b \in Block /\ Operator \in Slot /\ w.slot \in Slot
  BY NetAssumption DEF IInv, TypeOK
<1>2. w.target = b => w.slot # Operator
  BY NetAssumption
<1> QED BY <1>1, <1>2 DEF Carry, Taken, Inputs

LEMMA CountedPhase ==
    ASSUME NEW b, NEW i, NEW c, NEW waiting, CountedRun(b, i, c, waiting)
    PROVE  phase' = phase \/ phase' = "loop"
BY DEF CountedRun, Overrun, Run

LEMMA DeliverClock == CInv /\ IInv' /\ Deliver => CInv'
<1> SUFFICES ASSUME CInv, IInv', Deliver PROVE CInv'
  OBVIOUS
<1>1. work \in Seq(Wire) /\ IInv
  BY DEF CInv, IInv, TypeOK
<1>2. UNCHANGED <<timers, now, until, target>>
  BY DEF Deliver, Skip, Store, React, clockVars
<1>3. phase' = phase \/ phase' = "loop"
  BY CountedPhase DEF Deliver, Skip, Store, React
<1>4. phase # "new"
  BY <1>1 DEF Deliver, Skip, Store, React, IInv, Shape
<1>5. \A b \in Writable : input'[b][Operator] = input[b][Operator]
  <2>1. CASE Skip
    BY <2>1 DEF Skip
  <2>2. CASE Store \/ React
    <3>1. Head(work) \in Wire /\ Carry(Head(work))
      BY <2>2, <1>1, MembersHead DEF Store, React
    <3> QED BY <3>1, <1>1, Untaken
  <2> QED BY <2>1, <2>2 DEF Deliver
<1>6. phase' = "advance" => now <= target'
  BY <1>2, <1>3 DEF CInv, Due
<1> QED BY <1>2, <1>3, <1>4, <1>5, <1>6, Still

LEMMA PassClock ==
    CInv /\ IInv' /\ (PassOne \/ PassDone \/ Settle \/ SettleDone) => CInv'
<1> SUFFICES ASSUME CInv, IInv', PassOne \/ PassDone \/ Settle \/ SettleDone PROVE CInv'
  OBVIOUS
<1>1. UNCHANGED <<timers, now, until>>
  BY DEF PassOne, PassDone, Settle, SettleDone, clockVars
<1>2. phase # "new" /\ phase' # "new" /\ phase' # "rest"
  BY CountedPhase DEF PassOne, PassDone, Settle, SettleDone
<1>3. phase' = "advance" => now <= target'
  BY CountedPhase DEF PassOne, PassDone, Settle, SettleDone, CInv, IInv, TypeOK
<1>4. ASSUME NEW b \in Writable PROVE input'[b][Operator] = input[b][Operator]
  <2>1. input \in [Block -> Inputs] /\ b \in Block /\ Operator \in Slot
    BY NetAssumption DEF CInv, IInv, TypeOK
  <2>2. CASE PassOne
    <3>1. PICK hit \in SUBSET Wire, v \in Value :
             input' = [c \in Block |-> [s \in Slot |->
                         IF \E w \in hit : w.target = c /\ w.slot = s THEN v ELSE input[c][s]]]
      <4> DEFINE c == Head(remaining)
                 v == Result(c, input[c], now)
                 hit == IF v = output[c] THEN {}
                        ELSE {w \in Wire : w.source = c /\ input[w.target][w.slot] # v}
      <4>1. hit \subseteq Wire /\ v \in Value
        <5>1. c \in Block /\ input[c] \in Inputs /\ now \in 0..Horizon
          BY <2>2, MembersHead DEF PassOne, CInv, IInv, TypeOK
        <5> QED BY <5>1, ResultType DEF CInv, IInv
      <4>2. input' = [d \in Block |-> [s \in Slot |->
                         IF \E w \in hit : w.target = d /\ w.slot = s THEN v ELSE input[d][s]]]
        BY <2>2 DEF PassOne
      <4> HIDE DEF hit, v
      <4> QED BY <4>1, <4>2
    <3>2. ~\E w \in hit : w.target = b /\ w.slot = Operator
      BY NetAssumption
    <3> QED BY <2>1, <3>1, <3>2
  <2>3. CASE ~PassOne
    BY <2>3 DEF PassDone, Settle, SettleDone, netVars
  <2> QED BY <2>2, <2>3
<1> QED BY <1>1, <1>2, <1>3, <1>4, Still

(* A stimulus of the caller at another level, and a call of advance.       *)
LEMMA OtherClock ==
    ASSUME CInv, IInv',
           \/ \E d \in Stride : Advance(d)
           \/ \E b \in Point, v \in Value \ {Null} : WriteEarly(b, v) \/ Write(b, v)
           \/ \E b \in Operated, v \in Value : EmergencyOverride(b, v)
    PROVE  CInv'
<1>1. /\ input \in [Block -> Inputs] /\ now \in Nat /\ target \in Nat
      /\ \A b \in Writable : b \in Block
  BY NetAssumption, BoundAssumption DEF CInv, IInv, TypeOK
<1>2. CASE \E d \in Stride : Advance(d)
  <2>1. PICK d \in Stride : Advance(d)
    BY <1>2
  <2>2. d \in Nat
    BY BoundAssumption
  <2>3. /\ UNCHANGED <<timers, now, until, input>>
        /\ phase = "rest" /\ phase' = "advance" /\ target' = now + d
    BY <2>1 DEF Advance, AtRest, netVars
  <2>4. now <= target'
    BY <2>2, <2>3, <1>1
  <2> QED BY <2>3, <2>4, Still
<1>3. ASSUME NEW b \in Block, NEW v \in Value, NEW s \in Slot \ {Operator},
             \/ s = Input /\ (WriteEarly(b, v) \/ Write(b, v))
             \/ s = Emergency /\ EmergencyOverride(b, v)
      PROVE  CInv'
  <2> DEFINE i == [input[b] EXCEPT ![s] = v]
  <2>1. /\ input' = [input EXCEPT ![b] = i]
        /\ phase' = phase \/ (phase' = "loop" /\ phase # "new")
    <3>1. CASE s = Input /\ WriteEarly(b, v)
      BY <3>1 DEF WriteEarly
    <3>2. CASE \/ s = Input /\ Write(b, v)
               \/ s = Emergency /\ EmergencyOverride(b, v)
      <4>1. AtRest /\ input' = [input EXCEPT ![b] = i] /\ CountedRun(b, i, Zero, <<>>)
        BY <3>2 DEF Write, EmergencyOverride, Propagate
      <4> HIDE DEF i
      <4> QED BY <4>1, CountedPhase DEF AtRest
    <3> QED BY <1>3, <3>1, <3>2
  <2>2. \A c \in Writable : input'[c][Operator] = input[c][Operator]
    BY <2>1, <1>1, NetAssumption DEF Inputs
  <2>3. UNCHANGED <<timers, now, until, target>>
    BY <1>3 DEF WriteEarly, Write, EmergencyOverride, clockVars
  <2>4. phase' = "advance" => now <= target'
    BY <2>1, <2>3 DEF CInv, Due
  <2> HIDE DEF i
  <2> QED BY <2>1, <2>2, <2>3, <2>4, Still
<1>4. Input \in Slot \ {Operator} /\ Emergency \in Slot \ {Operator}
  BY NetAssumption DEF Input, Emergency, Operator
<1>5. Point \subseteq Block /\ Operated \subseteq Block
  BY NetAssumption
<1>6. CASE \E b \in Point, v \in Value \ {Null} : WriteEarly(b, v) \/ Write(b, v)
  BY <1>6, <1>3, <1>4, <1>5
<1>7. CASE \E b \in Operated, v \in Value : EmergencyOverride(b, v)
  BY <1>7, <1>3, <1>4, <1>5
<1> QED BY <1>2, <1>6, <1>7

LEMMA ResampleClock == CInv /\ IInv' /\ Resample => CInv'
<1> SUFFICES ASSUME CInv, IInv', Resample PROVE CInv'
  OBVIOUS
<1> QED BY Still DEF Resample, CInv, Due

-----------------------------------------------------------------------------
(* Steps of the clock.                                                     *)

LEMMA TimerType ==
    ASSUME CInv
    PROVE  /\ timers \subseteq Timer /\ now \in Nat /\ target \in Nat
           /\ \A t \in timers : t.due \in Nat /\ t.tag \in {"tick", "expiry"}
           /\ Period \in [Block -> Nat]
           /\ \A b \in Writable : b \in Block /\ until[b] \in Nat \cup {Forever}
BY Apart, PeriodAssumption, BoundAssumption DEF CInv, IInv, TypeOK, Timer

(* The next timer takes the clock to its due time, and no other is passed. *)
LEMMA Instant ==
    ASSUME CInv, NEW t \in timers, IsNext(t), phase = "advance"
    PROVE  /\ Later(t.due) = t.due
           /\ now <= t.due /\ t.due <= target
           /\ \A u \in timers : t.due <= u.due
BY TimerType DEF CInv, Due, IsNext, Later

(* As the clock moves on, ticks and overrides whose timers stay as they    *)
(* are keep what they stand for.                                           *)
LEMMA TickStands ==
    ASSUME CInv, NEW b \in Ticking, OneTick(b), now' \in Nat, now <= now',
           {u \in timers' : u.block = b} = {u \in timers : u.block = b}
    PROVE  OneTick(b)'
<1>1. Period[b] \in Nat
  BY Apart, PeriodAssumption
<1>2. PICK t \in timers : /\ {u \in timers : u.block = b} = {t}
                          /\ t.due <= now + Period[b]
                          /\ \E k \in Nat : t.due = k * Period[b]
  BY DEF OneTick
<1>3. t \in timers' /\ t.due <= now' + Period[b]
  BY <1>1, <1>2, TimerType
<1> QED BY <1>2, <1>3 DEF OneTick

LEMMA OverrideStands ==
    ASSUME CInv, NEW b \in Writable, now' \in Nat, now <= now',
           Expiries(b)' = Expiries(b), until'[b] = until[b],
           input'[b][Operator] = input[b][Operator]
    PROVE  Overridden(b)'
<1>1. Overridden(b)
  BY DEF CInv, Overrides
<1>2. until[b] <= now => until[b] <= now'
  BY TimerType DEF Forever
<1> QED BY <1>1, <1>2 DEF Overridden

LEMMA StartClock == CInv /\ IInv' /\ Start => CInv'
<1> SUFFICES ASSUME CInv, IInv', Start PROVE CInv'
  OBVIOUS
<1>1. PICK tie \in [Ticking -> UNION {policy.tie[b] : b \in Ticking}] :
          timers' = {TickTimer(b, 0, tie[b]) : b \in Ticking}
  BY DEF Start
<1>2. /\ phase = "new" /\ phase' = "pass" /\ now = 0 /\ timers = {}
      /\ now' = now /\ until' = until
      /\ input \in [Block -> Inputs]
  BY DEF Start, CInv, IInv, TypeOK, Due
<1>3. \A b \in Ticking : Period[b] \in Nat \ {0}
  BY PeriodAssumption DEF Ticking
<1>4. \A b \in Ticking : /\ TickTimer(b, 0, tie[b]).due = Period[b]
                         /\ TickTimer(b, 0, tie[b]).block = b
                         /\ TickTimer(b, 0, tie[b]).tag = "tick"
  BY <1>3 DEF TickTimer
<1>5. Due'
  BY <1>1, <1>2, <1>3, <1>4 DEF Due
<1>6. ASSUME NEW b \in Ticking PROVE OneTick(b)'
  <2> DEFINE t == TickTimer(b, 0, tie[b])
  <2>1. t \in timers' /\ {u \in timers' : u.block = b} = {t}
    BY <1>1, <1>4
  <2>2. t.due <= now' + Period[b] /\ t.due = 1 * Period[b]
    BY <1>2, <1>3, <1>4
  <2> HIDE DEF t
  <2> QED BY <2>1, <2>2 DEF OneTick
<1>7. Ticks'
  BY <1>1, <1>4, <1>6 DEF Ticks
<1>8. ASSUME NEW b \in Writable PROVE Overridden(b)'
  <2>1. Expiries(b)' = {} /\ Expiries(b) = {}
    BY <1>1, <1>2, <1>4 DEF Expiries
  <2>2. input'[b][Operator] = input[b][Operator]
    <3>1. ~\E w \in Wire : w.target = b /\ w.slot = Operator
      BY NetAssumption
    <3>2. b \in Block /\ Operator \in Slot
      BY NetAssumption
    <3> QED BY <3>1, <3>2 DEF Start
  <2>3. now' \in Nat /\ now <= now'
    BY <1>2
  <2> QED BY <2>1, <2>2, <2>3, <1>2, OverrideStands
<1> QED BY <1>5, <1>7, <1>8 DEF CInv, Overrides

LEMMA TickClock == CInv /\ IInv' /\ (\E t \in timers : Tick(t)) => CInv'
<1> SUFFICES ASSUME CInv, IInv', NEW t \in timers, Tick(t) PROVE CInv'
  OBVIOUS
<1> DEFINE b == t.block
<1>1. /\ phase = "advance" /\ phase' = phase /\ target' = target /\ until' = until
      /\ IsNext(t) /\ t.tag = "tick" /\ now' = Later(t.due) /\ input' = input
  BY DEF Tick
<1>2. PICK tie \in policy.tie[b] : timers' = (timers \ {t}) \cup {TickTimer(b, now', tie)}
  BY DEF Tick
<1> DEFINE new == TickTimer(b, now', tie)
<1>3. /\ now' = t.due /\ now <= now' /\ now' <= target /\ now' \in Nat
      /\ \A u \in timers : now' <= u.due
  BY <1>1, Instant, TimerType
<1>4. b \in Ticking /\ b \in Block /\ Period[b] \in Nat \ {0} /\ \A c \in Ticking : OneTick(c)
  BY <1>1, Apart, PeriodAssumption DEF CInv, Ticks, Ticking
<1>5. new.due = now' + Period[b] /\ new.block = b /\ new.tag = "tick"
  BY DEF TickTimer
<1> HIDE DEF b, new
<1>6. Due'
  <2>1. \A u \in timers' : now' <= u.due
    BY <1>2, <1>3, <1>4, <1>5 DEF new
  <2> QED BY <2>1, <1>1, <1>3 DEF Due
<1>7. OneTick(b)'
  <2>1. {u \in timers : u.block = b} = {t}
    BY <1>4 DEF OneTick, b
  <2>2. new \in timers' /\ {u \in timers' : u.block = b} = {new}
    BY <2>1, <1>2, <1>5 DEF new
  <2>3. PICK k \in Nat : t.due = k * Period[b]
    BY <2>1, <1>4 DEF OneTick
  <2>4. k + 1 \in Nat /\ new.due = (k + 1) * Period[b]
    BY <2>3, <1>3, <1>4, <1>5, NextMultiple
  <2>5. new.due <= now' + Period[b]
    BY <1>3, <1>4, <1>5
  <2> QED BY <2>2, <2>4, <2>5 DEF OneTick
<1>8. ASSUME NEW c \in Ticking, c # b PROVE OneTick(c)'
  <2>1. {u \in timers' : u.block = c} = {u \in timers : u.block = c}
    BY <1>2, <1>5, <1>8 DEF b, new
  <2> QED BY <2>1, <1>3, <1>4, TickStands
<1>9. Ticks'
  BY <1>2, <1>4, <1>5, <1>7, <1>8 DEF CInv, Ticks, new
<1>10. ASSUME NEW c \in Writable PROVE Overridden(c)'
  <2>1. Expiries(c)' = Expiries(c)
    BY <1>1, <1>2, <1>5 DEF Expiries, new
  <2> QED BY <2>1, <1>1, <1>3, OverrideStands
<1> QED BY <1>6, <1>9, <1>10 DEF CInv, Overrides

LEMMA ExpireClock == CInv /\ IInv' /\ (\E t \in timers : Expire(t)) => CInv'
<1> SUFFICES ASSUME CInv, IInv', NEW t \in timers, Expire(t) PROVE CInv'
  OBVIOUS
<1> DEFINE b == t.block
<1>1. /\ phase = "advance" /\ phase' = phase /\ target' = target /\ until' = until
      /\ IsNext(t) /\ t.tag = "expiry" /\ now' = Later(t.due)
      /\ timers' = timers \ {t}
      /\ input' = [input EXCEPT ![b] = [input[b] EXCEPT ![Operator] = Null]]
  BY DEF Expire
<1>2. /\ now' = t.due /\ now <= now' /\ now' <= target /\ now' \in Nat
      /\ \A u \in timers : now' <= u.due
  BY <1>1, Instant, TimerType
<1>3. b \in Writable /\ input \in [Block -> Inputs] /\ Operator \in Slot
  BY <1>1, NetAssumption DEF CInv, IInv, Expiring, TypeOK
<1> HIDE DEF b
<1>4. Due'
  BY <1>1, <1>2 DEF Due
<1>5. ASSUME NEW c \in Ticking PROVE OneTick(c)'
  <2>1. c # b
    BY <1>3, Apart
  <2>2. {u \in timers' : u.block = c} = {u \in timers : u.block = c}
    BY <2>1, <1>1 DEF b
  <2> QED BY <2>2, <1>1, <1>2, TickStands DEF CInv, Ticks
<1>6. Ticks'
  BY <1>1, <1>5 DEF CInv, Ticks
<1>7. Overridden(b)'
  <2>1. Expiries(b) = {t} /\ until[b] = t.due
    BY <1>1, <1>3 DEF CInv, Overrides, Overridden, Expiries, b
  <2>2. Expiries(b)' = {}
    BY <2>1, <1>1 DEF Expiries
  <2>3. input'[b][Operator] = Null
    BY <1>1, <1>3, Apart DEF Inputs
  <2>4. until'[b] = now' /\ until'[b] # Forever
    BY <2>1, <1>1, <1>2 DEF Forever
  <2> QED BY <2>2, <2>3, <2>4, <1>2 DEF Overridden
<1>8. ASSUME NEW c \in Writable, c # b PROVE Overridden(c)'
  <2>1. Expiries(c)' = Expiries(c)
    BY <1>1, <1>8 DEF Expiries, b
  <2>2. input'[c][Operator] = input[c][Operator]
    BY <1>1, <1>3, <1>8, Apart
  <2> QED BY <2>1, <2>2, <1>1, <1>2, OverrideStands
<1> QED BY <1>4, <1>6, <1>7, <1>8 DEF CInv, Overrides

LEMMA DoneClock == CInv /\ IInv' /\ AdvanceDone => CInv'
<1> SUFFICES ASSUME CInv, IInv', AdvanceDone PROVE CInv'
  OBVIOUS
<1>1. /\ phase = "advance" /\ phase' = "rest" /\ now' = target
      /\ \A t \in timers : t.due > target
      /\ timers' = timers /\ until' = until /\ input' = input
  BY DEF AdvanceDone, netVars
<1>2. now' \in Nat /\ now <= now'
  BY <1>1, TimerType DEF CInv, Due
<1>3. Due'
  BY <1>1, TimerType DEF Due
<1>4. Ticks'
  BY <1>1, <1>2, TickStands DEF CInv, Ticks
<1>5. Overrides'
  BY <1>1, <1>2, OverrideStands DEF Overrides, Expiries
<1> QED BY <1>3, <1>4, <1>5 DEF CInv

-----------------------------------------------------------------------------
(* The operator.                                                           *)

(* A call that gives a point's operator level a value or none, and an      *)
(* expiry that fits.                                                       *)
LEMMA Operate ==
    ASSUME CInv, IInv', NEW b \in Writable, NEW v \in Value, NEW new,
           AtRest, Propagate(b, [input[b] EXCEPT ![Operator] = v]),
           timers' = (timers \ Expiries(b)) \cup new,
           \A t \in new : /\ new = {t} /\ t.block = b /\ t.tag = "expiry"
                          /\ t.due = until'[b] /\ now < t.due,
           v # Null <=> until'[b] = Forever \/ new # {},
           new = {} => until'[b] <= now,
           \A c \in Writable \ {b} : until'[c] = until[c],
           now' = now
    PROVE  CInv'
<1> DEFINE i == [input[b] EXCEPT ![Operator] = v]
<1>1. /\ input \in [Block -> Inputs] /\ Operator \in Slot /\ b \in Block
      /\ Writable \subseteq Block /\ now \in Nat
  BY NetAssumption, TimerType DEF CInv, IInv, TypeOK
<1>2. input' = [input EXCEPT ![b] = i] /\ CountedRun(b, i, Zero, <<>>)
  BY DEF Propagate
<1>3. i \in Inputs /\ i[Operator] = v
  BY <1>1 DEF Inputs
<1> HIDE DEF i
<1>4. phase = "rest" /\ (phase' = "rest" \/ phase' = "loop")
  BY <1>2, CountedPhase DEF AtRest
<1>5. Due'
  <2>1. \A t \in timers' : t.due \in Nat
    BY DEF IInv, TypeOK, Timer
  <2>2. \A t \in timers' : now < t.due
    BY <1>4 DEF CInv, Due
  <2> QED BY <2>1, <2>2, <1>1, <1>4 DEF Due
<1>6. ASSUME NEW c \in Ticking PROVE OneTick(c)'
  <2>1. c # b
    BY Apart
  <2>2. {u \in timers' : u.block = c} = {u \in timers : u.block = c}
    BY <2>1 DEF Expiries
  <2> QED BY <2>2, <1>1, <1>4, TickStands DEF CInv, Ticks
<1>7. Ticks'
  BY <1>4, <1>6 DEF CInv, Ticks
<1>8. Overridden(b)'
  <2>1. Expiries(b)' = new
    BY DEF Expiries
  <2>2. input'[b][Operator] = v
    BY <1>1, <1>2, <1>3
  <2> QED BY <2>1, <2>2 DEF Overridden
<1>9. ASSUME NEW c \in Writable, c # b PROVE Overridden(c)'
  <2>1. Expiries(c)' = Expiries(c)
    BY <1>9 DEF Expiries
  <2>2. input'[c][Operator] = input[c][Operator]
    BY <1>1, <1>2, <1>9
  <2> QED BY <2>1, <2>2, <1>1, <1>9, OverrideStands
<1> QED BY <1>5, <1>7, <1>8, <1>9 DEF CInv, Overrides

LEMMA OverrideClock ==
    ASSUME CInv, IInv', NEW b \in Operated, NEW v \in Value \ {Null},
           NEW d \in Stride \cup {0}, Override(b, v, d)
    PROVE  CInv'
<1>1. b \in Writable /\ d \in Nat /\ now \in Nat
  BY NetAssumption, BoundAssumption, TimerType
<1>2. PICK tie \in policy.tie[b] : timers' = (timers \ Expiries(b)) \cup ExpiryTimers(b, d, tie)
  BY DEF Override
<1> DEFINE new == ExpiryTimers(b, d, tie)
<1>3. /\ AtRest /\ Propagate(b, [input[b] EXCEPT ![Operator] = v]) /\ now' = now
      /\ until' = [until EXCEPT ![b] = IF d = 0 THEN Forever ELSE now + d]
  BY DEF Override
<1>4. /\ until'[b] = IF d = 0 THEN Forever ELSE now + d
      /\ \A c \in Writable \ {b} : until'[c] = until[c]
  BY <1>1, <1>3, Apart DEF CInv, IInv, TypeOK
<1>5. CASE d = 0
  <2>1. new = {} /\ until'[b] = Forever /\ until'[b] <= now
    BY <1>1, <1>4, <1>5 DEF ExpiryTimers, Forever
  <2> HIDE DEF new
  <2> QED BY <2>1, <1>1, <1>2, <1>3, <1>4, Operate DEF new
<1>6. CASE d # 0
  <2> DEFINE t == [due |-> now + d, tie |-> tie, block |-> b, tag |-> "expiry"]
  <2>1. new = {t}
    BY <1>6 DEF ExpiryTimers
  <2>2. /\ t.block = b /\ t.tag = "expiry" /\ t.due = until'[b]
        /\ now < t.due
    BY <1>1, <1>4, <1>6
  <2> HIDE DEF new, t
  <2> QED BY <2>1, <2>2, <1>1, <1>2, <1>3, <1>4, Operate DEF new
<1> QED BY <1>5, <1>6

LEMMA AutoClock ==
    ASSUME CInv, IInv', NEW b \in Operated, AutoAction(b)
    PROVE  CInv'
<1>1. b \in Writable /\ Null \in Value /\ now \in Nat
  BY NetAssumption, TimerType
<1> DEFINE new == {}
<1>2. /\ AtRest /\ Propagate(b, [input[b] EXCEPT ![Operator] = Null]) /\ now' = now
      /\ timers' = (timers \ Expiries(b)) \cup new
      /\ until' = [until EXCEPT ![b] = 0]
  BY DEF AutoAction
<1>3. until'[b] = 0 /\ \A c \in Writable \ {b} : until'[c] = until[c]
  BY <1>1, <1>2, Apart DEF CInv, IInv, TypeOK
<1>4. until'[b] # Forever /\ until'[b] <= now /\ new = {} /\ \A t : t \notin new
  BY <1>1, <1>3 DEF Forever
<1> HIDE DEF new
<1> QED BY <1>1, <1>2, <1>3, <1>4, Operate

-----------------------------------------------------------------------------
LEMMA StepCInv == CInv /\ IInv' /\ [Next]_vars => CInv'
<1> SUFFICES ASSUME CInv, IInv', [Next]_vars PROVE CInv'
  OBVIOUS
<1>1. CASE Engine
  BY <1>1, DeliverClock, PassClock, TickClock, ExpireClock, ResampleClock, DoneClock DEF Engine
<1>2. CASE Environment
  <2>1. CASE \E b \in Operated, v \in Value \ {Null}, d \in Stride \cup {0} : Override(b, v, d)
    BY <2>1, OverrideClock
  <2>2. CASE \E b \in Operated : AutoAction(b)
    BY <2>2, AutoClock
  <2> QED BY <1>2, <2>1, <2>2, StartClock, OtherClock DEF Environment
<1>3. CASE UNCHANGED vars
  BY <1>3, Still DEF vars, netVars, clockVars, CInv, Due
<1> QED BY <1>1, <1>2, <1>3 DEF Next

(* The invariant of the clock is inductive on top of the network's.        *)
THEOREM ClockInvariance == Spec => []CInv
<1>1. CInv /\ [Next]_vars => CInv'
  BY StepIInv, StepCInv DEF CInv
<1> QED BY InitCInv, <1>1, PTL DEF Spec

(* TicksKeepTime: at rest each module block has one tick to come, at the   *)
(* next multiple of its period (engine.py, the timers of on_timer).        *)
THEOREM TicksInTime == Spec => []TicksKeepTime
<1>1. CInv => TicksKeepTime
  <2> SUFFICES ASSUME CInv, AtRest, NEW b \in Ticking
               PROVE  \E t \in timers : /\ {u \in timers : u.block = b} = {t}
                                        /\ t.due % Period[b] = 0
                                        /\ now < t.due /\ t.due <= now + Period[b]
    BY DEF TicksKeepTime
  <2>1. PICK t \in timers : /\ {u \in timers : u.block = b} = {t}
                            /\ t.due <= now + Period[b]
                            /\ \E k \in Nat : t.due = k * Period[b]
    BY DEF CInv, Ticks, OneTick, AtRest
  <2>2. PICK k \in Nat : t.due = k * Period[b]
    BY <2>1
  <2>3. Period[b] \in Nat \ {0}
    BY PeriodAssumption DEF Ticking
  <2>4. t.due % Period[b] = 0
    BY <2>2, <2>3, Multiple
  <2>5. now < t.due
    BY DEF CInv, Due, AtRest
  <2> QED BY <2>1, <2>4, <2>5
<1> QED BY ClockInvariance, <1>1, PTL

(* OverridesEnd: at rest the operator's level of a point holds a value     *)
(* exactly while its override has no end or an end to come (blocks.py,     *)
(* override, auto and on_timer of WritablePoint).                          *)
THEOREM OverridesInTime == Spec => []OverridesEnd
<1>1. CInv => OverridesEnd
  <2> SUFFICES ASSUME CInv, AtRest, NEW b \in Writable
               PROVE  input[b][Operator] # Null <=> until[b] = Forever \/ until[b] > now
    BY DEF OverridesEnd
  <2>1. Overridden(b) /\ \A t \in timers : now < t.due
    BY DEF CInv, Overrides, Due, AtRest
  <2>2. until[b] \in Nat \cup {Forever} /\ now \in Nat
    BY TimerType
  <2>3. CASE Expiries(b) = {}
    BY <2>1, <2>2, <2>3 DEF Overridden, Forever
  <2>4. CASE Expiries(b) # {}
    <3>1. PICK t \in timers : t \in Expiries(b)
      BY <2>4 DEF Expiries
    <3>2. until[b] = t.due /\ now < t.due
      BY <3>1, <2>1 DEF Overridden
    <3> QED BY <3>2, <2>1, <2>4 DEF Overridden
  <2> QED BY <2>3, <2>4
<1> QED BY ClockInvariance, <1>1, PTL

-----------------------------------------------------------------------------
(* Samples.  Once a sampling block has sampled a second time, at the end   *)
(* of an instant, nothing that runs at the instant reaches it any more:    *)
(* links carry only what blocks at its place or beyond put on them.  The   *)
(* invariant adds what makes a second sample the last: the outstanding     *)
(* ones are in the order of their places, no tick is due that would come   *)
(* before one of them, and each block shows what its first sample made.    *)

(* What b holds and shows is what it sampled at this very instant.         *)
Took(b, values, memories) ==
    \E i \in Fed(b, values), m \in memories :
        memory[b] = Remember(b, i, m, now) /\ output[b] = Compute(b, i, m, now)

(* The second sample of b at the target has been taken.                    *)
Finished(b) ==
    /\ phase = "advance" /\ now = target /\ target % Period[b] = 0
    /\ b \notin Members(late)
    /\ \A t \in timers : t.block = b => target < t.due

(* Links carry values only, and blocks remember memories only.             *)
Carries(values, memories) ==
    /\ memory \in [Block -> memories]
    /\ \A w \in Wire : /\ output[w.source] \in values
                       /\ phase # "new" => input[w.target][w.slot] \in values

(* A block whose second sample is to come has taken the first.             *)
Owed(values, memories) ==
    phase \notin {"new", "loop"} =>
        \A b \in Resampling : b \in Members(late) /\ b \notin Members(remaining) =>
            Took(b, values, memories)

(* Second samples are to come in the order of the places, and no tick that *)
(* is due comes before one of them.                                        *)
InTurn(place) ==
    /\ phase \in {"pass", "settle"} => Resampling \subseteq Members(late)
    /\ \A i, j \in 1..Len(late) : i < j => place[late[i]] <= place[late[j]]
    /\ \A b \in Members(late), t \in timers :
          t.block \in Resampling /\ t.due <= now => place[b] <= place[t.block]

(* A second sample that was taken is settled, and what is still to run at  *)
(* the instant lies at its place or beyond.                                *)
Stands(place, stirred) ==
    \A b \in Resampling : Finished(b) =>
        /\ Sampled(b)
        /\ \A t \in timers : target < t.due
        /\ \A c \in Members(late) : place[b] <= place[c]
        /\ \A w \in Members(work) : w.source \in stirred /\ place[b] <= place[w.source]

(* Only blocks that react are noted; a tick has the tie of its block.      *)
Tied == /\ dirty \subseteq Reactive
        /\ \A t \in timers : t.tag = "tick" => t.tie \in policy.tie[t.block]

SInv(place, stirred, values, memories) ==
    /\ CInv
    /\ Tied
    /\ Carries(values, memories)
    /\ Owed(values, memories)
    /\ InTurn(place)
    /\ Stands(place, stirred)

-----------------------------------------------------------------------------
(* What every execution keeps.                                             *)

LEMMA Samplers ==
    /\ Resampling \subseteq Ticking /\ Resampling \subseteq Block
    /\ Resampling \cap Reactive = {} /\ Resampling \cap Pure = {} /\ Resampling \cap Writable = {}
    /\ \A b \in Resampling : Period[b] \in Nat \ {0}
BY NetAssumption, PeriodAssumption DEF Ticking

LEMMA StillFed ==
    ASSUME IInv, NEW values, NEW memories, Carries(values, memories), phase # "new",
           NEW b \in Block, NEW i \in Inputs, Undisturbed(b, i)
    PROVE  i \in Fed(b, values)
BY DEF Fed, Carries, Undisturbed

LEMMA Ran ==
    ASSUME NEW values, NEW memories, Closed(values, memories),
           IInv, Carries(values, memories),
           NEW b \in Block, NEW i \in Fed(b, values), NEW t \in 0..Horizon,
           Execute(b, i, t) \/ UNCHANGED <<output, memory>>
    PROVE  /\ memory' \in [Block -> memories]
           /\ \A w \in Wire : output'[w.source] \in values
<1>1. /\ output \in [Block -> Value] /\ memory \in [Block -> memories] /\ i \in Inputs
  BY DEF IInv, TypeOK, Carries, Fed
<1>2. memory[b] \in memories
  BY <1>1
<1>3. Remembered(b, i, t) \in memories
  BY <1>2 DEF Remembered, Closed
<1>4. memory' \in [Block -> memories]
  BY <1>1, <1>3 DEF Execute
<1>5. ASSUME NEW w \in Wire PROVE output'[w.source] \in values
  <2>1. w.source \in Block /\ output[w.source] \in values
    BY NetAssumption DEF Carries
  <2>2. w.source = b => Result(b, i, t) \in values
    <3>1. CASE b \in Pure
      BY <3>1, <1>1 DEF Closed, Result
    <3>2. CASE b \notin Pure
      BY <3>2, <1>2 DEF Closed, Result
    <3> QED BY <3>1, <3>2
  <2> QED BY <2>1, <2>2, <1>1 DEF Execute
<1> QED BY <1>4, <1>5

LEMMA CarriesRun ==
    ASSUME NEW values, NEW memories, Closed(values, memories),
           IInv, Carries(values, memories), phase # "new",
           NEW b \in Block, NEW i \in Fed(b, values), NEW t \in 0..Horizon,
           input' = [input EXCEPT ![b] = i],
           Execute(b, i, t) \/ UNCHANGED <<output, memory>>
    PROVE  Carries(values, memories)'
<1>1. ASSUME NEW w \in Wire PROVE input'[w.target][w.slot] \in values
  <2>1. w.target \in Block /\ w.slot \in Slot /\ input \in [Block -> Inputs]
    BY NetAssumption DEF IInv, TypeOK
  <2>2. input[w.target][w.slot] \in values /\ (w.target = b => i[w.slot] \in values)
    BY DEF Carries, Fed
  <2> QED BY <2>1, <2>2
<1> QED BY <1>1, Ran DEF Carries

(* A step that executes no sampling block, and passes no instant at which  *)
(* one waits.                                                              *)
LEMMA OthersRun ==
    ASSUME NEW place, NEW values, NEW memories,
           IInv, Tied, Owed(values, memories), InTurn(place),
           UNCHANGED <<policy, late, remaining>>,
           dirty' \subseteq dirty,
           now' = now \/ late = <<>>,
           \A t \in timers' : t \in timers \/ (t.tag = "expiry" /\ t.block \notin Resampling),
           phase \notin {"new", "loop"} =>
             \A b \in Resampling : memory'[b] = memory[b] /\ output'[b] = output[b],
           phase' \in {"new", "loop"} \/ phase \notin {"new", "loop"},
           phase' \in {"pass", "settle"} => phase \in {"pass", "settle"}
    PROVE  Tied' /\ Owed(values, memories)' /\ InTurn(place)'
<1>1. Tied'
  BY DEF Tied
<1>2. Members(late)' = Members(late) /\ Members(remaining)' = Members(remaining)
  BY DEF Members
<1>3. late = <<>> => Members(late) = {}
  BY MembersEmpty
<1>4. Owed(values, memories)'
  <2> SUFFICES ASSUME phase' \notin {"new", "loop"},
                      NEW b \in Resampling, b \in Members(late), b \notin Members(remaining)
               PROVE  Took(b, values, memories)'
    BY <1>2 DEF Owed
  <2>1. Took(b, values, memories) /\ now' = now /\ memory'[b] = memory[b] /\ output'[b] = output[b]
    BY <1>3 DEF Owed
  <2> QED BY <2>1 DEF Took
<1>5. InTurn(place)'
  <2>1. phase' \in {"pass", "settle"} => Resampling \subseteq Members(late)
    BY DEF InTurn
  <2>2. \A i, j \in 1..Len(late') : i < j => place[late'[i]] <= place[late'[j]]
    BY DEF InTurn
  <2>3. ASSUME NEW b \in Members(late), NEW t \in timers', t.block \in Resampling, t.due <= now'
        PROVE  place[b] <= place[t.block]
    <3>1. t \in timers /\ now' = now
      BY <2>3, <1>3
    <3> QED BY <3>1, <2>3 DEF InTurn
  <2> QED BY <2>1, <2>2, <2>3, <1>2 DEF InTurn
<1> QED BY <1>1, <1>4, <1>5

-----------------------------------------------------------------------------
(* Links that carry a second sample on disturb none that was taken.        *)

LEMMA Unaffected ==
    ASSUME NEW place, NEW stirred, Ordered(place, stirred), IInv,
           Stands(place, stirred), NEW b \in Resampling, Finished(b), work # <<>>
    PROVE  /\ Head(work) \in Wire /\ Head(work).source \in stirred
           /\ Head(work).target # b
           /\ place[b] <= place[Head(work).source]
           /\ place[b] <= place[Head(work).target]
<1>1. Head(work) \in Wire /\ Head(work) \in Members(work)
  BY MembersHead DEF IInv, TypeOK
<1>2. Head(work).source \in stirred /\ place[b] <= place[Head(work).source]
  BY <1>1 DEF Stands
<1>3. Head(work).source \in Block /\ Head(work).target \in Block /\ b \in Block
  BY <1>1, NetAssumption
<1>4. place[Head(work).source] \in Int /\ place[Head(work).target] \in Int /\ place[b] \in Int
  BY <1>3 DEF Ordered
<1>5. /\ place[Head(work).source] <= place[Head(work).target]
      /\ Head(work).target \in Resampling => place[Head(work).source] < place[Head(work).target]
  BY <1>1, <1>2 DEF Ordered
<1> QED BY <1>1, <1>2, <1>4, <1>5

(* What fires when b executes leaves b.                                    *)
LEMMA Fired ==
    ASSUME IInv, NEW b \in Block, NEW i, NEW t, NEW waiting \in Seq(Wire),
           NEW w \in Members(Queue(b, i, t, waiting))
    PROVE  w \in Members(waiting) \/ (w \in Wire /\ w.source = b /\ Result(b, i, t) # output[b])
<1> DEFINE fired == IF Result(b, i, t) = output[b] THEN <<>> ELSE policy.fanout[b]
<1>1. policy.fanout[b] \in Seq(Wire) /\ Members(policy.fanout[b]) = {v \in Wire : v.source = b}
  BY PolicyAssumption DEF IInv, TypeOK
<1>2. fired \in Seq(Wire)
  BY <1>1
<1>3. \A v \in Members(fired) : v \in Wire /\ v.source = b /\ Result(b, i, t) # output[b]
  BY <1>1, MembersEmpty
<1> HIDE DEF fired
<1>4. Queue(b, i, t, waiting) = IF policy.depth THEN fired \o waiting ELSE waiting \o fired
  BY DEF Queue, fired
<1>5. w \in Members(fired) \/ w \in Members(waiting)
  <2>1. CASE policy.depth
    BY <2>1, <1>2, <1>4, MembersConcat
  <2>2. CASE ~policy.depth
    BY <2>2, <1>2, <1>4, MembersConcat
  <2> QED BY <2>1, <2>2
<1> QED BY <1>3, <1>5

(* What stands of a second sample while other blocks execute.              *)
LEMMA StandsOn ==
    ASSUME NEW b \in Resampling, NEW c \in Block, c # b, IInv,
           \A d \in Block \ {c} : /\ input'[d] = input[d] /\ output'[d] = output[d]
                                  /\ memory'[d] = memory[d],
           now' = now, Sampled(b)
    PROVE  Sampled(b)'
<1>1. b \in Block \ {c}
  BY Samplers
<1>2. input'[b] = input[b] /\ output'[b] = output[b] /\ memory'[b] = memory[b]
  BY <1>1
<1> QED BY <1>2 DEF Sampled, Result, Remembered

LEMMA StandsDelivered ==
    ASSUME NEW place, NEW stirred, Ordered(place, stirred), IInv,
           Stands(place, stirred), Deliver
    PROVE  Stands(place, stirred)'
<1> SUFFICES ASSUME NEW b \in Resampling, Finished(b)'
             PROVE  /\ Sampled(b)'
                    /\ (\A t \in timers : target < t.due)'
                    /\ (\A c \in Members(late) : place[b] <= place[c])'
                    /\ (\A w \in Members(work) :
                            w.source \in stirred /\ place[b] <= place[w.source])'
  BY DEF Stands
<1> DEFINE v == Head(work)
           c == v.target
<1>1. UNCHANGED <<timers, late, now, target>> /\ work # <<>>
  BY DEF Deliver, Skip, Store, React, clockVars
<1>2. Members(late)' = Members(late)
  BY <1>1 DEF Members
<1>3. phase' = phase
  <2>1. phase' # "loop"
    BY DEF Finished
  <2> QED BY <2>1, CountedPhase DEF Deliver, Skip, Store, React
<1>4. Finished(b)
  BY <1>1, <1>2, <1>3 DEF Finished
<1>5. /\ v \in Wire /\ v.source \in stirred /\ c # b
      /\ place[b] <= place[v.source] /\ place[b] <= place[c]
  BY <1>1, <1>4, Unaffected
<1>6. /\ Sampled(b) /\ \A t \in timers : target < t.due
      /\ \A d \in Members(late) : place[b] <= place[d]
      /\ \A w \in Members(work) : w.source \in stirred /\ place[b] <= place[w.source]
  BY <1>4 DEF Stands
<1>7. Tail(work) \in Seq(Wire) /\ Members(Tail(work)) \subseteq Members(work)
  BY <1>1, MembersHead DEF IInv, TypeOK
<1>8. /\ input \in [Block -> Inputs] /\ output \in [Block -> Value]
      /\ memory \in [Block -> Memory] /\ c \in Block
  BY <1>5, NetAssumption DEF IInv, TypeOK
<1>9. CASE Skip \/ Store
  <2>1. work' = Tail(work) /\ UNCHANGED <<output, memory>>
    BY <1>9 DEF Skip, Store
  <2>2. \A d \in Block \ {c} : input'[d] = input[d]
    BY <1>8, <1>9 DEF Skip, Store, Carry
  <2>3. Sampled(b)'
    <3> HIDE DEF c
    <3> QED BY <2>1, <2>2, <1>1, <1>5, <1>6, <1>8, StandsOn
  <2>4. Members(work)' = Members(Tail(work))
    BY <2>1 DEF Members
  <2> QED BY <2>3, <2>4, <1>1, <1>2, <1>6, <1>7
<1>10. CASE React
  <2> DEFINE i == Taken(v)
  <2>1. /\ Execute(c, i, now) /\ work' = Queue(c, i, now, Tail(work))
        /\ input' = [input EXCEPT ![c] = i] /\ c \in Reactive
    <3>1. phase' # "loop"
      BY DEF Finished
    <3> QED BY <3>1, <1>10 DEF React, CountedRun, Overrun, Run, Carry
  <2> HIDE DEF i
  <2>2. \A d \in Block \ {c} : /\ input'[d] = input[d] /\ output'[d] = output[d]
                               /\ memory'[d] = memory[d]
    BY <2>1, <1>8 DEF Execute
  <2>3. c \in stirred
    BY <2>1, <1>5 DEF Ordered
  <2>4. ASSUME NEW w \in Members(work') PROVE w.source \in stirred /\ place[b] <= place[w.source]
    <3>1. w \in Members(Tail(work)) \/ w.source = c
      <4> HIDE DEF c
      <4> QED BY <2>1, <1>7, <1>8, Fired
    <3> QED BY <3>1, <2>3, <1>5, <1>6, <1>7
  <2>5. Members(work)' = Members(work')
    BY DEF Members
  <2>6. Sampled(b)'
    <3> HIDE DEF c
    <3> QED BY <2>2, <1>1, <1>5, <1>6, <1>8, StandsOn
  <2> QED BY <2>4, <2>5, <2>6, <1>1, <1>2, <1>6
<1> QED BY <1>9, <1>10 DEF Deliver

-----------------------------------------------------------------------------
(* First and second samples.                                               *)

LEMMA MultipleBefore ==
    ASSUME NEW p \in Nat \ {0}, NEW k \in Nat, NEW n \in Nat, NEW x \in Nat,
           n < x, x % p = 0, k * p <= n + p
    PROVE  k * p <= x
<1>1. PICK q \in Nat : x = q * p
  OBVIOUS
<1>2. CASE k <= q
  <2>1. PICK r \in Nat : q = k + r
    <3>1. q - k \in Nat /\ q = k + (q - k)
      BY <1>1, <1>2
    <3> QED BY <3>1
  <2>2. q * p = k * p + r * p /\ r * p >= 0
    BY <2>1
  <2> QED BY <1>1, <2>2
<1>3. CASE k > q
  <2>1. PICK r \in Nat : k = q + 1 + r
    <3>1. k - q - 1 \in Nat /\ k = q + 1 + (k - q - 1)
      BY <1>1, <1>3
    <3> QED BY <3>1
  <2>2. k * p = q * p + p + r * p /\ r * p >= 0
    BY <1>1, <2>1
  <2> QED BY <1>1, <2>2
<1> QED BY <1>1, <1>2, <1>3

(* A sampling block has its tick by the next multiple of its period.       *)
LEMMA TickBefore ==
    ASSUME CInv, phase # "new", NEW b \in Resampling, now < target, target % Period[b] = 0
    PROVE  \E t \in timers : t.block = b /\ t.due <= target
<1>1. b \in Ticking /\ Period[b] \in Nat \ {0} /\ now \in Nat /\ target \in Nat
  BY Samplers, TimerType
<1>2. PICK t \in timers : /\ {u \in timers : u.block = b} = {t}
                          /\ t.due <= now + Period[b]
                          /\ \E k \in Nat : t.due = k * Period[b]
  BY <1>1 DEF CInv, Ticks, OneTick
<1>3. PICK k \in Nat : t.due = k * Period[b]
  BY <1>2
<1>4. k * Period[b] <= target
  BY <1>1, <1>2, <1>3, MultipleBefore
<1> QED BY <1>2, <1>3, <1>4

(* While a timer is due, no second sample of the instant has been taken.   *)
LEMMA NoneFinished ==
    ASSUME NEW place, NEW stirred, CInv, Stands(place, stirred),
           NEW t \in timers, IsNext(t), phase = "advance",
           now' = Later(t.due), target' = target,
           timers \ {t} \subseteq timers', Members(late) \subseteq Members(late)',
           NEW b \in Resampling, b # t.block
    PROVE  ~Finished(b)'
<1> SUFFICES ASSUME Finished(b)' PROVE FALSE
  OBVIOUS
<1>1. now' = t.due /\ now <= t.due /\ t.due <= target /\ now \in Nat /\ target \in Nat
      /\ t.due \in Nat
  BY Instant, TimerType
<1>2. /\ now' = target /\ target % Period[b] = 0 /\ b \notin Members(late)
      /\ \A u \in timers : u.block = b => target < u.due
  BY DEF Finished
<1>3. CASE now < target
  <2>1. PICK u \in timers : u.block = b /\ u.due <= target
    BY <1>2, <1>3, TickBefore
  <2> QED BY <2>1, <1>1, <1>2, TimerType
<1>4. CASE now = target
  <2>1. Finished(b)
    BY <1>2, <1>4 DEF Finished
  <2> QED BY <2>1, <1>1, <1>4 DEF Stands
<1> QED BY <1>1, <1>3, <1>4

LEMMA TickTied ==
    ASSUME CInv, Tied, NEW t \in timers, Tick(t)
    PROVE  Tied'
<1>1. PICK tie \in policy.tie[t.block] :
         timers' = (timers \ {t}) \cup {TickTimer(t.block, now', tie)}
  BY DEF Tick
<1>2. TickTimer(t.block, now', tie).tie = tie /\ TickTimer(t.block, now', tie).block = t.block
  BY DEF TickTimer
<1>3. policy' = policy /\ dirty' = dirty
  BY DEF Tick, startVars
<1> QED BY <1>1, <1>2, <1>3 DEF Tied

(* A tick is the last sample of its instant so far, in time and in place.  *)
LEMMA TickInTurn ==
    ASSUME NEW place, NEW stirred, Ordered(place, stirred), CInv, Tied, InTurn(place),
           NEW t \in timers, Tick(t)
    PROVE  InTurn(place)'
<1> DEFINE b == t.block
<1>1. /\ phase = "advance" /\ IsNext(t) /\ t.tag = "tick" /\ phase' = phase
      /\ late' = IF b \in Resampling THEN Append(late, b) ELSE late
  BY DEF Tick
<1>2. PICK tie \in policy.tie[b] : timers' = (timers \ {t}) \cup {TickTimer(b, now', tie)}
  BY DEF Tick
<1>3. /\ now' = t.due /\ now <= t.due /\ now \in Nat /\ \A u \in timers : t.due <= u.due
      /\ \A u \in timers : u.due \in Nat
      /\ late # <<>> => now' = now /\ t.due <= now
  <2>1. now' = Later(t.due)
    BY DEF Tick
  <2> QED BY <1>1, <2>1, Instant, TimerType DEF IsNext
<1>4. /\ late \in Seq(Resampling) /\ Resampling \subseteq Block
      /\ policy \in Policy /\ \A u \in timers : u.tie \in Int /\ u.block \in Block
  BY Samplers DEF CInv, IInv, TypeOK, Timer
<1>5. \A c \in Block : place[c] \in Int
  BY DEF Ordered
<1>6. \A i \in 1..Len(late) : late[i] \in Resampling /\ late[i] \in Members(late) /\ late # <<>>
  BY <1>4 DEF Members
<1> DEFINE new == TickTimer(b, now', tie)
<1>7. new.due \in Nat /\ new.due > now' /\ now' \in Nat
  BY <1>1, <1>3, PeriodAssumption DEF TickTimer, CInv, Ticks, Ticking
<1>8. Members(late') = IF b \in Resampling THEN Members(late) \cup {b} ELSE Members(late)
  <2>1. CASE b \in Resampling
    <3>1. Len(late') = Len(late) + 1 /\ late'[Len(late) + 1] = b
          /\ \A i \in 1..Len(late) : late'[i] = late[i]
      BY <2>1, <1>1, <1>4
    <3>2. Members(late') \subseteq Members(late) \cup {b}
      BY <3>1, <1>4 DEF Members
    <3>3. Members(late) \subseteq Members(late')
      BY <3>1, <1>4 DEF Members
    <3>4. b \in Members(late')
      BY <3>1, <1>4 DEF Members
    <3> QED BY <2>1, <3>2, <3>3, <3>4
  <2>2. CASE b \notin Resampling
    BY <2>2, <1>1
  <2> QED BY <2>1, <2>2
<1>9. \A i, j \in 1..Len(late') : i < j => place[late'[i]] <= place[late'[j]]
  <2>1. CASE b \in Resampling
    <3> SUFFICES ASSUME NEW i \in 1..Len(late'), NEW j \in 1..Len(late'), i < j
                 PROVE  place[late'[i]] <= place[late'[j]]
      OBVIOUS
    <3>1. Len(late') = Len(late) + 1 /\ late'[Len(late) + 1] = b
          /\ \A k \in 1..Len(late) : late'[k] = late[k]
      BY <2>1, <1>1, <1>4
    <3>2. i \in 1..Len(late) /\ Len(late) \in Nat
      BY <3>1, <1>4
    <3>3. CASE j = Len(late) + 1
      <4>1. place[late[i]] <= place[b]
        BY <2>1, <3>2, <1>3, <1>6 DEF InTurn
      <4> QED BY <4>1, <3>1, <3>2, <3>3
    <3>4. CASE j # Len(late) + 1
      <4>1. j \in 1..Len(late)
        BY <3>1, <3>2, <3>4
      <4> QED BY <4>1, <3>1, <3>2 DEF InTurn
    <3> QED BY <3>3, <3>4
  <2>2. CASE b \notin Resampling
    BY <2>2, <1>1 DEF InTurn
  <2> QED BY <2>1, <2>2
<1>10. ASSUME NEW c \in Members(late'), NEW u \in timers', u.block \in Resampling, u.due <= now'
       PROVE  place[c] <= place[u.block]
  <2>1. u \in timers
    <3>1. u \in timers \/ u = new
      BY <1>2
    <3> HIDE DEF new
    <3> QED BY <3>1, <1>7, <1>10
  <2>2. CASE c \in Members(late)
    <3>1. late # <<>>
      BY <2>2, MembersEmpty
    <3> QED BY <2>1, <2>2, <3>1, <1>3, <1>10 DEF InTurn
  <2>3. CASE c = b /\ b \in Resampling
    <3>1. u.due = t.due /\ t.tie <= u.tie
      BY <2>1, <1>1, <1>3, <1>10 DEF IsNext
    <3>2. u.tag = "tick"
      BY <2>1, <1>10, Samplers, TimerType DEF CInv, IInv, Expiring
    <3>3. u.tie \in policy.tie[u.block] /\ t.tie \in policy.tie[b]
      BY <2>1, <3>2, <1>1 DEF Tied
    <3>4. ~(place[u.block] < place[b])
      <4>1. place[u.block] < place[b] => u.tie < t.tie
        BY <2>3, <3>3, <1>4, <1>10 DEF Ordered
      <4> QED BY <4>1, <3>1, <2>1, <1>4
    <3> QED BY <3>4, <2>1, <2>3, <1>4, <1>5
  <2> QED BY <2>2, <2>3, <1>8
<1>11. Members(late)' = Members(late')
  BY DEF Members
<1> QED BY <1>1, <1>9, <1>10, <1>11 DEF InTurn

LEMMA TickSamples ==
    ASSUME NEW place, NEW stirred, NEW values, NEW memories,
           Sampling(place, stirred, values, memories),
           SInv(place, stirred, values, memories), CInv',
           NEW t \in timers, Tick(t)
    PROVE  SInv(place, stirred, values, memories)'
<1> DEFINE b == t.block
           i == input[t.block]
<1>1. /\ phase = "advance" /\ IsNext(t) /\ t.tag = "tick" /\ phase' = phase
      /\ late' = IF b \in Resampling THEN Append(late, b) ELSE late
      /\ now' = Later(t.due) /\ target' = target /\ input' = input
      /\ Execute(b, i, now') /\ remaining' = remaining
  BY DEF Tick, OnTimer, startVars
<1>2. /\ CInv /\ IInv /\ Tied /\ Carries(values, memories) /\ Owed(values, memories)
      /\ InTurn(place) /\ Stands(place, stirred)
      /\ Ordered(place, stirred) /\ Closed(values, memories)
  BY DEF SInv, CInv, Sampling
<1>3. /\ now' \in 0..Horizon /\ b \in Block /\ input \in [Block -> Inputs]
      /\ memory \in [Block -> memories] /\ output \in [Block -> Value]
      /\ late \in Seq(Resampling) /\ remaining = <<>> /\ i \in Inputs
  <2>1. b \in Block
    BY <1>2 DEF IInv, TypeOK, Timer
  <2>2. now' \in 0..Horizon
    BY DEF CInv, IInv, TypeOK
  <2> QED BY <2>1, <2>2, <1>1, <1>2 DEF IInv, TypeOK, Shape, Carries
<1>4. i \in Fed(b, values)
  <2>1. Undisturbed(b, i)
    BY DEF Undisturbed
  <2> HIDE DEF b, i
  <2> QED BY <2>1, <1>1, <1>2, <1>3, StillFed
<1>5. Tied'
  BY <1>2, TickTied
<1>6. Carries(values, memories)'
  <2>1. input' = [input EXCEPT ![b] = i] /\ phase # "new"
    BY <1>1, <1>3
  <2> HIDE DEF b, i
  <2> QED BY <2>1, <1>1, <1>2, <1>3, <1>4, CarriesRun
<1>7. InTurn(place)'
  BY <1>2, TickInTurn
<1>8. /\ Members(late) \subseteq Members(late)'
      /\ Members(late)' \subseteq Members(late) \cup {b}
      /\ b \in Resampling => b \in Members(late)'
  <2>1. CASE b \in Resampling
    <3>1. Len(late') = Len(late) + 1 /\ late'[Len(late) + 1] = b
          /\ \A k \in 1..Len(late) : late'[k] = late[k]
      BY <2>1, <1>1, <1>3
    <3>2. Members(late') \subseteq Members(late) \cup {b}
      BY <3>1, <1>3 DEF Members
    <3>3. Members(late) \subseteq Members(late')
      BY <3>1, <1>3 DEF Members
    <3>4. b \in Members(late')
      BY <3>1, <1>3 DEF Members
    <3> QED BY <3>2, <3>3, <3>4 DEF Members
  <2>2. CASE b \notin Resampling
    BY <2>2, <1>1 DEF Members
  <2> QED BY <2>1, <2>2
<1>9. Owed(values, memories)'
  <2> SUFFICES ASSUME NEW c \in Resampling, c \in Members(late)'
               PROVE  Took(c, values, memories)'
    BY DEF Owed
  <2>1. CASE c = b
    <3>1. /\ memory'[c] = Remember(c, i, memory[c], now')
          /\ output'[c] = Compute(c, i, memory[c], now')
      BY <2>1, <1>1, <1>3, Samplers DEF Execute, Result, Remembered
    <3>2. memory[c] \in memories
      BY <2>1, <1>3
    <3> HIDE DEF b, i
    <3> QED BY <2>1, <3>1, <3>2, <1>4 DEF Took
  <2>2. CASE c # b
    <3>1. c \in Members(late) /\ late # <<>>
      BY <2>2, <1>8, MembersEmpty
    <3>2. now' = now
      <4>1. t.due <= now
        BY <3>1, <1>1 DEF IsNext
      <4> QED BY <4>1, <1>1, <1>2, TimerType DEF Later
    <3>3. memory'[c] = memory[c] /\ output'[c] = output[c]
      BY <2>2, <1>1, <1>3, Samplers DEF Execute
    <3>4. Took(c, values, memories)
      BY <3>1, <1>1, <1>2, <1>3, MembersEmpty DEF Owed
    <3> QED BY <3>2, <3>3, <3>4 DEF Took
  <2> QED BY <2>1, <2>2
<1>10. Stands(place, stirred)'
  <2> SUFFICES ASSUME NEW c \in Resampling, Finished(c)' PROVE FALSE
    BY DEF Stands
  <2>1. c # b
    BY <1>8 DEF Finished
  <2>2. timers \ {t} \subseteq timers'
    BY DEF Tick
  <2> QED BY <2>1, <2>2, <1>1, <1>2, <1>8, NoneFinished
<1> QED BY <1>5, <1>6, <1>7, <1>9, <1>10 DEF SInv

LEMMA ResampleSamples ==
    ASSUME NEW place, NEW stirred, NEW values, NEW memories,
           Sampling(place, stirred, values, memories),
           SInv(place, stirred, values, memories), CInv', Resample
    PROVE  SInv(place, stirred, values, memories)'
<1> DEFINE b == Head(late)
           i == input[b]
<1>1. /\ phase = "advance" /\ phase' = phase /\ work = <<>> /\ late # <<>>
      /\ \A u \in timers : now < u.due
      /\ late' = Tail(late) /\ Execute(b, i, now) /\ work' = Queue(b, i, now, <<>>)
      /\ UNCHANGED <<policy, input, dirty, remaining, timers, now, target>>
  BY DEF Resample, OnTimer, startVars
<1>2. /\ CInv /\ IInv /\ Tied /\ Carries(values, memories) /\ Owed(values, memories)
      /\ InTurn(place) /\ Stands(place, stirred)
      /\ Ordered(place, stirred) /\ Closed(values, memories)
  BY DEF SInv, CInv, Sampling
<1>3. /\ b \in Resampling /\ Tail(late) \in Seq(Resampling)
      /\ Members(late) = {b} \cup Members(Tail(late))
  BY <1>1, <1>2, MembersHead DEF IInv, TypeOK
<1>4. /\ now \in 0..Horizon /\ b \in Block /\ b \notin Pure /\ input \in [Block -> Inputs]
      /\ memory \in [Block -> memories] /\ output \in [Block -> Value]
      /\ late \in Seq(Resampling) /\ remaining = <<>> /\ i \in Inputs
  BY <1>1, <1>2, <1>3, Samplers DEF IInv, TypeOK, Shape, Carries
<1>5. i \in Fed(b, values)
  <2>1. Undisturbed(b, i)
    BY DEF Undisturbed
  <2> HIDE DEF b, i
  <2> QED BY <2>1, <1>1, <1>2, <1>4, StillFed
<1> DEFINE m == memory[b]
<1>6. /\ memory'[b] = Remember(b, i, m, now) /\ output'[b] = Compute(b, i, m, now)
      /\ \A c \in Block \ {b} : /\ input'[c] = input[c] /\ output'[c] = output[c]
                                /\ memory'[c] = memory[c]
      /\ m \in memories
  BY <1>1, <1>4 DEF Execute, Result, Remembered
<1>7. Tied'
  BY <1>1, <1>2 DEF Tied
<1>8. Carries(values, memories)'
  <2>1. input' = [input EXCEPT ![b] = i] /\ phase # "new"
    BY <1>1, <1>4
  <2> HIDE DEF b, i
  <2> QED BY <2>1, <1>1, <1>2, <1>4, <1>5, CarriesRun
<1>9. Members(late)' = Members(Tail(late))
  BY <1>1 DEF Members
<1>10. Owed(values, memories)'
  <2> SUFFICES ASSUME NEW c \in Resampling, c \in Members(late)'
               PROVE  Took(c, values, memories)'
    BY DEF Owed
  <2>1. CASE c = b
    <3> HIDE DEF b, i, m
    <3> QED BY <2>1, <1>1, <1>5, <1>6 DEF Took
  <2>2. CASE c # b
    <3>1. Took(c, values, memories)
      BY <1>1, <1>2, <1>3, <1>4, <1>9, MembersEmpty DEF Owed
    <3>2. c \in Block \ {b}
      BY <2>2, Samplers
    <3> HIDE DEF b, i, m
    <3> QED BY <3>1, <3>2, <1>1, <1>6 DEF Took
  <2> QED BY <2>1, <2>2
<1>11. \A j \in 1..Len(late') : j + 1 \in 1..Len(late) /\ late'[j] = late[j + 1]
       /\ 1 \in 1..Len(late) /\ b = late[1]
  BY <1>1, <1>4, HeadTailProperties
<1>12. InTurn(place)'
  <2>1. \A j, k \in 1..Len(late') : j < k => place[late'[j]] <= place[late'[k]]
    <3> SUFFICES ASSUME NEW j \in 1..Len(late'), NEW k \in 1..Len(late'), j < k
                 PROVE  place[late'[j]] <= place[late'[k]]
      OBVIOUS
    <3>1. j + 1 < k + 1
      OBVIOUS
    <3> QED BY <3>1, <1>2, <1>11 DEF InTurn
  <2> QED BY <2>1, <1>1, <1>2, <1>3, <1>9 DEF InTurn
<1>13. \A c \in Members(late)' : place[b] <= place[c]
  <2> SUFFICES ASSUME NEW j \in 1..Len(late') PROVE place[b] <= place[late'[j]]
    BY DEF Members
  <2>1. 1 < j + 1
    OBVIOUS
  <2> QED BY <2>1, <1>2, <1>11 DEF InTurn
<1>14. \A w \in Members(work)' : w.source = b /\ b \in stirred
  <2> SUFFICES ASSUME NEW w \in Members(Queue(b, i, now, <<>>))
               PROVE  w.source = b /\ b \in stirred
    BY <1>1 DEF Members
  <2>1. w.source = b /\ Result(b, i, now) # output[b]
    <3>1. Members(<<>>) = {} /\ <<>> \in Seq(Wire)
      BY MembersEmpty
    <3> HIDE DEF b, i
    <3> QED BY <3>1, <1>2, <1>4, Fired
  <2>2. CASE Steady(b, values, memories)
    <3>1. Took(b, values, memories)
      BY <1>1, <1>2, <1>3, <1>4, MembersEmpty DEF Owed
    <3>2. PICK j \in Fed(b, values), n \in memories :
             m = Remember(b, j, n, now) /\ output[b] = Compute(b, j, n, now)
      BY <3>1 DEF Took
    <3>3. Compute(b, i, Remember(b, j, n, now), now) = Compute(b, j, n, now)
      BY <2>2, <1>4, <1>5 DEF Steady
    <3> QED BY <2>1, <3>2, <3>3, <1>4 DEF Result
  <2> QED BY <2>1, <2>2, <1>3 DEF Sampling
<1>15. Stands(place, stirred)'
  <2> SUFFICES ASSUME NEW c \in Resampling, Finished(c)'
               PROVE  /\ Sampled(c)'
                      /\ (\A u \in timers : target < u.due)'
                      /\ (\A d \in Members(late) : place[c] <= place[d])'
                      /\ (\A w \in Members(work) :
                              w.source \in stirred /\ place[c] <= place[w.source])'
    BY DEF Stands
  <2>1. /\ now = target /\ (\A u \in timers : target < u.due)'
        /\ c \notin Members(late)'
    BY <1>1 DEF Finished
  <2>2. place[b] \in Int
    BY <1>2, <1>4 DEF Ordered
  <2>3. CASE c = b
    <3>1. /\ Remember(b, i, Remember(b, i, m, now), now) = Remember(b, i, m, now)
          /\ Compute(b, i, Remember(b, i, m, now), now) = Compute(b, i, m, now)
      BY <1>3, <1>4, <1>5, <1>6 DEF Sampling, Repeats
    <3>2. Sampled(c)'
      <4>1. input'[c] = i /\ now' = now /\ c \notin Pure
        BY <2>3, <1>1, <1>4
      <4>2. memory'[c] = Remember(c, i, m, now) /\ output'[c] = Compute(c, i, m, now)
        BY <2>3, <1>6
      <4> HIDE DEF b, i, m
      <4> QED BY <2>3, <3>1, <4>1, <4>2 DEF Sampled, Result, Remembered
    <3> QED BY <2>1, <2>2, <2>3, <3>2, <1>13, <1>14
  <2>4. CASE c # b
    <3>1. Finished(c) /\ b \in Members(late)
      BY <2>4, <1>1, <1>3, <1>9 DEF Finished
    <3>2. Sampled(c) /\ \A d \in Members(late) : place[c] <= place[d]
      BY <3>1, <1>2 DEF Stands
    <3>3. Sampled(c)'
      <4> HIDE DEF b, i, m
      <4> QED BY <2>4, <3>2, <1>1, <1>2, <1>4, <1>6, StandsOn
    <3> QED BY <2>1, <3>1, <3>2, <3>3, <1>3, <1>9, <1>14
  <2> QED BY <2>3, <2>4
<1> QED BY <1>7, <1>8, <1>10, <1>12, <1>15 DEF SInv

-----------------------------------------------------------------------------
(* The start, and the steps that take no sample.                           *)

LEMMA InitSamples ==
    ASSUME NEW place, NEW stirred, NEW values, NEW memories,
           Sampling(place, stirred, values, memories), Init
    PROVE  SInv(place, stirred, values, memories)
<1>1. Members(late) = {} /\ late = <<>>
  BY MembersEmpty DEF Init
<1>2. Carries(values, memories)
  BY SavedAssumption DEF Init, Carries, Sampling, Closed
<1>3. Tied /\ Owed(values, memories) /\ Stands(place, stirred)
  BY DEF Init, Tied, Owed, Stands, Finished
<1>4. InTurn(place)
  BY <1>1 DEF Init, InTurn
<1> QED BY <1>2, <1>3, <1>4, InitCInv DEF SInv

LEMMA StartSamples ==
    ASSUME NEW place, NEW stirred, NEW values, NEW memories,
           Sampling(place, stirred, values, memories),
           SInv(place, stirred, values, memories), CInv', Start
    PROVE  SInv(place, stirred, values, memories)'
<1>1. /\ phase = "new" /\ phase' = "pass" /\ now = 0 /\ now' = now /\ late' = SampleOrder
      /\ remaining' = policy.start /\ policy' = policy /\ dirty' = dirty /\ memory' = memory
      /\ output' = [b \in Block |-> IF b \in Writable THEN Gate(b, input[b]) ELSE output[b]]
  BY DEF Start, SInv, CInv, Due
<1>2. /\ input \in [Block -> Inputs] /\ policy \in Policy /\ dirty \subseteq Reactive
      /\ Carries(values, memories) /\ Closed(values, memories) /\ Ordered(place, stirred)
  BY DEF SInv, CInv, IInv, TypeOK, Tied, Sampling
<1>3. PICK tie \in [Ticking -> UNION {policy.tie[b] : b \in Ticking}] :
          /\ \A b \in Ticking : tie[b] \in policy.tie[b]
          /\ timers' = {TickTimer(b, 0, tie[b]) : b \in Ticking}
  BY DEF Start
<1>4. \A b \in Ticking : /\ TickTimer(b, 0, tie[b]).due = Period[b]
                         /\ Period[b] \in Nat /\ Period[b] > 0
                         /\ TickTimer(b, 0, tie[b]).block = b
                         /\ TickTimer(b, 0, tie[b]).tie = tie[b]
  BY PeriodAssumption DEF TickTimer, Ticking
<1>5. Tied'
  BY <1>1, <1>2, <1>3, <1>4 DEF Tied
<1>6. Carries(values, memories)'
  <2>1. ASSUME NEW w \in Wire PROVE output'[w.source] \in values
    <3>1. w.source \in Block /\ output[w.source] \in values /\ input[w.source] \in Inputs
      BY <1>2, NetAssumption DEF Carries
    <3>2. w.source \in Writable => w.source \in Pure
      BY NetAssumption
    <3> QED BY <3>1, <3>2, <1>1, <1>2 DEF Closed
  <2>2. ASSUME NEW w \in Wire PROVE input'[w.target][w.slot] = output'[w.source]
    <3>1. Members(work)' = {}
      BY <1>1, MembersEmpty DEF CInv, IInv, Shape, Members
    <3> QED BY <3>1, <1>1 DEF CInv, IInv, LinksCarry, Carried
  <2> QED BY <2>1, <2>2, <1>1, <1>2 DEF Carries
<1>7. Owed(values, memories)'
  <2>1. Members(policy.start) = Block
    BY <1>2, PolicyAssumption
  <2>2. Members(remaining)' = Members(policy.start)
    BY <1>1 DEF Members
  <2> QED BY <2>1, <2>2, Samplers DEF Owed
<1>8. InTurn(place)'
  <2>1. Members(late)' = Resampling
    BY <1>1, <1>2 DEF Ordered, Members
  <2>2. \A t \in timers' : ~(t.due <= now')
    BY <1>1, <1>3, <1>4
  <2> QED BY <2>1, <2>2, <1>1, <1>2 DEF InTurn, Ordered
<1>9. Stands(place, stirred)'
  BY <1>1 DEF Stands, Finished
<1> QED BY <1>5, <1>6, <1>7, <1>8, <1>9 DEF SInv

LEMMA PassSamples ==
    ASSUME NEW place, NEW stirred, NEW values, NEW memories,
           Sampling(place, stirred, values, memories),
           SInv(place, stirred, values, memories), CInv', PassOne
    PROVE  SInv(place, stirred, values, memories)'
<1> DEFINE b == Head(remaining)
           i == input[b]
<1>1. /\ phase = "pass" /\ phase' = phase /\ Execute(b, i, now)
      /\ remaining # <<>> /\ remaining' = Tail(remaining)
      /\ dirty' \subseteq dirty \cup Reactive
      /\ UNCHANGED <<policy, timers, late, now, target>>
  BY DEF PassOne, clockVars
<1>2. /\ CInv /\ IInv /\ Tied /\ Carries(values, memories) /\ Owed(values, memories)
      /\ InTurn(place) /\ Ordered(place, stirred) /\ Closed(values, memories)
  BY DEF SInv, CInv, Sampling
<1>3. /\ b \in Block /\ Members(remaining) = {b} \cup Members(Tail(remaining))
      /\ now \in 0..Horizon /\ input \in [Block -> Inputs] /\ i \in Inputs
      /\ memory \in [Block -> memories] /\ output \in [Block -> Value]
  <2>1. remaining \in Seq(Block)
    BY <1>2 DEF IInv, TypeOK
  <2>2. b \in Block /\ Members(remaining) = {b} \cup Members(Tail(remaining))
    BY <2>1, <1>1, MembersHead
  <2> QED BY <2>2, <1>2 DEF IInv, TypeOK, Carries
<1>4. i \in Fed(b, values)
  <2>1. Undisturbed(b, i)
    BY DEF Undisturbed
  <2> HIDE DEF b, i
  <2> QED BY <2>1, <1>1, <1>2, <1>3, StillFed
<1>5. Tied'
  BY <1>1, <1>2 DEF Tied
<1>6. Carries(values, memories)'
  <2>1. memory' \in [Block -> memories] /\ \A w \in Wire : output'[w.source] \in values
    <3> HIDE DEF b, i
    <3> QED BY <1>1, <1>2, <1>3, <1>4, Ran
  <2>2. ASSUME NEW w \in Wire PROVE input'[w.target][w.slot] = output'[w.source]
    <3>1. Members(work)' = {}
      BY <1>1, MembersEmpty DEF CInv, IInv, Shape, Members
    <3> QED BY <3>1, <1>1 DEF CInv, IInv, LinksCarry, Carried
  <2> QED BY <2>1, <2>2 DEF Carries
<1>7. Members(late)' = Members(late) /\ Members(remaining)' = Members(Tail(remaining))
  BY <1>1 DEF Members
<1>8. Owed(values, memories)'
  <2> SUFFICES ASSUME NEW c \in Resampling, c \in Members(late), c \notin Members(Tail(remaining))
               PROVE  Took(c, values, memories)'
    BY <1>7 DEF Owed
  <2>1. CASE c = b
    <3>1. /\ memory'[c] = Remember(c, i, memory[c], now)
          /\ output'[c] = Compute(c, i, memory[c], now)
      BY <2>1, <1>1, <1>3, Samplers DEF Execute, Result, Remembered
    <3>2. memory[c] \in memories /\ now' = now
      BY <2>1, <1>1, <1>3
    <3> HIDE DEF b, i
    <3> QED BY <2>1, <3>1, <3>2, <1>4 DEF Took
  <2>2. CASE c # b
    <3>1. memory'[c] = memory[c] /\ output'[c] = output[c] /\ now' = now
      BY <2>2, <1>1, <1>3, Samplers DEF Execute
    <3>2. Took(c, values, memories)
      BY <2>2, <1>1, <1>2, <1>3 DEF Owed
    <3> QED BY <3>1, <3>2 DEF Took
  <2> QED BY <2>1, <2>2
<1>9. InTurn(place)' /\ Stands(place, stirred)'
  BY <1>1, <1>2, <1>7 DEF InTurn, Stands, Finished
<1> QED BY <1>5, <1>6, <1>8, <1>9 DEF SInv

(* Steps at the present instant that may execute one block, no sampling    *)
(* one, and change its inputs where no link arrives or to what one has.    *)
LEMMA OtherSamples ==
    ASSUME NEW place, NEW stirred, NEW values, NEW memories,
           Sampling(place, stirred, values, memories),
           SInv(place, stirred, values, memories), CInv',
           phase # "new" \/ phase' = "new",
           phase # "loop" \/ phase' = "loop",
           phase' \in {"pass", "settle"} => phase \in {"pass", "settle"},
           NEW b \in Block, NEW i \in Inputs, NEW t \in 0..Horizon,
           phase # "new" => i \in Fed(b, values),
           input' = [input EXCEPT ![b] = i],
           \/ UNCHANGED <<output, memory>>
           \/ Execute(b, i, t) /\ b \notin Resampling /\ phase # "new",
           UNCHANGED <<policy, late, remaining>>,
           now' = now \/ late = <<>>,
           dirty' \subseteq dirty,
           \A u \in timers' : u \in timers \/ (u.tag = "expiry" /\ u.block \notin Resampling),
           Stands(place, stirred)'
    PROVE  SInv(place, stirred, values, memories)'
<1>1. /\ CInv /\ IInv /\ Tied /\ Carries(values, memories) /\ Owed(values, memories)
      /\ InTurn(place) /\ Closed(values, memories)
  BY DEF SInv, CInv, Sampling
<1>2. Carries(values, memories)'
  <2>1. CASE phase # "new"
    <3>1. i \in Fed(b, values) /\ (Execute(b, i, t) \/ UNCHANGED <<output, memory>>)
      BY <2>1
    <3> QED BY <2>1, <3>1, <1>1, CarriesRun
  <2>2. CASE phase = "new"
    BY <2>2, <1>1 DEF Carries
  <2> QED BY <2>1, <2>2
<1>3. \A c \in Resampling : memory'[c] = memory[c] /\ output'[c] = output[c]
  <2>1. CASE UNCHANGED <<output, memory>>
    BY <2>1
  <2>2. CASE Execute(b, i, t) /\ b \notin Resampling
    BY <2>2, <1>1, Samplers DEF Execute, IInv, TypeOK
  <2> QED BY <2>1, <2>2
<1>4. Tied' /\ Owed(values, memories)' /\ InTurn(place)'
  BY <1>1, <1>3, OthersRun
<1> QED BY <1>2, <1>4 DEF SInv

(* A step that leaves the inputs alone. *)
LEMMA IdleSamples ==
    ASSUME NEW place, NEW stirred, NEW values, NEW memories,
           Sampling(place, stirred, values, memories),
           SInv(place, stirred, values, memories), CInv',
           phase # "new" \/ phase' = "new",
           phase # "loop" \/ phase' = "loop",
           phase' \in {"pass", "settle"} => phase \in {"pass", "settle"},
           UNCHANGED <<policy, input, output, memory, late, remaining, dirty, timers>>,
           now' = now \/ late = <<>>,
           Stands(place, stirred)'
    PROVE  SInv(place, stirred, values, memories)'
<1>1. /\ CInv /\ IInv /\ Tied /\ Carries(values, memories) /\ Owed(values, memories)
      /\ InTurn(place)
  BY DEF SInv, CInv
<1>2. Tied' /\ Owed(values, memories)' /\ InTurn(place)'
  BY <1>1, OthersRun
<1>3. Carries(values, memories)'
  BY <1>1 DEF Carries
<1> QED BY <1>2, <1>3 DEF SInv

LEMMA DeliverSamples ==
    ASSUME NEW place, NEW stirred, NEW values, NEW memories,
           Sampling(place, stirred, values, memories),
           SInv(place, stirred, values, memories), CInv', Deliver
    PROVE  SInv(place, stirred, values, memories)'
<1> DEFINE w == Head(work)
           b == w.target
           i == Taken(w)
<1>1. /\ UNCHANGED <<policy, late, remaining, dirty, timers, now, target>> /\ work # <<>>
      /\ phase' = phase \/ phase' = "loop"
  BY CountedPhase DEF Deliver, Skip, Store, React, startVars, clockVars
<1>2. /\ CInv /\ IInv /\ Tied /\ Carries(values, memories) /\ Ordered(place, stirred)
      /\ Stands(place, stirred)
  BY DEF SInv, CInv, Sampling
<1>3. Stands(place, stirred)'
  BY <1>2, StandsDelivered
<1>4. phase \notin {"new", "loop"}
  BY <1>1, <1>2 DEF IInv, Shape
<1>5. /\ w \in Wire /\ w.source \in Block /\ b \in Block /\ w.slot \in Slot
      /\ input \in [Block -> Inputs] /\ output \in [Block -> Value] /\ now \in 0..Horizon
  BY <1>1, <1>2, MembersHead, NetAssumption DEF IInv, TypeOK
<1>6. i \in Inputs /\ i \in Fed(b, values)
  <2>1. i = [input[b] EXCEPT ![w.slot] = output[w.source]]
    BY DEF Taken
  <2>2. i \in Inputs
    BY <2>1, <1>5 DEF Inputs
  <2>3. ASSUME NEW v \in Wire, v.target = b PROVE i[v.slot] \in values
    <3>1. output[w.source] \in values /\ input[b][v.slot] \in values /\ v.slot \in Slot
      BY <2>3, <1>2, <1>4, <1>5, NetAssumption DEF Carries
    <3> QED BY <2>1, <3>1, <1>5 DEF Inputs
  <2> HIDE DEF b, i
  <2> QED BY <2>2, <2>3 DEF Fed
<1>7. CASE Skip
  BY <1>1, <1>3, <1>4, <1>7, IdleSamples DEF Skip
<1>8. CASE Store \/ React
  <2>1. /\ input' = [input EXCEPT ![b] = i]
        /\ UNCHANGED <<output, memory>> \/ (Execute(b, i, now) /\ b \notin Resampling)
    BY <1>8, Samplers DEF Store, React, Carry, CountedRun, Overrun, Run
  <2> HIDE DEF b, i
  <2> QED BY <2>1, <1>1, <1>3, <1>4, <1>5, <1>6, OtherSamples
<1> QED BY <1>7, <1>8 DEF Deliver

LEMMA SettleSamples ==
    ASSUME NEW place, NEW stirred, NEW values, NEW memories,
           Sampling(place, stirred, values, memories),
           SInv(place, stirred, values, memories), CInv', Settle
    PROVE  SInv(place, stirred, values, memories)'
<1>1. PICK b \in dirty : dirty' = dirty \ {b} /\ CountedRun(b, input[b], counts, <<>>)
  BY DEF Settle
<1>2. /\ phase = "settle" /\ (phase' = phase \/ phase' = "loop")
      /\ UNCHANGED <<policy, input, late, remaining, timers, now, target>>
  BY <1>1, CountedPhase DEF Settle, clockVars
<1>3. /\ CInv /\ IInv /\ Tied /\ Carries(values, memories)
      /\ input \in [Block -> Inputs] /\ now \in 0..Horizon
  BY DEF SInv, CInv, IInv, TypeOK
<1>4. b \in Block /\ b \notin Resampling /\ input[b] \in Inputs
  BY <1>3, Samplers, NetAssumption DEF Tied
<1>5. input[b] \in Fed(b, values)
  BY <1>2, <1>3, <1>4, StillFed DEF Undisturbed
<1>6. UNCHANGED <<output, memory>> \/ Execute(b, input[b], now)
  BY <1>1 DEF CountedRun, Overrun, Run
<1>7. Stands(place, stirred)'
  BY <1>2 DEF Stands, Finished
<1>8. input' = [input EXCEPT ![b] = input[b]]
  BY <1>2, <1>3, <1>4
<1> QED BY <1>1, <1>2, <1>3, <1>4, <1>5, <1>6, <1>7, <1>8, OtherSamples

LEMMA ClockSamples ==
    ASSUME NEW place, NEW stirred, NEW values, NEW memories,
           Sampling(place, stirred, values, memories),
           SInv(place, stirred, values, memories), CInv',
           PassDone \/ SettleDone \/ AdvanceDone \/ \E d \in Stride : Advance(d)
    PROVE  SInv(place, stirred, values, memories)'
<1>1. /\ phase \in {"pass", "settle", "advance", "rest"}
      /\ phase' \in {"settle", "advance", "rest"}
      /\ phase' = "settle" => phase = "pass"
      /\ UNCHANGED <<policy, input, output, memory, late, remaining, dirty, timers>>
      /\ now' = now \/ late = <<>>
  BY DEF PassDone, SettleDone, AdvanceDone, Advance, AtRest, netVars, startVars, clockVars
<1>2. Stands(place, stirred)'
  <2>1. CASE PassDone \/ AdvanceDone
    BY <2>1 DEF PassDone, AdvanceDone, Stands, Finished
  <2>2. CASE SettleDone
    <3>1. Resampling \subseteq Members(late) /\ late' = late
      BY <2>2 DEF SettleDone, SInv, InTurn
    <3>2. Members(late)' = Members(late)
      BY <3>1 DEF Members
    <3> QED BY <3>1, <3>2 DEF Stands, Finished
  <2>3. CASE \E d \in Stride : Advance(d)
    <3>1. now' # target' /\ phase' = "advance"
      <4>1. now \in Nat
        BY TimerType DEF SInv
      <4> QED BY <4>1, <2>3, BoundAssumption DEF Advance
    <3> QED BY <3>1 DEF Stands, Finished
  <2> QED BY <2>1, <2>2, <2>3
<1> QED BY <1>1, <1>2, IdleSamples

(* A call that executes a point at rest, with what an operator writes. *)
LEMMA StimulusSamples ==
    ASSUME NEW place, NEW stirred, NEW values, NEW memories,
           Sampling(place, stirred, values, memories),
           SInv(place, stirred, values, memories), CInv',
           AtRest, NEW b \in Writable, NEW i \in Inputs, Undisturbed(b, i), Propagate(b, i),
           \A u \in timers' : u \in timers \/ (u.tag = "expiry" /\ u.block = b),
           UNCHANGED <<policy, startVars, late, now, target>>
    PROVE  SInv(place, stirred, values, memories)'
<1>1. /\ phase = "rest" /\ (phase' = "rest" \/ phase' = "loop")
      /\ input' = [input EXCEPT ![b] = i]
      /\ UNCHANGED <<output, memory>> \/ Execute(b, i, now)
  BY CountedPhase DEF AtRest, Propagate, CountedRun, Overrun, Run
<1>2. CInv /\ IInv /\ Carries(values, memories) /\ now \in 0..Horizon
  BY DEF SInv, CInv, IInv, TypeOK
<1>3. b \in Block /\ b \notin Resampling
  BY Samplers, NetAssumption
<1>4. i \in Fed(b, values)
  BY <1>1, <1>2, <1>3, StillFed
<1>5. Stands(place, stirred)'
  BY <1>1 DEF Stands, Finished
<1> QED BY <1>1, <1>2, <1>3, <1>4, <1>5, OtherSamples DEF startVars

LEMMA OperatorSamples ==
    ASSUME NEW place, NEW stirred, NEW values, NEW memories,
           Sampling(place, stirred, values, memories),
           SInv(place, stirred, values, memories), CInv',
           \E b \in Operated :
              \/ \E v \in Value \ {Null}, d \in Stride \cup {0} : Override(b, v, d)
              \/ AutoAction(b)
              \/ \E v \in Value : EmergencyOverride(b, v)
    PROVE  SInv(place, stirred, values, memories)'
<1>1. PICK b \in Operated :
              \/ \E v \in Value \ {Null}, d \in Stride \cup {0} : Override(b, v, d)
              \/ AutoAction(b)
              \/ \E v \in Value : EmergencyOverride(b, v)
  OBVIOUS
<1>2. b \in Writable /\ IInv /\ Null \in Value
  BY NetAssumption DEF SInv, CInv
<1>3. PICK v \in Value, s \in {Operator, Emergency} :
         AtRest /\ Propagate(b, [input[b] EXCEPT ![s] = v])
  BY <1>1, <1>2 DEF Override, AutoAction, EmergencyOverride
<1> DEFINE i == [input[b] EXCEPT ![s] = v]
<1>4. i \in Inputs /\ Undisturbed(b, i)
  BY <1>2, OperatorLevels
<1>5. UNCHANGED <<policy, startVars, late, now, target>>
  BY <1>1 DEF Override, AutoAction, EmergencyOverride, clockVars
<1>6. \A u \in timers' : u \in timers \/ (u.tag = "expiry" /\ u.block = b)
  <2>1. CASE \E x \in Value \ {Null}, d \in Stride \cup {0} : Override(b, x, d)
    <3>1. PICK d, tie : timers' = (timers \ Expiries(b)) \cup ExpiryTimers(b, d, tie)
      BY <2>1 DEF Override
    <3>2. \A u \in ExpiryTimers(b, d, tie) : u.tag = "expiry" /\ u.block = b
      BY DEF ExpiryTimers
    <3> QED BY <3>1, <3>2
  <2>2. CASE AutoAction(b) \/ \E x \in Value : EmergencyOverride(b, x)
    BY <2>2 DEF AutoAction, EmergencyOverride, clockVars
  <2> QED BY <2>1, <2>2, <1>1
<1> HIDE DEF i
<1> QED BY <1>2, <1>3, <1>4, <1>5, <1>6, StimulusSamples DEF i

LEMMA WriteSamples ==
    ASSUME NEW place, NEW stirred, NEW values, NEW memories,
           Sampling(place, stirred, values, memories),
           SInv(place, stirred, values, memories), CInv',
           \E b \in Point, v \in Value \ {Null} : WriteEarly(b, v) \/ Write(b, v)
    PROVE  SInv(place, stirred, values, memories)'
<1>1. PICK b \in Point, v \in Value : WriteEarly(b, v) \/ Write(b, v)
  OBVIOUS
<1> DEFINE i == [input[b] EXCEPT ![Input] = v]
<1>2. /\ b \in Writable /\ b \in Block /\ input \in [Block -> Inputs] /\ Input \in Slot
      /\ IInv /\ now \in 0..Horizon
  BY NetAssumption DEF SInv, CInv, IInv, TypeOK
<1>3. i \in Inputs /\ Undisturbed(b, i)
  <2>1. \A w \in Wire : w.target # b
    BY NetAssumption
  <2> QED BY <2>1, <1>2 DEF Inputs, Undisturbed
<1>4. CASE Write(b, v)
  <2>1. /\ AtRest /\ Propagate(b, i) /\ UNCHANGED <<policy, startVars, late, now, target, timers>>
    BY <1>4 DEF Write, clockVars
  <2> HIDE DEF i
  <2> QED BY <2>1, <1>2, <1>3, StimulusSamples
<1>5. CASE WriteEarly(b, v)
  <2>1. /\ phase = "new" /\ phase' = "new" /\ UNCHANGED <<output, memory>>
        /\ UNCHANGED <<policy, late, remaining, dirty, timers, now>>
        /\ input' = [input EXCEPT ![b] = i]
    BY <1>5 DEF WriteEarly, startVars, clockVars
  <2>2. Stands(place, stirred)'
    BY <2>1 DEF Stands, Finished
  <2> HIDE DEF i
  <2> QED BY <2>1, <2>2, <1>2, <1>3, OtherSamples
<1> QED BY <1>1, <1>4, <1>5

LEMMA ExpireSamples ==
    ASSUME NEW place, NEW stirred, NEW values, NEW memories,
           Sampling(place, stirred, values, memories),
           SInv(place, stirred, values, memories), CInv',
           NEW t \in timers, Expire(t)
    PROVE  SInv(place, stirred, values, memories)'
<1> DEFINE b == t.block
           i == [input[t.block] EXCEPT ![Operator] = Null]
<1>1. /\ phase = "advance" /\ phase' = phase /\ IsNext(t) /\ t.tag = "expiry"
      /\ now' = Later(t.due) /\ Execute(b, i, now') /\ input' = [input EXCEPT ![b] = i]
      /\ timers' = timers \ {t}
      /\ UNCHANGED <<policy, late, remaining, dirty, target>>
  BY DEF Expire, OnTimer, startVars
<1>2. /\ CInv /\ IInv /\ Carries(values, memories) /\ Stands(place, stirred)
      /\ input \in [Block -> Inputs] /\ now' \in 0..Horizon
  BY DEF SInv, CInv, IInv, TypeOK
<1>3. b \in Writable /\ b \in Block /\ b \notin Resampling
  BY <1>1, <1>2, Samplers, NetAssumption DEF IInv, Expiring
<1>4. i \in Inputs /\ Undisturbed(b, i)
  <2>1. Null \in Value /\ Operator \in Slot
    BY NetAssumption
  <2>2. \A w \in Wire : w.target = b => w.slot # Operator /\ w.slot \in Slot
    BY <1>3, NetAssumption
  <2> QED BY <2>1, <2>2, <1>2, <1>3 DEF Inputs, Undisturbed
<1>5. now' = now \/ late = <<>>
  BY <1>1, <1>2, TimerType DEF IsNext, Later
<1>6. Stands(place, stirred)'
  <2> SUFFICES ASSUME NEW c \in Resampling, Finished(c)' PROVE FALSE
    BY DEF Stands
  <2>1. Members(late)' = Members(late) /\ c # t.block
    BY <1>1, <1>3 DEF Members
  <2> QED BY <2>1, <1>1, <1>2, NoneFinished
<1> HIDE DEF b, i
<1>7. i \in Fed(b, values)
  BY <1>1, <1>2, <1>3, <1>4, StillFed
<1> QED BY <1>1, <1>2, <1>3, <1>4, <1>5, <1>6, <1>7, OtherSamples

-----------------------------------------------------------------------------
LEMMA StepSamples ==
    ASSUME NEW place, NEW stirred, NEW values, NEW memories,
           Sampling(place, stirred, values, memories),
           SInv(place, stirred, values, memories), [Next]_vars
    PROVE  SInv(place, stirred, values, memories)'
<1>1. CInv'
  BY StepIInv, StepCInv DEF SInv, CInv
<1>2. CASE Engine
  BY <1>1, <1>2, DeliverSamples, PassSamples, SettleSamples, ClockSamples, TickSamples,
     ExpireSamples, ResampleSamples
  DEF Engine
<1>3. CASE Environment
  BY <1>1, <1>3, StartSamples, ClockSamples, WriteSamples, OperatorSamples DEF Environment
<1>4. CASE UNCHANGED vars
  <2>1. Members(late)' = Members(late) /\ Members(remaining)' = Members(remaining)
        /\ Members(work)' = Members(work)
    BY <1>4 DEF vars, startVars, clockVars, Members
  <2> QED BY <1>1, <1>4, <2>1
      DEF vars, netVars, startVars, clockVars, SInv, Tied, Carries, Owed, Took, InTurn, Stands,
          Finished, Sampled, Result, Remembered
<1> QED BY <1>2, <1>3, <1>4 DEF Next

(* SamplesSettled: when the clock stops at an instant at which a sampling  *)
(* block ticked, it has sampled the settled value of its input, wherever   *)
(* first and second samples are taken in the order of the links between    *)
(* sampling blocks (kernels.py and blocks.py, the late timers).            *)
THEOREM SettledSamples ==
    ASSUME NEW place, NEW stirred, NEW values, NEW memories,
           Sampling(place, stirred, values, memories)
    PROVE  Spec => SamplesSettled
<1> DEFINE Samples == SInv(place, stirred, values, memories)
<1>1. Init => Samples
  BY InitSamples
<1>2. Samples /\ [Next]_vars => Samples'
  BY StepSamples
<1>3. Samples /\ [Next]_vars =>
        [AdvanceDone => \A b \in Resampling : target % Period[b] = 0 => Sampled(b)]_vars
  <2> SUFFICES ASSUME Samples, AdvanceDone, NEW b \in Resampling, target % Period[b] = 0
               PROVE  Sampled(b)
    OBVIOUS
  <2>1. /\ phase = "advance" /\ late = <<>> /\ \A t \in timers : t.due > target
        /\ CInv /\ Stands(place, stirred)
    BY DEF AdvanceDone, SInv
  <2>2. now \in Nat /\ target \in Nat /\ now <= target /\ \A t \in timers : t.due \in Nat
    BY <2>1, TimerType DEF CInv, Due
  <2>3. CASE now < target
    BY <2>1, <2>2, <2>3, TickBefore
  <2>4. CASE now = target
    <3>1. Finished(b)
      BY <2>1, <2>4, MembersEmpty, <2>2 DEF Finished
    <3> QED BY <3>1, <2>1 DEF Stands
  <2> QED BY <2>2, <2>3, <2>4
<1> HIDE DEF Samples
<1> QED BY <1>1, <1>2, <1>3, PTL DEF Spec, SamplesSettled
=============================================================================
