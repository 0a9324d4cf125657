---------------------------- MODULE ShadowBlocks ----------------------------
(***************************************************************************)
(* What blocks of the shadow runtime compute (niagara/shadow/blocks.py,    *)
(* kernels.py), for truth values.  A slot holds a value or Null; of the    *)
(* other status flags none changes what a block computes.                  *)
(*                                                                         *)
(* A block with a memory is a pair of operators, of its inputs, its memory *)
(* and the clock: the next memory, and the output that goes with it.  The  *)
(* memory of all kinds is [held, staged, index]; index is the last sample  *)
(* instant, None before the first.                                         *)
(***************************************************************************)
EXTENDS Integers

CONSTANT Null

None == -1

-----------------------------------------------------------------------------
(* Writable points: the highest level with a value wins.                   *)

Levels == <<"in1", "in8", "in16">>    \* the levels that are written

PointOut(i, fallback) ==
    LET set == {l \in 1..3 : i[Levels[l]] # Null}
    IN  IF set = {} THEN fallback
        ELSE i[Levels[CHOOSE l \in set : \A k \in set : l <= k]]

(* Gates ignore inputs that are null. *)
Present(i) == {s \in {"inA", "inB"} : i[s] # Null}
High(i) == {s \in Present(i) : i[s]}

AndOut(i) == IF Present(i) = {} THEN Null ELSE High(i) = Present(i)
OrOut(i)  == IF Present(i) = {} THEN Null ELSE High(i) # {}
NotOut(i) == IF i["inA"] = Null THEN Null ELSE ~i["inA"]

-----------------------------------------------------------------------------
(* A latch copies its input on the rising edge of its clock, inB; staged   *)
(* is whether the clock was high.                                          *)

Rising(i, m) == i["inB"] = TRUE /\ m.staged = FALSE
LatchNext(i, m) == [m EXCEPT !.held = IF Rising(i, m) THEN i["inA"] ELSE @,
                             !.staged = i["inB"] = TRUE]

-----------------------------------------------------------------------------
(* Kernels of module blocks, which step at time t with a sample period.    *)

Edge(t, period) == t % period = 0
Sample(t, period) == t \div period

(* The previous input. *)
PreStep(v, m) == [m EXCEPT !.held = m.staged, !.staged = v]

(* The input of the last sample instant; at the instant the last input.    *)
SamplerStep(v, m, t, period) ==
    LET k == Sample(t, period) IN
    [m EXCEPT !.held = IF m.index = None \/ k > m.index \/ Edge(t, period) THEN v ELSE @,
              !.index = k]

(* The input of the sample instant before that. *)
UnitDelayStep(v, m, t, period) ==
    LET k == Sample(t, period)
        later == m.index # None /\ k > m.index
    IN  [held   |-> IF later THEN m.staged ELSE m.held,
         staged |-> IF later \/ Edge(t, period) THEN v ELSE m.staged,
         index  |-> k]

(* A module block with an input that is not valid does not step. *)
ModuleNext(step, i, m) == IF i["inA"] = Null THEN m ELSE step
ModuleOut(i, next) == IF i["inA"] = Null THEN Null ELSE next.held
=============================================================================
