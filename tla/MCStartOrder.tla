---------------------------- MODULE MCStartOrder ----------------------------
(* Every network of a few blocks.                                          *)
EXTENDS StartOrder, TLC

CONSTANT N              \* how many blocks

Blocks == 1..N
InOrder == [i \in Blocks |-> i]

Targets == {SelectSeq(InOrder, LAMBDA b : b \in S) : S \in SUBSET Blocks}
Networks == [delays : SUBSET Blocks, next : [Blocks -> Targets]]
=============================================================================
