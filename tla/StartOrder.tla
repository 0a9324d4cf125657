----------------------------- MODULE StartOrder -----------------------------
(***************************************************************************)
(* The order in which the blocks of a network execute for the first time   *)
(* and in which timers due together fire (_topological_order of            *)
(* niagara/shadow/engine.py): depth-first search along the links, from     *)
(* delays first, then from blocks nothing drives, then from the rest; a    *)
(* block precedes what the search finished before it.                      *)
(***************************************************************************)
EXTENDS Integers, Sequences

CONSTANTS
    Block,
    Document,       \* the blocks in document order
    Network         \* networks: [delays : SUBSET Block, next : [Block -> Seq(Block)]]

ASSUME DocumentAssumption ==
    Document \in Seq(Block) /\ {Document[i] : i \in 1..Len(Document)} = Block
ASSUME NetworkAssumption ==
    Network \subseteq [delays : SUBSET Block, next : [Block -> Seq(Block)]]

VARIABLES
    net,
    roots,          \* where the search has not yet begun
    stack,          \* [block, left], left being the links not followed yet; top first
    state,          \* blocks on the stack are open, finished ones done
    order           \* the finished blocks, the latest first
vars == <<net, roots, stack, state, order>>

Members(s) == {s[i] : i \in 1..Len(s)}
Wires(n) == {w \in Block \X Block : w[2] \in Members(n.next[w[1]])}
Driven(n) == {w[2] : w \in Wires(n)}

\* The blocks of a set in document order.
Of(S) ==
    LET first[i \in 0 .. Len(Document)] ==
            IF i = 0 THEN <<>>
            ELSE IF Document[i] \in S THEN Append(first[i - 1], Document[i])
            ELSE first[i - 1]
    IN  first[Len(Document)]

Roots(n) ==
    Of(n.delays) \o Of(Block \ (n.delays \cup Driven(n))) \o Of(Driven(n) \ n.delays)

Init ==
    /\ net \in Network
    /\ roots = Roots(net)
    /\ stack = <<>>
    /\ state = [b \in Block |-> "new"]
    /\ order = <<>>

Frame(b) == [block |-> b, left |-> net.next[b]]
Top == Head(stack)
Rest == <<[Top EXCEPT !.left = Tail(@)]>> \o Tail(stack)

(* The search begins at the next root unless it has been there. *)
Begin ==
    /\ stack = <<>> /\ roots # <<>>
    /\ roots' = Tail(roots)
    /\ IF state[Head(roots)] = "new"
       THEN /\ stack' = <<Frame(Head(roots))>>
            /\ state' = [state EXCEPT ![Head(roots)] = "open"]
       ELSE UNCHANGED <<stack, state>>
    /\ UNCHANGED <<net, order>>

(* The search follows the next link of the block it is at. *)
Follow ==
    /\ stack # <<>> /\ Top.left # <<>>
    /\ LET c == Head(Top.left) IN
       IF state[c] = "new"
       THEN /\ stack' = <<Frame(c)>> \o Rest
            /\ state' = [state EXCEPT ![c] = "open"]
       ELSE stack' = Rest /\ UNCHANGED state
    /\ UNCHANGED <<net, roots, order>>

(* Mutant: the list is not reversed in the end. *)
FinishLast ==
    /\ stack # <<>> /\ Top.left = <<>>
    /\ stack' = Tail(stack)
    /\ state' = [state EXCEPT ![Top.block] = "done"]
    /\ order' = Append(order, Top.block)
    /\ UNCHANGED <<net, roots>>

Finish ==
    /\ stack # <<>> /\ Top.left = <<>>
    /\ stack' = Tail(stack)
    /\ state' = [state EXCEPT ![Top.block] = "done"]
    /\ order' = <<Top.block>> \o order
    /\ UNCHANGED <<net, roots>>

Next == Begin \/ Follow \/ Finish

Spec == Init /\ [][Next]_vars

-----------------------------------------------------------------------------
(* Properties.                                                             *)

TypeOK ==
    /\ net \in Network
    /\ roots \in Seq(Block)
    /\ stack \in Seq([block : Block, left : Seq(Block)])
    /\ state \in [Block -> {"new", "open", "done"}]
    /\ order \in Seq(Block)

Over == roots = <<>> /\ stack = <<>>
Before(b, c) == \E i, j \in 1..Len(order) : i < j /\ order[i] = b /\ order[j] = c
Once(b) == \E i \in 1..Len(order) : {j \in 1..Len(order) : order[j] = b} = {i}

(* c is in every set that holds b and what it drives. *)
Reaches(b, c) ==
    \A S \in SUBSET Block :
        b \in S /\ (\A w \in Wires(net) : w[1] \in S => w[2] \in S) => c \in S

(* Every block has one place in the order, and one that stands before a    *)
(* block that drives it closes a loop with it: on a network without loops  *)
(* sources come first, and on any network back edges are the only links    *)
(* the order ignores.                                                      *)
LoopsOnlyIgnored ==
    Over => /\ \A b \in Block : Once(b)
            /\ \A w \in Wires(net) : Before(w[1], w[2]) \/ Reaches(w[2], w[1])
=============================================================================
