-------------------------- MODULE StartOrder_proofs --------------------------
(***************************************************************************)
(* The start order of any network: every block has one place, and a link   *)
(* whose target comes first closes a loop.                                 *)
(*                                                                         *)
(* The stack of the search is a path, so a link that leads back to a block *)
(* on it closes a loop; a link that leads to a finished block leads to one *)
(* that stands in the order already, and what finishes is put before it.   *)
(***************************************************************************)
EXTENDS StartOrder, SequenceTheorems, FiniteSetTheorems, TLAPS

Frames == 1 .. Len(stack)
Places == 1 .. Len(order)

(* Where the search has not been, it will begin.                           *)
Reached == \A b \in Block : state[b] = "new" => b \in Members(roots)

(* Every open block has one place on the stack.                            *)
Open ==
    /\ \A i \in Frames : state[stack[i].block] = "open"
    /\ \A b \in Block : state[b] = "open" => \E i \in Frames : stack[i].block = b
    /\ \A i, j \in Frames : stack[i].block = stack[j].block => i = j

(* The stack is a path, and what its blocks drive is known or yet to be    *)
(* followed.                                                               *)
Path ==
    /\ \A i, j \in Frames : i <= j => Reaches(stack[j].block, stack[i].block)
    /\ \A i \in Frames : Members(stack[i].left) \subseteq Members(net.next[stack[i].block])
    /\ \A i \in Frames : \A c \in Members(net.next[stack[i].block]) :
            state[c] # "new" \/ c \in Members(stack[i].left)

(* The finished blocks have one place each, and the links out of them are  *)
(* ordered or close loops.                                                 *)
Finished ==
    /\ \A b \in Block : state[b] = "done" <=> b \in Members(order)
    /\ \A i, j \in Places : order[i] = order[j] => i = j
    /\ \A w \in Wires(net) : state[w[1]] = "done" =>
            Before(w[1], w[2]) \/ Reaches(w[2], w[1])

IInv == TypeOK /\ Reached /\ Open /\ Path /\ Finished

-----------------------------------------------------------------------------
(* Sequences: their members, one put in front, one taken away.             *)

LEMMA Cons ==
    ASSUME NEW T, NEW s \in Seq(T), NEW x \in T
    PROVE  /\ <<x>> \o s \in Seq(T) /\ Len(<<x>> \o s) = Len(s) + 1
           /\ (<<x>> \o s)[1] = x
           /\ \A i \in 1 .. Len(s) : (<<x>> \o s)[i + 1] = s[i]
           /\ Members(<<x>> \o s) = {x} \cup Members(s)
<1>1. <<x>> \in Seq(T) /\ Len(<<x>>) = 1 /\ <<x>>[1] = x /\ Len(s) \in Nat
  OBVIOUS
<1> DEFINE r == <<x>> \o s
<1>2. /\ r \in Seq(T) /\ Len(r) = Len(s) + 1
      /\ \A i \in 1 .. Len(r) : r[i] = IF i <= 1 THEN <<x>>[i] ELSE s[i - 1]
  BY <1>1, ConcatProperties
<1>3. r[1] = x /\ \A i \in 1 .. Len(s) : r[i + 1] = s[i]
  BY <1>1, <1>2
<1> HIDE DEF r
<1>4. Members(r) = {x} \cup Members(s)
  <2>1. \A i \in 1 .. Len(r) : i = 1 \/ i - 1 \in 1 .. Len(s)
    BY <1>1, <1>2
  <2>2. \A i \in 1 .. Len(s) : i + 1 \in 1 .. Len(r)
    BY <1>1, <1>2
  <2>3. 1 \in 1 .. Len(r)
    BY <1>1, <1>2
  <2>4. \A y : y \in Members(r) => y \in {x} \cup Members(s)
    BY <1>1, <1>2, <1>3, <2>1 DEF Members
  <2>5. \A y : y \in {x} \cup Members(s) => y \in Members(r)
    BY <1>3, <2>2, <2>3 DEF Members
  <2> QED BY <2>4, <2>5
<1> QED BY <1>2, <1>3, <1>4 DEF r

LEMMA Front ==
    ASSUME NEW T, NEW s \in Seq(T), s # <<>>
    PROVE  /\ Head(s) \in T /\ Tail(s) \in Seq(T)
           /\ Len(s) \in Nat \ {0} /\ Len(Tail(s)) = Len(s) - 1 /\ Head(s) = s[1]
           /\ \A i \in 1 .. Len(Tail(s)) : Tail(s)[i] = s[i + 1]
           /\ Members(s) = {Head(s)} \cup Members(Tail(s))
<1>1. /\ Head(s) \in T /\ Tail(s) \in Seq(T)
      /\ Len(s) \in Nat \ {0} /\ Len(Tail(s)) = Len(s) - 1 /\ Head(s) = s[1]
      /\ \A i \in 1 .. Len(Tail(s)) : Tail(s)[i] = s[i + 1]
  BY HeadTailProperties, EmptySeq
<1>2. \A y : y \in Members(s) => y \in {Head(s)} \cup Members(Tail(s))
  <2>1. \A i \in 1 .. Len(s) : i = 1 \/ (i - 1 \in 1 .. Len(Tail(s)) /\ s[i] = Tail(s)[i - 1])
    BY <1>1
  <2> QED BY <1>1, <2>1 DEF Members
<1>3. \A y : y \in {Head(s)} \cup Members(Tail(s)) => y \in Members(s)
  <2>1. \A i \in 1 .. Len(Tail(s)) : i + 1 \in 1 .. Len(s)
    BY <1>1
  <2> QED BY <1>1, <2>1 DEF Members
<1> QED BY <1>1, <1>2, <1>3

LEMMA Joined ==
    ASSUME NEW T, NEW r \in Seq(T), NEW s \in Seq(T)
    PROVE  r \o s \in Seq(T) /\ Members(r \o s) = Members(r) \cup Members(s)
<1> DEFINE q == r \o s
<1>1. /\ q \in Seq(T) /\ Len(q) = Len(r) + Len(s) /\ Len(r) \in Nat /\ Len(s) \in Nat
      /\ \A i \in 1 .. Len(q) : q[i] = IF i <= Len(r) THEN r[i] ELSE s[i - Len(r)]
  BY ConcatProperties
<1> HIDE DEF q
<1>2. \A i \in 1 .. Len(q) : i \in 1 .. Len(r) \/ i - Len(r) \in 1 .. Len(s)
  BY <1>1
<1>3. \A i \in 1 .. Len(r) : i \in 1 .. Len(q) /\ q[i] = r[i]
  BY <1>1
<1>4. \A i \in 1 .. Len(s) : i + Len(r) \in 1 .. Len(q) /\ q[i + Len(r)] = s[i]
  <2> SUFFICES ASSUME NEW i \in 1 .. Len(s)
               PROVE  i + Len(r) \in 1 .. Len(q) /\ q[i + Len(r)] = s[i]
    OBVIOUS
  <2>1. i + Len(r) \in 1 .. Len(q) /\ ~(i + Len(r) <= Len(r)) /\ (i + Len(r)) - Len(r) = i
    BY <1>1
  <2> QED BY <1>1, <2>1
<1>5. ASSUME NEW y, y \in Members(q) PROVE y \in Members(r) \cup Members(s)
  <2>1. PICK i \in 1 .. Len(q) : y = q[i]
    BY <1>5 DEF Members
  <2>2. CASE i \in 1 .. Len(r)
    BY <1>3, <2>1, <2>2 DEF Members
  <2>3. CASE i - Len(r) \in 1 .. Len(s)
    <3>1. (i - Len(r)) + Len(r) = i
      BY <1>1
    <3>2. y = s[i - Len(r)]
      BY <1>4, <2>1, <2>3, <3>1
    <3> QED BY <2>3, <3>2 DEF Members
  <2> QED BY <1>2, <2>2, <2>3
<1>6. \A y : y \in Members(r) \cup Members(s) => y \in Members(q)
  BY <1>3, <1>4 DEF Members
<1> QED BY <1>1, <1>5, <1>6 DEF q

-----------------------------------------------------------------------------
(* Induction, as the least counterexample.                                 *)

LEMMA Least ==
    ASSUME NEW T \in SUBSET Nat, NEW n \in T
    PROVE  \E m \in T : \A k \in T : m <= k
<1> DEFINE R == StrictSubsetOrdering(Nat)
           W == {0 .. k : k \in T}
<1>1. IsWellFoundedOn(R, FiniteSubsetsOf(Nat))
  BY FS_StrictSubsetOrderingWellFounded
<1>2. W \subseteq FiniteSubsetsOf(Nat) /\ W # {}
  <2>1. \A k \in T : IsFiniteSet(0 .. k) /\ 0 .. k \subseteq Nat
    BY FS_Interval
  <2> QED BY <2>1 DEF FiniteSubsetsOf
<1> HIDE DEF W, R
<1>3. PICK x \in W : \A y \in W : ~(<<y, x>> \in R)
  BY <1>1, <1>2, WFMin
<1>4. PICK m \in T : x = 0 .. m
  BY <1>3 DEF W
<1>5. \A k \in T : m <= k
  <2> SUFFICES ASSUME NEW k \in T, k < m PROVE FALSE
    OBVIOUS
  <2>1. 0 .. k \in W
    BY DEF W
  <2>2. 0 .. k \subseteq 0 .. m /\ 0 .. k # 0 .. m
    BY m \in 0 .. m, m \notin 0 .. k
  <2>3. <<0 .. k, 0 .. m>> \in R
    BY <2>2 DEF R, StrictSubsetOrdering
  <2> QED BY <1>3, <1>4, <2>1, <2>3
<1> QED BY <1>5

(* The recursive function of Of exists, and collects what it should.       *)
LEMMA Collected ==
    ASSUME NEW S
    PROVE  Of(S) \in Seq(Block) /\ Members(Of(S)) = Block \cap S
<1> DEFINE N == Len(Document)
           def(f, i) == IF i = 0 THEN <<>>
                        ELSE IF Document[i] \in S THEN Append(f[i - 1], Document[i])
                        ELSE f[i - 1]
           Defines(f, n) == f = [i \in 0 .. n |-> def(f, i)]
           Seen(n) == {Document[i] : i \in 1 .. n} \cap S
           after == CHOOSE f : Defines(f, N)
<1>1. /\ N \in Nat /\ \A i \in 1 .. N : Document[i] \in Block
      /\ {Document[i] : i \in 1 .. N} = Block
  BY DocumentAssumption, LenProperties, ElementOfSeq
<1>2. Of(S) = after[N]
  BY DEF Of
<1>3. \A n \in Nat : \E f : Defines(f, n)
  <2> DEFINE Bad == {n \in Nat : ~\E f : Defines(f, n)}
  <2> HIDE DEF Defines
  <2> SUFFICES ASSUME NEW n \in Bad PROVE FALSE
    OBVIOUS
  <2>1. PICK m \in Bad : \A k \in Bad : m <= k
    BY Least
  <2>2. CASE m = 0
    <3>1. Defines([i \in 0 .. 0 |-> <<>>], 0)
      BY DEF Defines
    <3> QED BY <2>1, <2>2, <3>1
  <2>3. CASE m # 0
    <3>1. m - 1 \in Nat /\ m - 1 \notin Bad
      BY <2>1, <2>3
    <3>2. PICK f : Defines(f, m - 1)
      BY <3>1
    <3> DEFINE g == [i \in 0 .. m |-> IF i = m THEN def(f, m) ELSE f[i]]
    <3>3. \A i \in 0 .. m : i # 0 => i - 1 \in 0 .. m /\ i - 1 # m
      BY <3>1
    <3>4. \A i \in 0 .. m : i # 0 => g[i - 1] = f[i - 1]
      BY <3>3
    <3>5. \A i \in 0 .. m : i # m => f[i] = def(f, i)
      <4> HIDE DEF def
      <4>1. f = [i \in 0 .. m - 1 |-> def(f, i)]
        BY <3>2 DEF Defines
      <4>2. \A i \in 0 .. m : i # m => i \in 0 .. m - 1
        BY <3>1
      <4>3. \A i \in 0 .. m - 1 : f[i] = def(f, i)
        BY <4>1
      <4> QED BY <4>2, <4>3
    <3>6. \A i \in 0 .. m : g[i] = def(g, i)
      BY <3>4, <3>5
    <3> HIDE DEF def
    <3>7. Defines(g, m)
      <4>1. g = [i \in 0 .. m |-> g[i]]
        OBVIOUS
      <4> HIDE DEF g
      <4> QED BY <3>6, <4>1 DEF Defines
    <3> QED BY <2>1, <3>7
  <2> QED BY <2>2, <2>3
<1>4. Defines(after, N)
  <2> HIDE DEF Defines
  <2> QED BY <1>1, <1>3
<1> HIDE DEF after, N
<1>5. /\ after[0] = <<>>
      /\ \A i \in 1 .. N : after[i] = IF Document[i] \in S THEN Append(after[i - 1], Document[i])
                                                          ELSE after[i - 1]
  <2> HIDE DEF def
  <2>1. \A i \in 0 .. N : after[i] = def(after, i)
    BY <1>4 DEF Defines
  <2>2. 0 \in 0 .. N /\ \A i \in 1 .. N : i \in 0 .. N /\ i # 0
    BY <1>1
  <2> QED BY <2>1, <2>2 DEF def
<1> HIDE DEF Defines, def
<1>6. \A n \in 0 .. N : after[n] \in Seq(Block) /\ Members(after[n]) = Seen(n)
  <2> DEFINE Good(n) == after[n] \in Seq(Block) /\ Members(after[n]) = Seen(n)
             Bad == {n \in Nat : n <= N /\ ~Good(n)}
  <2> SUFFICES \A n \in 0 .. N : Good(n)
    OBVIOUS
  <2> HIDE DEF Good
  <2> SUFFICES ASSUME NEW n \in Bad PROVE FALSE
    BY <1>1
  <2>1. PICK m \in Bad : \A k \in Bad : m <= k
    BY Least
  <2>2. CASE m = 0
    <3>1. Good(0)
      BY <1>5 DEF Members, Good
    <3> QED BY <2>1, <2>2, <3>1
  <2>3. CASE m # 0
    <3>1. m \in 1 .. N /\ m - 1 \in Nat /\ m - 1 \notin Bad
      BY <1>1, <2>1, <2>3
    <3>2. after[m - 1] \in Seq(Block) /\ Members(after[m - 1]) = Seen(m - 1)
      BY <1>1, <3>1 DEF Good
    <3>3. Seen(m) = Seen(m - 1) \cup ({Document[m]} \cap S)
      <4>1. \A i : i \in 1 .. m <=> i \in 1 .. m - 1 \/ i = m
        BY <3>1
      <4> QED BY <4>1
    <3>4. CASE Document[m] \in S
      <4> DEFINE s == after[m - 1]
                 d == Document[m]
      <4>1. d \in Block /\ after[m] = Append(s, d)
        BY <1>1, <1>5, <3>1, <3>4
      <4> HIDE DEF s, d
      <4>2. s \in Seq(Block) /\ Members(s) = Seen(m - 1)
        BY <3>2 DEF s
      <4> DEFINE r == <<d>>
      <4>3. after[m] = s \o r /\ r \in Seq(Block)
        BY <4>1, <4>2, AppendIsConcat
      <4>4. Members(r) = {d}
        BY DEF Members
      <4> HIDE DEF r
      <4>5. after[m] \in Seq(Block) /\ Members(after[m]) = Members(s) \cup {d}
        BY <4>2, <4>3, <4>4, Joined
      <4>6. Seen(m) = Seen(m - 1) \cup {d}
        BY <3>3, <3>4 DEF d
      <4> HIDE DEF Seen
      <4>7. Good(m)
        BY <4>2, <4>5, <4>6 DEF Good
      <4> QED BY <2>1, <4>7
    <3>5. CASE Document[m] \notin S
      <4>1. Good(m)
        <5>1. after[m] = after[m - 1]
          BY <1>5, <3>1, <3>5
        <5>2. Seen(m) = Seen(m - 1)
          BY <3>3, <3>5
        <5> HIDE DEF Seen
        <5> QED BY <3>2, <5>1, <5>2 DEF Good
      <4> QED BY <2>1, <4>1
    <3> QED BY <3>4, <3>5
  <2> QED BY <2>2, <2>3
<1>7. Seen(N) = Block \cap S
  BY <1>1
<1> HIDE DEF Seen
<1>8. after[N] \in Seq(Block) /\ Members(after[N]) = Seen(N)
  BY <1>1, <1>6
<1> QED BY <1>2, <1>7, <1>8

-----------------------------------------------------------------------------
(* The invariant holds initially and is kept.                              *)

LEMMA ReachesSelf == \A b \in Block : Reaches(b, b)
BY DEF Reaches

LEMMA ReachesNext == \A w \in Wires(net) : Reaches(w[1], w[2])
BY DEF Reaches

LEMMA ReachesOn ==
    ASSUME NEW a, NEW b, NEW c, Reaches(a, b), Reaches(b, c)
    PROVE  Reaches(a, c)
BY DEF Reaches

LEMMA InitIInv == Init => IInv
<1> SUFFICES ASSUME Init PROVE IInv
  OBVIOUS
<1>1. net \in Network /\ net.delays \in SUBSET Block
      /\ stack = <<>> /\ order = <<>> /\ state = [b \in Block |-> "new"]
  BY NetworkAssumption DEF Init
<1>2. roots \in Seq(Block) /\ Members(roots) = Block
  <2> DEFINE first == Of(net.delays)
             second == Of(Block \ (net.delays \cup Driven(net)))
             third == Of(Driven(net) \ net.delays)
  <2>1. /\ first \in Seq(Block) /\ Members(first) = Block \cap net.delays
        /\ second \in Seq(Block)
        /\ Members(second) = Block \cap (Block \ (net.delays \cup Driven(net)))
        /\ third \in Seq(Block) /\ Members(third) = Block \cap (Driven(net) \ net.delays)
    BY Collected
  <2>2. roots = first \o second \o third
    BY DEF Init, Roots
  <2> HIDE DEF first, second, third
  <2>3. first \o second \in Seq(Block)
        /\ Members(first \o second) = Members(first) \cup Members(second)
    BY <2>1, Joined
  <2>4. roots \in Seq(Block) /\ Members(roots) = Members(first \o second) \cup Members(third)
    <3> DEFINE both == first \o second
    <3>1. both \in Seq(Block) /\ third \in Seq(Block) /\ roots = both \o third
      BY <2>1, <2>2, <2>3
    <3> HIDE DEF both
    <3>2. both \o third \in Seq(Block) /\ Members(both \o third) = Members(both) \cup Members(third)
      BY <3>1, Joined
    <3> QED BY <3>1, <3>2 DEF both
  <2> QED BY <2>1, <2>3, <2>4
<1>3. Len(stack) = 0 /\ Len(order) = 0 /\ stack \in Seq([block : Block, left : Seq(Block)])
      /\ order \in Seq(Block)
  BY <1>1, EmptySeq
<1>4. TypeOK
  BY <1>1, <1>2, <1>3 DEF TypeOK
<1>5. Reached /\ Open /\ Path /\ Finished
  <2>1. Frames = {} /\ Places = {} /\ Members(order) = {}
    BY <1>3 DEF Frames, Places, Members
  <2>2. \A w \in Wires(net) : w[1] \in Block
    BY DEF Wires
  <2> QED BY <1>1, <1>2, <2>1, <2>2 DEF Reached, Open, Path, Finished
<1> QED BY <1>4, <1>5 DEF IInv

(* A block that is entered is put on the stack s, whose top links to it    *)
(* or which is empty.                                                      *)
LEMMA Entered ==
    ASSUME TypeOK, Finished, NEW c \in Block, state[c] = "new",
           NEW s \in Seq([block : Block, left : Seq(Block)]),
           stack' = <<Frame(c)>> \o s, state' = [state EXCEPT ![c] = "open"],
           UNCHANGED <<net, order>>, roots' \in Seq(Block), Len(s) = Len(stack),
           \A i \in Frames : s[i].block = stack[i].block
                             /\ Members(s[i].left) \subseteq Members(net.next[s[i].block]),
           \A i \in Frames : Reaches(stack[i].block, c),
           \A i \in Frames : \A d \in Members(net.next[s[i].block]) :
                state[d] # "new" \/ d \in Members(s[i].left) \cup {c},
           Open, Path
    PROVE  TypeOK' /\ Open' /\ Path' /\ Finished' /\ \A b \in Block : state'[b] = "new" => state[b] = "new"
<1> DEFINE Record == [block : Block, left : Seq(Block)]
           n == Len(stack)
<1>1. /\ net.next \in [Block -> Seq(Block)] /\ n \in Nat
      /\ stack \in Seq(Record) /\ state \in [Block -> {"new", "open", "done"}]
  BY NetworkAssumption DEF TypeOK
<1>2. /\ Frame(c) \in Record /\ Frame(c).block = c /\ Frame(c).left = net.next[c]
  BY <1>1 DEF Frame
<1> HIDE DEF Record
<1>3. /\ stack' \in Seq(Record) /\ Len(stack') = n + 1 /\ stack'[1] = Frame(c)
      /\ \A i \in 1 .. n : stack'[i + 1] = s[i]
  BY <1>2, Cons DEF Record
<1>4. Frames' = 1 .. n + 1
  BY <1>3 DEF Frames
<1>5. \A i \in Frames' : i = 1 \/ (i - 1 \in Frames /\ stack'[i] = s[i - 1])
  <2> SUFFICES ASSUME NEW i \in 1 .. n + 1, i # 1
               PROVE  i - 1 \in 1 .. n /\ stack'[i] = s[i - 1]
    BY <1>4 DEF Frames
  <2>1. i - 1 \in 1 .. n /\ (i - 1) + 1 = i
    BY <1>1
  <2> QED BY <1>3, <2>1
<1>6. /\ stack'[1].block = c /\ stack'[1].left = net.next[c] /\ 1 \in Frames'
      /\ \A i \in Frames' : i # 1 =>
            /\ i - 1 \in Frames /\ stack'[i] = s[i - 1]
            /\ stack'[i].block = stack[i - 1].block
  <2>1. 1 \in Frames'
    BY <1>1, <1>4
  <2>2. ASSUME NEW i \in Frames', i # 1
        PROVE  /\ i - 1 \in Frames /\ stack'[i] = s[i - 1]
               /\ stack'[i].block = stack[i - 1].block
    <3>1. i - 1 \in Frames /\ stack'[i] = s[i - 1]
      BY <1>5, <2>2
    <3>2. s[i - 1].block = stack[i - 1].block
      BY <3>1
    <3> QED BY <3>1, <3>2
  <2> QED BY <1>2, <1>3, <2>1, <2>2
<1>7. /\ state' \in [Block -> {"new", "open", "done"}] /\ state'[c] = "open"
      /\ \A b \in Block : b # c => state'[b] = state[b]
  BY <1>1
<1>8. \A i \in Frames : stack[i].block \in Block /\ stack[i].block # c
  <2>1. \A i \in Frames : stack[i] \in Record
    BY <1>1, ElementOfSeq DEF Frames
  <2>2. \A i \in Frames : stack[i].block \in Block
    BY <2>1 DEF Record
  <2> QED BY <2>2 DEF Open
<1>9. Open'
  <2>1. ASSUME NEW i \in Frames'
        PROVE  state'[stack'[i].block] = "open"
    <3>1. CASE i = 1
      BY <1>6, <1>7, <3>1
    <3>2. CASE i # 1
      <4>1. i - 1 \in Frames /\ stack'[i].block = stack[i - 1].block
        BY <1>6, <3>2
      <4>2. state[stack[i - 1].block] = "open" /\ stack[i - 1].block # c
        BY <1>8, <4>1 DEF Open
      <4>3. stack[i - 1].block \in Block
        BY <1>8, <4>1
      <4>4. state'[stack[i - 1].block] = "open"
        BY <1>7, <4>2, <4>3
      <4> QED BY <4>1, <4>4
    <3> QED BY <3>1, <3>2
  <2>2. ASSUME NEW b \in Block, state'[b] = "open"
        PROVE  \E i \in Frames' : stack'[i].block = b
    <3>1. CASE b = c
      BY <1>6, <3>1
    <3>2. CASE b # c
      <4>1. PICK i \in Frames : stack[i].block = b
        BY <1>7, <2>2, <3>2 DEF Open
      <4>2. i + 1 \in Frames' /\ i + 1 # 1 /\ (i + 1) - 1 = i
        BY <1>1, <1>4, <4>1 DEF Frames
      <4> QED BY <1>6, <4>1, <4>2
    <3> QED BY <3>1, <3>2
  <2>3. ASSUME NEW i \in Frames', NEW j \in Frames', stack'[i].block = stack'[j].block
        PROVE  i = j
    <3> DEFINE at(k) == stack[k - 1].block
    <3>0. \A k \in Frames' : k # 1 => k - 1 \in Frames /\ stack'[k].block = at(k) /\ at(k) # c
      BY <1>6, <1>8
    <3>1. CASE i = 1 \/ j = 1
      <4> HIDE DEF at
      <4>1. stack'[1].block = c /\ \A k \in Frames' : k # 1 => stack'[k].block # c
        BY <1>6, <3>0
      <4> QED BY <2>3, <3>1, <4>1
    <3>2. CASE i # 1 /\ j # 1
      <4>0. at(i) = at(j) /\ i - 1 \in Frames /\ j - 1 \in Frames
        <5> HIDE DEF at
        <5> QED BY <2>3, <3>0, <3>2
      <4>1. i - 1 = j - 1
        BY <4>0 DEF Open
      <4> QED BY <1>1, <1>4, <4>1
    <3> QED BY <3>1, <3>2
  <2> QED BY <2>1, <2>2, <2>3 DEF Open
<1>10. Path'
  <2>1. ASSUME NEW i \in Frames', NEW j \in Frames', i <= j
        PROVE  Reaches(stack'[j].block, stack'[i].block)
    <3>1. CASE i = 1 /\ j = 1
      BY <1>6, <3>1, ReachesSelf
    <3>2. CASE i = 1 /\ j # 1
      BY <1>6, <3>2
    <3>3. CASE i # 1
      <4>1. j # 1 /\ i - 1 <= j - 1
        BY <1>1, <1>4, <2>1, <3>3
      <4> QED BY <1>6, <3>3, <4>1 DEF Path
    <3> QED BY <3>1, <3>2, <3>3
  <2>2. \A i \in Frames' : Members(stack'[i].left) \subseteq Members(net.next[stack'[i].block])
    BY <1>6
  <2>3. ASSUME NEW i \in Frames', NEW d \in Members(net.next[stack'[i].block])
        PROVE  state'[d] # "new" \/ d \in Members(stack'[i].left)
    <3>1. CASE i = 1
      BY <1>6, <2>3, <3>1
    <3>2. CASE i # 1
      <4>1. d \in Block
        <5>1. stack'[i].block \in Block
          BY <1>6, <1>8, <3>2
        <5>2. net.next[stack'[i].block] \in Seq(Block)
          BY <1>1, <5>1
        <5> DEFINE q == net.next[stack'[i].block]
        <5>3. q \in Seq(Block) /\ d \in Members(q)
          BY <2>3, <5>2
        <5> HIDE DEF q
        <5>4. PICK at \in 1 .. Len(q) : d = q[at]
          BY <5>3 DEF Members
        <5> QED BY <5>3, <5>4, ElementOfSeq
      <4>2. state[d] # "new" \/ d \in Members(s[i - 1].left) \cup {c}
        BY <1>6, <2>3, <3>2
      <4> QED BY <1>6, <1>7, <3>2, <4>1, <4>2
    <3> QED BY <3>1, <3>2
  <2>4. \A a, b : Reaches(a, b)' <=> Reaches(a, b)
    BY DEF Reaches, Wires
  <2> QED BY <2>1, <2>2, <2>3, <2>4 DEF Path
<1>11. Finished'
  <2>1. \A a, b : (Reaches(a, b)' <=> Reaches(a, b)) /\ (Before(a, b)' <=> Before(a, b))
    BY DEF Reaches, Wires, Before
  <2>2. Wires(net)' = Wires(net) /\ \A w \in Wires(net) : w[1] \in Block
    BY DEF Wires
  <2>3. \A b \in Block : state'[b] = "done" <=> state[b] = "done"
    BY <1>7
  <2> QED BY <2>1, <2>2, <2>3 DEF Finished, Places
<1>12. TypeOK'
  BY <1>3, <1>7 DEF TypeOK, Record
<1> QED BY <1>7, <1>9, <1>10, <1>11, <1>12

(* Passing a link changes the frame at the top, and only what is left in   *)
(* it.                                                                     *)
LEMMA Passed ==
    ASSUME TypeOK, Path, stack # <<>>, Top.left # <<>>
    PROVE  /\ Head(Top.left) \in Block
           /\ Rest \in Seq([block : Block, left : Seq(Block)]) /\ Len(Rest) = Len(stack)
           /\ \A i \in Frames : Rest[i].block = stack[i].block
                                /\ Members(Rest[i].left) \subseteq Members(net.next[Rest[i].block])
           /\ \A i \in Frames : Reaches(stack[i].block, Head(Top.left))
           /\ \A i \in Frames : \A d \in Members(net.next[Rest[i].block]) :
                state[d] # "new" \/ d \in Members(Rest[i].left) \cup {Head(Top.left)}
<1> DEFINE Record == [block : Block, left : Seq(Block)]
           n == Len(stack)
           c == Head(Top.left)
           t == Tail(Top.left)
           f == [Top EXCEPT !.left = t]
<1>1. stack \in Seq(Record) /\ net.next \in [Block -> Seq(Block)]
  BY NetworkAssumption DEF TypeOK
<1> HIDE DEF Record
<1>2. /\ Top \in Record /\ Top = stack[1] /\ Tail(stack) \in Seq(Record)
      /\ n \in Nat \ {0} /\ Len(Tail(stack)) = n - 1
      /\ \A i \in 1 .. Len(Tail(stack)) : Tail(stack)[i] = stack[i + 1]
  BY <1>1, Front DEF Top
<1>3. Top.left \in Seq(Block) /\ Top.block \in Block
  BY <1>2 DEF Record
<1>4. /\ c \in Block /\ t \in Seq(Block) /\ Members(Top.left) = {c} \cup Members(t)
  BY <1>3, Front
<1>5. f \in Record /\ f.block = Top.block /\ f.left = t
  BY <1>2, <1>4 DEF Record
<1>6. /\ Rest \in Seq(Record) /\ Len(Rest) = n /\ Rest[1] = f
      /\ \A i \in 1 .. n - 1 : Rest[i + 1] = Tail(stack)[i]
  <2>1. Rest = <<f>> \o Tail(stack)
    BY DEF Rest
  <2> HIDE DEF f, n
  <2>2. /\ Rest \in Seq(Record) /\ Len(Rest) = Len(Tail(stack)) + 1 /\ Rest[1] = f
        /\ \A i \in 1 .. Len(Tail(stack)) : Rest[i + 1] = Tail(stack)[i]
    BY <1>2, <1>5, <2>1, Cons
  <2> QED BY <1>2, <2>2
<1> HIDE DEF f, t
<1>7. 1 \in Frames /\ \A i \in Frames : i # 1 => Rest[i] = stack[i]
  <2> SUFFICES ASSUME NEW i \in 1 .. n, i # 1 PROVE Rest[i] = stack[i]
    BY <1>2 DEF Frames
  <2>1. i - 1 \in 1 .. n - 1 /\ i - 1 \in 1 .. Len(Tail(stack)) /\ (i - 1) + 1 = i
    BY <1>2
  <2>2. Rest[(i - 1) + 1] = Tail(stack)[i - 1] /\ Tail(stack)[i - 1] = stack[(i - 1) + 1]
    BY <1>2, <1>6, <2>1
  <2> QED BY <2>1, <2>2
<1>8. Members(Top.left) \subseteq Members(net.next[Top.block])
  BY <1>2, <1>7 DEF Path
<1>9. ASSUME NEW i \in Frames
      PROVE  Rest[i].block = stack[i].block
             /\ Members(Rest[i].left) \subseteq Members(net.next[Rest[i].block])
  <2>1. CASE i = 1
    BY <1>2, <1>4, <1>5, <1>6, <1>8, <2>1
  <2>2. CASE i # 1
    BY <1>7, <2>2 DEF Path
  <2> QED BY <2>1, <2>2
<1>10. \A i \in Frames : Reaches(stack[i].block, c)
  <2>1. <<Top.block, c>> \in Wires(net)
    BY <1>3, <1>4, <1>8 DEF Wires
  <2>2. Reaches(Top.block, c)
    BY <2>1, ReachesNext
  <2>3. \A i \in Frames : Reaches(stack[i].block, Top.block)
    BY <1>2, <1>7 DEF Path, Frames
  <2> QED BY <2>2, <2>3, ReachesOn
<1>11. ASSUME NEW i \in Frames, NEW d \in Members(net.next[Rest[i].block])
       PROVE  state[d] # "new" \/ d \in Members(Rest[i].left) \cup {c}
  <2>1. state[d] # "new" \/ d \in Members(stack[i].left)
    BY <1>9, <1>11 DEF Path
  <2>2. CASE i = 1
    BY <1>2, <1>4, <1>5, <1>6, <2>1, <2>2
  <2>3. CASE i # 1
    BY <1>7, <2>1, <2>3
  <2> QED BY <2>2, <2>3
<1> QED BY <1>4, <1>6, <1>9, <1>10, <1>11 DEF Record

LEMMA FollowStep == IInv /\ Follow => IInv'
<1> SUFFICES ASSUME IInv, Follow PROVE IInv'
  OBVIOUS
<1> DEFINE Record == [block : Block, left : Seq(Block)]
           c == Head(Top.left)
<1>1. TypeOK /\ Reached /\ Open /\ Path /\ Finished
  BY DEF IInv
<1>2. stack # <<>> /\ Top.left # <<>> /\ net' = net /\ roots' = roots /\ order' = order
  BY DEF Follow
<1>3. /\ c \in Block
      /\ Rest \in Seq(Record) /\ Len(Rest) = Len(stack)
      /\ \A i \in Frames : Rest[i].block = stack[i].block
                           /\ Members(Rest[i].left) \subseteq Members(net.next[Rest[i].block])
      /\ \A i \in Frames : Reaches(stack[i].block, c)
      /\ \A i \in Frames : \A d \in Members(net.next[Rest[i].block]) :
            state[d] # "new" \/ d \in Members(Rest[i].left) \cup {c}
  BY <1>1, <1>2, Passed
<1>4. roots' \in Seq(Block)
  BY <1>1, <1>2 DEF TypeOK
<1>5. CASE state[c] = "new"
  <2>1. stack' = <<Frame(c)>> \o Rest /\ state' = [state EXCEPT ![c] = "open"]
    BY <1>5 DEF Follow
  <2> HIDE DEF c
  <2>2. TypeOK' /\ Open' /\ Path' /\ Finished' /\ \A b \in Block : state'[b] = "new" => state[b] = "new"
    BY <1>1, <1>2, <1>3, <1>4, <1>5, <2>1, Entered
  <2>3. Reached'
    BY <1>1, <1>2, <2>2 DEF Reached
  <2> QED BY <2>2, <2>3 DEF IInv
<1>6. CASE state[c] # "new"
  <2>1. stack' = Rest /\ state' = state
    BY <1>6 DEF Follow
  <2> HIDE DEF c
  <2>2. Frames' = Frames
    BY <1>3, <2>1 DEF Frames
  <2>3. \A i \in Frames : stack'[i].block = stack[i].block
    BY <1>3, <2>1
  <2>4. \A a, b : (Reaches(a, b)' <=> Reaches(a, b)) /\ (Before(a, b)' <=> Before(a, b))
    BY <1>2 DEF Reaches, Wires, Before
  <2>5. Wires(net)' = Wires(net) /\ Places' = Places
    BY <1>2 DEF Wires, Places
  <2>6. TypeOK'
    BY <1>1, <1>2, <1>3, <2>1 DEF TypeOK
  <2>7. Reached' /\ Finished'
    BY <1>1, <1>2, <2>1, <2>4, <2>5 DEF Reached, Finished
  <2>8. Open'
    BY <1>1, <2>1, <2>2, <2>3 DEF Open
  <2>9. Path'
    <3>1. \A i, j \in Frames : i <= j => Reaches(stack'[j].block, stack'[i].block)
      BY <1>1, <2>3 DEF Path
    <3>2. \A i \in Frames : Members(stack'[i].left) \subseteq Members(net.next[stack'[i].block])
      BY <1>3, <2>1
    <3>3. \A i \in Frames : \A d \in Members(net.next[stack'[i].block]) :
              state[d] # "new" \/ d \in Members(stack'[i].left)
      BY <1>3, <1>6, <2>1
    <3> QED BY <1>2, <2>1, <2>2, <2>4, <3>1, <3>2, <3>3 DEF Path
  <2> QED BY <2>6, <2>7, <2>8, <2>9 DEF IInv
<1> QED BY <1>5, <1>6

LEMMA BeginStep == IInv /\ Begin => IInv'
<1> SUFFICES ASSUME IInv, Begin PROVE IInv'
  OBVIOUS
<1> DEFINE Record == [block : Block, left : Seq(Block)]
           c == Head(roots)
<1>1. TypeOK /\ Reached /\ Open /\ Path /\ Finished
  BY DEF IInv
<1>2. stack = <<>> /\ roots # <<>> /\ roots' = Tail(roots) /\ net' = net /\ order' = order
  BY DEF Begin
<1>3. c \in Block /\ roots' \in Seq(Block) /\ Members(roots) = {c} \cup Members(roots')
  BY <1>1, <1>2, Front DEF TypeOK
<1>4. Frames = {}
  BY <1>2, EmptySeq DEF Frames
<1>5. CASE state[c] = "new"
  <2>1. stack' = <<Frame(c)>> /\ state' = [state EXCEPT ![c] = "open"]
    BY <1>5 DEF Begin
  <2> HIDE DEF c
  <2>2. <<>> \in Seq(Record) /\ Len(<<>>) = Len(stack) /\ stack' = <<Frame(c)>> \o <<>>
    <3>1. Frame(c) \in Record
      BY <1>1, <1>3, NetworkAssumption DEF Frame, TypeOK
    <3> HIDE DEF Record
    <3>2. <<Frame(c)>> \in Seq(Record)
      BY <3>1
    <3> QED BY <1>2, <2>1, <3>2, EmptySeq, ConcatEmptySeq
  <2>3. TypeOK' /\ Open' /\ Path' /\ Finished' /\ \A b \in Block : state'[b] = "new" => state[b] = "new"
    BY <1>1, <1>2, <1>3, <1>4, <1>5, <2>1, <2>2, Entered
  <2>4. Reached'
    <3>1. state'[c] = "open"
      BY <1>1, <1>3, <2>1 DEF TypeOK
    <3> QED BY <1>1, <1>3, <2>3, <3>1 DEF Reached
  <2> QED BY <2>3, <2>4 DEF IInv
<1>6. CASE state[c] # "new"
  <2>1. stack' = stack /\ state' = state
    BY <1>6 DEF Begin
  <2>2. TypeOK'
    BY <1>1, <1>2, <1>3, <2>1 DEF TypeOK
  <2>3. Reached'
    BY <1>1, <1>3, <1>6, <2>1 DEF Reached
  <2>4. Open' /\ Path' /\ Finished'
    BY <1>1, <1>2, <2>1 DEF Open, Path, Finished, Frames, Places, Reaches, Wires, Before
  <2> QED BY <2>2, <2>3, <2>4 DEF IInv
<1> QED BY <1>5, <1>6

LEMMA FinishStep == IInv /\ Finish => IInv'
<1> SUFFICES ASSUME IInv, Finish PROVE IInv'
  OBVIOUS
<1> DEFINE Record == [block : Block, left : Seq(Block)]
           n == Len(stack)
           b == Top.block
<1>1. TypeOK /\ Reached /\ Open /\ Path /\ Finished
  BY DEF IInv
<1>2. /\ stack # <<>> /\ Top.left = <<>> /\ stack' = Tail(stack)
      /\ state' = [state EXCEPT ![b] = "done"] /\ order' = <<b>> \o order
      /\ net' = net /\ roots' = roots
  BY DEF Finish
<1>3. /\ stack \in Seq(Record) /\ order \in Seq(Block) /\ Len(order) \in Nat
      /\ state \in [Block -> {"new", "open", "done"}]
  BY <1>1, LenProperties DEF TypeOK
<1>4. Top \in Record
  <2> HIDE DEF Record
  <2> QED BY <1>2, <1>3, Front DEF Top
<1>5. b \in Block
  BY <1>4
<1> HIDE DEF Record
<1>6. /\ Top = stack[1] /\ stack' \in Seq(Record) /\ n \in Nat \ {0} /\ Len(stack') = n - 1
      /\ \A i \in 1 .. Len(stack') : stack'[i] = stack[i + 1]
  BY <1>2, <1>3, Front DEF Top
<1>7. stack[1].block = b /\ 1 \in Frames /\ state[b] = "open"
  BY <1>1, <1>6 DEF Open, Frames
<1> HIDE DEF b
<1>8. \A i \in Frames' : i + 1 \in Frames /\ i + 1 # 1 /\ stack'[i] = stack[i + 1]
  BY <1>6 DEF Frames
<1>9. \A i \in Frames : i # 1 => i - 1 \in Frames' /\ stack'[i - 1] = stack[i]
  <2> SUFFICES ASSUME NEW i \in 1 .. n, i # 1
               PROVE  i - 1 \in 1 .. n - 1 /\ stack'[i - 1] = stack[i]
    BY <1>6 DEF Frames
  <2>1. i - 1 \in 1 .. n - 1 /\ (i - 1) + 1 = i
    BY <1>6
  <2> QED BY <1>6, <2>1
<1>10. /\ state' \in [Block -> {"new", "open", "done"}] /\ state'[b] = "done"
       /\ \A x \in Block : x # b => state'[x] = state[x]
  BY <1>2, <1>3, <1>5
<1>11. \A i \in Frames : stack[i].block \in Block
  <2>1. \A i \in Frames : stack[i] \in Record
    BY <1>3, ElementOfSeq DEF Frames
  <2> QED BY <2>1 DEF Record
<1>12. /\ order' \in Seq(Block) /\ Len(order') = Len(order) + 1 /\ order'[1] = b
       /\ \A i \in 1 .. Len(order) : order'[i + 1] = order[i]
       /\ Members(order') = {b} \cup Members(order)
  BY <1>2, <1>3, <1>5, Cons
<1>13. 1 \in Places' /\ \A i \in Places : i + 1 \in Places' /\ order'[i + 1] = order[i] /\ 1 < i + 1
  BY <1>3, <1>12 DEF Places
<1>14. \A a, c : Reaches(a, c)' <=> Reaches(a, c)
  BY <1>2 DEF Reaches, Wires
<1>15. TypeOK'
  BY <1>1, <1>2, <1>6, <1>10, <1>12 DEF TypeOK, Record
<1>16. Reached'
  BY <1>1, <1>2, <1>10 DEF Reached
<1>17. Open'
  <2>1. ASSUME NEW i \in Frames' PROVE state'[stack'[i].block] = "open"
    <3> DEFINE x == stack[i + 1].block
    <3>1. i + 1 \in Frames /\ i + 1 # 1 /\ stack'[i].block = x
      BY <1>8
    <3>2. x \in Block /\ state[x] = "open" /\ x # b
      BY <1>1, <1>7, <1>11, <3>1 DEF Open
    <3> HIDE DEF x
    <3> QED BY <1>10, <3>1, <3>2
  <2>2. ASSUME NEW x \in Block, state'[x] = "open" PROVE \E i \in Frames' : stack'[i].block = x
    <3>1. PICK i \in Frames : stack[i].block = x
      BY <1>1, <1>10, <2>2 DEF Open
    <3>2. i # 1
      BY <1>7, <1>10, <2>2, <3>1
    <3>3. i - 1 \in Frames' /\ stack'[i - 1].block = x
      BY <1>9, <3>1, <3>2
    <3> QED BY <3>3
  <2>3. ASSUME NEW i \in Frames', NEW j \in Frames', stack'[i].block = stack'[j].block PROVE i = j
    <3>1. i + 1 \in Frames /\ j + 1 \in Frames /\ stack[i + 1].block = stack[j + 1].block
      BY <1>8, <2>3
    <3>2. i + 1 = j + 1
      BY <1>1, <3>1 DEF Open
    <3> QED BY <1>6, <3>2 DEF Frames
  <2> QED BY <2>1, <2>2, <2>3 DEF Open
<1>18. Path'
  <2>1. ASSUME NEW i \in Frames', NEW j \in Frames', i <= j
        PROVE  Reaches(stack'[j].block, stack'[i].block)
    <3>1. /\ i + 1 \in Frames /\ stack'[i] = stack[i + 1]
          /\ j + 1 \in Frames /\ stack'[j] = stack[j + 1]
      BY <1>8
    <3>2. i + 1 <= j + 1
      BY <1>6, <2>1 DEF Frames
    <3>3. Reaches(stack[j + 1].block, stack[i + 1].block)
      BY <1>1, <3>1, <3>2 DEF Path
    <3> QED BY <3>1, <3>3
  <2>2. ASSUME NEW i \in Frames'
        PROVE  Members(stack'[i].left) \subseteq Members(net.next[stack'[i].block])
    <3>1. i + 1 \in Frames /\ stack'[i] = stack[i + 1]
      BY <1>8
    <3> QED BY <1>1, <3>1 DEF Path
  <2>3. ASSUME NEW i \in Frames', NEW c \in Members(net.next[stack'[i].block])
        PROVE  state'[c] # "new" \/ c \in Members(stack'[i].left)
    <3>1. i + 1 \in Frames /\ stack'[i] = stack[i + 1]
      BY <1>8
    <3>2. state[c] # "new" \/ c \in Members(stack'[i].left)
      BY <1>1, <2>3, <3>1 DEF Path
    <3>3. state[c] # "new" => state'[c] # "new"
      BY <1>2, <1>3
    <3> QED BY <3>2, <3>3
  <2> QED BY <1>2, <1>14, <2>1, <2>2, <2>3 DEF Path
<1>19. Finished'
  <2>1. \A x \in Block : state'[x] = "done" <=> x \in Members(order')
    BY <1>1, <1>10, <1>12 DEF Finished
  <2>2. \A i \in Places' : i # 1 =>
            i - 1 \in Places /\ order'[i] = order[i - 1] /\ order[i - 1] # b
    <3> SUFFICES ASSUME NEW i \in Places', i # 1
                 PROVE  i - 1 \in Places /\ order'[i] = order[i - 1] /\ order[i - 1] # b
      OBVIOUS
    <3>1. i - 1 \in Places /\ (i - 1) + 1 = i
      BY <1>3, <1>12 DEF Places
    <3>2. b \notin Members(order)
      BY <1>1, <1>5, <1>7 DEF Finished
    <3> QED BY <1>13, <3>1, <3>2 DEF Members, Places
  <2>3. ASSUME NEW i \in Places', NEW j \in Places', order'[i] = order'[j] PROVE i = j
    <3>1. CASE i = 1 \/ j = 1
      BY <1>12, <2>2, <2>3, <3>1
    <3>2. CASE i # 1 /\ j # 1
      <4>1. i - 1 \in Places /\ j - 1 \in Places /\ order[i - 1] = order[j - 1]
        BY <2>2, <2>3, <3>2
      <4>2. i - 1 = j - 1
        BY <1>1, <4>1 DEF Finished
      <4> QED BY <1>3, <1>12, <4>2 DEF Places
    <3> QED BY <3>1, <3>2
  <2>4. ASSUME NEW w \in Wires(net), state'[w[1]] = "done"
        PROVE  Before(w[1], w[2])' \/ Reaches(w[2], w[1])
    <3>1. CASE w[1] # b
      <4>1. w[1] \in Block
        BY DEF Wires
      <4>2. Before(w[1], w[2]) \/ Reaches(w[2], w[1])
        BY <1>1, <1>10, <2>4, <3>1, <4>1 DEF Finished
      <4>3. ASSUME Before(w[1], w[2]) PROVE Before(w[1], w[2])'
        <5>1. PICK i \in Places, j \in Places : i < j /\ order[i] = w[1] /\ order[j] = w[2]
          BY <4>3 DEF Before, Places
        <5>2. /\ i + 1 \in Places' /\ j + 1 \in Places' /\ i + 1 < j + 1
              /\ order'[i + 1] = w[1] /\ order'[j + 1] = w[2]
          BY <1>3, <1>13, <5>1 DEF Places
        <5> QED BY <5>2 DEF Before, Places
      <4> QED BY <4>2, <4>3
    <3>2. CASE w[1] = b
      <4>1. w[2] \in Block /\ w[2] \in Members(net.next[b])
        BY <3>2 DEF Wires
      <4>2. state[w[2]] # "new"
        <5>1. Members(stack[1].left) = {}
          BY <1>2, <1>6 DEF Members
        <5> QED BY <1>1, <1>7, <4>1, <5>1 DEF Path
      <4>3. CASE state[w[2]] = "done"
        <5>1. PICK j \in Places : order[j] = w[2]
          BY <1>1, <4>1, <4>3 DEF Finished, Members, Places
        <5>2. 1 \in Places' /\ j + 1 \in Places' /\ 1 < j + 1 /\ order'[1] = w[1] /\ order'[j + 1] = w[2]
          BY <1>12, <1>13, <3>2, <5>1
        <5> QED BY <5>2 DEF Before, Places
      <4>4. CASE state[w[2]] = "open"
        <5>1. PICK j \in Frames : stack[j].block = w[2]
          BY <1>1, <4>1, <4>4 DEF Open
        <5>2. 1 <= j
          BY DEF Frames
        <5> QED BY <1>1, <1>7, <3>2, <5>1, <5>2 DEF Path
      <4> QED BY <1>3, <4>1, <4>2, <4>3, <4>4
    <3> QED BY <3>1, <3>2
  <2>5. Wires(net)' = Wires(net)
    BY <1>2 DEF Wires
  <2> QED BY <1>14, <2>1, <2>3, <2>4, <2>5 DEF Finished
<1> QED BY <1>15, <1>16, <1>17, <1>18, <1>19 DEF IInv

LEMMA StepIInv == IInv /\ [Next]_vars => IInv'
<1>1. IInv /\ UNCHANGED vars => IInv'
  <2> SUFFICES ASSUME IInv, UNCHANGED vars PROVE IInv'
    OBVIOUS
  <2>1. \A a, b : (Reaches(a, b)' <=> Reaches(a, b)) /\ (Before(a, b)' <=> Before(a, b))
    BY DEF Reaches, Wires, Before, vars
  <2>2. Wires(net)' = Wires(net) /\ Places' = Places /\ Frames' = Frames
    BY DEF Wires, Places, Frames, vars
  <2>3. TypeOK' /\ Reached' /\ Open'
    BY <2>2 DEF IInv, TypeOK, Reached, Open, vars
  <2>4. Path' /\ Finished'
    BY <2>1, <2>2 DEF IInv, Path, Finished, vars
  <2> QED BY <2>3, <2>4 DEF IInv
<1> QED BY <1>1, BeginStep, FollowStep, FinishStep DEF Next

(* Everything the search of _topological_order has entered is on its stack *)
(* or in its list, the stack is a path, and the links of what it finished  *)
(* are in order or close loops.                                            *)
THEOREM Invariance == Spec => []IInv
<1>1. Init => IInv
  BY InitIInv
<1>2. IInv /\ [Next]_vars => IInv'
  BY StepIInv
<1> QED BY <1>1, <1>2, PTL DEF Spec

(* _topological_order keeps its types: what it stacks and lists are blocks *)
(* of the network.                                                         *)
THEOREM TypeCorrect == Spec => []TypeOK
<1>1. IInv => TypeOK
  BY DEF IInv
<1> QED BY <1>1, Invariance, PTL

LEMMA IInvOrders == IInv => LoopsOnlyIgnored
<1> SUFFICES ASSUME IInv, Over
             PROVE  /\ \A b \in Block : Once(b)
                    /\ \A w \in Wires(net) : Before(w[1], w[2]) \/ Reaches(w[2], w[1])
  BY DEF LoopsOnlyIgnored
<1>1. TypeOK /\ Reached /\ Open /\ Path /\ Finished
  BY DEF IInv
<1>2. Frames = {} /\ Members(roots) = {}
  BY EmptySeq DEF Over, Frames, Members
<1>3. \A b \in Block : state[b] = "done"
  <2>1. \A b \in Block : state[b] \in {"new", "open", "done"}
    BY <1>1 DEF TypeOK
  <2> QED BY <1>1, <1>2, <2>1 DEF Reached, Open
<1>4. ASSUME NEW b \in Block PROVE Once(b)
  <2>1. PICK i \in Places : order[i] = b
    BY <1>1, <1>3 DEF Finished, Members, Places
  <2>2. {j \in Places : order[j] = b} = {i}
    BY <1>1, <2>1 DEF Finished
  <2> QED BY <2>2 DEF Once, Places
<1>5. \A w \in Wires(net) : Before(w[1], w[2]) \/ Reaches(w[2], w[1])
  BY <1>1, <1>3 DEF Finished, Wires
<1> QED BY <1>4, <1>5

(* In the order _topological_order returns for a network, any number of    *)
(* blocks wired in any way, every block has one place, and one that comes  *)
(* before a block that drives it is on a loop with it.                     *)
THEOREM IgnoresOnlyLoops == Spec => []LoopsOnlyIgnored
<1> QED BY IInvOrders, Invariance, PTL
=============================================================================
