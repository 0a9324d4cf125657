--------------------------- MODULE MCShadowEngine ---------------------------
(* Two small networks of blocks for ShadowEngine.                        *)
EXTENDS ShadowEngine, FiniteSets, SequencesExt, TLC

LOCAL INSTANCE ShadowBlocks

CONSTANTS Net, Ticks    \* which network; the tie orders it is run under

(* The kind of each block, and the links, both in document order.          *)
Links ==
    CASE Net = "gates" -> \* Or(p, Not(p)) glitches and clocks a latch of q
            << <<"p", "a", "inA">>, <<"p", "n", "inA">>, <<"n", "a", "inB">>,
               <<"q", "l", "inA">>, <<"a", "l", "inB">>, <<"l", "y", "in16">>,
               \* o = And(e, Not(o)) oscillates once e is true
               <<"e", "o", "inA">>, <<"o", "h", "inA">>, <<"h", "o", "inB">> >>
      [] Net = "ticks" -> \* a delay that inverts itself; two samplers behind it and a pre block
            << <<"u", "n", "inA">>, <<"n", "u", "inA">>, <<"n", "f", "inA">>,
               <<"f", "v", "inA">>, <<"v", "w", "inA">>, <<"w", "y", "in16">> >>

KindOf ==
    CASE Net = "gates"  -> [p |-> "writable", q |-> "writable", n |-> "not", a |-> "or",
                            l |-> "latch", y |-> "writable",
                            e |-> "writable", o |-> "and", h |-> "not"]
      [] Net = "ticks"  -> [u |-> "delay", n |-> "not", v |-> "sampler", w |-> "sampler2",
                            f |-> "pre", y |-> "writable"]

Document ==
    CASE Net = "gates"  -> <<"y", "a", "o", "l", "n", "p", "h", "q", "e">>
      [] Net = "ticks"  -> <<"u", "n", "v", "w", "f", "y">>

NetBlock == DOMAIN KindOf
NetSlot == {"in1", "in8", "in16", "inA"} \cup IF Net = "gates" THEN {"inB"} ELSE {}
AsWire(l) == [source |-> l[1], target |-> l[2], slot |-> l[3]]
NetWire == {AsWire(Links[i]) : i \in DOMAIN Links}

Of(kinds) == {b \in NetBlock : KindOf[b] \in kinds}
NetPure == Of({"writable", "not", "and", "or"})
NetReactive == NetPure \cup Of({"latch"})
NetWritable == Of({"writable"})
NetPoint == {b \in NetWritable : \A w \in NetWire : w.target # b}
NetResampling == Of({"delay", "sampler", "sampler2"})
NetPeriod == [b \in NetBlock |-> IF b \in NetReactive THEN 0
                                 ELSE IF KindOf[b] = "sampler2" THEN 2 ELSE 1]
NetSampleOrder == SelectSeq(Document, LAMBDA b : b \in NetResampling)

NetValue == {TRUE, FALSE, Null}
NetMemory == [held : NetValue, staged : NetValue, index : -1..Horizon]
NetInput == [b \in NetBlock |-> [s \in NetSlot |-> Null]]
NetOutput == [b \in NetBlock |-> FALSE]
NetFirst == [b \in NetBlock |-> [held |-> FALSE, staged |-> FALSE, index |-> None]]

NetGate(b, i) ==
    CASE KindOf[b] = "writable" -> PointOut(i, FALSE)
      [] KindOf[b] = "not" -> NotOut(i)
      [] KindOf[b] = "and" -> AndOut(i)
      [] KindOf[b] = "or"  -> OrOut(i)

NetRemember(b, i, m, t) ==
    CASE KindOf[b] = "latch" -> LatchNext(i, m)
      [] KindOf[b] = "pre"   -> ModuleNext(PreStep(i["inA"], m), i, m)
      [] KindOf[b] = "delay" -> ModuleNext(UnitDelayStep(i["inA"], m, t, NetPeriod[b]), i, m)
      [] KindOf[b] \in {"sampler", "sampler2"} ->
            ModuleNext(SamplerStep(i["inA"], m, t, NetPeriod[b]), i, m)

NetCompute(b, i, m, t) ==
    LET next == NetRemember(b, i, m, t)
    IN  IF KindOf[b] = "latch" THEN next.held ELSE ModuleOut(i, next)

NetFanout == [b \in NetBlock |->
    LET of == SelectSeq(Links, LAMBDA l : l[1] = b) IN [i \in DOMAIN of |-> AsWire(of[i])]]
Reversed == [b \in NetBlock |-> Reverse(NetFanout[b])]

(* The loop-opening order of each network. *)
Topological ==
    CASE Net = "gates"  -> <<"e", "o", "h", "q", "p", "n", "a", "l", "y">>
      [] Net = "ticks"  -> <<"u", "n", "f", "v", "w", "y">>

Place(order, b) == CHOOSE i \in DOMAIN order : order[i] = b
NetTie(order) ==
    [b \in NetBlock |-> CASE order = "topological" -> {Place(Topological, b)}
                          [] order = "document"    -> {Place(Document, b)}
                          [] order = "reverse"     -> {-Place(Document, b)}
                          [] order = "shuffle"     -> {1, 2}]

NetPolicy ==
    [depth : BOOLEAN, fanout : {NetFanout, Reversed}, tie : {NetTie(o) : o \in Ticks},
     start : {Topological, Document}]

(* The samplers of the second network are in order: a link never leads     *)
(* from a sampler to one that samples before it.                           *)
ASSUME SamplingAssumption ==
    Net = "ticks" =>
        Sampling([b \in NetBlock |-> Place(Topological, b)], {"v", "w", "y"}, BOOLEAN,
                 [held : BOOLEAN, staged : BOOLEAN, index : -1..Horizon])
=============================================================================
