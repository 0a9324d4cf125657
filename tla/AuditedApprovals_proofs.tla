---------------------- MODULE AuditedApprovals_proofs ----------------------
(***************************************************************************)
(* Theorems about AuditedApprovals, for any number of requests and of      *)
(* processes.  Whatever the appends of several processes, short writes and *)
(* power failures make of the log, it only ever grows: a line stays what   *)
(* it is, or is the last one and becomes one that does not parse.          *)
(***************************************************************************)
EXTENDS AuditedApprovals, TLAPS

(* A later state g of the file f. *)
Extends(f, g) ==
    /\ Len(f.lines) <= Len(g.lines)
    /\ \A i \in 1 .. Len(f.lines) :
           g.lines[i] = f.lines[i] \/ (i = Len(f.lines) /\ g.lines[i] = Cut)

(* An event is in the log, or the log is known to be damaged. *)
Accounted(f, q) == Records(f, q) \/ ~Verifies(f)

AuditInv ==
    /\ Extends(disk, log)
    /\ \A q \in Request :
           /\ pc[q] = "syncing" => Accounted(log, q)
           /\ pc[q] = "answered" => Accounted(disk, q)

(* A request under way is under way in a process that runs. *)
Served == \A q \in Request : pc[q] \in Ended \cup {"new"} \/ server[q] \in up

(* Only the last line does not parse. *)
DamageLast(f) == \A i \in 1 .. Len(f.lines) - 1 : f.lines[i] # Cut

(* As long as processes do not append together: whoever appends is alone,  *)
(* and the head of the log is the one it has read.                         *)
ChainInv ==
    ~shared =>
        /\ \A q, r \in Appending : q = r
        /\ \A q \in Request : pc[q] = "appending" =>
               HeadReadable(log) /\ previous[q] = HeadHash(log)
        /\ DamageLast(log) /\ DamageLast(disk)
        /\ ~cut /\ ~dark => log.ended /\ Verifies(log)

(* As long as requests do not overlap in save: nobody else touches the      *)
(* staging file of the request that is in save, and no approval is placed. *)
SaveInv ==
    ~raced /\ ~dark =>
        /\ \A q, r \in InSave : q = r
        /\ InSave # {} => placed = None
        /\ \A q \in Request :
               /\ pc[q] = "opened" => staging # None /\ writes[q] = staging
                                      /\ content[staging] = None
               /\ pc[q] = "written" => staging # None /\ content[staging] = q
               /\ result[q] = "created" => placed # None /\ content[placed] = q

IInv == TypeOK /\ Served /\ AuditInv /\ ChainInv /\ SaveInv

-----------------------------------------------------------------------------
(* The lines of a file. *)
LEMMA FileLines ==
    ASSUME NEW f \in File
    PROVE  f.lines \in Seq(Line) /\ f.ended \in BOOLEAN /\ Len(f.lines) \in Nat
BY DEF File

(* A request's line is a line. *)
LEMMA NewLineType ==
    ASSUME TypeOK, NEW q \in Request
    PROVE  /\ NewLine(q) \in Line /\ NewLine(q) # Cut
           /\ NewLine(q).event = q /\ NewLine(q).previous = previous[q]
<1>1. previous[q] \in Event \cup {Zero}
    BY DEF TypeOK
<1>2. q \in Event
    BY EventAssumption
<1> QED BY <1>1, <1>2, LineAssumption DEF NewLine, Line

(* What is written behind a file's lines. *)
LEMMA BehindFile ==
    ASSUME NEW f \in File, NEW line \in Line, NEW ended \in BOOLEAN
    PROVE  LET g == Behind(f, line, ended)
           IN  /\ g \in File
               /\ g.ended = ended
               /\ f.ended => g.lines = Append(f.lines, line)
               /\ ~f.ended => g.lines = Append(Front(f.lines), Cut)
<1>1. f.lines \in Seq(Line)
    BY FileLines
<1>2. Front(f.lines) \in Seq(Line)
    BY <1>1 DEF Front
<1>3. Append(f.lines, line) \in Seq(Line) /\ Append(Front(f.lines), Cut) \in Seq(Line)
    BY <1>1, <1>2 DEF Line
<1> QED BY <1>3 DEF Behind, File

(* Writing behind a file extends it, and what was written is accounted for. *)
LEMMA BehindExtends ==
    ASSUME NEW f \in File, NEW line \in Line, NEW ended \in BOOLEAN
    PROVE  LET g == Behind(f, line, ended)
           IN  /\ Extends(f, g)
               /\ \A q : line = Cut \/ line.event = q => Accounted(g, q)
<1> DEFINE g == Behind(f, line, ended)
<1> HIDE DEF g
<1>1. /\ g \in File
      /\ f.ended => g.lines = Append(f.lines, line)
      /\ ~f.ended => g.lines = Append(Front(f.lines), Cut)
    BY BehindFile DEF g
<1>2. f.lines \in Seq(Line) /\ Len(f.lines) \in Nat
    BY FileLines
<1>3. CASE f.ended
  <2>1. /\ Len(g.lines) = Len(f.lines) + 1
        /\ \A i \in 1 .. Len(f.lines) : g.lines[i] = f.lines[i]
        /\ g.lines[Len(g.lines)] = line
        /\ DOMAIN g.lines = 1 .. Len(g.lines)
      BY <1>1, <1>2, <1>3
  <2>2. Len(g.lines) \in DOMAIN g.lines
      BY <1>2, <2>1
  <2>3. Extends(f, g)
      BY <1>2, <2>1 DEF Extends
  <2>4. ASSUME NEW q, line = Cut \/ line.event = q PROVE Accounted(g, q)
      BY <2>1, <2>2, <2>4 DEF Accounted, Records, Verifies
  <2> QED BY <2>3, <2>4 DEF g
<1>4. CASE ~f.ended
  <2>1. /\ Len(g.lines) = (IF Len(f.lines) = 0 THEN 1 ELSE Len(f.lines))
        /\ \A i \in 1 .. Len(f.lines) - 1 : g.lines[i] = f.lines[i]
        /\ g.lines[Len(g.lines)] = Cut
        /\ DOMAIN g.lines = 1 .. Len(g.lines)
    <3> DEFINE front == Front(f.lines)
    <3>1. /\ front \in Seq(Line)
          /\ Len(front) = (IF Len(f.lines) = 0 THEN 0 ELSE Len(f.lines) - 1)
          /\ \A i \in 1 .. Len(f.lines) - 1 : front[i] = f.lines[i]
        BY <1>2 DEF Front
    <3>2. g.lines = Append(front, Cut)
        BY <1>1, <1>4
    <3> HIDE DEF front
    <3> QED BY <1>2, <3>1, <3>2
  <2>2. Len(g.lines) \in DOMAIN g.lines
      BY <1>2, <2>1
  <2>3. Extends(f, g)
      BY <1>2, <2>1 DEF Extends
  <2>4. ~Verifies(g)
      BY <2>1, <2>2 DEF Verifies
  <2> QED BY <2>3, <2>4 DEF g, Accounted
<1> QED BY <1>3, <1>4, <1>2, FileLines

(* Writing behind a head that parses keeps the damage last, and a line that *)
(* names the head keeps the chain.                                         *)
LEMMA BehindChain ==
    ASSUME NEW f \in File, DamageLast(f), HeadReadable(f), NEW line \in Line,
           NEW ended \in BOOLEAN
    PROVE  LET g == Behind(f, line, ended)
           IN  /\ DamageLast(g)
               /\ f.ended /\ Verifies(f) /\ line # Cut /\ line.previous = HeadHash(f) =>
                      Verifies(g)
<1> DEFINE g == Behind(f, line, ended)
<1> HIDE DEF g
<1>1. /\ g \in File
      /\ f.ended => g.lines = Append(f.lines, line)
      /\ ~f.ended => g.lines = Append(Front(f.lines), Cut)
    BY BehindFile DEF g
<1>2. f.lines \in Seq(Line) /\ Len(f.lines) \in Nat
    BY FileLines
<1>3. \A i \in 1 .. Len(f.lines) : f.lines[i] # Cut
    BY <1>2 DEF DamageLast, HeadReadable, Last
<1>4. CASE f.ended
  <2>1. /\ Len(g.lines) = Len(f.lines) + 1
        /\ \A i \in 1 .. Len(f.lines) : g.lines[i] = f.lines[i]
        /\ g.lines[Len(f.lines) + 1] = line
        /\ DOMAIN g.lines = 1 .. Len(f.lines) + 1
      BY <1>1, <1>2, <1>4
  <2>2. DamageLast(g)
      BY <1>2, <1>3, <2>1 DEF DamageLast
  <2>3. ASSUME Verifies(f), line # Cut, line.previous = HeadHash(f) PROVE Verifies(g)
    <3>1. ASSUME NEW i \in 1 .. Len(f.lines)
          PROVE  g.lines[i] # Cut /\ g.lines[i].previous = Before(g, i)
      <4>1. f.lines[i] # Cut /\ f.lines[i].previous = Before(f, i)
          BY <1>2, <2>3 DEF Verifies
      <4>2. i = 1 \/ i - 1 \in 1 .. Len(f.lines)
          BY <1>2
      <4> QED BY <2>1, <4>1, <4>2 DEF Before
    <3>2. line.previous = Before(g, Len(f.lines) + 1)
      <4>1. CASE f.lines = <<>>
          BY <1>2, <2>3, <4>1 DEF HeadHash, Before
      <4>2. CASE f.lines # <<>>
        <5>1. Len(f.lines) \in 1 .. Len(f.lines) /\ Len(f.lines) + 1 # 1
              /\ Len(f.lines) + 1 - 1 = Len(f.lines)
            BY <1>2, <4>2
        <5> QED BY <2>1, <2>3, <4>2, <5>1 DEF HeadHash, Before, Last
      <4> QED BY <4>1, <4>2
    <3> QED BY <1>2, <2>1, <2>3, <3>1, <3>2 DEF Verifies
  <2> QED BY <2>2, <2>3 DEF g
<1>5. CASE ~f.ended
  <2> DEFINE front == Front(f.lines)
  <2>1. /\ front \in Seq(Line) /\ Len(front) <= Len(f.lines)
        /\ \A i \in 1 .. Len(front) : front[i] = f.lines[i]
      BY <1>2 DEF Front
  <2>2. g.lines = Append(front, Cut)
      BY <1>1, <1>5
  <2> HIDE DEF front
  <2>3. Len(g.lines) = Len(front) + 1 /\ \A i \in 1 .. Len(front) : g.lines[i] = front[i]
      BY <2>1, <2>2
  <2>4. DamageLast(g)
      BY <1>2, <1>3, <2>1, <2>3 DEF DamageLast
  <2> QED BY <1>5, <2>4 DEF g
<1> QED BY <1>4, <1>5, <1>2, FileLines

(* A file that is extended still accounts for what it accounted for. *)
LEMMA ExtendsAccounts ==
    ASSUME NEW f \in File, NEW g \in File, Extends(f, g), NEW q, Accounted(f, q)
    PROVE  Accounted(g, q)
<1>1. /\ DOMAIN f.lines = 1 .. Len(f.lines) /\ DOMAIN g.lines = 1 .. Len(g.lines)
      /\ Len(f.lines) \in Nat /\ Len(g.lines) \in Nat
    BY FileLines
<1>2. DOMAIN f.lines \subseteq DOMAIN g.lines
    BY <1>1 DEF Extends
<1>3. CASE \E i \in DOMAIN f.lines : g.lines[i] = Cut
    BY <1>2, <1>3 DEF Accounted, Verifies
<1>4. CASE \A i \in DOMAIN f.lines : g.lines[i] # Cut
  <2>1. \A i \in DOMAIN f.lines : g.lines[i] = f.lines[i]
      BY <1>1, <1>4 DEF Extends
  <2>2. Records(f, q) => Records(g, q)
      BY <1>2, <2>1 DEF Records
  <2>3. ASSUME NEW i \in DOMAIN f.lines PROVE Before(g, i) = Before(f, i)
    <3>1. i # 1 => i - 1 \in DOMAIN f.lines
        BY <1>1
    <3> QED BY <2>1, <3>1 DEF Before
  <2>4. ~Verifies(f) => ~Verifies(g)
      BY <1>2, <2>1, <2>3 DEF Verifies
  <2> QED BY <2>2, <2>4 DEF Accounted
<1> QED BY <1>3, <1>4

LEMMA ExtendsReflexive ==
    ASSUME NEW f \in File PROVE Extends(f, f)
BY FileLines DEF Extends

LEMMA ExtendsTransitive ==
    ASSUME NEW f \in File, NEW g \in File, NEW h \in File, Extends(f, g), Extends(g, h)
    PROVE  Extends(f, h)
<1>1. Len(f.lines) \in Nat /\ Len(g.lines) \in Nat /\ Len(h.lines) \in Nat
    BY FileLines
<1>2. Len(f.lines) <= Len(h.lines)
    BY <1>1 DEF Extends
<1>3. ASSUME NEW i \in 1 .. Len(f.lines)
      PROVE  h.lines[i] = f.lines[i] \/ (i = Len(f.lines) /\ h.lines[i] = Cut)
  <2>1. i \in 1 .. Len(g.lines)
      BY <1>1 DEF Extends
  <2>2. h.lines[i] = g.lines[i] \/ (i = Len(g.lines) /\ h.lines[i] = Cut)
      BY <2>1 DEF Extends
  <2>3. g.lines[i] = f.lines[i] \/ (i = Len(f.lines) /\ g.lines[i] = Cut)
      BY DEF Extends
  <2> QED BY <1>1, <2>1, <2>2, <2>3 DEF Extends
<1> QED BY <1>2, <1>3 DEF Extends

(* What survives a power failure is a file that extends the synced one. *)
LEMMA SurvivingExtends ==
    ASSUME TypeOK, Extends(disk, log), NEW f \in Surviving
    PROVE  f \in File /\ Extends(disk, f)
<1>1. /\ disk \in File /\ log \in File
      /\ log.lines \in Seq(Line) /\ Len(log.lines) \in Nat /\ Len(disk.lines) \in Nat
    BY FileLines DEF TypeOK
<1>2. CASE f \in {disk, log}
    BY <1>1, <1>2, ExtendsReflexive
<1>3. ASSUME NEW k \in Len(disk.lines) .. Len(log.lines)
      PROVE  /\ SubSeq(log.lines, 1, k) \in Seq(Line)
             /\ Len(SubSeq(log.lines, 1, k)) = k
             /\ \A i \in 1 .. k : SubSeq(log.lines, 1, k)[i] = log.lines[i]
    BY <1>1
<1>4. ASSUME NEW k \in Len(disk.lines) .. Len(log.lines),
             f = [lines |-> SubSeq(log.lines, 1, k), ended |-> TRUE]
      PROVE  f \in File /\ Extends(disk, f)
    BY <1>1, <1>3, <1>4 DEF Extends, File
<1>5. ASSUME NEW k \in Len(disk.lines) .. Len(log.lines),
             f = [lines |-> Append(SubSeq(log.lines, 1, k), Cut), ended |-> FALSE]
      PROVE  f \in File /\ Extends(disk, f)
  <2> DEFINE kept == SubSeq(log.lines, 1, k)
  <2>1. kept \in Seq(Line) /\ Len(kept) = k /\ \A i \in 1 .. k : kept[i] = log.lines[i]
      BY <1>3
  <2>2. f = [lines |-> Append(kept, Cut), ended |-> FALSE]
      BY <1>5
  <2> HIDE DEF kept
  <2>3. /\ Append(kept, Cut) \in Seq(Line) /\ Len(Append(kept, Cut)) = k + 1
        /\ \A i \in 1 .. k : Append(kept, Cut)[i] = log.lines[i]
      BY <1>1, <2>1 DEF Line
  <2> QED BY <1>1, <2>2, <2>3 DEF Extends, File
<1> QED BY <1>2, <1>4, <1>5 DEF Surviving

(* A power failure makes no damage but a last line. *)
LEMMA SurvivingChain ==
    ASSUME TypeOK, DamageLast(log), DamageLast(disk), NEW f \in Surviving
    PROVE  DamageLast(f)
<1>1. /\ log.lines \in Seq(Line) /\ Len(log.lines) \in Nat /\ Len(disk.lines) \in Nat
    BY FileLines DEF TypeOK
<1>2. CASE f \in {disk, log}
    BY <1>2
<1>3. ASSUME NEW k \in Len(disk.lines) .. Len(log.lines), k # Len(log.lines)
      PROVE  /\ SubSeq(log.lines, 1, k) \in Seq(Line)
             /\ Len(SubSeq(log.lines, 1, k)) = k
             /\ \A i \in 1 .. k : SubSeq(log.lines, 1, k)[i] # Cut
    BY <1>1, <1>3 DEF DamageLast
<1>4. ASSUME NEW k \in Len(disk.lines) .. Len(log.lines), k # Len(log.lines),
             f = [lines |-> SubSeq(log.lines, 1, k), ended |-> TRUE]
      PROVE  DamageLast(f)
    BY <1>1, <1>3, <1>4 DEF DamageLast
<1>5. ASSUME NEW k \in Len(disk.lines) .. Len(log.lines), k # Len(log.lines),
             f = [lines |-> Append(SubSeq(log.lines, 1, k), Cut), ended |-> FALSE]
      PROVE  DamageLast(f)
  <2> DEFINE kept == SubSeq(log.lines, 1, k)
  <2>1. kept \in Seq(Line) /\ Len(kept) = k /\ \A i \in 1 .. k : kept[i] # Cut
      BY <1>3, <1>5
  <2>2. f.lines = Append(kept, Cut)
      BY <1>5
  <2> HIDE DEF kept
  <2> QED BY <1>1, <2>1, <2>2 DEF DamageLast
<1> QED BY <1>2, <1>4, <1>5 DEF Surviving

-----------------------------------------------------------------------------
(* The initial state satisfies the invariant. *)
LEMMA InitIInv == Init => IInv
<1> SUFFICES ASSUME Init PROVE IInv
    OBVIOUS
<1>1. log \in File /\ disk = log
    BY DEF Init, AuditInit, File
<1>2. TypeOK
    BY <1>1 DEF Init, ApprovalInit, TypeOK
<1>3. AuditInv
    BY <1>1, ExtendsReflexive DEF Init, AuditInv
<1>4. Served
    BY DEF Init, Served
<1>5. ChainInv
    BY DEF Init, AuditInit, ChainInv, Appending, DamageLast, Verifies
<1>6. SaveInv
    BY NoneAssumption DEF Init, ApprovalInit, SaveInv, InSave
<1> QED BY <1>2, <1>3, <1>4, <1>5, <1>6 DEF IInv

(* How requests end. *)
LEMMA EndType ==
    ASSUME TypeOK, NEW requests \in SUBSET Request, NEW how \in Ended, End(requests, how)
    PROVE  /\ server' \in [Request -> Process \cup {None}]
           /\ pc' \in [Request -> {"new", "checked", "opened", "written", "served",
                                  "appending", "syncing"} \cup Ended]
           /\ previous' \in [Request -> Event \cup {Zero}]
BY DEF TypeOK, End

(* Every step keeps every variable in its type. *)
LEMMA TypeStep == IInv /\ [Next]_vars => TypeOK'
<1> SUFFICES ASSUME IInv, [Next]_vars PROVE TypeOK'
    OBVIOUS
<1>0. TypeOK /\ Extends(disk, log)
    BY DEF IInv, AuditInv
<1> USE <1>0 DEF TypeOK, approvalVars, auditVars, requestVars, history, Ended
<1>1. ASSUME NEW q \in Request, NEW p \in Process, Deny(q, p) \/ Check(q, p)
      PROVE  TypeOK'
  <2>1. CASE Deny(q, p)
      BY <2>1 DEF Deny, Moves, Makes
  <2>2. CASE Check(q, p)
      BY <2>2 DEF Check, Moves, Makes
  <2> QED BY <1>1, <2>1, <2>2
<1>2. ASSUME NEW q \in Request, Open(q) \/ Write(q) PROVE TypeOK'
  <2>1. CASE Open(q)
    <3> DEFINE i == IF staging = None THEN q ELSE staging
    <3>1. i \in Request
        OBVIOUS
    <3>2. /\ staging' = i /\ writes' = [writes EXCEPT ![q] = i]
          /\ content' = [content EXCEPT ![i] = None] /\ placed' = placed
          /\ pc' = [pc EXCEPT ![q] = "opened"]
          /\ UNCHANGED <<auditVars, up, server, previous, result, history>>
        BY <2>1 DEF Open, OpenStaging, Moves
    <3> HIDE DEF i
    <3> QED BY <3>1, <3>2
  <2>2. CASE Write(q)
    <3>1. PICK text \in {q, Torn} : content' = [content EXCEPT ![writes[q]] = text]
        BY <2>2 DEF Write, WriteStaging
    <3>2. /\ writes' = [writes EXCEPT ![q] = None] /\ placed' = placed /\ staging' = staging
          /\ pc' = [pc EXCEPT ![q] = "written"]
          /\ UNCHANGED <<auditVars, up, server, previous, result, history>>
        BY <2>2 DEF Write, WriteStaging, Moves
    <3> QED BY <3>1, <3>2
  <2> QED BY <1>2, <2>1, <2>2
<1>3. ASSUME NEW q \in Request, Place(q) PROVE TypeOK'
    BY <1>3 DEF Place, Replace, Moves, Makes
<1>4. ASSUME NEW q \in Request, PlaceFails(q) \/ AppendFails(q) PROVE TypeOK'
    BY <1>4, EndType DEF PlaceFails, AppendFails
<1>5. ASSUME NEW q \in Request, ReadHead(q) PROVE TypeOK'
  <2>1. HeadHash(log) \in Event \cup {Zero}
    <3>1. log.lines \in Seq(Line)
        BY FileLines
    <3>2. log.lines # <<>> => Last(log.lines) \in Line \ {Cut}
        BY <1>5, <3>1 DEF ReadHead, HeadReadable, Last
    <3> QED BY <3>2 DEF HeadHash, Line
  <2> QED BY <1>5, <2>1 DEF ReadHead, Moves
<1>6. ASSUME NEW q \in Request, AppendWhole(q) PROVE TypeOK'
  <2>1. Behind(log, NewLine(q), TRUE) \in File
      BY NewLineType, BehindFile
  <2>2. log' \in File
      BY <1>6, <2>1 DEF AppendWhole, WriteWhole
  <2> QED BY <1>6, <2>2 DEF AppendWhole, Moves
<1>7. ASSUME NEW q \in Request, AppendShort(q) PROVE TypeOK'
  <2>1. Behind(log, NewLine(q), FALSE) \in File /\ Behind(log, Cut, FALSE) \in File
    <3>1. NewLine(q) \in Line /\ Cut \in Line
        BY NewLineType DEF Line
    <3> QED BY <3>1, BehindFile
  <2>2. log' \in File
      BY <1>7, <2>1 DEF AppendShort, WriteShort
  <2> QED BY <1>7, <2>2 DEF AppendShort, Moves
<1>8. ASSUME NEW q \in Request, Answer(q) PROVE TypeOK'
    BY <1>8, EndType DEF Answer, Sync
<1>9. ASSUME NEW p \in Process, Crash(p) PROVE TypeOK'
    BY <1>9, EndType DEF Crash, Stop, Of, CloseAll
<1>10. ASSUME NEW p \in Process, Start(p) PROVE TypeOK'
    BY <1>10 DEF Start
<1>11. CASE PowerFails
  <2>1. log' \in File /\ disk' = log'
      BY <1>11, SurvivingExtends DEF PowerFails
  <2>2. /\ placed' \in Request \cup {None} /\ staging' = staging
        /\ content' \in [Request -> Request \cup {None, Torn}]
      BY <1>11 DEF PowerFails, LoseUnsynced
  <2>3. /\ up' \subseteq Process /\ writes' \in [Request -> Request \cup {None}]
        /\ UNCHANGED <<result, cut, shared, raced>> /\ dark' = TRUE
        /\ End(Of(up), "lost") /\ Of(up) \in SUBSET Request
      BY <1>11 DEF PowerFails, Stop, CloseAll, Of
  <2> QED BY <2>1, <2>2, <2>3, EndType
<1>12. CASE UNCHANGED vars
    BY <1>12 DEF vars
<1> QED BY <1>1, <1>2, <1>3, <1>4, <1>5, <1>6, <1>7, <1>8, <1>9, <1>10, <1>11, <1>12 DEF Next

(* An append accounts for its request, however much of it is written. *)
LEMMA WrittenAccounts ==
    ASSUME TypeOK, NEW q \in Request, AppendWhole(q) \/ AppendShort(q)
    PROVE  Accounted(log', q) /\ Extends(log, log') /\ disk' = disk
<1>1. log \in File /\ NewLine(q) \in Line /\ Cut \in Line /\ NewLine(q).event = q
    BY NewLineType DEF TypeOK, Line
<1>2. ASSUME NEW line \in {NewLine(q), Cut}, NEW ended \in BOOLEAN
      PROVE  Accounted(Behind(log, line, ended), q) /\ Extends(log, Behind(log, line, ended))
    BY <1>1, BehindExtends
<1> QED BY <1>2 DEF AppendWhole, WriteWhole, AppendShort, WriteShort

(* Every step extends the log, and no step but an fsync or a power failure *)
(* changes what is synced.                                                 *)
LEMMA LogStep ==
    ASSUME IInv, [Next]_vars
    PROVE  /\ Extends(log, log') \/ PowerFails
           /\ disk' = disk \/ (disk' = log /\ log' = log) \/ PowerFails
<1>0. TypeOK
    BY DEF IInv
<1>1. log \in File
    BY <1>0 DEF TypeOK
<1>2. ASSUME NEW q \in Request, AppendWhole(q) \/ AppendShort(q)
      PROVE  Extends(log, log') /\ disk' = disk
    BY <1>0, <1>2, WrittenAccounts
<1>3. \/ log' = log /\ disk' \in {disk, log}
      \/ PowerFails
      \/ \E q \in Request : AppendWhole(q) \/ AppendShort(q)
    BY DEF Next, vars, auditVars, Deny, Check, Open, Write, Place, PlaceFails, ReadHead,
       Answer, Sync, AppendFails, Crash, Start
<1> QED BY <1>1, <1>2, <1>3, ExtendsReflexive

(* How a request comes to the end of its append. *)
LEMMA RequestStep ==
    ASSUME TypeOK, Served, [Next]_vars, NEW q \in Request
    PROVE  /\ pc'[q] \in Ended \cup {"new"} \/ server'[q] \in up'
           /\ pc'[q] = "syncing" => pc[q] = "syncing" \/ AppendWhole(q) \/ AppendShort(q)
           /\ pc'[q] = "answered" => pc[q] = "answered" \/ Answer(q)
           /\ PowerFails => pc'[q] \in Ended \cup {"new"}
<1> DEFINE P == /\ pc'[q] \in Ended \cup {"new"} \/ server'[q] \in up'
                /\ pc'[q] = "syncing" => pc[q] = "syncing" \/ AppendWhole(q) \/ AppendShort(q)
                /\ pc'[q] = "answered" => pc[q] = "answered" \/ Answer(q)
                /\ PowerFails => pc'[q] \in Ended \cup {"new"}
<1>0. pc[q] \in Ended \cup {"new"} \/ server[q] \in up
    BY DEF Served
<1> USE DEF TypeOK
<1>1. ASSUME NEW r \in Request, NEW p \in Process, Deny(r, p) \/ Check(r, p)
      PROVE  P /\ ~PowerFails
  <2>1. /\ pc' = [pc EXCEPT ![r] = pc'[r]] /\ pc'[r] \in {"served", "checked"}
        /\ server' = [server EXCEPT ![r] = p] /\ p \in up /\ up' = up
      BY <1>1 DEF Deny, Check, Moves
  <2>2. ~PowerFails
      BY <1>1, <2>1 DEF PowerFails, Stop
  <2> QED BY <1>0, <2>1, <2>2 DEF Ended
<1>2. ASSUME NEW r \in Request,
             Open(r) \/ Write(r) \/ Place(r) \/ ReadHead(r) \/ AppendWhole(r) \/ AppendShort(r)
      PROVE  P /\ ~PowerFails
  <2>1. /\ pc[r] \notin Ended \cup {"new"}
        /\ pc' = [pc EXCEPT ![r] = pc'[r]]
        /\ pc'[r] \in {"opened", "written", "served", "appending"}
               \/ (pc'[r] = "syncing" /\ (AppendWhole(r) \/ AppendShort(r)))
        /\ server' = server /\ up' = up
      BY <1>2 DEF Open, Write, Place, ReadHead, AppendWhole, AppendShort, Moves, Ended
  <2>2. ~PowerFails
      BY <2>1 DEF PowerFails, Stop, End, Ended
  <2>3. server[r] \in up
      BY <2>1 DEF Served
  <2> QED BY <1>0, <2>1, <2>2, <2>3 DEF Ended
<1>3. ASSUME NEW r \in Request, PlaceFails(r) \/ AppendFails(r) \/ Answer(r)
      PROVE  P /\ ~PowerFails
  <2>1. /\ pc' = [s \in Request |-> IF s = r THEN pc'[r] ELSE pc[s]]
        /\ server' = [s \in Request |-> IF s = r THEN None ELSE server[s]]
        /\ pc'[r] \in {"failed", "answered"} /\ up' = up
        /\ pc'[r] = "answered" => Answer(r)
      BY <1>3 DEF PlaceFails, AppendFails, Answer, End
  <2>2. ~PowerFails
      BY <2>1 DEF PowerFails, Stop
  <2> QED BY <1>0, <2>1, <2>2 DEF Ended
<1>4. ASSUME NEW processes, Stop(processes), up \subseteq processes \/ ~PowerFails
      PROVE  P
  <2>1. /\ pc'[q] = IF server[q] \in processes THEN "lost" ELSE pc[q]
        /\ server'[q] = IF server[q] \in processes THEN None ELSE server[q]
        /\ up' = up \ processes
      BY <1>4 DEF Stop, End, Of
  <2> QED BY <1>0, <1>4, <2>1 DEF Ended
<1>5. ASSUME NEW p \in Process, Start(p) PROVE P
  <2>1. ~PowerFails
      BY <1>5 DEF Start, PowerFails, Stop
  <2> QED BY <1>0, <1>5, <2>1 DEF Start
<1>6. CASE UNCHANGED vars
  <2>1. ~PowerFails
      BY <1>6 DEF vars, requestVars, PowerFails, Stop
  <2> QED BY <1>0, <1>6, <2>1 DEF vars, requestVars
<1>7. ASSUME NEW p \in Process, Crash(p) PROVE P
    BY <1>4, <1>7 DEF Crash, PowerFails
<1>8. CASE PowerFails
    BY <1>4, <1>8 DEF PowerFails
<1> QED BY <1>1, <1>2, <1>3, <1>5, <1>6, <1>7, <1>8 DEF Next

(* A request that has appended is accounted for in the log, and one that   *)
(* is answered in what is synced.                                          *)
LEMMA AuditStep == IInv /\ [Next]_vars => AuditInv'
<1> SUFFICES ASSUME IInv, [Next]_vars PROVE AuditInv'
    OBVIOUS
<1>0. TypeOK /\ TypeOK' /\ Served /\ AuditInv
    BY TypeStep DEF IInv
<1>1. log \in File /\ disk \in File /\ log' \in File /\ disk' \in File
    BY <1>0 DEF TypeOK
<1>2. CASE PowerFails
  <2>1. disk' = log' /\ Extends(disk, log')
      BY <1>0, <1>2, SurvivingExtends DEF PowerFails, AuditInv
  <2>2. Extends(disk', log')
      BY <1>1, <2>1, ExtendsReflexive
  <2>3. ASSUME NEW q \in Request
        PROVE  pc'[q] # "syncing" /\ (pc'[q] = "answered" => pc[q] = "answered")
      BY <1>0, <1>2, RequestStep DEF Ended, Answer, PowerFails, Stop, End
  <2> QED BY <1>0, <1>1, <2>1, <2>2, <2>3, ExtendsAccounts DEF AuditInv
<1>3. CASE ~PowerFails
  <2>1. Extends(log, log') /\ (disk' = disk \/ (disk' = log /\ log' = log))
      BY <1>3, LogStep
  <2>2. Extends(disk', log')
      BY <1>0, <1>1, <2>1, ExtendsTransitive, ExtendsReflexive DEF AuditInv
  <2>3. ASSUME NEW q \in Request, Accounted(disk, q) PROVE Accounted(disk', q)
      BY <1>0, <1>1, <2>1, <2>3, ExtendsAccounts DEF AuditInv
  <2>4. ASSUME NEW q \in Request, pc'[q] = "syncing" PROVE Accounted(log', q)
    <3>1. CASE pc[q] = "syncing"
        BY <1>0, <1>1, <2>1, <3>1, ExtendsAccounts DEF AuditInv
    <3>2. CASE AppendWhole(q) \/ AppendShort(q)
        BY <1>0, <1>1, <3>2, NewLineType, WrittenAccounts
    <3> QED BY <1>0, <2>4, <3>1, <3>2, RequestStep
  <2>5. ASSUME NEW q \in Request, pc'[q] = "answered" PROVE Accounted(disk', q)
    <3>1. CASE pc[q] = "answered"
        BY <1>0, <2>3, <3>1 DEF AuditInv
    <3>2. CASE Answer(q)
        BY <1>0, <3>2 DEF AuditInv, Answer, Sync
    <3> QED BY <1>0, <2>5, <3>1, <3>2, RequestStep
  <2> QED BY <2>2, <2>4, <2>5 DEF AuditInv
<1> QED BY <1>2, <1>3

(* How a request comes to its append. *)
LEMMA AppendingStep ==
    ASSUME TypeOK, [Next]_vars, NEW q \in Request
    PROVE  \/ pc'[q] = pc[q] /\ previous'[q] = previous[q]
           \/ pc'[q] \notin {"appending", "syncing"}
           \/ ReadHead(q)
           \/ pc'[q] = "syncing" /\ pc[q] = "appending" /\ (AppendWhole(q) \/ AppendShort(q))
<1> DEFINE P == \/ pc'[q] = pc[q] /\ previous'[q] = previous[q]
                \/ pc'[q] \notin {"appending", "syncing"}
                \/ ReadHead(q)
                \/ pc'[q] = "syncing" /\ pc[q] = "appending"
                   /\ (AppendWhole(q) \/ AppendShort(q))
<1> USE DEF TypeOK
<1>1. ASSUME NEW r \in Request, NEW p \in Process, Deny(r, p) \/ Check(r, p) PROVE P
    BY <1>1 DEF Deny, Check, Moves
<1>2. ASSUME NEW r \in Request, Open(r) \/ Write(r) \/ Place(r) PROVE P
    BY <1>2 DEF Open, Write, Place, Moves
<1>3. ASSUME NEW r \in Request, ReadHead(r) \/ AppendWhole(r) \/ AppendShort(r) PROVE P
    BY <1>3 DEF ReadHead, AppendWhole, AppendShort, Moves
<1>4. ASSUME NEW r \in Request, PlaceFails(r) \/ AppendFails(r) \/ Answer(r) PROVE P
    BY <1>4 DEF PlaceFails, AppendFails, Answer, End
<1>5. ASSUME NEW p \in Process, Crash(p) PROVE P
    BY <1>5 DEF Crash, Stop, End
<1>6. CASE PowerFails
    BY <1>6 DEF PowerFails, Stop, End
<1>7. ASSUME NEW p \in Process, Start(p) PROVE P
    BY <1>7 DEF Start
<1>8. CASE UNCHANGED vars
    BY <1>8 DEF vars, requestVars
<1> QED BY <1>1, <1>2, <1>3, <1>4, <1>5, <1>6, <1>7, <1>8 DEF Next

(* The history variables only ever become true. *)
LEMMA HistoryStep ==
    ASSUME TypeOK, [Next]_vars
    PROVE  /\ (shared => shared') /\ (cut => cut') /\ (dark => dark') /\ (raced => raced')
<1> USE DEF history
<1>1. ASSUME NEW q \in Request, NEW p \in Process, Deny(q, p) \/ Check(q, p)
      PROVE  UNCHANGED <<cut, dark, shared>> /\ (raced => raced')
    BY <1>1 DEF Deny, Check
<1>2. ASSUME NEW q \in Request,
             Open(q) \/ Write(q) \/ Place(q) \/ PlaceFails(q) \/ AppendWhole(q) \/ Answer(q)
                 \/ AppendFails(q)
      PROVE  UNCHANGED <<cut, dark, shared, raced>>
    BY <1>2 DEF Open, Write, Place, PlaceFails, AppendWhole, Answer, AppendFails
<1>3. ASSUME NEW q \in Request, ReadHead(q)
      PROVE  (shared => shared') /\ UNCHANGED <<cut, dark, raced>>
    BY <1>3, Zenon DEF ReadHead
<1>4. ASSUME NEW q \in Request, AppendShort(q)
      PROVE  cut' /\ UNCHANGED <<shared, dark, raced>>
    BY <1>4 DEF AppendShort
<1>5. ASSUME NEW p \in Process, Crash(p) \/ Start(p)
      PROVE  UNCHANGED <<cut, dark, shared, raced>>
    BY <1>5 DEF Crash, Stop, Start
<1>6. CASE PowerFails
    BY <1>6 DEF PowerFails, Stop
<1>7. CASE UNCHANGED vars
    BY <1>7 DEF vars
<1> QED BY <1>1, <1>2, <1>3, <1>4, <1>5, <1>6, <1>7 DEF Next

(* Appends that do not overlap chain to one another. *)
LEMMA ChainStep == IInv /\ [Next]_vars => ChainInv'
<1> SUFFICES ASSUME IInv, [Next]_vars, ~shared'
             PROVE  /\ \A q, r \in Appending' : q = r
                    /\ \A q \in Request : pc'[q] = "appending" =>
                           HeadReadable(log') /\ previous'[q] = HeadHash(log')
                    /\ DamageLast(log') /\ DamageLast(disk')
                    /\ ~cut' /\ ~dark' => log'.ended /\ Verifies(log')
    BY DEF ChainInv
<1>0. TypeOK /\ Served /\ ChainInv /\ ~shared /\ (~cut' => ~cut) /\ (~dark' => ~dark)
    BY HistoryStep DEF IInv
<1>a. log \in File
    BY <1>0 DEF TypeOK
<1>1. ASSUME NEW q \in Request, ReadHead(q)
      PROVE  /\ Appending = {} /\ HeadReadable(log) /\ previous'[q] = HeadHash(log)
             /\ log' = log /\ disk' = disk
    BY <1>0, <1>1 DEF ReadHead, TypeOK, auditVars
<1>2. \A q \in Appending' : q \in Appending \/ ReadHead(q)
    BY <1>0, AppendingStep DEF Appending
<1>3. \A q, r \in Appending' : q = r
  <2>1. ASSUME NEW q \in Appending', NEW r \in Appending', ReadHead(q), q # r PROVE FALSE
      BY <1>0, <1>1, <1>2, <2>1 DEF ReadHead, Moves, Appending, TypeOK
  <2> QED BY <1>0, <1>2, <2>1 DEF ChainInv
<1>4. ASSUME NEW q \in Request, AppendWhole(q) \/ AppendShort(q)
      PROVE  /\ \A r \in Request : pc'[r] # "appending"
             /\ DamageLast(log') /\ disk' = disk
             /\ ~cut' /\ ~dark' => log'.ended /\ Verifies(log')
  <2>1. /\ q \in Appending /\ HeadReadable(log) /\ previous[q] = HeadHash(log)
        /\ DamageLast(log)
      BY <1>0, <1>4 DEF AppendWhole, AppendShort, Appending, ChainInv
  <2>2. ASSUME NEW r \in Request PROVE pc'[r] # "appending"
    <3>1. r # q => pc[r] # "appending"
        BY <1>0, <2>1 DEF ChainInv, Appending
    <3> QED BY <1>0, <1>4, <3>1 DEF AppendWhole, AppendShort, Moves, TypeOK
  <2>3. /\ NewLine(q) \in Line /\ Cut \in Line /\ NewLine(q) # Cut
        /\ NewLine(q).previous = HeadHash(log)
      BY <1>0, <2>1, NewLineType DEF Line
  <2>4. CASE AppendWhole(q)
    <3>1. log' = Behind(log, NewLine(q), TRUE) /\ cut' = cut /\ dark' = dark /\ disk' = disk
        BY <2>4 DEF AppendWhole, WriteWhole, history
    <3>2. DamageLast(log') /\ log'.ended
        BY <1>a, <2>1, <2>3, <3>1, BehindChain, BehindFile
    <3>3. log.ended /\ Verifies(log) => Verifies(log')
        BY <1>a, <2>1, <2>3, <3>1, BehindChain
    <3> QED BY <1>0, <2>2, <3>1, <3>2, <3>3 DEF ChainInv
  <2>5. CASE AppendShort(q)
    <3>1. /\ log' \in {Behind(log, NewLine(q), FALSE), Behind(log, Cut, FALSE)}
          /\ cut' = TRUE /\ disk' = disk
        BY <2>5 DEF AppendShort, WriteShort
    <3>2. DamageLast(log')
        BY <1>a, <2>1, <2>3, <3>1, BehindChain
    <3> QED BY <2>2, <3>1, <3>2
  <2> QED BY <1>4, <2>4, <2>5
<1>5. CASE PowerFails
  <2>1. log' \in Surviving /\ disk' = log' /\ dark' = TRUE
      BY <1>5 DEF PowerFails
  <2>2. DamageLast(log')
      BY <1>0, <2>1, SurvivingChain DEF ChainInv
  <2>3. \A q \in Request : pc'[q] \in Ended \cup {"new"}
      BY <1>0, <1>5, RequestStep
  <2> QED BY <1>3, <2>1, <2>2, <2>3 DEF Ended
<1>6. CASE log' = log /\ disk' \in {disk, log}
  <2>1. ASSUME NEW q \in Request, pc'[q] = "appending"
        PROVE  HeadReadable(log) /\ previous'[q] = HeadHash(log)
      BY <1>0, <1>1, <2>1, AppendingStep DEF ChainInv
  <2> QED BY <1>0, <1>3, <1>6, <2>1 DEF ChainInv
<1>7. \/ log' = log /\ disk' \in {disk, log}
      \/ PowerFails
      \/ \E q \in Request : AppendWhole(q) \/ AppendShort(q)
    BY DEF Next, vars, auditVars, Deny, Check, Open, Write, Place, PlaceFails, ReadHead,
       Answer, Sync, AppendFails, Crash, Start
<1> QED BY <1>0, <1>3, <1>4, <1>5, <1>6, <1>7 DEF ChainInv

(* Saves that do not overlap place what they wrote. *)
LEMMA SaveStep == IInv /\ [Next]_vars => SaveInv'
<1> DEFINE Body == /\ \A q, r \in InSave : q = r
                   /\ InSave # {} => placed = None
                   /\ \A q \in Request :
                          /\ pc[q] = "opened" => staging # None /\ writes[q] = staging
                                                 /\ content[staging] = None
                          /\ pc[q] = "written" => staging # None /\ content[staging] = q
                          /\ result[q] = "created" => placed # None /\ content[placed] = q
<1> SUFFICES ASSUME IInv, [Next]_vars, ~raced', ~dark' PROVE Body'
    BY DEF SaveInv
<1>0. TypeOK /\ Body
    BY HistoryStep DEF IInv, SaveInv
<1> USE NoneAssumption DEF InSave
<1>1. ASSUME NEW q \in Request, NEW p \in Process, Deny(q, p) \/ Check(q, p) PROVE Body'
  <2>1. /\ \A r \in Request : r # q => pc'[r] = pc[r] /\ result'[r] = result[r]
        /\ UNCHANGED approvalVars
        /\ pc'[q] = "served" \/ (pc'[q] = "checked" /\ InSave = {} /\ placed = None)
        /\ pc[q] = "new" /\ (result'[q] # "created" \/ result'[q] = result[q])
      BY <1>0, <1>1 DEF Deny, Check, Exists, Moves, Makes, TypeOK
  <2> QED BY <1>0, <2>1 DEF approvalVars
<1>2. ASSUME NEW q \in Request, Open(q) PROVE Body'
  <2> DEFINE i == IF staging = None THEN q ELSE staging
  <2>1. /\ pc[q] = "checked" /\ pc' = [pc EXCEPT ![q] = "opened"] /\ staging' = i
        /\ writes' = [writes EXCEPT ![q] = i] /\ content' = [content EXCEPT ![i] = None]
        /\ placed' = placed /\ result' = result
      BY <1>2 DEF Open, OpenStaging, Moves
  <2>2. i \in Request
      BY <1>0 DEF TypeOK
  <2>3. placed = None /\ \A r \in InSave : r = q
      BY <1>0, <2>1
  <2> HIDE DEF i
  <2> QED BY <1>0, <2>1, <2>2, <2>3 DEF TypeOK
<1>3. ASSUME NEW q \in Request, Write(q) PROVE Body'
  <2>1. /\ pc[q] = "opened" /\ pc' = [pc EXCEPT ![q] = "written"] /\ staging' = staging
        /\ placed' = placed /\ result' = result
      BY <1>3 DEF Write, WriteStaging, Moves
  <2>2. /\ placed = None /\ (\A r \in InSave : r = q)
        /\ staging \in Request /\ writes[q] = staging /\ content[staging] = None
      BY <1>0, <2>1 DEF TypeOK
  <2>3. content' = [content EXCEPT ![staging] = q]
      BY <1>3, <2>2 DEF Write, WriteStaging
  <2> QED BY <1>0, <2>1, <2>2, <2>3 DEF TypeOK
<1>4. ASSUME NEW q \in Request, Place(q) PROVE Body'
  <2>1. /\ pc[q] = "written" /\ pc' = [pc EXCEPT ![q] = "served"]
        /\ result' = [result EXCEPT ![q] = "created"]
        /\ placed' = staging /\ content' = content
      BY <1>4 DEF Place, Replace, Moves, Makes
  <2>2. /\ placed = None /\ (\A r \in InSave : r = q) /\ staging # None
        /\ content[staging] = q /\ \A r \in Request : result[r] # "created"
      BY <1>0, <2>1
  <2> QED BY <1>0, <2>1, <2>2 DEF TypeOK
<1>5. ASSUME NEW requests \in SUBSET Request, NEW how \in Ended, End(requests, how),
             UNCHANGED <<placed, staging, content, result>>,
             \A q \in Request \ requests : writes'[q] = writes[q]
      PROVE  Body'
  <2>1. \A q \in Request : pc'[q] = IF q \in requests THEN how ELSE pc[q]
      BY <1>5 DEF End
  <2> QED BY <1>0, <1>5, <2>1 DEF Ended
<1>6. ASSUME NEW q \in Request, PlaceFails(q) \/ AppendFails(q) \/ Answer(q) PROVE Body'
  <2>1. /\ UNCHANGED <<placed, staging, content, result>> /\ writes' = writes
        /\ \E how \in Ended : End({q}, how)
      BY <1>6 DEF PlaceFails, AppendFails, Answer, approvalVars, Ended
  <2> QED BY <1>5, <2>1
<1>7. ASSUME NEW p \in Process, Crash(p) PROVE Body'
  <2>1. /\ UNCHANGED <<placed, staging, content, result>>
        /\ \A q \in Request \ Of({p}) : writes'[q] = writes[q]
        /\ End(Of({p}), "lost") /\ Of({p}) \in SUBSET Request /\ "lost" \in Ended
      BY <1>7 DEF Crash, Stop, CloseAll, Of, Ended
  <2> QED BY <1>5, <2>1
<1>8. ASSUME NEW q \in Request, ReadHead(q) \/ AppendWhole(q) \/ AppendShort(q) PROVE Body'
  <2>1. /\ pc[q] \in {"served", "appending"} /\ pc'[q] \in {"appending", "syncing"}
        /\ \A r \in Request : r # q => pc'[r] = pc[r]
        /\ UNCHANGED approvalVars /\ result' = result
      BY <1>0, <1>8 DEF ReadHead, AppendWhole, AppendShort, Moves, TypeOK
  <2> QED BY <1>0, <2>1 DEF approvalVars
<1>9. CASE UNCHANGED <<approvalVars, pc, result>>
    BY <1>0, <1>9 DEF approvalVars
<1>10. (\E p \in Process : Start(p)) \/ UNCHANGED vars => UNCHANGED <<approvalVars, pc, result>>
    BY DEF Start, vars, requestVars
<1>11. ~PowerFails
    BY DEF PowerFails
<1> QED BY <1>1, <1>2, <1>3, <1>4, <1>6, <1>7, <1>8, <1>9, <1>10, <1>11 DEF Next

-----------------------------------------------------------------------------
(* The invariant is inductive. *)
THEOREM Invariance == Spec => []IInv
<1>1. IInv /\ [Next]_vars => IInv'
  <2> SUFFICES ASSUME IInv, [Next]_vars PROVE IInv'
      OBVIOUS
  <2>1. Served'
      BY RequestStep DEF IInv, Served
  <2> QED BY <2>1, TypeStep, AuditStep, ChainStep, SaveStep DEF IInv
<1> QED BY InitIInv, <1>1, PTL DEF Spec

(* AnsweredRecorded: an answered request is in the synced log, or the log  *)
(* does not verify, whatever is cut short and whenever power fails.        *)
THEOREM AnswersAccounted == Spec => []AnsweredRecorded
<1>1. IInv => AnsweredRecorded
    BY DEF IInv, AuditInv, Accounted, AnsweredRecorded
<1> QED BY Invariance, <1>1, PTL

(* ChainHolds: the chain breaks only by a short write, a power failure or  *)
(* two processes that append together, which no lock of theirs prevents.   *)
THEOREM Chain == Spec => []ChainHolds
<1>1. IInv => ChainHolds
    BY DEF IInv, ChainInv, ChainHolds
<1> QED BY Invariance, <1>1, PTL

(* DamageIsLast: a line that does not parse is the last one, unless two    *)
(* processes append together.                                              *)
THEOREM Damage == Spec => []DamageIsLast
<1>1. IInv => DamageIsLast
    BY DEF IInv, ChainInv, DamageLast, DamageIsLast
<1> QED BY Invariance, <1>1, PTL

(* OneApproval: of requests that do not overlap in save, the one answered  *)
(* with 201 is the one in the file.                                        *)
THEOREM ApprovalKept == Spec => []OneApproval
<1>1. IInv => OneApproval
    BY DEF IInv, SaveInv, OneApproval
<1> QED BY Invariance, <1>1, PTL
=============================================================================
