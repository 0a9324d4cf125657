------------------------ MODULE ProjectBuild_proofs ------------------------
(***************************************************************************)
(* Theorems about ProjectBuild, for projects of any size and any number of *)
(* handlers.  They rest on one fact: a run of which no save has replaced   *)
(* what it had not read keeps its approval, because a run is read for a    *)
(* change only while it is ready.  So whoever approves it first keeps it,  *)
(* and a project that has one such run has one winner.                     *)
(***************************************************************************)
EXTENDS ProjectBuild, TLAPS

Kept == Equipment \ crossed

Approved(e, h) ==
    /\ run[e] # None
    /\ run[e].status = "approved"
    /\ run[e].reviewer = h

BuildInv ==
    /\ build = "building" => manifest = None
    /\ build = "writing" => manifest = Torn
    /\ build = "dead" => manifest \in {None, Torn}
    /\ build \in {"writing", "built"} => \A e \in Equipment : run[e] # None
    /\ draft.status # "approved"

(* What a handler holds at each of its stages. *)
StageInv(h) ==
    /\ pc[h] # "idle" =>
           /\ build = "built"
           /\ snapshot[h] \in Record
           /\ snapshot[h].status \in {"ready", "approved"}
    /\ pc[h] \in {"approving", "writing"} => snapshot[h].status = "ready"
    /\ pc[h] = "bundling" => snapshot[h].status = "approved"
    /\ held[h] # None => pc[h] = "approving" /\ at[h] <= Size
    /\ \A e \in Equipment : bundle[h][e] # None => pc[h] = "bundling"

(* What is read for a change is ready. *)
ReadReady ==
    /\ \A e \in Equipment : client[e] # None => client[e].status = "ready"
    /\ \A h \in Handler : held[h] # None => held[h].status = "ready"

(* A handler has approved the runs behind it. *)
Behind(h, e) ==
    \/ pc[h] = "approving" /\ e < at[h]
    \/ pc[h] = "writing"

(* A handler that exports has compared the digests behind it. *)
Compared(h, e) ==
    /\ pc[h] # "idle"
    /\ snapshot[h].status = "approved"
    /\ pc[h] = "verifying" => e < at[h]

(* What a handler knows of a run. *)
Known(h, e) ==
    /\ Behind(h, e) => Approved(e, h)
    /\ pc[h] # "idle" /\ snapshot[h].status = "approved" =>
           Approved(e, snapshot[h].approval)
    /\ Compared(h, e) => run[e].lanes = snapshot[h].lanes[e]
    /\ bundle[h][e] # None => bundle[h][e] = run[e]

RunInv(e) ==
    /\ Parsed /\ manifest.status = "approved" => Approved(e, manifest.approval)
    /\ \A h \in Handler : Known(h, e)

(* The reviewer of an approved project no longer works on its approval. *)
ReviewerDone ==
    Parsed /\ manifest.status = "approved" =>
        /\ manifest.approval \in Handler
        /\ pc[manifest.approval] # "idle" =>
               snapshot[manifest.approval].status = "approved"

WriterAlone ==
    crossed # Equipment => \A h \in Handler : pc[h] = "writing" => manifest = Torn

IInv ==
    /\ TypeOK
    /\ BuildInv
    /\ \A h \in Handler : StageInv(h)
    /\ ReadReady
    /\ \A e \in Kept : RunInv(e)
    /\ ReviewerDone
    /\ WriterAlone
    /\ TornOnlyByDeath

-----------------------------------------------------------------------------
(* The initial state satisfies the inductive invariant. *)
LEMMA InitIInv == Init => IInv
<1> SUFFICES ASSUME Init PROVE IInv
    OBVIOUS
<1> USE SizeAssumption, NoneAssumption DEF Init
<1>1. TypeOK
  <2>1. draft \in Record
      BY DEF Record
  <2>2. 1 \in 1 .. Size + 1
      OBVIOUS
  <2> QED BY <2>1, <2>2 DEF TypeOK
<1>2. BuildInv
    BY DEF BuildInv
<1>3. ReadReady /\ ReviewerDone /\ WriterAlone /\ TornOnlyByDeath
    BY DEF ReadReady, ReviewerDone, WriterAlone, TornOnlyByDeath, Parsed
<1>4. ASSUME NEW h \in Handler PROVE StageInv(h)
    BY DEF StageInv
<1>5. ASSUME NEW e \in Kept PROVE RunInv(e)
    BY DEF RunInv, Parsed, Known, Behind, Compared, Kept
<1> QED BY <1>1, <1>2, <1>3, <1>4, <1>5 DEF IInv

(* The fields of a run, and what each kind of save makes of one. *)
LEMMA RunFields ==
    ASSUME NEW r \in Run
    PROVE  /\ r # None
           /\ r.lanes \in SUBSET Lane
           /\ \A h \in Handler \cup {Other} :
                  /\ [r EXCEPT !.status = "approved", !.reviewer = h] \in Run
                  /\ [r EXCEPT !.status = "approved", !.reviewer = h].status = "approved"
                  /\ [r EXCEPT !.status = "approved", !.reviewer = h].reviewer = h
                  /\ [r EXCEPT !.status = "approved", !.reviewer = h].lanes = r.lanes
           /\ Outcome(r) \subseteq Run
<1>1. r # None
    BY NoneAssumption
<1>2. r.lanes \in SUBSET Lane
    BY DEF Run
<1>3. ASSUME NEW h \in Handler \cup {Other}
      PROVE  LET n == [r EXCEPT !.status = "approved", !.reviewer = h]
             IN  n \in Run /\ n.status = "approved" /\ n.reviewer = h /\ n.lanes = r.lanes
    BY DEF Run
<1>4. [r EXCEPT !.status = "rejected", !.reviewer = Other] \in Run
    BY DEF Run
<1>5. ASSUME NEW l \in Lane, NEW s \in {"ready", "failed"}
      PROVE  [r EXCEPT !.lanes = @ \cup {l}, !.status = s] \in Run
    BY DEF Run
<1>6. ASSUME NEW o \in Outcome(r) PROVE o \in Run
  <2>1. \/ o = [r EXCEPT !.status = "approved", !.reviewer = Other]
        \/ o = [r EXCEPT !.status = "rejected", !.reviewer = Other]
        \/ \E l \in Lane : o = [r EXCEPT !.lanes = @ \cup {l}, !.status = "ready"]
        \/ \E l \in Lane : o = [r EXCEPT !.lanes = @ \cup {l}, !.status = "failed"]
      BY Zenon DEF Outcome
  <2>2. [r EXCEPT !.status = "approved", !.reviewer = Other] \in Run
      BY DEF Run
  <2> QED BY <2>1, <2>2, <1>4, <1>5
<1> QED BY <1>1, <1>2, <1>3, <1>6

(* What an approval makes of a record. *)
LEMMA RecordFields ==
    ASSUME NEW m \in Record, NEW h \in Handler
    PROVE  LET n == [m EXCEPT !.status = "approved", !.approval = h]
           IN  n \in Record /\ n # Torn /\ n.approval = h
BY NoneAssumption DEF Record

(* A handler that has not passed the last run is at one. *)
LEMMA AtRun ==
    ASSUME TypeOK, NEW h \in Handler, at[h] <= Size
    PROVE  at[h] \in Equipment /\ at[h] + 1 \in 1 .. Size + 1
BY SizeAssumption DEF TypeOK, Equipment

(* Every step keeps every variable in its type. *)
LEMMA TypeStep == IInv /\ [Next]_vars => TypeOK'
<1> SUFFICES ASSUME IInv, [Next]_vars PROVE TypeOK'
    OBVIOUS
<1>0. TypeOK /\ \A h \in Handler : StageInv(h)
    BY DEF IInv
<1> USE <1>0, SizeAssumption DEF TypeOK, handlerVars, buildVars, history, Cross
<1>1. ASSUME NEW e \in Equipment, NEW s \in {"failed", "ready"}, CreateRun(e, s)
      PROVE  TypeOK'
  <2>1. [status |-> s, lanes |-> {}, reviewer |-> None] \in Run
      BY DEF Run
  <2>2. draft' \in Record
      BY <1>1 DEF CreateRun, Record
  <2> QED BY <1>1, <2>1, <2>2 DEF CreateRun
<1>2. ASSUME NEW e \in Equipment, Read(e) PROVE TypeOK'
    BY <1>2 DEF Read
<1>3. ASSUME NEW e \in Equipment, Save(e) PROVE TypeOK'
  <2>1. client[e] \in Run
      BY <1>3 DEF Save
  <2>2. Outcome(client[e]) \subseteq Run
      BY <2>1, RunFields
  <2> QED BY <1>3, <2>2 DEF Save
<1>4. ASSUME NEW e \in Equipment, Drop(e) PROVE TypeOK'
    BY <1>4 DEF Drop
<1>5. ASSUME NEW s \in {"failed", "ready"}, BeginRecord(s) PROVE TypeOK'
  <2>1. draft' = [draft EXCEPT !.status = IF s = "ready" THEN draft.status ELSE "failed",
                               !.files = files]
      BY <1>5 DEF BeginRecord
  <2>2. draft' \in Record
      BY <2>1 DEF Record
  <2> QED BY <1>5, <2>2 DEF BeginRecord
<1>6. CASE SaveRecord
    BY <1>6 DEF SaveRecord, Written
<1>7. CASE AbandonBuild
    BY <1>7 DEF AbandonBuild
<1>8. CASE Drift
    BY <1>8 DEF Drift
<1>9. ASSUME NEW h \in Handler, HandlerStep(h) PROVE TypeOK'
  <2>1. CASE Get(h)
      BY <2>1 DEF Get
  <2>2. CASE VerifyRun(h)
      BY <2>2, AtRun DEF VerifyRun
  <2>3. CASE VerifyFiles(h)
      BY <2>3 DEF VerifyFiles
  <2>4. CASE ReadRun(h)
      BY <2>4, AtRun DEF ReadRun
  <2>5. CASE SaveRun(h)
    <3>1. held[h] \in Run /\ at[h] + 1 \in 1 .. Size + 1
        BY <2>5, AtRun DEF SaveRun, StageInv
    <3>2. [held[h] EXCEPT !.status = "approved", !.reviewer = h] \in Run
        BY <3>1, RunFields
    <3>3. crossed' \subseteq Equipment
        BY <2>5, <3>1, AtRun DEF SaveRun, StageInv
    <3> QED BY <2>5, <3>1, <3>2, <3>3 DEF SaveRun
  <2>6. CASE BeginApproval(h)
      BY <2>6 DEF BeginApproval
  <2>7. CASE SaveApproval(h)
    <3>1. [snapshot[h] EXCEPT !.status = "approved", !.approval = h] \in Record
        BY <2>7, RecordFields DEF SaveApproval, StageInv
    <3> QED BY <2>7, <3>1 DEF SaveApproval, Written, Forget
  <2>8. CASE Collect(h)
      BY <2>8, AtRun DEF Collect
  <2>9. CASE Leave(h)
      BY <2>9 DEF Leave, Forget
  <2> QED BY <1>9, <2>1, <2>2, <2>3, <2>4, <2>5, <2>6, <2>7, <2>8, <2>9 DEF HandlerStep
<1>10. CASE UNCHANGED vars
    BY <1>10 DEF vars
<1> QED BY <1>1, <1>2, <1>3, <1>4, <1>5, <1>6, <1>7, <1>8, <1>9, <1>10 DEF Next
-----------------------------------------------------------------------------
(* No save is taken back from the history. *)
LEMMA CrossedGrows == [Next]_vars => crossed \subseteq crossed'
BY Zenon DEF Next, vars, history, HandlerStep, CreateRun, Read, Save, Drop, Drift, Cross, Get,
   VerifyRun, VerifyFiles, ReadRun, SaveRun, Collect, Leave, BeginRecord, SaveRecord,
   AbandonBuild, BeginApproval, SaveApproval

(* No run disappears, and an approved one is only replaced by a handler    *)
(* that has not read the approval.                                         *)
LEMMA RunStep ==
    ASSUME IInv, [Next]_vars, NEW e \in Equipment, run[e] # None
    PROVE  /\ run'[e] # None
           /\ e \in Kept' /\ run[e].status = "approved" => run'[e] = run[e]
<1>0. TypeOK /\ (\A h \in Handler : StageInv(h)) /\ ReadReady
    BY DEF IInv
<1> USE DEF Cross, Kept
<1>1. ASSUME NEW d \in Equipment, NEW s \in {"failed", "ready"}, CreateRun(d, s)
      PROVE  run'[e] = run[e]
    BY <1>0, <1>1 DEF CreateRun, Missing, TypeOK
<1>2. ASSUME NEW d \in Equipment, Save(d)
      PROVE  /\ run'[e] # None
             /\ e \in Kept' /\ run[e].status = "approved" => run'[e] = run[e]
  <2>1. client[d] \in Run
      BY <1>0, <1>2 DEF Save, TypeOK
  <2>2. \A o \in Outcome(client[d]) : o # None
      BY <2>1, RunFields, NoneAssumption
  <2>3. run'[e] # None
      BY <1>0, <1>2, <2>2 DEF Save, TypeOK
  <2>4. ASSUME d = e, e \notin crossed' PROVE run[e].status = "ready"
      BY <1>0, <1>2, <2>4 DEF Save, ReadReady
  <2> QED BY <1>0, <1>2, <2>3, <2>4 DEF Save, TypeOK
<1>3. ASSUME NEW h \in Handler, SaveRun(h)
      PROVE  /\ run'[e] # None
             /\ e \in Kept' /\ run[e].status = "approved" => run'[e] = run[e]
  <2>1. held[h] \in Run /\ at[h] \in Equipment
      BY <1>0, <1>3, AtRun DEF SaveRun, TypeOK, StageInv
  <2>2. [held[h] EXCEPT !.status = "approved", !.reviewer = h] # None
      BY <2>1, RunFields, NoneAssumption
  <2>3. /\ run'[e] # None
        /\ at[h] # e => run'[e] = run[e]
      BY <1>0, <1>3, <2>2 DEF SaveRun, TypeOK
  <2>4. ASSUME at[h] = e, e \notin crossed' PROVE run[e].status = "ready"
      BY <1>0, <1>3, <2>4 DEF SaveRun, ReadReady
  <2> QED BY <2>3, <2>4
<1>4. \/ run' = run
      \/ \E d \in Equipment, s \in {"failed", "ready"} : CreateRun(d, s)
      \/ \E d \in Equipment : Save(d)
      \/ \E h \in Handler : SaveRun(h)
    BY DEF Next, vars, HandlerStep, Read, Drop, BeginRecord, SaveRecord, AbandonBuild,
       Drift, Get, VerifyRun, VerifyFiles, ReadRun, BeginApproval, SaveApproval,
       Collect, Leave
<1> QED BY <1>1, <1>2, <1>3, <1>4

(* What is read for a change stays as it was read. *)
LEMMA ReadStep == IInv /\ [Next]_vars => ReadReady'
<1> SUFFICES ASSUME IInv, [Next]_vars PROVE ReadReady'
    OBVIOUS
<1>0. TypeOK /\ ReadReady
    BY DEF IInv
<1>1. \/ client' = client
      \/ \E d \in Equipment : client' = [client EXCEPT ![d] = None]
      \/ \E d \in Equipment : Read(d)
    BY DEF Next, vars, HandlerStep, CreateRun, Save, Drop, BeginRecord, SaveRecord,
       AbandonBuild, Drift, Get, VerifyRun, VerifyFiles, ReadRun, SaveRun, BeginApproval,
       SaveApproval, Collect, Leave
<1>2. \/ held' = held
      \/ \E h \in Handler : held' = [held EXCEPT ![h] = None]
      \/ \E h \in Handler : ReadRun(h)
    BY DEF Next, vars, handlerVars, HandlerStep, CreateRun, Read, Save, Drop, BeginRecord,
       SaveRecord, AbandonBuild, Drift, Get, VerifyRun, VerifyFiles, SaveRun, BeginApproval,
       SaveApproval, Collect, Leave, Forget
<1>3. ASSUME NEW e \in Equipment, client'[e] # None PROVE client'[e].status = "ready"
    BY <1>0, <1>1, <1>3 DEF Read, TypeOK, ReadReady
<1>4. ASSUME NEW h \in Handler, held'[h] # None PROVE held'[h].status = "ready"
    BY <1>0, <1>2, <1>4 DEF ReadRun, TypeOK, ReadReady
<1> QED BY <1>3, <1>4 DEF ReadReady

(* The steps that write the project's manifest. *)
LEMMA ManifestStep ==
    ASSUME [Next]_vars
    PROVE  \/ manifest' = manifest /\ build' = build
           \/ manifest' = manifest /\ AbandonBuild
           \/ SaveRecord
           \/ \E s \in {"failed", "ready"} : BeginRecord(s)
           \/ \E h \in Handler : BeginApproval(h) \/ SaveApproval(h)
<1> USE DEF buildVars
<1>1. ASSUME NEW h \in Handler, HandlerStep(h)
      PROVE  \/ manifest' = manifest /\ build' = build
             \/ BeginApproval(h) \/ SaveApproval(h)
    BY <1>1 DEF HandlerStep, Get, VerifyRun, VerifyFiles, ReadRun, SaveRun, Collect, Leave
<1>2. ASSUME NEW e \in Equipment, Read(e) \/ Save(e) \/ Drop(e)
      PROVE  manifest' = manifest /\ build' = build
    BY <1>2 DEF Read, Save, Drop
<1>3. ASSUME NEW e \in Equipment, NEW s \in {"failed", "ready"}, CreateRun(e, s)
      PROVE  manifest' = manifest /\ build' = build
    BY <1>3 DEF CreateRun
<1>4. CASE AbandonBuild
    BY <1>4 DEF AbandonBuild
<1>5. CASE Drift
    BY <1>5 DEF Drift
<1>6. CASE UNCHANGED vars
    BY <1>6 DEF vars
<1> QED BY <1>1, <1>2, <1>3, <1>4, <1>5, <1>6 DEF Next

(* The build goes through its phases in order, and no run is missing after. *)
LEMMA BuildStep == IInv /\ [Next]_vars => BuildInv'
<1> SUFFICES ASSUME IInv, [Next]_vars PROVE BuildInv'
    OBVIOUS
<1>0. TypeOK /\ BuildInv /\ \A h \in Handler : StageInv(h)
    BY DEF IInv
<1>1. draft'.status # "approved"
  <2>1. \/ draft' = draft
        \/ \E s \in {"failed", "ready"} :
              draft' = [draft EXCEPT !.status = IF s = "ready" THEN @ ELSE "failed"]
        \/ \E s \in {"failed", "ready"} :
              draft' = [draft EXCEPT !.status = IF s = "ready" THEN @ ELSE "failed",
                                     !.files = files]
      BY DEF Next, vars, buildVars, HandlerStep, CreateRun, Read, Save, Drop, Drift, Get,
         VerifyRun, VerifyFiles, ReadRun, SaveRun, Collect, Leave, BeginRecord,
         SaveRecord, AbandonBuild, BeginApproval, SaveApproval
  <2> QED BY <1>0, <2>1 DEF TypeOK, Record, BuildInv
<1>2. ASSUME build' \in {"writing", "built"}
      PROVE  \A e \in Equipment : run'[e] # None
  <2>1. \A e \in Equipment : run[e] # None
      BY <1>0, <1>2, ManifestStep DEF BuildInv, AbandonBuild, SaveRecord, BeginRecord,
         Missing, BeginApproval, SaveApproval, StageInv, buildVars
  <2> QED BY <2>1, RunStep
<1>3. /\ build' = "building" => manifest' = None
      /\ build' = "writing" => manifest' = Torn
      /\ build' = "dead" => manifest' \in {None, Torn}
  <2>1. CASE manifest' = manifest /\ build' = build
      BY <1>0, <2>1 DEF BuildInv
  <2>2. CASE manifest' = manifest /\ AbandonBuild
      BY <1>0, <2>2 DEF BuildInv, AbandonBuild
  <2>3. CASE SaveRecord
      BY <2>3 DEF SaveRecord
  <2>4. CASE \E s \in {"failed", "ready"} : BeginRecord(s)
      BY <2>4 DEF BeginRecord
  <2>5. CASE \E h \in Handler : BeginApproval(h) \/ SaveApproval(h)
      BY <1>0, <2>5 DEF BeginApproval, SaveApproval, StageInv, buildVars
  <2> QED BY <2>1, <2>2, <2>3, <2>4, <2>5, ManifestStep
<1> QED BY <1>1, <1>2, <1>3 DEF BuildInv

(* A handler that takes no step. *)
Still(h) ==
    /\ pc'[h] = pc[h] /\ at'[h] = at[h] /\ snapshot'[h] = snapshot[h]
    /\ held'[h] = held[h] /\ bundle'[h] = bundle[h]

(* At most one handler steps. *)
LEMMA OneSteps ==
    ASSUME TypeOK, [Next]_vars, NEW h \in Handler
    PROVE  Still(h) \/ HandlerStep(h)
<1>1. ASSUME NEW g \in Handler, HandlerStep(g), g # h PROVE Still(h)
    BY <1>1 DEF TypeOK, Still, HandlerStep, Get, VerifyRun, VerifyFiles, ReadRun, SaveRun,
       BeginApproval, SaveApproval, Collect, Leave, Forget
<1>2. CASE \/ \E e \in Equipment : Read(e) \/ Save(e) \/ Drop(e)
           \/ \E e \in Equipment, s \in {"failed", "ready"} : CreateRun(e, s)
           \/ \E s \in {"failed", "ready"} : BeginRecord(s)
           \/ SaveRecord \/ AbandonBuild \/ Drift \/ UNCHANGED vars
    BY <1>2 DEF Still, vars, handlerVars, CreateRun, Read, Save, Drop, BeginRecord,
       SaveRecord, AbandonBuild, Drift
<1> QED BY <1>1, <1>2 DEF Next

(* Every handler keeps to its stages. *)
LEMMA StageStep ==
    ASSUME IInv, [Next]_vars, NEW h \in Handler
    PROVE  StageInv(h)'
<1>0. TypeOK /\ BuildInv /\ StageInv(h)
    BY DEF IInv
<1> USE <1>0 DEF StageInv
<1>1. CASE Still(h)
  <2>1. build = "built" => build' = "built"
      BY ManifestStep DEF AbandonBuild, SaveRecord, BeginRecord, BeginApproval,
         SaveApproval, buildVars
  <2> QED BY <1>1, <2>1 DEF Still
<1>2. CASE HandlerStep(h)
  <2> USE DEF TypeOK, buildVars
  <2>1. CASE Get(h)
    <3>1. manifest \in Record /\ build = "built"
        BY <2>1 DEF Get, BuildInv
    <3> QED BY <2>1, <3>1 DEF Get
  <2>2. CASE VerifyRun(h)
      BY <2>2 DEF VerifyRun
  <2>3. CASE VerifyFiles(h)
      BY <2>3 DEF VerifyFiles
  <2>4. CASE ReadRun(h)
      BY <2>4 DEF ReadRun
  <2>5. CASE SaveRun(h)
    <3>1. /\ pc[h] = "approving" /\ pc' = pc /\ snapshot' = snapshot
          /\ bundle' = bundle /\ build' = build /\ held'[h] = None
        BY <2>5 DEF SaveRun
    <3> QED BY <3>1
  <2>6. CASE BeginApproval(h)
    <3>1. /\ pc[h] = "approving" /\ pc' = [pc EXCEPT ![h] = "writing"]
          /\ snapshot' = snapshot /\ bundle' = bundle /\ build' = build /\ held' = held
        BY <2>6 DEF BeginApproval
    <3>2. held[h] = None
        BY <2>6, SizeAssumption DEF BeginApproval
    <3> QED BY <3>1, <3>2
  <2>7. CASE SaveApproval(h)
      BY <2>7 DEF SaveApproval, Forget
  <2>8. CASE Collect(h)
      BY <2>8 DEF Collect
  <2>9. CASE Leave(h)
      BY <2>9 DEF Leave, Forget
  <2> QED BY <1>2, <2>1, <2>2, <2>3, <2>4, <2>5, <2>6, <2>7, <2>8, <2>9 DEF HandlerStep
<1> QED BY <1>1, <1>2, OneSteps

(* What a handler knows of a run stays true while others step, since it    *)
(* keeps a fact about a run only once the run is approved.                 *)
LEMMA KnownStill ==
    ASSUME IInv, [Next]_vars, NEW e \in Kept', NEW h \in Handler, Still(h)
    PROVE  Known(h, e)'
<1>1. StageInv(h) /\ Known(h, e) /\ e \in Equipment
    BY CrossedGrows DEF IInv, RunInv, Kept
<1> USE DEF Approved
<1>2. run[e] # None /\ run[e].status = "approved" => run'[e] = run[e]
    BY <1>1, RunStep
<1>3. (Behind(h, e) => Approved(e, h))'
    BY <1>1, <1>2 DEF Still, Behind, Known
<1>4. pc[h] # "idle" /\ snapshot[h].status = "approved" => run'[e] = run[e]
    BY <1>1, <1>2 DEF Known
<1>5. (pc[h] # "idle" /\ snapshot[h].status = "approved" =>
           Approved(e, snapshot[h].approval))'
    BY <1>1, <1>4 DEF Still, Known
<1>6. (Compared(h, e) => run[e].lanes = snapshot[h].lanes[e])'
    BY <1>1, <1>4 DEF Still, Compared, Known
<1>7. (bundle[h][e] # None => bundle[h][e] = run[e])'
    BY <1>1, <1>4 DEF Still, Known, StageInv
<1> QED BY <1>3, <1>5, <1>6, <1>7 DEF Known

(* What a handler learns of a run by a step of its own. *)
LEMMA KnownStep ==
    ASSUME IInv, [Next]_vars, NEW e \in Kept', NEW h \in Handler, HandlerStep(h)
    PROVE  Known(h, e)'
<1>0. TypeOK /\ BuildInv /\ StageInv(h) /\ RunInv(e) /\ Known(h, e) /\ e \in Equipment
    BY CrossedGrows DEF IInv, RunInv, Kept
<1> USE DEF Known, Behind, Compared, Approved
<1>1. CASE Get(h)
  <2>1. /\ run' = run /\ bundle' = bundle /\ pc'[h] = "verifying" /\ at'[h] = 1
        /\ snapshot'[h] = manifest /\ pc[h] = "idle"
      BY <1>0, <1>1 DEF Get, TypeOK
  <2>2. bundle[h][e] = None /\ ~(e < 1)
      BY <1>0, <2>1 DEF StageInv, Equipment
  <2>3. Parsed
      BY <1>1 DEF Get, Parsed
  <2> QED BY <1>0, <2>1, <2>2, <2>3 DEF RunInv
<1>2. CASE VerifyRun(h)
  <2>1. /\ run' = run /\ bundle' = bundle /\ pc' = pc /\ pc[h] = "verifying"
        /\ snapshot' = snapshot /\ at'[h] = at[h] + 1
        /\ run[at[h]].lanes = snapshot[h].lanes[at[h]]
      BY <1>0, <1>2 DEF VerifyRun, TypeOK
  <2>2. e < at[h] + 1 => e < at[h] \/ e = at[h]
      BY <1>0, SizeAssumption DEF TypeOK, Equipment
  <2> QED BY <1>0, <2>1, <2>2
<1>3. CASE VerifyFiles(h)
  <2>1. /\ run' = run /\ bundle' = bundle /\ pc[h] = "verifying" /\ snapshot' = snapshot
        /\ at'[h] = 1 /\ at[h] > Size
        /\ pc'[h] = IF snapshot[h].status = "ready" THEN "approving" ELSE "bundling"
      BY <1>0, <1>3 DEF VerifyFiles, TypeOK
  <2>2. e < at[h] /\ ~(e < 1)
      BY <1>0, <2>1, SizeAssumption DEF TypeOK, Equipment
  <2>3. snapshot[h].status = "approved" => snapshot[h].status # "ready"
      OBVIOUS
  <2> QED BY <1>0, <2>1, <2>2, <2>3 DEF StageInv
<1>4. CASE ReadRun(h)
    BY <1>0, <1>4 DEF ReadRun
<1>5. CASE SaveRun(h)
  <2>1. /\ pc[h] = "approving" /\ pc' = pc /\ snapshot' = snapshot /\ bundle' = bundle
        /\ at'[h] = at[h] + 1
        /\ run' = [run EXCEPT ![at[h]] = [held[h] EXCEPT !.status = "approved",
                                                         !.reviewer = h]]
      BY <1>0, <1>5 DEF SaveRun, TypeOK, StageInv
  <2>2. snapshot[h].status # "approved" /\ bundle[h][e] = None
      BY <1>0, <2>1 DEF StageInv
  <2>3. CASE e = at[h]
    <3>1. run'[e] = [held[h] EXCEPT !.status = "approved", !.reviewer = h]
        BY <1>0, <2>1, <2>3 DEF TypeOK
    <3>2. Approved(e, h)'
      <4>1. held[h] \in Run
          BY <1>0, <1>5 DEF SaveRun, TypeOK
      <4>2. LET n == [held[h] EXCEPT !.status = "approved", !.reviewer = h]
            IN  n \in Run /\ n.status = "approved" /\ n.reviewer = h
          BY <4>1, RunFields
      <4> QED BY <3>1, <4>2, NoneAssumption
    <3> QED BY <2>1, <2>2, <3>2
  <2>4. CASE e # at[h]
    <3>1. run'[e] = run[e]
        BY <1>0, <2>1, <2>4 DEF TypeOK
    <3>2. e < at[h] + 1 => e < at[h]
        BY <1>0, <2>4, SizeAssumption DEF TypeOK, Equipment
    <3> QED BY <1>0, <2>1, <2>2, <3>1, <3>2
  <2> QED BY <2>3, <2>4
<1>6. CASE BeginApproval(h)
  <2>1. /\ run' = run /\ bundle' = bundle /\ pc[h] = "approving" /\ pc'[h] = "writing"
        /\ snapshot' = snapshot /\ at[h] > Size
      BY <1>0, <1>6 DEF BeginApproval, TypeOK
  <2>2. e < at[h]
      BY <1>0, <2>1, SizeAssumption DEF TypeOK, Equipment
  <2> QED BY <1>0, <2>1, <2>2 DEF StageInv
<1>7. CASE SaveApproval(h) \/ Leave(h)
    BY <1>0, <1>7 DEF SaveApproval, Leave, Forget, TypeOK
<1>8. CASE Collect(h)
  <2>1. /\ run' = run /\ pc' = pc /\ pc[h] = "bundling" /\ snapshot' = snapshot
        /\ bundle'[h] = [bundle[h] EXCEPT ![at[h]] = run[at[h]]]
      BY <1>0, <1>8 DEF Collect, TypeOK
  <2>2. bundle'[h][e] = IF e = at[h] THEN run[e] ELSE bundle[h][e]
      BY <1>0, <2>1 DEF TypeOK
  <2> QED BY <1>0, <2>1, <2>2
<1> QED BY <1>1, <1>2, <1>3, <1>4, <1>5, <1>6, <1>7, <1>8 DEF HandlerStep

(* A project is approved by a handler that has approved its runs. *)
LEMMA ApprovedStep ==
    ASSUME IInv, [Next]_vars, NEW e \in Kept'
    PROVE  (Parsed /\ manifest.status = "approved" => Approved(e, manifest.approval))'
<1>0. TypeOK /\ BuildInv /\ RunInv(e) /\ e \in Equipment
    BY CrossedGrows DEF IInv, Kept
<1> USE DEF Parsed, Approved
<1>1. run[e] # None /\ run[e].status = "approved" => run'[e] = run[e]
    BY <1>0, RunStep
<1>2. CASE manifest' = manifest
    BY <1>0, <1>1, <1>2 DEF RunInv
<1>3. CASE SaveRecord
    BY <1>0, <1>3, NoneAssumption DEF SaveRecord, Written, BuildInv
<1>4. CASE manifest' = Torn
    BY <1>4
<1>5. ASSUME NEW h \in Handler, SaveApproval(h)
      PROVE  (Parsed /\ manifest.status = "approved" => Approved(e, manifest.approval))'
  <2>1. pc[h] = "writing" /\ snapshot[h] \in Record
      BY <1>5 DEF SaveApproval, IInv, StageInv
  <2>2. manifest' = Torn \/ manifest'.approval = h
    <3>1. LET n == [snapshot[h] EXCEPT !.status = "approved", !.approval = h]
          IN  n \in Record /\ n.approval = h
        BY <2>1, RecordFields
    <3> QED BY <1>5, <3>1 DEF SaveApproval, Written
  <2>3. Approved(e, h)
      BY <1>0, <2>1 DEF RunInv, Known, Behind
  <2> QED BY <1>1, <2>2, <2>3
<1> QED BY <1>2, <1>3, <1>4, <1>5, ManifestStep DEF BeginRecord, BeginApproval

(* One handler writes an approval at a time, and it has won. *)
LEMMA ProjectStep ==
    ASSUME IInv, [Next]_vars
    PROVE  ReviewerDone' /\ WriterAlone' /\ TornOnlyByDeath'
<1>0. /\ TypeOK /\ BuildInv /\ ReviewerDone /\ WriterAlone /\ TornOnlyByDeath
      /\ \A h \in Handler : StageInv(h)
      /\ \A e \in Kept : RunInv(e)
      /\ crossed # Equipment => Kept # {}
    BY DEF IInv, Kept, TypeOK
<1>1. \A g, h \in Handler :
          crossed # Equipment /\ pc[g] = "writing" /\ pc[h] = "writing" => g = h
  <2>1. \A h \in Handler, e \in Kept : pc[h] = "writing" => run[e].reviewer = h
      BY <1>0 DEF RunInv, Known, Behind, Approved
  <2> QED BY <1>0, <2>1
<1>2. ReviewerDone'
  <2> USE DEF ReviewerDone, Parsed
  <2>1. ASSUME manifest' = manifest, Parsed, manifest.status = "approved"
        PROVE  ReviewerDone'
    <3>1. CASE Still(manifest.approval)
        BY <1>0, <2>1, <3>1 DEF Still
    <3>2. CASE HandlerStep(manifest.approval)
      <4> DEFINE r == manifest.approval
      <4>1. /\ pc[r] # "idle" /\ pc'[r] # "idle" => snapshot'[r] = snapshot[r]
            /\ pc[r] = "idle" => snapshot'[r] = manifest
          BY <1>0, <2>1, <3>2 DEF TypeOK, StageInv, HandlerStep, Get, VerifyRun, VerifyFiles,
             ReadRun, SaveRun, BeginApproval, SaveApproval, Collect, Leave, Forget
      <4> QED BY <1>0, <2>1, <4>1
    <3> QED BY <1>0, <2>1, <3>1, <3>2, OneSteps
  <2>2. CASE SaveRecord
      BY <1>0, <2>2, NoneAssumption DEF SaveRecord, Written, BuildInv
  <2>3. CASE manifest' = Torn
      BY <2>3
  <2>4. ASSUME NEW h \in Handler, SaveApproval(h) PROVE ReviewerDone'
    <3>1. snapshot[h] \in Record /\ pc'[h] = "idle"
        BY <1>0, <2>4 DEF SaveApproval, StageInv, Forget, TypeOK
    <3>2. LET n == [snapshot[h] EXCEPT !.status = "approved", !.approval = h]
          IN  n \in Record /\ n.approval = h
        BY <3>1, RecordFields
    <3> QED BY <2>4, <3>1, <3>2 DEF SaveApproval, Written
  <2> QED BY <2>1, <2>2, <2>3, <2>4, ManifestStep DEF BeginRecord, BeginApproval
<1>3. crossed' # Equipment => crossed # Equipment
    BY <1>0, CrossedGrows, TypeStep DEF TypeOK
<1>4. WriterAlone'
  <2> SUFFICES ASSUME crossed' # Equipment, NEW h \in Handler, pc'[h] = "writing"
               PROVE  manifest' = Torn
      BY DEF WriterAlone
  <2>0. crossed # Equipment
      BY <1>3
  <2>1. CASE HandlerStep(h)
      BY <1>0, <2>0, <2>1 DEF WriterAlone, TypeOK, HandlerStep, Get, VerifyRun, VerifyFiles,
         ReadRun, SaveRun, BeginApproval, SaveApproval, Collect, Leave, Forget, StageInv
  <2>2. CASE Still(h)
    <3>1. pc[h] = "writing" /\ manifest = Torn /\ build = "built"
        BY <1>0, <2>0, <2>2 DEF Still, WriterAlone, StageInv
    <3>2. ASSUME NEW g \in Handler, SaveApproval(g) PROVE FALSE
      <4>1. g = h
          BY <1>1, <2>0, <3>1, <3>2 DEF SaveApproval
      <4> QED BY <1>0, <2>2, <3>1, <3>2, <4>1 DEF SaveApproval, Forget, TypeOK, Still
    <3> QED BY <3>1, <3>2, ManifestStep DEF SaveRecord, BeginRecord, BeginApproval
  <2> QED BY <1>0, <2>1, <2>2, OneSteps
<1>5. TornOnlyByDeath'
  <2> SUFFICES ASSUME crossed' # Equipment, manifest' = Torn, ~died'
               PROVE  build' = "writing" \/ \E h \in Handler : pc'[h] = "writing"
      BY DEF TornOnlyByDeath
  <2>0. crossed # Equipment
      BY <1>3
  <2>1. ~died
    <3>1. \A h \in Handler : HandlerStep(h) => died' = died \/ Leave(h)
        BY DEF history, HandlerStep, Get, VerifyRun, VerifyFiles, ReadRun, SaveRun, Collect,
           BeginApproval, SaveApproval
    <3>2. \/ died' = died \/ AbandonBuild
          \/ \E h \in Handler : Leave(h)
        BY <3>1 DEF Next, vars, history, CreateRun, Read, Save, Drop, Drift, BeginRecord, SaveRecord
    <3> QED BY <1>0, <3>2 DEF AbandonBuild, Leave, TypeOK
  <2>2. ~SaveRecord
    <3>1. draft # Torn
        BY <1>0, NoneAssumption DEF TypeOK
    <3> QED BY <1>0, <3>1 DEF SaveRecord, Written, BuildInv
  <2>3. ASSUME NEW h \in Handler, SaveApproval(h) PROVE FALSE
    <3>1. snapshot[h] \in Record /\ manifest = Torn
        BY <1>0, <2>0, <2>3 DEF SaveApproval, StageInv, WriterAlone
    <3>2. LET n == [snapshot[h] EXCEPT !.status = "approved", !.approval = h]
          IN  n \in Record /\ n # Torn
        BY <3>1, RecordFields
    <3> QED BY <2>3, <3>1, <3>2 DEF SaveApproval, Written
  <2>4. CASE manifest' = manifest
    <3>1. CASE build = "writing"
      <4>1. ~AbandonBuild
          BY <1>0, <3>1 DEF AbandonBuild
      <4>2. \A h \in Handler : ~BeginApproval(h)
          BY <1>0, <3>1 DEF BeginApproval, StageInv
      <4> QED BY <2>2, <2>3, <3>1, <4>1, <4>2, ManifestStep DEF BeginRecord
    <3>2. ASSUME NEW h \in Handler, pc[h] = "writing" PROVE pc'[h] = "writing"
      <4>1. ~HandlerStep(h)
          BY <1>0, <2>3, <3>2 DEF HandlerStep, Get, VerifyRun, VerifyFiles, ReadRun, SaveRun,
             BeginApproval, Collect, Leave, StageInv
      <4> QED BY <1>0, <3>2, <4>1, OneSteps DEF Still
    <3> QED BY <1>0, <2>0, <2>1, <2>4, <3>1, <3>2 DEF TornOnlyByDeath
  <2>5. ASSUME NEW h \in Handler, BeginApproval(h) PROVE pc'[h] = "writing"
      BY <1>0, <2>5 DEF BeginApproval, TypeOK
  <2> QED BY <2>2, <2>3, <2>4, <2>5, ManifestStep DEF BeginRecord
<1> QED BY <1>2, <1>4, <1>5

-----------------------------------------------------------------------------
(* The invariant is inductive. *)
THEOREM Invariance == Spec => []IInv
<1>1. IInv /\ [Next]_vars => IInv'
  <2> SUFFICES ASSUME IInv, [Next]_vars PROVE IInv'
      OBVIOUS
  <2>1. \A h \in Handler : StageInv(h)'
      BY StageStep
  <2>2. ASSUME NEW e \in Kept' PROVE RunInv(e)'
    <3>1. \A h \in Handler : Known(h, e)'
        BY KnownStill, KnownStep, OneSteps DEF IInv
    <3> QED BY <3>1, ApprovedStep DEF RunInv
  <2>3. TypeOK' /\ BuildInv' /\ ReadReady' /\ ReviewerDone' /\ WriterAlone' /\ TornOnlyByDeath'
      BY TypeStep, BuildStep, ReadStep, ProjectStep
  <2> QED BY <2>1, <2>2, <2>3 DEF IInv
<1> QED BY InitIInv, <1>1, PTL DEF Spec

(* TypeOK: type correctness of the project, its runs and its handlers. *)
THEOREM TypeCorrect == Spec => []TypeOK
<1>1. IInv => TypeOK
    BY DEF IInv
<1> QED BY Invariance, <1>1, PTL

(* OneReviewer: an approved project stands for the same reviewer's approval *)
(* of each of its runs of which no save replaced what it had not read.     *)
THEOREM ProjectApproval == Spec => []OneReviewer
<1>1. IInv => OneReviewer
    BY DEF IInv, RunInv, Approved, OneReviewer, Kept
<1> QED BY Invariance, <1>1, PTL

(* BundleIsReviewed: what an export bundles of such a run is what the      *)
(* project's digest names and its reviewer approved.                       *)
THEOREM ExportReviewed == Spec => []BundleIsReviewed
<1>1. IInv => BundleIsReviewed
  <2> SUFFICES ASSUME IInv, NEW h \in Handler, NEW e \in Kept, bundle[h][e] # None
               PROVE  /\ bundle[h][e].status = "approved"
                      /\ bundle[h][e].reviewer = snapshot[h].approval
                      /\ bundle[h][e].lanes = snapshot[h].lanes[e]
      BY DEF BundleIsReviewed, Kept
  <2>1. pc[h] = "bundling" /\ snapshot[h].status = "approved"
      BY DEF IInv, StageInv, Kept
  <2>2. Known(h, e)
      BY DEF IInv, RunInv
  <2> QED BY <2>1, <2>2 DEF Known, Compared, Approved
<1> QED BY Invariance, <1>1, PTL

(* TornOnlyByDeath: the manifest is unreadable only while it is written,   *)
(* after a death there, or once every run of the project has lost a save.  *)
THEOREM ManifestReadable == Spec => []TornOnlyByDeath
<1>1. IInv => TornOnlyByDeath
    BY DEF IInv
<1> QED BY Invariance, <1>1, PTL

(* ApprovalFinal: the manifest of an approved project is not written again *)
(* unless every run of the project has lost a save.                        *)
THEOREM ApprovalStands == Spec => ApprovalFinal
<1>1. ASSUME IInv, [Next]_vars, crossed # Equipment, Parsed, manifest.status = "approved"
      PROVE  manifest' = manifest
  <2>1. build = "built" /\ manifest # Torn
      BY <1>1 DEF IInv, BuildInv, TypeOK, Parsed
  <2>2. \A h \in Handler : ~SaveApproval(h)
      BY <1>1, <2>1 DEF IInv, WriterAlone, SaveApproval
  <2>3. ASSUME NEW h \in Handler, BeginApproval(h) PROVE FALSE
    <3>1. PICK e \in Kept : TRUE
        BY <1>1 DEF Kept, IInv, TypeOK
    <3>2. e < at[h] /\ pc[h] = "approving"
        BY <1>1, <2>3, SizeAssumption DEF BeginApproval, IInv, TypeOK, Kept, Equipment
    <3>3. Approved(e, h) /\ Approved(e, manifest.approval)
        BY <1>1, <3>2 DEF IInv, RunInv, Known, Behind
    <3> QED BY <1>1, <3>2, <3>3 DEF Approved, IInv, ReviewerDone, StageInv
  <2> QED BY <1>1, <2>1, <2>2, <2>3, ManifestStep DEF SaveRecord, BeginRecord, IInv, BuildInv
<1>2. IInv /\ [Next]_vars =>
          [Parsed /\ manifest.status = "approved" /\ crossed # Equipment =>
               manifest' = manifest]_vars
    BY <1>1
<1> QED BY Invariance, <1>2, PTL DEF ApprovalFinal, Spec
=============================================================================
