------------------------ MODULE RunLifecycle_proofs ------------------------
(***************************************************************************)
(* Theorems about RunLifecycle, for any number of racing handlers and any  *)
(* lanes.  What makes the unlocked read-then-save survive races is that a  *)
(* snapshot stays a manifest that could be saved at any moment: it was     *)
(* reviewable when it was read, and the reports it names never change -    *)
(* until an exception undoes a save that had taken effect (undone).        *)
(***************************************************************************)
EXTENDS RunLifecycle, TLAPS

(* The handler holds the manifest as it read it, and will replace it. *)
Working(h) == pc[h] \in {"testing", "installed", "approving", "rejecting"}

(* What the handler holds, or has signed, is a manifest. *)
SnapshotTyped(h) ==
    /\ Working(h) \/ pc[h] = "signed" =>
           /\ snapshot[h] \in Manifest
           /\ snapshot[h].approval = None /\ snapshot[h].rejection = None
           /\ snapshot[h].status \in {"failed", "ready"}
    /\ Working(h) => snapshot[h].status = "ready"
    /\ pc[h] \in {"submitted", "testing", "installed", "signed", "saved"} => lane[h] \in Lane

(* The digest of a manifest agrees with the files, lane by lane. *)
Current(m) ==
    /\ m.digest.base = base
    /\ \A l \in Lane :
           m.digest.report[l] = IF l \in m.lanes THEN directory[l] ELSE "none"

(* A snapshot was taken of an open candidate and still matches the files.  *)
SnapshotSound(h) ==
    Working(h) =>
        /\ base = "built" => Current(snapshot[h])
        /\ \A l \in snapshot[h].lanes : directory[l] = "pass"

(* What was signed matches the files too, and its verdict the reports. *)
SignedSound(h) ==
    pc[h] = "signed" =>
        /\ base = "built" => Current(snapshot[h])
        /\ lane[h] \in snapshot[h].lanes
        /\ \A l \in snapshot[h].lanes : directory[l] # "none"
        /\ snapshot[h].status = "ready" =>
               \A l \in snapshot[h].lanes : directory[l] = "pass"

LaneSound(h) ==
    pc[h] \in {"testing", "installed"} => lane[h] \notin snapshot[h].lanes

Owner(h) == pc[h] \in {"installed", "signed"}

(* No manifest, and no other handler, names this lane. *)
Unnamed(h, l) ==
    /\ l \notin manifest.lanes
    /\ \A g \in Handler : Working(g) => l \notin snapshot[g].lanes
    /\ \A g \in Handler : pc[g] = "signed" /\ g # h => l \notin snapshot[g].lanes

(* Reports that are installed but not saved belong to one handler alone.   *)
Unrecorded(h) ==
    Owner(h) =>
        /\ directory[lane[h]] # "none"
        /\ Unnamed(h, lane[h])
        /\ \A g \in Handler : Owner(g) /\ g # h => lane[g] # lane[h]

GateTracked(h) == pc[h] = "approving" => gate = "open"

HandlerInv(h) ==
    /\ SnapshotSound(h) /\ SignedSound(h) /\ LaneSound(h) /\ Unrecorded(h)

ManifestInv ==
    /\ base = "built" => Current(manifest)
    /\ manifest.status # "failed" => \A l \in manifest.lanes : directory[l] = "pass"
    /\ \A l \in manifest.lanes : directory[l] # "none"

(* What holds whatever happens, and what an undone save takes away. *)
Firm ==
    /\ TypeOK
    /\ DecisionConsistent
    /\ ApprovedBehindGate
    /\ \A h \in Handler : SnapshotTyped(h) /\ GateTracked(h)

Sound == ManifestInv /\ \A h \in Handler : HandlerInv(h)

IInv == Firm /\ (~undone => Sound)

(* The initial state satisfies the inductive invariant. *)
LEMMA InitIInv == Init => IInv
<1> SUFFICES ASSUME Init PROVE IInv
    OBVIOUS
<1> USE NoneAssumption DEF Init
<1>1. TypeOK
  <2>1. [base |-> "built", report |-> [l \in Lane |-> "none"]] \in Digest
      BY DEF Digest, Report, Base
  <2>2. manifest \in Manifest
      BY <2>1 DEF Manifest
  <2> QED BY <2>2 DEF TypeOK, Report, Base
<1>2. ManifestInv /\ DecisionConsistent /\ ApprovedBehindGate
    BY DEF ManifestInv, Current, DecisionConsistent, ApprovedBehindGate
<1>3. ASSUME NEW h \in Handler
      PROVE  HandlerInv(h) /\ SnapshotTyped(h) /\ GateTracked(h)
    BY DEF HandlerInv, SnapshotSound, SignedSound, LaneSound, Unrecorded, Owner,
       SnapshotTyped, GateTracked, Working
<1> QED BY <1>1, <1>2, <1>3 DEF IInv, Firm, Sound

(* A digest of any set of lanes is a digest. *)
LEMMA SignType ==
    ASSUME TypeOK, NEW lanes \in SUBSET Lane
    PROVE  Sign(lanes) \in Digest
BY DEF TypeOK, Sign, Digest

(* The fields of a manifest, and what each kind of save makes of one. *)
LEMMA ManifestFields ==
    ASSUME NEW m \in Manifest
    PROVE  /\ m.digest \in Digest /\ m.lanes \in SUBSET Lane
           /\ \A s \in {"failed", "ready"}, lanes \in SUBSET Lane, d \in Digest :
                 [m EXCEPT !.status = s, !.lanes = lanes, !.digest = d] \in Manifest
           /\ [m EXCEPT !.status = "approved", !.approval = m.digest] \in Manifest
           /\ [m EXCEPT !.status = "rejected", !.rejection = m.digest] \in Manifest
BY DEF Manifest

(* Comparing digests is comparing what they cover. *)
LEMMA CurrentDigest ==
    ASSUME TypeOK, NEW m \in Manifest
    PROVE  m.digest = Sign(m.lanes) <=> Current(m)
<1> USE DEF TypeOK, Manifest, Digest, Sign, Current
<1>1. ASSUME m.digest = Sign(m.lanes) PROVE Current(m)
    BY <1>1
<1>2. ASSUME Current(m) PROVE m.digest = Sign(m.lanes)
  <2>1. m.digest.report = [l \in Lane |-> IF l \in m.lanes THEN directory[l] ELSE "none"]
      BY <1>2
  <2>2. m.digest = [base |-> m.digest.base, report |-> m.digest.report]
      OBVIOUS
  <2> QED BY <1>2, <2>1, <2>2
<1> QED BY <1>1, <1>2

(* The reports a handler is about to install, or to remove again, are      *)
(* named by no manifest and no other handler.                              *)
LEMMA LaneFree ==
    ASSUME Firm, Sound, NEW h \in Handler,
           \/ pc[h] = "testing" /\ directory[lane[h]] = "none"
           \/ Owner(h)
    PROVE  lane[h] \in Lane /\ Unnamed(h, lane[h])
BY DEF Firm, Sound, ManifestInv, HandlerInv, SnapshotTyped, Unrecorded, Unnamed, Owner,
   SnapshotSound, SignedSound, Working

(* What is signed is a manifest of an open candidate with one more report. *)
LEMMA SignedFields ==
    ASSUME Firm, NEW h \in Handler, SignReports(h)
    PROVE  LET signed == snapshot[h].lanes \cup {lane[h]}
           IN  /\ signed \in SUBSET Lane /\ lane[h] \in Lane
               /\ snapshot'[h] \in Manifest
               /\ snapshot'[h].lanes = signed /\ snapshot'[h].digest = Sign(signed)
               /\ snapshot'[h].approval = None /\ snapshot'[h].rejection = None
               /\ snapshot'[h].status = Verdict(directory[lane[h]])
               /\ snapshot'[h].status \in {"failed", "ready"}
               /\ \A g \in Handler \ {h} : snapshot'[g] = snapshot[g]
<1> DEFINE signed == snapshot[h].lanes \cup {lane[h]}
           made == [snapshot[h] EXCEPT !.status = Verdict(directory[lane[h]]),
                                       !.lanes = signed, !.digest = Sign(signed)]
<1>1. /\ pc[h] = "installed" /\ snapshot[h] \in Manifest /\ lane[h] \in Lane
      /\ snapshot[h].approval = None /\ snapshot[h].rejection = None
    BY DEF SignReports, Firm, SnapshotTyped, Working
<1>2. signed \in SUBSET Lane
    BY <1>1, ManifestFields
<1>3. Sign(signed) \in Digest
    BY <1>2, SignType DEF Firm
<1>4. Verdict(directory[lane[h]]) \in {"failed", "ready"}
    BY DEF Verdict
<1>5. snapshot' = [snapshot EXCEPT ![h] = made]
    BY DEF SignReports
<1>6. /\ made \in Manifest
      /\ made.lanes = signed /\ made.digest = Sign(signed)
      /\ made.approval = None /\ made.rejection = None
      /\ made.status = Verdict(directory[lane[h]])
    BY <1>1, <1>2, <1>3, <1>4 DEF Manifest
<1>7. /\ snapshot'[h] = made
      /\ \A g \in Handler \ {h} : snapshot'[g] = snapshot[g]
    BY <1>5 DEF Firm, TypeOK
<1> QED BY <1>1, <1>2, <1>4, <1>6, <1>7

(* Every step keeps the types, the decisions and what handlers hold. *)
LEMMA FirmStep == ASSUME Firm, [Next]_vars PROVE Firm'
<1> USE NoneAssumption DEF Firm, TypeOK, DecisionConsistent, ApprovedBehindGate,
       SnapshotTyped, GateTracked, Working, handlerVars
<1>1. CASE ApproveRequirements
    BY <1>1 DEF ApproveRequirements, handlerVars
<1>2. CASE Drift
    BY <1>2 DEF Drift, Base, handlerVars
<1>3. ASSUME NEW h \in Handler, HandlerStep(h) PROVE Firm'
  <2>1. ASSUME NEW l \in Lane, Submit(h, l) PROVE Firm'
      BY <2>1, ManifestFields DEF Submit
  <2>2. ASSUME NEW l \in Lane, Qualify(h, l) PROVE Firm'
      BY <2>2 DEF Qualify, Admissible
  <2>3. ASSUME NEW report \in Report, Install(h, report) PROVE Firm'
      BY <2>3 DEF Install
  <2>4. CASE SignReports(h)
    <3>1. /\ snapshot'[h] \in Manifest /\ lane[h] \in Lane
          /\ snapshot'[h].approval = None /\ snapshot'[h].rejection = None
          /\ snapshot'[h].status \in {"failed", "ready"}
        BY <2>4, SignedFields
    <3>2. \A g \in Handler \ {h} : snapshot'[g] = snapshot[g] /\ pc'[g] = pc[g]
        BY <2>4, SignedFields DEF SignReports
    <3>3. /\ snapshot' \in [Handler -> Manifest \cup {None}] /\ pc'[h] = "signed"
          /\ UNCHANGED <<manifest, directory, base, gate, lane, expected, undone>>
        BY <2>4, <3>1 DEF SignReports
    <3>4. TypeOK'
        BY <2>4, <3>3 DEF SignReports
    <3>5. ASSUME NEW g \in Handler PROVE SnapshotTyped(g)' /\ GateTracked(g)'
        BY <3>1, <3>2, <3>3
    <3> QED BY <3>3, <3>4, <3>5
  <2>5. CASE SaveQualification(h)
      BY <2>5 DEF SaveQualification
  <2>6. CASE UndoInstall(h)
      BY <2>6 DEF UndoInstall, RemoveReports, Forget
  <2>7. CASE UndoSaved(h)
      BY <2>7 DEF UndoSaved, RemoveReports, Forget
  <2>8. CASE OpenReview(h)
      BY <2>8, ManifestFields DEF OpenReview
  <2>9. CASE Approve(h)
      BY <2>9 DEF Approve
  <2>10. CASE SaveApproval(h)
    <3>1. manifest' \in Manifest
        BY <2>10, ManifestFields DEF SaveApproval
    <3>2. /\ manifest'.status = "approved" /\ manifest'.rejection = None
          /\ manifest'.approval = manifest'.digest
        BY <2>10 DEF SaveApproval, Manifest
    <3> QED BY <2>10, <3>1, <3>2 DEF SaveApproval, Forget
  <2>11. CASE Reject(h)
      BY <2>11 DEF Reject
  <2>12. CASE SaveRejection(h)
    <3>1. manifest' \in Manifest
        BY <2>12, ManifestFields DEF SaveRejection
    <3>2. /\ manifest'.status = "rejected" /\ manifest'.approval = None
          /\ manifest'.rejection = manifest'.digest
        BY <2>12 DEF SaveRejection, Manifest
    <3> QED BY <2>12, <3>1, <3>2 DEF SaveRejection, Forget
  <2>13. CASE Leave(h)
      BY <2>13 DEF Leave, Forget
  <2> QED BY <1>3, <2>1, <2>2, <2>3, <2>4, <2>5, <2>6, <2>7,
             <2>8, <2>9, <2>10, <2>11, <2>12, <2>13 DEF HandlerStep
<1>4. CASE UNCHANGED vars
    BY <1>4 DEF vars, handlerVars
<1> QED BY <1>1, <1>2, <1>3, <1>4 DEF Next, HandlerStep

(* What the manifest promises of its files survives every step but the     *)
(* undoing of a save that had taken effect.                                *)
LEMMA ManifestStep ==
    ASSUME Firm, Sound, Firm', [Next]_vars, ~undone'
    PROVE  ManifestInv'
<1>free. \A h \in Handler :
          (pc[h] = "testing" /\ directory[lane[h]] = "none") \/ Owner(h) =>
              lane[h] \in Lane /\ lane[h] \notin manifest.lanes
    BY LaneFree DEF Unnamed
<1>typed. manifest \in Manifest /\ manifest.lanes \subseteq Lane
    BY ManifestFields DEF Firm, TypeOK
<1> USE NoneAssumption DEF Firm, Sound, TypeOK, ManifestInv, Current, handlerVars
<1>1. CASE ApproveRequirements
    BY <1>1 DEF ApproveRequirements, handlerVars
<1>2. CASE Drift
    BY <1>2 DEF Drift, handlerVars
<1>3. ASSUME NEW h \in Handler, HandlerStep(h) PROVE ManifestInv'
  <2>1. ASSUME NEW report \in Report, Install(h, report) PROVE ManifestInv'
    <3>1. \A l \in Lane : l # lane[h] => directory'[l] = directory[l]
        BY <2>1 DEF Install
    <3> QED BY <1>free, <1>typed, <2>1, <3>1 DEF Install
  <2>2. CASE SaveQualification(h)
      BY <2>2 DEF SaveQualification, HandlerInv, SignedSound, SnapshotTyped
  <2>3. CASE UndoInstall(h)
    <3>1. \A l \in Lane : l # lane[h] => directory'[l] = directory[l]
        BY <2>3 DEF UndoInstall, RemoveReports
    <3> QED BY <1>free, <1>typed, <2>3, <3>1 DEF UndoInstall, RemoveReports, Owner
  <2>4. CASE SaveApproval(h)
      BY <2>4 DEF SaveApproval, HandlerInv, SnapshotSound, SnapshotTyped, Working, Manifest
  <2>5. CASE SaveRejection(h)
      BY <2>5 DEF SaveRejection, HandlerInv, SnapshotSound, SnapshotTyped, Working, Manifest
  <2>6. ~UndoSaved(h)
      BY DEF UndoSaved
  <2>7. CASE UNCHANGED <<manifest, directory, base>>
      BY <2>7
  <2>8. \/ UNCHANGED <<manifest, directory, base>>
        \/ \E report \in Report : Install(h, report)
        \/ SaveQualification(h) \/ UndoInstall(h) \/ UndoSaved(h)
        \/ SaveApproval(h) \/ SaveRejection(h)
      BY <1>3 DEF HandlerStep, Submit, Qualify, SignReports, OpenReview, Approve, Reject,
         Leave
  <2> QED BY <2>1, <2>2, <2>3, <2>4, <2>5, <2>6, <2>7, <2>8
<1>4. CASE UNCHANGED vars
    BY <1>4 DEF vars
<1> QED BY <1>1, <1>2, <1>3, <1>4 DEF Next

(* What one handler knows survives every step of any handler. *)
LEMMA HandlerKeeps ==
    ASSUME Firm, Sound, Firm', [Next]_vars, ~undone', NEW k \in Handler
    PROVE  HandlerInv(k)'
<1>free. \A h \in Handler :
          (pc[h] = "testing" /\ directory[lane[h]] = "none") \/ Owner(h) =>
              lane[h] \in Lane /\ Unnamed(h, lane[h])
    BY LaneFree
<1>current. Intact(manifest) => Current(manifest)
    BY CurrentDigest DEF Firm, TypeOK, Intact
<1> USE NoneAssumption DEF Firm, Sound, TypeOK, ManifestInv, Current,
       HandlerInv, SnapshotSound, SignedSound, LaneSound, Unrecorded, Unnamed, Owner,
       SnapshotTyped, Working, handlerVars
<1>1. CASE ApproveRequirements
    BY <1>1 DEF ApproveRequirements, handlerVars
<1>2. CASE Drift
    BY <1>2 DEF Drift, handlerVars
<1>3. ASSUME NEW h \in Handler, HandlerStep(h) PROVE HandlerInv(k)'
  <2>1. ASSUME NEW l \in Lane, Submit(h, l) PROVE HandlerInv(k)'
      BY <2>1 DEF Submit
  <2>2. ASSUME NEW l \in Lane, Qualify(h, l) PROVE HandlerInv(k)'
    <3>1. manifest.status = "ready" /\ Intact(manifest)
        BY <2>2 DEF Qualify, Admissible
    <3>2. Current(manifest) /\ \A m \in manifest.lanes : directory[m] = "pass"
        BY <1>current, <3>1
    <3>3. CASE k = h
        BY <2>2, <3>1, <3>2, <3>3 DEF Qualify, Admissible
    <3>4. CASE k # h
        BY <2>2, <3>4 DEF Qualify, Admissible
    <3> QED BY <3>3, <3>4
  <2>3. ASSUME NEW report \in Report, Install(h, report) PROVE HandlerInv(k)'
    <3>1. CASE k = h
      <4>1. SnapshotSound(k)' /\ SignedSound(k)'
          BY <1>free, <2>3, <3>1 DEF Install
      <4>2. LaneSound(k)'
          BY <2>3, <3>1 DEF Install
      <4>3. \A g \in Handler : Owner(g) => lane[g] # lane[h]
          BY <2>3 DEF Install
      <4>4. Unrecorded(k)'
          BY <1>free, <2>3, <3>1, <4>3 DEF Install, Report
      <4> QED BY <4>1, <4>2, <4>4
    <3>2. CASE k # h
        BY <1>free, <2>3, <3>2 DEF Install
    <3> QED BY <3>1, <3>2
  <2>4. CASE SignReports(h)
    <3> DEFINE signed == snapshot[h].lanes \cup {lane[h]}
    <3>1. /\ signed \in SUBSET Lane /\ lane[h] \in Lane
          /\ snapshot'[h].lanes = signed /\ snapshot'[h].digest = Sign(signed)
          /\ snapshot'[h].status = Verdict(directory[lane[h]])
          /\ \A g \in Handler \ {h} : snapshot'[g] = snapshot[g]
        BY <2>4, SignedFields
    <3>2. /\ pc[h] = "installed" /\ pc'[h] = "signed"
          /\ \A g \in Handler \ {h} : pc'[g] = pc[g]
          /\ UNCHANGED <<manifest, directory, base, lane>>
        BY <2>4 DEF SignReports
    <3> HIDE DEF signed
    <3>3. CASE k = h
      <4>1. (\A l \in snapshot[h].lanes : directory[l] = "pass") /\ directory[lane[h]] # "none"
          BY <3>2
      <4>2. SignedSound(k)'
        <5>1. /\ snapshot'[h].digest.base = base'
              /\ \A l \in Lane : snapshot'[h].digest.report[l] =
                                 IF l \in signed THEN directory'[l] ELSE "none"
            BY <3>1, <3>2 DEF Sign
        <5>2. lane[h] \in signed /\ \A l \in signed : directory[l] # "none"
            BY <4>1 DEF signed
        <5>3. directory[lane[h]] = "pass" => \A l \in signed : directory[l] = "pass"
            BY <4>1 DEF signed
        <5>4. Verdict(directory[lane[h]]) = "ready" => directory[lane[h]] = "pass"
            BY DEF Verdict
        <5> QED BY <3>1, <3>2, <3>3, <5>1, <5>2, <5>3, <5>4
      <4>3. SnapshotSound(k)' /\ LaneSound(k)'
          BY <3>2, <3>3
      <4>4. Unrecorded(k)'
          BY <3>1, <3>2, <3>3
      <4> QED BY <4>2, <4>3, <4>4
    <3>4. CASE k # h
      <4>1. Owner(k) => lane[k] \notin signed
          BY <3>2, <3>4 DEF signed
      <4>2. Unrecorded(k)'
          BY <3>1, <3>2, <3>4, <4>1
      <4> QED BY <3>1, <3>2, <3>4, <4>2
    <3> QED BY <3>3, <3>4
  <2>5. CASE SaveQualification(h)
      BY <2>5 DEF SaveQualification
  <2>6. CASE UndoInstall(h)
      BY <1>free, <2>6 DEF UndoInstall, RemoveReports, Forget
  <2>7. ~UndoSaved(h)
      BY DEF UndoSaved
  <2>8. CASE OpenReview(h)
      BY <2>8 DEF OpenReview
  <2>9. CASE Approve(h)
    <3>1. manifest.status = "ready" /\ Intact(manifest)
        BY <2>9 DEF Approve
    <3> QED BY <1>current, <2>9, <3>1 DEF Approve
  <2>10. CASE SaveApproval(h)
      BY <2>10 DEF SaveApproval, Forget
  <2>11. CASE Reject(h)
    <3>1. manifest.status = "ready" /\ Intact(manifest)
        BY <2>11 DEF Reject
    <3> QED BY <1>current, <2>11, <3>1 DEF Reject
  <2>12. CASE SaveRejection(h)
      BY <2>12 DEF SaveRejection, Forget
  <2>13. CASE Leave(h)
      BY <2>13 DEF Leave, Forget
  <2> QED BY <1>3, <2>1, <2>2, <2>3, <2>4, <2>5, <2>6, <2>7,
             <2>8, <2>9, <2>10, <2>11, <2>12, <2>13 DEF HandlerStep
<1>4. CASE UNCHANGED vars
    BY <1>4 DEF vars, handlerVars
<1> QED BY <1>1, <1>2, <1>3, <1>4 DEF Next, HandlerStep

(* The inductive invariant holds in every reachable state. *)
THEOREM Invariance == Spec => []IInv
<1>1. IInv /\ [Next]_vars => IInv'
  <2> SUFFICES ASSUME IInv, [Next]_vars PROVE IInv'
      OBVIOUS
  <2>1. Firm'
      BY FirmStep DEF IInv
  <2>2. ~undone' => ~undone
      BY DEF Next, vars, handlerVars, ApproveRequirements, Drift, HandlerStep, Submit,
         Qualify, Install, SignReports, SaveQualification, UndoInstall, UndoSaved, OpenReview,
         Approve, SaveApproval, Reject, SaveRejection, Leave
  <2>3. ASSUME ~undone' PROVE Sound'
      BY <2>1, <2>2, <2>3, ManifestStep, HandlerKeeps DEF IInv, Sound
  <2> QED BY <2>1, <2>3 DEF IInv
<1> QED BY InitIInv, <1>1, PTL DEF Spec

(* TypeOK: type correctness of one run's manifest and its handlers. *)
THEOREM TypeCorrect == Spec => []TypeOK
<1>1. IInv => TypeOK
    BY DEF IInv, Firm
<1> QED BY Invariance, <1>1, PTL

(* RacesKeepIntegrity: no interleaving of reads, installs, undone installs *)
(* and saves leaves a manifest whose digest disagrees with the files; only *)
(* an exception that follows a replaced manifest does.                     *)
THEOREM Integrity == Spec => []RacesKeepIntegrity
<1>1. IInv => RacesKeepIntegrity
  <2> SUFFICES ASSUME IInv, base = "built", ~undone PROVE Intact(manifest)
      BY DEF RacesKeepIntegrity
  <2>1. manifest.digest = Sign(manifest.lanes)
      BY CurrentDigest DEF IInv, Firm, Sound, ManifestInv, TypeOK
  <2> QED BY <2>1 DEF IInv, Firm, DecisionConsistent, TypeOK, Manifest, Intact
<1> QED BY Invariance, <1>1, PTL

(* OnlyPassingReportsReviewed: a manifest that can be reviewed, or was     *)
(* decided on, names passing reports alone, with the same exception.       *)
THEOREM Reports == Spec => []OnlyPassingReportsReviewed
<1>1. IInv => OnlyPassingReportsReviewed
    BY DEF IInv, Sound, ManifestInv, OnlyPassingReportsReviewed
<1> QED BY Invariance, <1>1, PTL

(* DecisionConsistent, ApprovedBehindGate: the decision of every manifest  *)
(* ever saved binds its digest, and an approval found the gate open.       *)
THEOREM Decisions == Spec => [](DecisionConsistent /\ ApprovedBehindGate)
<1>1. IInv => DecisionConsistent /\ ApprovedBehindGate
    BY DEF IInv, Firm
<1> QED BY Invariance, <1>1, PTL

(* RecordedReportsStand: no step removes or replaces a report that the     *)
(* manifest names, before a save that took effect is undone.               *)
THEOREM ReportsStand == Spec => RecordedReportsStand
<1>1. ASSUME IInv, [Next]_vars, ~undone', NEW l \in manifest.lanes
      PROVE  directory'[l] = directory[l]
  <2>0. \/ directory' = directory /\ undone' = undone
        \/ \E h \in Handler :
              \/ UndoInstall(h) \/ UndoSaved(h)
              \/ \E report \in Report : Install(h, report)
      BY <1>1
         DEF Next, HandlerStep, vars, handlerVars, ApproveRequirements, Drift,
             Submit, Qualify, SignReports, SaveQualification,
             OpenReview, Approve, SaveApproval, Reject, SaveRejection, Leave
  <2>1. ASSUME ~undone PROVE
          \A h \in Handler :
              (pc[h] = "testing" /\ directory[lane[h]] = "none") \/ Owner(h) =>
                  lane[h] \notin manifest.lanes
      BY <1>1, <2>1, LaneFree DEF IInv, Unnamed
  <2>2. directory \in [Lane -> Report \cup {"none"}] /\ l \in Lane
      BY <1>1, ManifestFields DEF IInv, Firm, TypeOK
  <2> QED BY <1>1, <2>0, <2>1, <2>2
          DEF Install, UndoInstall, UndoSaved, RemoveReports, Owner
<1>2. IInv /\ [Next]_vars =>
        [~undone' => \A l \in manifest.lanes : directory'[l] = directory[l]]_vars
    BY <1>1
<1> QED BY Invariance, <1>2, PTL DEF Spec, RecordedReportsStand

-----------------------------------------------------------------------------
(* With one handler at a time a snapshot is never stale, and the run       *)
(* keeps the promise of CandidateGate.                                     *)
Serial == \A g, h \in Handler : g = h

Fresh(h) == Working(h) => snapshot[h] = manifest

NeverStale == \A h \in Handler : Fresh(h)

(* A lone handler's snapshot is the manifest itself. *)
LEMMA SerialFresh == ASSUME Serial PROVE Spec => []NeverStale
<1>1. Init => NeverStale
    BY DEF Init, NeverStale, Fresh, Working
<1>2. IInv /\ NeverStale /\ [Next]_vars => NeverStale'
  <2> SUFFICES ASSUME IInv, NeverStale, [Next]_vars, NEW k \in Handler
               PROVE  Fresh(k)'
      BY DEF NeverStale
  <2> USE DEF IInv, Firm, TypeOK, Serial, NeverStale, Fresh, Working,
         handlerVars
  <2>1. CASE ApproveRequirements
      BY <2>1 DEF ApproveRequirements, handlerVars
  <2>2. CASE Drift
      BY <2>2 DEF Drift, handlerVars
  <2>3. ASSUME NEW h \in Handler, HandlerStep(h) PROVE Fresh(k)'
    <3>1. ASSUME NEW l \in Lane, Submit(h, l) PROVE Fresh(k)'
        BY <3>1 DEF Submit
    <3>2. ASSUME NEW l \in Lane, Qualify(h, l) PROVE Fresh(k)'
        BY <3>2 DEF Qualify
    <3>3. ASSUME NEW report \in Report, Install(h, report) PROVE Fresh(k)'
        BY <3>3 DEF Install
    <3>4. CASE SignReports(h) \/ SaveQualification(h)
        BY <3>4 DEF SignReports, SaveQualification
    <3>5. CASE UndoInstall(h) \/ UndoSaved(h)
        BY <3>5 DEF UndoInstall, UndoSaved, RemoveReports, Forget
    <3>6. CASE OpenReview(h)
        BY <3>6 DEF OpenReview
    <3>7. CASE Approve(h)
        BY <3>7 DEF Approve
    <3>8. CASE SaveApproval(h)
        BY <3>8 DEF SaveApproval, Forget
    <3>9. CASE Reject(h)
        BY <3>9 DEF Reject
    <3>10. CASE SaveRejection(h)
        BY <3>10 DEF SaveRejection, Forget
    <3>11. CASE Leave(h)
        BY <3>11 DEF Leave, Forget
    <3> QED BY <2>3, <3>1, <3>2, <3>3, <3>4, <3>5, <3>6, <3>7,
               <3>8, <3>9, <3>10, <3>11 DEF HandlerStep
  <2>4. CASE UNCHANGED vars
      BY <2>4 DEF vars, handlerVars
  <2> QED BY <2>1, <2>2, <2>3, <2>4 DEF Next, HandlerStep
<1> QED BY <1>1, <1>2, Invariance, PTL DEF Spec

(* The signed reports are those in the directories. *)
Matching ==
    \A l \in Lane :
        manifest.digest.report[l] = IF l \in manifest.lanes THEN directory[l] ELSE "none"

(* What a lone handler signs is the manifest with one more report. *)
OneMore(h) ==
    /\ pc[h] \in {"testing", "installed"} => lane[h] \notin manifest.lanes /\ Matching
    /\ pc[h] \in {"installed", "signed"} => directory[lane[h]] \in Report
    /\ pc[h] = "saved" => manifest.status # "approved"
    /\ pc[h] = "signed" =>
           /\ manifest.status = "ready"
           /\ manifest.digest.report[lane[h]] = "none"
           /\ snapshot[h].status = Verdict(directory[lane[h]])
           /\ snapshot[h].digest.report =
                  [manifest.digest.report EXCEPT ![lane[h]] = directory[lane[h]]]

AddsOne == \A h \in Handler : OneMore(h)

(* A lone handler adds one report to what was signed before, and keeps it. *)
LEMMA SerialAdds == ASSUME Serial PROVE Spec => []AddsOne
<1>1. Init => AddsOne
    BY DEF Init, AddsOne, OneMore
<1>2. IInv /\ IInv' /\ NeverStale /\ AddsOne /\ [Next]_vars => AddsOne'
  <2> SUFFICES ASSUME IInv, IInv', NeverStale, AddsOne, [Next]_vars, NEW k \in Handler
               PROVE  OneMore(k)'
      BY DEF AddsOne
  <2>typed. TypeOK /\ Firm /\ TypeOK'
      BY DEF IInv, Firm
  <2>serial. \A h \in Handler : h = k
      BY DEF Serial
  <2> USE <2>typed, <2>serial DEF TypeOK, AddsOne, OneMore, Matching, handlerVars
  <2>1. CASE ApproveRequirements
      BY <2>1 DEF ApproveRequirements, handlerVars
  <2>2. CASE Drift
      BY <2>2 DEF Drift, handlerVars
  <2>3. CASE HandlerStep(k)
    <3>1. ASSUME NEW l \in Lane, Submit(k, l) PROVE OneMore(k)'
        BY <3>1 DEF Submit
    <3>2. ASSUME NEW l \in Lane, Qualify(k, l) PROVE OneMore(k)'
      <4>1. l \notin manifest.lanes /\ Intact(manifest) /\ lane'[k] = l /\ pc'[k] = "testing"
            /\ UNCHANGED <<manifest, directory>>
          BY <3>2 DEF Qualify, Admissible
      <4>2. Matching
          BY <4>1 DEF Intact, Sign
      <4> QED BY <4>1, <4>2
    <3>3. ASSUME NEW report \in Report, Install(k, report) PROVE OneMore(k)'
      <4>1. /\ pc[k] = "testing" /\ pc'[k] = "installed" /\ lane[k] \in Lane
            /\ directory' = [directory EXCEPT ![lane[k]] = report]
            /\ UNCHANGED <<manifest, lane>>
          BY <3>3 DEF Install, Firm, SnapshotTyped
      <4> QED BY <4>1
    <3>4. CASE SignReports(k)
      <4>1. /\ pc[k] = "installed" /\ pc'[k] = "signed" /\ lane[k] \in Lane
            /\ snapshot[k] = manifest /\ manifest.status = "ready"
            /\ UNCHANGED <<manifest, directory, lane>>
          BY <3>4 DEF SignReports, Firm, SnapshotTyped, Working, NeverStale, Fresh
      <4> DEFINE signed == manifest.lanes \cup {lane[k]}
      <4>2. snapshot'[k].digest = Sign(signed)
            /\ snapshot'[k].status = Verdict(directory[lane[k]])
          BY <3>4, <4>1, SignedFields
      <4>3. Sign(signed).report =
                [manifest.digest.report EXCEPT ![lane[k]] = directory[lane[k]]]
        <5>1. manifest.digest.report \in [Lane -> Report \cup {"none"}]
            BY DEF Manifest, Digest
        <5>2. Matching /\ lane[k] \notin manifest.lanes
            BY <4>1
        <5> QED BY <4>1, <5>1, <5>2 DEF Sign
      <4> QED BY <4>1, <4>2, <4>3
    <3>5. CASE SaveQualification(k)
      <4>1. /\ manifest' = snapshot[k] /\ pc'[k] = "saved"
            /\ snapshot[k].status = Verdict(directory[lane[k]])
          BY <3>5 DEF SaveQualification
      <4> QED BY <4>1 DEF Verdict
    <3>6. CASE UndoInstall(k) \/ UndoSaved(k)
        BY <3>6 DEF UndoInstall, UndoSaved, RemoveReports, Forget
    <3>7. CASE OpenReview(k)
        BY <3>7 DEF OpenReview
    <3>8. CASE Approve(k) \/ Reject(k)
        BY <3>8 DEF Approve, Reject
    <3>9. CASE SaveApproval(k) \/ SaveRejection(k)
        BY <3>9 DEF SaveApproval, SaveRejection, Forget
    <3>10. CASE Leave(k)
        BY <3>10 DEF Leave, Forget
    <3> QED BY <2>3, <3>1, <3>2, <3>3, <3>4, <3>5, <3>6, <3>7, <3>8, <3>9, <3>10
            DEF HandlerStep
  <2>4. CASE UNCHANGED vars
      BY <2>4 DEF vars, handlerVars
  <2> QED BY <2>1, <2>2, <2>3, <2>4 DEF Next
<1> QED BY <1>1, <1>2, Invariance, SerialFresh, PTL DEF Spec

(* GateSpec: while one handler works on the run at a time, signed evidence *)
(* only accumulates, one failing report closes the candidate, and one      *)
(* decision is taken on everything attached so far.                        *)
THEOREM SerialRefinement == ASSUME Serial PROVE Spec => GateSpec
<1>1. Init => Gate!Init
    BY DEF Init, Gate!Init
<1>2. IInv /\ NeverStale /\ AddsOne /\ [Next]_vars => [Gate!Next]_(Gate!gvars)
  <2> SUFFICES ASSUME IInv, NeverStale, AddsOne, [Next]_vars
               PROVE  [Gate!Next]_(Gate!gvars)
      OBVIOUS
  <2>1. ASSUME NEW h \in Handler, SaveQualification(h) PROVE Gate!Next
    <3>1. /\ manifest' = snapshot[h] /\ OneMore(h) /\ pc[h] = "signed" /\ lane[h] \in Lane
        BY <2>1 DEF SaveQualification, AddsOne, IInv, Firm, SnapshotTyped
    <3>2. PICK l \in Lane, r \in Report : l = lane[h] /\ r = directory[l]
        BY <3>1 DEF OneMore
    <3>3. Gate!Attach(l, r)
        BY <3>1, <3>2 DEF Gate!Attach, OneMore, Verdict
    <3> QED BY <3>3 DEF Gate!Next, Report
  <2>2. ASSUME NEW h \in Handler, SaveApproval(h) PROVE Gate!Next
    <3>1. /\ snapshot[h] = manifest /\ manifest.status = "ready" /\ manifest \in Manifest
        BY <2>2 DEF SaveApproval, NeverStale, Fresh, Working, IInv, Firm, SnapshotTyped
    <3>2. manifest'.digest = manifest.digest /\ manifest'.status = "approved"
        BY <2>2, <3>1 DEF SaveApproval, Manifest
    <3>3. Gate!Decide("approved")
        BY <3>1, <3>2 DEF Gate!Decide
    <3> QED BY <3>3 DEF Gate!Next
  <2>3. ASSUME NEW h \in Handler, SaveRejection(h) PROVE Gate!Next
    <3>1. /\ snapshot[h] = manifest /\ manifest.status = "ready" /\ manifest \in Manifest
        BY <2>3 DEF SaveRejection, NeverStale, Fresh, Working, IInv, Firm, SnapshotTyped
    <3>2. manifest'.digest = manifest.digest /\ manifest'.status = "rejected"
        BY <2>3, <3>1 DEF SaveRejection, Manifest
    <3>3. Gate!Decide("rejected")
        BY <3>1, <3>2 DEF Gate!Decide
    <3> QED BY <3>3 DEF Gate!Next
  <2>4. \/ manifest' = manifest
        \/ \E h \in Handler : SaveQualification(h) \/ SaveApproval(h) \/ SaveRejection(h)
      BY DEF Next, vars, ApproveRequirements, Drift, HandlerStep, Submit, Qualify, Install,
         SignReports, UndoInstall, UndoSaved, RemoveReports, OpenReview, Approve, Reject, Leave
  <2> QED BY <2>1, <2>2, <2>3, <2>4 DEF Gate!gvars
<1> QED BY <1>1, <1>2, Invariance, SerialFresh, SerialAdds, PTL DEF Spec, GateSpec, Gate!Spec

(* ApprovalStands: while one handler works on the run at a time, a run     *)
(* that may be exported stays so until an artifact changes on disk: no     *)
(* handler can begin on an approved run, and none is under way.            *)
THEOREM SerialApproval == ASSUME Serial PROVE Spec => ApprovalStands
<1>1. ASSUME IInv, NeverStale, AddsOne, [Next]_vars, Exportable, base' = base
      PROVE  Exportable'
  <2>1. \A h \in Handler : ~Working(h) /\ pc[h] \notin {"signed", "saved"}
    <3> SUFFICES ASSUME NEW h \in Handler, Working(h) \/ pc[h] \in {"signed", "saved"}
                 PROVE  FALSE
        OBVIOUS
    <3>2. ASSUME ~Working(h) PROVE FALSE
        BY <1>1, <3>2 DEF AddsOne, OneMore, Exportable, Bundled
    <3>3. Working(h)
        BY <3>2
    <3>1. snapshot[h] = manifest /\ snapshot[h].status = "ready"
        BY <1>1, <3>3 DEF NeverStale, Fresh, IInv, Firm, SnapshotTyped
    <3> QED BY <1>1, <3>1 DEF Exportable, Bundled
  <2>2. manifest' = manifest /\ gate' = gate
      BY <1>1, <2>1
         DEF Next, HandlerStep, vars, handlerVars, ApproveRequirements, Drift, Exportable,
             Working, Submit, Qualify, Install, SignReports, SaveQualification, UndoInstall,
             UndoSaved, RemoveReports,
             OpenReview, Approve, SaveApproval, Reject, SaveRejection, Leave
  <2>3. directory' = directory
      BY <1>1, <2>1
         DEF Next, HandlerStep, vars, handlerVars, ApproveRequirements, Drift,
             Working, Submit, Qualify, Install, SignReports, SaveQualification, UndoInstall,
             UndoSaved, RemoveReports,
             OpenReview, Approve, SaveApproval, Reject, SaveRejection, Leave
  <2> QED BY <1>1, <2>2, <2>3 DEF Exportable, Bundled, Intact, Sign
<1>2. IInv /\ NeverStale /\ AddsOne /\ [Next]_vars =>
        [Exportable => Exportable' \/ base' # base]_vars
    BY <1>1
<1> QED BY <1>2, Invariance, SerialFresh, SerialAdds, PTL DEF Spec, ApprovalStands
=============================================================================
