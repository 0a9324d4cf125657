-------------------------- MODULE RunStore_proofs --------------------------
(***************************************************************************)
(* Theorems about RunStore, for any runs, artifacts and openers.  An       *)
(* opener deals only with what it found in staging, and a run that nobody  *)
(* opened the store next to is in staging only while it is built, or when  *)
(* its build died.                                                         *)
(***************************************************************************)
EXTENDS RunStore, TLAPS

(* No opener has listed the run, or has its directory open. *)
Away(r) == \A o \in Opener : r \notin seen[o] /\ r \notin handle[o]

(* How far the build of a run is shows in its directory. *)
Stage(r) ==
    /\ build[r] \in {"idle", "failed"} => place[r] = "none" /\ files[r] = {}
    /\ build[r] = "idle" => written[r] = {}
    /\ build[r] \in Building => place[r] = "staging"
    /\ build[r] = "done" => place[r] = "final" /\ Complete(r)
    /\ build[r] = "dead" => place[r] # "final"
    /\ build[r] = "writing" => files[r] = written[r]
    /\ build[r] = "hashed" => files[r] = Artifact
    /\ build[r] = "sealed" => Complete(r)
    /\ build[r] # "dead" => Away(r)

IInv ==
    /\ TypeOK
    /\ \A r \in Run : place[r] = "final" => build[r] = "done"
    /\ \A r \in Run \ Exposed : Stage(r)

-----------------------------------------------------------------------------
(* The initial state satisfies the invariant. *)
LEMMA InitIInv == Init => IInv
BY DEF Init, IInv, TypeOK, Stage, Away, Building

(* Every step keeps every variable in its type. *)
LEMMA TypeStep == TypeOK /\ [Next]_vars => TypeOK'
<1> SUFFICES ASSUME TypeOK, [Next]_vars PROVE TypeOK'
    OBVIOUS
<1> USE DEF TypeOK, Building, storeVars, buildVars, openVars
<1>1. ASSUME NEW r \in Run, Begin(r) \/ Hash(r) \/ Promote(r) PROVE TypeOK'
    BY <1>1 DEF Begin, Hash, Promote, Advance
<1>2. ASSUME NEW r \in Run, Seal(r) PROVE TypeOK'
    BY <1>2 DEF Seal, Advance
<1>3. ASSUME NEW r \in Run, Fail(r) \/ Die(r) PROVE TypeOK'
    BY <1>3 DEF Fail, Die, Advance
<1>4. ASSUME NEW r \in Run, Discard(r) PROVE TypeOK'
    BY <1>4 DEF Discard, Advance
<1>5. ASSUME NEW r \in Run, NEW a \in Artifact, Write(r, a) PROVE TypeOK'
    BY <1>5 DEF Write
<1>6. ASSUME NEW o \in Opener, List(o) \/ Kill(o) PROVE TypeOK'
    BY <1>6 DEF List, Kill, Abort
<1>7. ASSUME NEW o \in Opener, NEW r \in Run, Open(o, r) \/ Miss(o, r) \/ Remove(o, r)
      PROVE  TypeOK'
  <2>1. CASE Open(o, r)
      BY <2>1 DEF Open
  <2>2. CASE Miss(o, r)
      BY <2>2 DEF Miss, Abort
  <2>3. CASE Remove(o, r)
      BY <2>3 DEF Remove, Abort
  <2> QED BY <1>7, <2>1, <2>2, <2>3
<1>8. ASSUME NEW o \in Opener, NEW r \in Run, NEW f \in Artifact \cup {Manifest},
             Unlink(o, r, f)
      PROVE  TypeOK'
    BY <1>8 DEF Unlink, Abort
<1>9. CASE UNCHANGED vars
    BY <1>9 DEF vars
<1> QED BY <1>1, <1>2, <1>3, <1>4, <1>5, <1>6, <1>7, <1>8, <1>9 DEF Next

(* Only Promote makes a run visible, and nothing hides it again. *)
LEMMA FinalStep ==
    ASSUME IInv, [Next]_vars, NEW r \in Run
    PROVE  /\ place[r] = "final" => place'[r] = "final"
           /\ place'[r] = "final" => build'[r] = "done"
<1>0. TypeOK /\ (place[r] = "final" => build[r] = "done")
    BY DEF IInv
<1> USE <1>0 DEF TypeOK, Building, storeVars, buildVars, openVars
<1>1. ASSUME NEW d \in Run, Begin(d) \/ Promote(d) \/ Discard(d)
      PROVE  /\ place[r] = "final" => place'[r] = "final"
             /\ place'[r] = "final" => build'[r] = "done"
    BY <1>1 DEF Begin, Promote, Discard, Advance
<1>2. ASSUME NEW d \in Run, Hash(d) \/ Seal(d) \/ Fail(d) \/ Die(d)
      PROVE  place' = place /\ (build[r] = "done" => build'[r] = "done")
    BY <1>2 DEF Hash, Seal, Fail, Die, Advance
<1>3. ASSUME NEW o \in Opener, NEW d \in Run, Remove(o, d)
      PROVE  /\ place[r] = "final" => place'[r] = "final"
             /\ place'[r] = "final" => place[r] = "final"
             /\ build' = build
    BY <1>3 DEF Remove
<1>4. \/ place' = place /\ build' = build
      \/ \E d \in Run : Begin(d) \/ Promote(d) \/ Discard(d)
      \/ \E d \in Run : Hash(d) \/ Seal(d) \/ Fail(d) \/ Die(d)
      \/ \E o \in Opener, d \in Run : Remove(o, d)
    BY DEF Next, vars, Write, List, Kill, Open, Miss, Unlink
<1> QED BY <1>1, <1>2, <1>3, <1>4

(* A run that no opener comes next to goes through its stages. *)
LEMMA StageStep ==
    ASSUME IInv, [Next]_vars, NEW r \in Run \ Exposed
    PROVE  Stage(r)'
<1>0. TypeOK /\ Stage(r)
    BY DEF IInv
<1> USE <1>0 DEF TypeOK, Building, Stage, Complete, Away, storeVars, buildVars, openVars
<1>1. ASSUME NEW d \in Run, Begin(d) PROVE Stage(r)'
    BY <1>1 DEF Begin, Advance
<1>2. ASSUME NEW d \in Run, NEW a \in Artifact, Write(d, a) PROVE Stage(r)'
    BY <1>2 DEF Write
<1>3. ASSUME NEW d \in Run, Hash(d) PROVE Stage(r)'
    BY <1>3 DEF Hash, Advance
<1>4. ASSUME NEW d \in Run, Seal(d) PROVE Stage(r)'
    BY <1>4 DEF Seal, Advance
<1>5. ASSUME NEW d \in Run, Promote(d) PROVE Stage(r)'
    BY <1>5 DEF Promote, Advance
<1>6. ASSUME NEW d \in Run, Fail(d) \/ Die(d) PROVE Stage(r)'
    BY <1>6 DEF Fail, Die, Advance
<1>7. ASSUME NEW d \in Run, Discard(d) PROVE Stage(r)'
  <2>1. CASE d = r
      BY <1>7, <2>1 DEF Discard, Advance
  <2>2. CASE d # r
      BY <1>7, <2>2 DEF Discard, Advance
  <2> QED BY <2>1, <2>2
<1>8. ASSUME NEW o \in Opener, List(o) PROVE Stage(r)'
  <2>1. /\ place' = place /\ files' = files /\ build' = build /\ written' = written
        /\ handle' = handle /\ build[r] \notin Building
        /\ seen' = [seen EXCEPT ![o] = {d \in Run : place[d] = "staging"}]
      BY <1>8 DEF List
  <2>2. build[r] # "dead" => place[r] # "staging"
      BY <2>1
  <2>3. build[r] # "dead" => \A p \in Opener : r \notin seen'[p]
      BY <2>1, <2>2
  <2> QED BY <2>1, <2>3
<1>9. ASSUME NEW o \in Opener, Kill(o) PROVE Stage(r)'
    BY <1>9 DEF Kill, Abort
<1>10. ASSUME NEW o \in Opener, NEW d \in Run, Open(o, d) PROVE Stage(r)'
    BY <1>10 DEF Open
<1>11. ASSUME NEW o \in Opener, NEW d \in Run, Miss(o, d) PROVE Stage(r)'
    BY <1>11 DEF Miss, Abort
<1>12. ASSUME NEW o \in Opener, NEW d \in Run, Remove(o, d) PROVE Stage(r)'
    BY <1>12 DEF Remove, Abort
<1>13. ASSUME NEW o \in Opener, NEW d \in Run, NEW f \in Artifact \cup {Manifest},
              Unlink(o, d, f)
       PROVE  Stage(r)'
    BY <1>13 DEF Unlink, Abort
<1>14. CASE UNCHANGED vars
    BY <1>14 DEF vars
<1> QED BY <1>1, <1>2, <1>3, <1>4, <1>5, <1>6, <1>7, <1>8, <1>9, <1>10, <1>11, <1>12, <1>13,
           <1>14 DEF Next

-----------------------------------------------------------------------------
(* The invariant is inductive. *)
THEOREM Invariance == Spec => []IInv
<1>1. IInv /\ [Next]_vars => IInv'
    BY TypeStep, FinalStep, StageStep DEF IInv
<1> QED BY InitIInv, <1>1, PTL DEF Spec

(* VisibleRunComplete: a visible run has its manifest and all artifacts.   *)
THEOREM CompleteWhenVisible == Spec => []VisibleRunComplete
<1>1. IInv => VisibleRunComplete
    BY DEF IInv, Stage, VisibleRunComplete
<1> QED BY Invariance, <1>1, PTL

(* FailedBuildLeavesNothing: a build that raised leaves no directory.      *)
THEOREM NothingLeft == Spec => []FailedBuildLeavesNothing
<1>1. IInv => FailedBuildLeavesNothing
    BY DEF IInv, Stage, FailedBuildLeavesNothing
<1> QED BY Invariance, <1>1, PTL

(* NewOpenersHarmless: a visible run stays, no opener starts on it, and it *)
(* loses files only to one that was there before.                          *)
THEOREM VisibleRunStays == Spec => NewOpenersHarmless
<1>1. ASSUME IInv, [Next]_vars, NEW r \in Run, place[r] = "final"
      PROVE  /\ place'[r] = "final"
             /\ files'[r] # files[r] => \E o \in Opener : r \in handle[o]
             /\ \A o \in Opener : r \in handle'[o] => r \in handle[o]
  <2>0. TypeOK /\ build[r] = "done" /\ place'[r] = "final"
      BY <1>1, FinalStep DEF IInv
  <2> USE <2>0 DEF TypeOK, storeVars, buildVars, openVars
  <2>1. ASSUME files'[r] # files[r] PROVE \E o \in Opener : r \in handle[o]
    <3>1. ~(\E a \in Artifact : Write(r, a)) /\ ~Seal(r) /\ ~Discard(r)
        BY DEF Write, Seal, Discard, Advance
    <3>2. \A d \in Run : d # r => (\A a \in Artifact : ~Write(d, a)) /\ ~Seal(d) /\ ~Discard(d)
        BY <2>1 DEF Write, Seal, Discard
    <3>3. \E o \in Opener, d \in Run, f \in Artifact \cup {Manifest} : Unlink(o, d, f)
        BY <1>1, <2>1, <3>1, <3>2 DEF Next, vars, Begin, Hash, Promote, Fail, Die, List, Kill,
           Open, Miss, Remove
    <3> QED BY <2>1, <3>3 DEF Unlink
  <2>2. ASSUME NEW o \in Opener, r \in handle'[o] PROVE r \in handle[o]
    <3>1. ASSUME NEW p \in Opener, NEW d \in Run, Open(p, d) PROVE r \in handle[o]
        BY <1>1, <2>2, <3>1 DEF Open
    <3>2. ASSUME NEW p \in Opener, NEW d \in Run,
                 Miss(p, d) \/ Remove(p, d) \/ Kill(p) \/ List(p)
                     \/ \E f \in Artifact \cup {Manifest} : Unlink(p, d, f)
          PROVE  r \in handle[o]
        BY <2>2, <3>2 DEF Miss, Remove, Kill, List, Unlink, Abort
    <3> QED BY <1>1, <2>2, <3>1, <3>2 DEF Next, vars, Begin, Write, Hash, Seal, Promote, Fail,
           Discard, Die
  <2> QED BY <2>1, <2>2
<1>2. IInv /\ [Next]_vars =>
          [\A r \in Run : place[r] = "final" =>
              /\ place'[r] = "final"
              /\ files'[r] # files[r] => \E o \in Opener : r \in handle[o]
              /\ \A o \in Opener : r \in handle'[o] => r \in handle[o]]_vars
    BY <1>1
<1> QED BY Invariance, <1>2, PTL DEF NewOpenersHarmless, Spec
=============================================================================
