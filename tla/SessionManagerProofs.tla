------------------------ MODULE SessionManagerProofs ------------------------
(***************************************************************************)
(* The properties of SessionManager for any number of sessions and tokens, *)
(* any lease length and any number of failed writes.                       *)
(***************************************************************************)
EXTENDS SessionManager, TLAPS

Inv == TypeOK /\ EndedHasNoLease /\ NothingUnsaved /\ EndedIsKnown

\* The step leaves ended sessions ended and exited ones exited, in memory
OutcomesKept ==
    \A s \in Ids :
       /\ record[s] \in Ended => record'[s] \in Ended
       /\ record[s] = "exited" => record'[s] = "exited"

\* Initially there is no record, no lease and no file.
LEMMA InvInit == Init => Inv
  BY ManagerAssumption DEF Init, Inv, TypeOK, EndedHasNoLease, NothingUnsaved, EndedIsKnown, States, Ended

\* A write of the manifest, whether it succeeds or not, leaves either the old
\* file or memory's present contents, and says which.
LEMMA SaveEffect ==
  ASSUME TypeOK, record' \in [Ids -> States], Save
  PROVE  /\ manifest' \in [Ids -> States] /\ manifest' \in {manifest, record'}
         /\ saved' \in BOOLEAN /\ (saved' => manifest' = record')
         /\ faults' \in 0..MaxFaults
  <1>1. CASE manifest' = record' /\ saved' = TRUE /\ UNCHANGED faults
    BY <1>1 DEF TypeOK
  <1>2. CASE faults < MaxFaults /\ faults' = faults + 1 /\ saved' = FALSE /\ UNCHANGED manifest
    <2>1. faults' \in 0..MaxFaults
      BY <1>2, ManagerAssumption, SMT DEF TypeOK
    <2>2. manifest' \in [Ids -> States] /\ manifest' \in {manifest, record'}
      BY <1>2 DEF TypeOK
    <2>3. saved' \in BOOLEAN /\ (saved' => manifest' = record')
      BY <1>2, Zenon
    <2> QED BY <2>1, <2>2, <2>3
  <1> QED BY <1>1, <1>2 DEF Save

\* A change of memory that keeps its own part of the invariant keeps the whole
\* of it, once it has been written or has failed to be.
LEMMA WriteStep ==
  ASSUME Inv, Save, record' \in [Ids -> States],
         lease' \in [Ids -> Tokens \cup {None}],
         expires' \in [Ids -> 0..MaxTime + LeaseSeconds],
         issued' \in SUBSET Tokens, known' \in SUBSET issued', now' = now,
         EndedHasNoLease',
         OutcomesKept
  PROVE  Inv'
  <1>1. /\ manifest' \in [Ids -> States] /\ manifest' \in {manifest, record'}
        /\ saved' \in BOOLEAN /\ (saved' => manifest' = record')
        /\ faults' \in 0..MaxFaults
    BY SaveEffect DEF Inv
  <1>2. TypeOK'
    BY <1>1 DEF Inv, TypeOK
  <1>3. EndedIsKnown'
    BY <1>1 DEF Inv, EndedIsKnown, OutcomesKept
  <1> QED BY <1>1, <1>2, <1>3 DEF Inv, NothingUnsaved

\* Every call keeps the invariant, whether its write succeeds or not.
LEMMA InvStep == Inv /\ [Next]_vars => Inv'
  <1> SUFFICES ASSUME Inv, [Next]_vars PROVE Inv'
    OBVIOUS
  <1> DEFINE Others == record' = record /\ manifest' = manifest /\ saved' = saved /\ faults' = faults
  <1>q. ASSUME Others, lease' \in [Ids -> Tokens \cup {None}],
               expires' \in [Ids -> 0..MaxTime + LeaseSeconds],
               issued' \in SUBSET Tokens, known' \in SUBSET issued', now' \in 0..MaxTime,
               \A r \in Ids : lease'[r] # None => record[r] \in Live
        PROVE  Inv'
    BY <1>q DEF Inv, TypeOK, EndedHasNoLease, NothingUnsaved, EndedIsKnown
  <1> USE ManagerAssumption DEF States, Live, Ended, OutcomesKept
  <1>1. ASSUME NEW s \in Ids, Create(s) PROVE Inv'
    <2>1. /\ Save /\ record' \in [Ids -> States] /\ now' = now
          /\ OutcomesKept
      BY <1>1 DEF Create, Become, Inv, TypeOK, leaseVars
    <2>2. /\ lease' \in [Ids -> Tokens \cup {None}]
          /\ expires' = expires /\ issued' = issued /\ known' = known
      BY <1>1 DEF Create, DropLease, Inv, TypeOK, leaseVars
    <2>3. EndedHasNoLease'
      BY <1>1 DEF Create, Become, DropLease, Inv, TypeOK, EndedHasNoLease, leaseVars
    <2> QED BY <2>1, <2>2, <2>3, WriteStep DEF Inv, TypeOK
  <1>2. ASSUME NEW s \in Ids, Rename(s) PROVE Inv'
    <2>1. /\ Save /\ record' \in [Ids -> States] /\ now' = now
          /\ OutcomesKept
      BY <1>2 DEF Rename, Become, Inv, TypeOK, leaseVars
    <2>2. /\ lease' \in [Ids -> Tokens \cup {None}]
          /\ expires' = expires /\ issued' = issued /\ known' = known
      BY <1>2 DEF Rename, DropLease, Inv, TypeOK, leaseVars
    <2>3. EndedHasNoLease'
      BY <1>2 DEF Rename, Become, DropLease, Inv, TypeOK, EndedHasNoLease, leaseVars
    <2> QED BY <2>1, <2>2, <2>3, WriteStep DEF Inv, TypeOK
  <1>3. ASSUME NEW s \in Ids, Start(s) PROVE Inv'
    <2>1. /\ Save /\ record' \in [Ids -> States] /\ now' = now
          /\ OutcomesKept
      BY <1>3 DEF Start, Become, Inv, TypeOK, leaseVars
    <2>2. /\ lease' \in [Ids -> Tokens \cup {None}]
          /\ expires' = expires /\ issued' = issued /\ known' = known
      BY <1>3 DEF Start, DropLease, Inv, TypeOK, leaseVars
    <2>3. EndedHasNoLease'
      BY <1>3 DEF Start, Become, DropLease, Inv, TypeOK, EndedHasNoLease, leaseVars
    <2> QED BY <2>1, <2>2, <2>3, WriteStep DEF Inv, TypeOK
  <1>4. ASSUME NEW s \in Ids, Complete(s) PROVE Inv'
    <2>1. /\ Save /\ record' \in [Ids -> States] /\ now' = now
          /\ OutcomesKept
      BY <1>4 DEF Complete, Become, Inv, TypeOK, leaseVars
    <2>2. /\ lease' \in [Ids -> Tokens \cup {None}]
          /\ expires' = expires /\ issued' = issued /\ known' = known
      BY <1>4 DEF Complete, DropLease, Inv, TypeOK, leaseVars
    <2>3. EndedHasNoLease'
      BY <1>4 DEF Complete, Become, DropLease, Inv, TypeOK, EndedHasNoLease, leaseVars
    <2> QED BY <2>1, <2>2, <2>3, WriteStep DEF Inv, TypeOK
  <1>5. ASSUME NEW s \in Ids, Refused(s) PROVE Inv'
    BY <1>5, <1>q DEF Refused, DropLease, Inv, TypeOK, EndedHasNoLease, fileVars
  <1>6. ASSUME NEW s \in Ids, NEW t \in Tokens, Attach(s, t) PROVE Inv'
    <2>1. /\ lease' \in [Ids -> Tokens \cup {None}] /\ now' = now
          /\ issued' \in SUBSET Tokens /\ known' \in SUBSET issued'
          /\ \A r \in Ids : r # s => lease'[r] = lease[r]
      BY <1>6 DEF Attach, Inv, TypeOK
    <2>2. expires' \in [Ids -> 0..MaxTime + LeaseSeconds]
      BY <1>6 DEF Attach, Inv, TypeOK
    <2>3. CASE record[s] = "created" /\ Become(s, "running") /\ Save
      <3>1. /\ record' \in [Ids -> States]
            /\ OutcomesKept
        BY <2>3 DEF Become, Inv, TypeOK
      <3>2. EndedHasNoLease'
        BY <2>1, <2>3 DEF Become, Inv, TypeOK, EndedHasNoLease
      <3> QED BY <2>1, <2>2, <2>3, <3>1, <3>2, WriteStep
    <2>4. CASE UNCHANGED <<record, fileVars>>
      <3>1. record[s] \in Live
        BY <1>6 DEF Attach
      <3> QED BY <2>1, <2>2, <2>4, <3>1, <1>q DEF Inv, TypeOK, EndedHasNoLease, fileVars
    <2> QED BY <1>6, <2>3, <2>4 DEF Attach
  <1>7. ASSUME NEW s \in Ids, NEW t \in Tokens, Detach(s, t) PROVE Inv'
    <2>1. /\ lease' = [lease EXCEPT ![s] = None] /\ lease' \in [Ids -> Tokens \cup {None}]
          /\ expires' = expires /\ issued' = issued /\ known' = known /\ now' = now
      BY <1>7 DEF Detach, DropLease, Inv, TypeOK
    <2>2. CASE record[s] = "running" /\ Become(s, "detached") /\ Save
      <3>1. /\ record' \in [Ids -> States]
            /\ OutcomesKept
        BY <2>2 DEF Become, Inv, TypeOK
      <3>2. EndedHasNoLease'
        BY <2>1, <2>2 DEF Become, Inv, TypeOK, EndedHasNoLease
      <3> QED BY <2>1, <2>2, <3>1, <3>2, WriteStep DEF Inv, TypeOK
    <2>3. CASE UNCHANGED <<record, fileVars>>
      BY <2>1, <2>3, <1>q DEF Inv, TypeOK, EndedHasNoLease, fileVars
    <2> QED BY <1>7, <2>2, <2>3 DEF Detach
  <1>8. ASSUME NEW s \in Ids, NEW t \in Tokens, Pause(s, t) PROVE Inv'
    <2>1. /\ Save /\ record' \in [Ids -> States] /\ now' = now
          /\ OutcomesKept
      BY <1>8 DEF Pause, Become, Inv, TypeOK, leaseVars
    <2>2. /\ lease' \in [Ids -> Tokens \cup {None}]
          /\ expires' = expires /\ issued' = issued /\ known' = known
      BY <1>8 DEF Pause, DropLease, Inv, TypeOK, leaseVars
    <2>3. EndedHasNoLease'
      BY <1>8 DEF Pause, Become, DropLease, Inv, TypeOK, EndedHasNoLease, leaseVars
    <2> QED BY <2>1, <2>2, <2>3, WriteStep DEF Inv, TypeOK
  <1>9. ASSUME NEW s \in Ids, NEW t \in Tokens, Resume(s, t) PROVE Inv'
    <2>1. /\ Save /\ record' \in [Ids -> States] /\ now' = now
          /\ OutcomesKept
      BY <1>9 DEF Resume, Become, Inv, TypeOK, leaseVars
    <2>2. /\ lease' \in [Ids -> Tokens \cup {None}]
          /\ expires' = expires /\ issued' = issued /\ known' = known
      BY <1>9 DEF Resume, DropLease, Inv, TypeOK, leaseVars
    <2>3. EndedHasNoLease'
      BY <1>9 DEF Resume, Become, DropLease, Inv, TypeOK, EndedHasNoLease, leaseVars
    <2> QED BY <2>1, <2>2, <2>3, WriteStep DEF Inv, TypeOK
  <1>10. ASSUME NEW s \in Ids, NEW t \in Tokens, Terminate(s, t) PROVE Inv'
    <2>0. record[s] \notin Ended
      BY <1>10 DEF Terminate, Controls, LeaseOf, Inv, TypeOK, EndedHasNoLease
    <2>1. /\ Save /\ record' \in [Ids -> States] /\ now' = now
          /\ OutcomesKept
      BY <1>10, <2>0 DEF Terminate, Become, Inv, TypeOK, leaseVars
    <2>2. /\ lease' \in [Ids -> Tokens \cup {None}]
          /\ expires' = expires /\ issued' = issued /\ known' = known
      BY <1>10 DEF Terminate, DropLease, Inv, TypeOK, leaseVars
    <2>3. EndedHasNoLease'
      BY <1>10 DEF Terminate, Become, DropLease, Inv, TypeOK, EndedHasNoLease, leaseVars
    <2> QED BY <2>1, <2>2, <2>3, WriteStep DEF Inv, TypeOK
  <1>11. CASE Tick
    BY <1>11, <1>q DEF Tick, Inv, TypeOK, EndedHasNoLease, fileVars, leaseVars
  <1>12. CASE Restart
    BY <1>12 DEF Restart, Inv, TypeOK, EndedHasNoLease, NothingUnsaved, EndedIsKnown
  <1>13. CASE UNCHANGED vars
    BY <1>13, <1>q DEF vars, Inv, TypeOK, EndedHasNoLease, fileVars, leaseVars
  <1> QED
    BY <1>1, <1>2, <1>3, <1>4, <1>5, <1>6, <1>7, <1>8, <1>9, <1>10, <1>11, <1>12, <1>13 DEF Next

\* The invariant holds in every reachable state.
THEOREM Invariance == Spec => []Inv
  BY InvInit, InvStep, PTL DEF Spec

\* The variables keep their types; the tokens callers know have been issued.
THEOREM TypeCorrect == Spec => []TypeOK
  <1>1. Inv => TypeOK
    BY DEF Inv
  <1> QED BY <1>1, Invariance, PTL

\* A session that has ended is under nobody's control.
THEOREM EndedReleased == Spec => []EndedHasNoLease
  <1>1. Inv => EndedHasNoLease
    BY DEF Inv
  <1> QED BY <1>1, Invariance, PTL

\* After a write that succeeded the manifest is what memory says.
THEOREM Durable == Spec => []NothingUnsaved
  <1>1. Inv => NothingUnsaved
    BY DEF Inv
  <1> QED BY <1>1, Invariance, PTL

\* The outcome of a session is final on disk.
THEOREM OutcomesFinal == Spec => EndedIsFinal
  <1> DEFINE Kept(s) == /\ manifest[s] \in Ended => manifest'[s] \in Ended
                        /\ manifest[s] = "exited" => manifest'[s] = "exited"
             A == \A s \in Ids : /\ manifest[s] \in Ended => manifest'[s] \in Ended
                                 /\ manifest[s] = "exited" => manifest'[s] = "exited"
  <1>1. Inv /\ Inv' /\ [Next]_vars => [A]_vars
    <2> SUFFICES ASSUME Inv, Inv', [Next]_vars, NEW s \in Ids
                 PROVE  Kept(s)
      OBVIOUS
    <2> USE DEF Inv, TypeOK, EndedIsKnown, EndedHasNoLease, Live, Ended
    <2>1. ASSUME NEW r \in Ids, \/ Create(r) \/ Rename(r) \/ Start(r) \/ Complete(r) \/ Refused(r)
          PROVE  Kept(s)
      BY <2>1 DEF Create, Rename, Start, Complete, Refused, Save, Become, fileVars
    <2>2. ASSUME NEW r \in Ids, NEW t \in Tokens,
                 Attach(r, t) \/ Detach(r, t) \/ Pause(r, t) \/ Resume(r, t)
          PROVE  Kept(s)
      BY <2>2 DEF Attach, Detach, Pause, Resume, Save, Become, fileVars
    <2>3. ASSUME NEW r \in Ids, NEW t \in Tokens, Terminate(r, t)
          PROVE  Kept(s)
      BY <2>3, ManagerAssumption DEF Terminate, Controls, LeaseOf, Save, Become
    <2>4. CASE Tick \/ Restart \/ UNCHANGED vars
      BY <2>4 DEF Tick, Restart, vars, fileVars
    <2> HIDE DEF Inv
    <2> QED BY <2>1, <2>2, <2>3, <2>4 DEF Next
  <1> QED BY <1>1, Invariance, PTL DEF Spec, EndedIsFinal

\* The leases of the manager are those of Control: one controller at a time,
\* never displaced, never back once over.
THEOREM LeasesRefineControl == Spec => LeasesAreControl
  <1> DEFINE H == [s \in Ids |-> LeaseOf(s)]
             AEnd == \E S \in SUBSET Ids : H' = [s \in Ids |-> IF s \in S THEN None ELSE H[s]]
  <1>1. Init => AbstractControl!ControlInit
    BY DEF Init, AbstractControl!ControlInit, LeaseOf
  <1>2. ASSUME \A s \in Ids : H'[s] \in {None, H[s]}, UNCHANGED issued
        PROVE  AbstractControl!ControlNext
    <2>1. H' = [s \in Ids |-> IF s \in {r \in Ids : H'[r] = None} THEN None ELSE H[s]]
      BY <1>2
    <2>2. AbstractControl!End
      BY <2>1, <1>2 DEF AbstractControl!End
    <2> QED BY <2>2 DEF AbstractControl!ControlNext
  <1>3. Inv /\ [Next]_vars => [AbstractControl!ControlNext]_<<H, issued>>
    <2> SUFFICES ASSUME Inv, [Next]_vars
                 PROVE  AbstractControl!ControlNext \/ UNCHANGED <<H, issued>>
      OBVIOUS
    <2> USE ManagerAssumption DEF Inv, TypeOK
    <2>1. ASSUME NEW r \in Ids, NEW t \in Tokens, Attach(r, t) PROVE AbstractControl!ControlNext
      <3>0. \A s \in Ids : LeaseOf(s)' = IF s = r THEN t ELSE LeaseOf(s)
        <4>1. now \in Nat /\ ~(now + LeaseSeconds <= now)
          OBVIOUS
        <4>2. now' = now /\ expires'[r] = now + LeaseSeconds /\ lease'[r] = t
          BY <2>1 DEF Attach
        <4>3. \A s \in Ids : s # r => expires'[s] = expires[s] /\ lease'[s] = lease[s]
          BY <2>1 DEF Attach
        <4> QED BY <4>1, <4>2, <4>3 DEF LeaseOf
      <3>1. H[r] = None /\ H' = [H EXCEPT ![r] = t]
        BY <2>1, <3>0 DEF Attach
      <3>2. AbstractControl!Grant(r, t)
        BY <2>1, <3>1 DEF Attach, AbstractControl!Grant
      <3> QED BY <3>2 DEF AbstractControl!ControlNext
    <2>2. ASSUME NEW r \in Ids, NEW t \in Tokens,
                 Detach(r, t) \/ Pause(r, t) \/ Resume(r, t) \/ Terminate(r, t)
          PROVE  AbstractControl!ControlNext
      BY <2>2, <1>2 DEF Detach, Pause, Resume, Terminate, DropLease, LeaseOf, leaseVars
    <2>3. ASSUME NEW r \in Ids, \/ Create(r) \/ Rename(r) \/ Start(r) \/ Complete(r) \/ Refused(r)
          PROVE  AbstractControl!ControlNext
      BY <2>3, <1>2 DEF Create, Rename, Start, Complete, Refused, DropLease, LeaseOf, leaseVars
    <2>4. CASE Tick \/ Restart
      BY <2>4, <1>2 DEF Tick, Restart, LeaseOf, leaseVars
    <2>5. CASE UNCHANGED vars
      BY <2>5 DEF vars, leaseVars, LeaseOf
    <2> HIDE DEF Inv, H
    <2> QED BY <2>1, <2>2, <2>3, <2>4, <2>5 DEF Next
  <1> QED
    BY <1>1, <1>3, Invariance, PTL DEF Spec, LeasesAreControl, AbstractControl!ControlSpec

=============================================================================
