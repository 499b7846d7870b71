--------------------------- MODULE SessionManager ---------------------------
(***************************************************************************)
(* The agent's SessionManager: records of terminal sessions kept in memory *)
(* and in a manifest file, and control leases kept in memory only.  Every  *)
(* operation is synchronous, so an action is one call; a call that raises  *)
(* after it has changed something is a disjunct of its action.  The file   *)
(* is replaced atomically or not at all (os.replace), and the process may  *)
(* die between any two calls.                                              *)
(***************************************************************************)
EXTENDS Naturals

CONSTANTS
    Ids,            \* session ids
    Tokens,         \* lease tokens, never drawn twice
    None,
    LeaseSeconds,   \* lease_seconds, in ticks of the clock
    MaxTime,        \* bound: where the clock stops
    MaxFaults       \* bound: how many writes of the manifest may fail

ASSUME ManagerAssumption ==
    /\ None \notin Tokens
    /\ LeaseSeconds \in Nat \ {0} /\ MaxTime \in Nat /\ MaxFaults \in Nat

VARIABLES
    record,     \* _sessions: the state of each record, "absent" without one
    manifest,   \* the same, in the file
    lease,      \* _leases: the token of each lease, None without one
    expires,    \* _leases: when it expires
    issued,     \* tokens drawn
    known,      \* tokens that attach has returned to a caller
    now,        \* time.monotonic()
    saved,      \* the last _save succeeded
    faults      \* writes that have failed so far

fileVars  == <<manifest, saved, faults>>
leaseVars == <<lease, expires, issued, known>>
vars == <<record, fileVars, leaseVars, now>>

Live   == {"created", "running", "detached", "paused"}
Ended  == {"exited", "terminated"}
States == Live \cup Ended \cup {"absent"}

\* The lease that _expire_lease leaves
LeaseOf(s) == IF expires[s] <= now THEN None ELSE lease[s]

\* _save: the file is replaced, or the call raises and the file is as before
Save ==
    \/ /\ manifest' = record' /\ saved' = TRUE
       /\ UNCHANGED faults
    \/ /\ faults < MaxFaults /\ faults' = faults + 1
       /\ saved' = FALSE
       /\ UNCHANGED manifest

Become(s, state) == record' = [record EXCEPT ![s] = state]

DropLease(s) ==
    /\ lease' = [lease EXCEPT ![s] = None]
    /\ UNCHANGED <<expires, issued, known>>

\* create: the record stays in memory even if it cannot be saved
Create(s) ==
    /\ record[s] = "absent" /\ manifest[s] = "absent"
    /\ Become(s, "created")
    /\ Save
    /\ UNCHANGED <<leaseVars, now>>

\* rename changes nothing modelled here, but it writes the whole manifest
Rename(s) ==
    /\ record[s] # "absent"
    /\ UNCHANGED <<record, leaseVars, now>>
    /\ Save

Start(s) ==
    /\ record[s] \in {"created", "detached"}
    /\ Become(s, "running")
    /\ Save
    /\ UNCHANGED <<leaseVars, now>>

\* Mutant: the session's present controller is not looked at
AttachLocked(s, t) ==
    /\ record[s] \in Live /\ t \notin issued
    /\ lease' = [lease EXCEPT ![s] = t]
    /\ expires' = [expires EXCEPT ![s] = now + LeaseSeconds]
    /\ issued' = issued \cup {t} /\ known' = known \cup {t}
    /\ UNCHANGED <<record, fileVars, now>>

\* Mutant: the lease lasts twice as long
AttachTooLong(s, t) ==
    /\ record[s] \in Live /\ LeaseOf(s) = None /\ t \notin issued
    /\ lease' = [lease EXCEPT ![s] = t]
    /\ expires' = [expires EXCEPT ![s] = now + 2 * LeaseSeconds]
    /\ issued' = issued \cup {t} /\ known' = known \cup {t}
    /\ UNCHANGED <<record, fileVars, now>>

\* attach.  Only a created session changes its state and is saved; if that
\* raises, the lease is there but its token is lost.
Attach(s, t) ==
    /\ record[s] \in Live /\ LeaseOf(s) = None /\ t \notin issued
    /\ lease' = [lease EXCEPT ![s] = t]
    /\ expires' = [expires EXCEPT ![s] = now + LeaseSeconds]
    /\ issued' = issued \cup {t}
    /\ \/ /\ record[s] = "created" /\ Become(s, "running") /\ Save
          /\ known' = IF saved' THEN known \cup {t} ELSE known
       \/ /\ record[s] # "created" /\ UNCHANGED <<record, fileVars>>
          /\ known' = known \cup {t}
    /\ UNCHANGED now

\* _require_lease accepts the token
Controls(s, t) == t \in known /\ LeaseOf(s) = t

Detach(s, t) ==
    /\ record[s] # "absent" /\ Controls(s, t)
    /\ DropLease(s)
    /\ \/ record[s] = "running" /\ Become(s, "detached") /\ Save
       \/ record[s] # "running" /\ UNCHANGED <<record, fileVars>>
    /\ UNCHANGED now

Pause(s, t) ==
    /\ record[s] = "running" /\ Controls(s, t)
    /\ Become(s, "paused")
    /\ Save
    /\ UNCHANGED <<leaseVars, now>>

Resume(s, t) ==
    /\ record[s] = "paused" /\ Controls(s, t)
    /\ Become(s, "running")
    /\ Save
    /\ UNCHANGED <<leaseVars, now>>

Terminate(s, t) ==
    /\ record[s] # "absent" /\ Controls(s, t)
    /\ Become(s, "terminated")
    /\ DropLease(s)
    /\ Save
    /\ UNCHANGED now

\* Mutant: the lease is kept
CompleteKeepingLease(s) ==
    /\ record[s] # "absent"
    /\ Become(s, "exited")
    /\ Save
    /\ UNCHANGED <<leaseVars, now>>

\* Mutant: the outcome is not saved
CompleteUnsaved(s) ==
    /\ record[s] # "absent"
    /\ Become(s, "exited")
    /\ DropLease(s)
    /\ UNCHANGED <<fileVars, now>>

\* complete: from any state, without a lease
Complete(s) ==
    /\ record[s] # "absent"
    /\ Become(s, "exited")
    /\ DropLease(s)
    /\ Save
    /\ UNCHANGED now

\* A call that is refused has still removed a lease that had run out
Refused(s) ==
    /\ record[s] # "absent" /\ lease[s] # None /\ LeaseOf(s) = None
    /\ DropLease(s)
    /\ UNCHANGED <<record, fileVars, now>>

Tick ==
    /\ now < MaxTime
    /\ now' = now + 1
    /\ UNCHANGED <<record, fileVars, leaseVars>>

\* Mutant: the manifest is not loaded
RestartEmpty ==
    /\ record' = [s \in Ids |-> "absent"]
    /\ lease' = [s \in Ids |-> None]
    /\ saved' = TRUE
    /\ UNCHANGED <<manifest, expires, issued, known, now, faults>>

\* The process dies and another one loads the manifest
Restart ==
    /\ record' = manifest
    /\ lease' = [s \in Ids |-> None]
    /\ saved' = TRUE
    /\ UNCHANGED <<manifest, expires, issued, known, now, faults>>

Init ==
    /\ record = [s \in Ids |-> "absent"]
    /\ manifest = [s \in Ids |-> "absent"]
    /\ lease = [s \in Ids |-> None]
    /\ expires = [s \in Ids |-> 0]
    /\ issued = {} /\ known = {}
    /\ now = 0
    /\ saved = TRUE
    /\ faults = 0

Next ==
    \/ Tick \/ Restart
    \/ \E s \in Ids :
          \/ Create(s) \/ Rename(s) \/ Start(s) \/ Complete(s) \/ Refused(s)
          \/ \E t \in Tokens :
                Attach(s, t) \/ Detach(s, t) \/ Pause(s, t) \/ Resume(s, t) \/ Terminate(s, t)

Spec == Init /\ [][Next]_vars

(***************************************************************************)
(* Properties.                                                             *)
(***************************************************************************)

TypeOK ==
    /\ record \in [Ids -> States] /\ manifest \in [Ids -> States]
    /\ lease \in [Ids -> Tokens \cup {None}] /\ expires \in [Ids -> 0..MaxTime + LeaseSeconds]
    /\ issued \in SUBSET Tokens /\ known \in SUBSET issued
    /\ now \in 0..MaxTime /\ saved \in BOOLEAN /\ faults \in 0..MaxFaults

\* Nobody controls a session that has ended, whoever ended it and even if that
\* could not be saved.  (terminate and complete against attach.)
EndedHasNoLease == \A s \in Ids : lease[s] # None => record[s] \in Live

\* The outcome of a session is final in the manifest, across restarts and writes
\* that fail: a session that has ended does not live again, and one that has
\* exited stays so.  (terminate and complete; pause, resume, detach and start
\* against them; _load.)  A terminated session may still become an exited one.
EndedIsFinal ==
    [][\A s \in Ids :
          /\ manifest[s] \in Ended => manifest'[s] \in Ended
          /\ manifest[s] = "exited" => manifest'[s] = "exited"]_vars

\* Unless the last write failed, a restart loses nothing.  (_save at the end of
\* every change of a record.)
NothingUnsaved == saved => manifest = record

\* The leases are those of Control
AbstractControl == INSTANCE Control WITH
    holder <- [s \in Ids |-> LeaseOf(s)], spent <- issued

LeasesAreControl == AbstractControl!ControlSpec

\* What makes EndedIsFinal inductive: memory is never behind the manifest on it
EndedIsKnown ==
    \A s \in Ids :
       /\ manifest[s] \in Ended => record[s] \in Ended
       /\ manifest[s] = "exited" => record[s] = "exited"

=============================================================================
