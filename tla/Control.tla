------------------------------ MODULE Control ------------------------------
(***************************************************************************)
(* What SessionManager promises of its control leases: a session has one   *)
(* controller at most, a controller is never displaced (its lease is given *)
(* up, ended with the session, or runs out), and a lease that is over      *)
(* never comes back.                                                       *)
(***************************************************************************)
CONSTANTS Ids, Tokens, None

VARIABLES
    holder,     \* the lease token that controls each session, or None
    spent       \* lease tokens that have been handed out

ControlInit ==
    /\ holder = [s \in Ids |-> None]
    /\ spent = {}

Grant(s, t) ==
    /\ holder[s] = None /\ t \notin spent
    /\ holder' = [holder EXCEPT ![s] = t]
    /\ spent' = spent \cup {t}

\* Any number of leases end at once: time passes for all of them, a restart
\* forgets all of them
End ==
    /\ \E S \in SUBSET Ids : holder' = [s \in Ids |-> IF s \in S THEN None ELSE holder[s]]
    /\ UNCHANGED spent

ControlNext == End \/ \E s \in Ids, t \in Tokens : Grant(s, t)

ControlSpec == ControlInit /\ [][ControlNext]_<<holder, spent>>

=============================================================================
