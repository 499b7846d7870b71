-------------------------- MODULE SessionLifecycle --------------------------
(***************************************************************************)
(* What Relay promises of its sessions.  A session is opened once, by one  *)
(* agent, and joined once while it is open.  It stays open until one of    *)
(* its two parties leaves; from then on it only ends, whoever may still    *)
(* slip into it, and it never comes back.  A client that joins is trusted  *)
(* only after its agent has vouched for it.                                *)
(***************************************************************************)
CONSTANTS Sids, Agents, Clients, None

VARIABLES
    stage,      \* of each session: "unused", "open", "ending" or "over"
    owner,      \* its agent, or None
    controller, \* its client, or None
    trusted     \* the agent has vouched for the client

LifecycleInit ==
    /\ stage = [s \in Sids |-> "unused"]
    /\ owner = [s \in Sids |-> None]
    /\ controller = [s \in Sids |-> None]
    /\ trusted = [s \in Sids |-> FALSE]

Becomes(s, st, a, c, tr) ==
    /\ stage' = [stage EXCEPT ![s] = st]
    /\ owner' = [owner EXCEPT ![s] = a]
    /\ controller' = [controller EXCEPT ![s] = c]
    /\ trusted' = [trusted EXCEPT ![s] = tr]

OpenSession(s, a) ==
    /\ stage[s] = "unused"
    /\ Becomes(s, "open", a, None, FALSE)

\* Nobody trusts the newcomer, whatever the client before it had reached
Join(s, c) ==
    /\ stage[s] \in {"open", "ending"} /\ owner[s] # None /\ controller[s] = None
    /\ Becomes(s, stage[s], owner[s], c, FALSE)

Vouch(s) ==
    /\ stage[s] \in {"open", "ending"} /\ owner[s] # None /\ controller[s] # None
    /\ Becomes(s, stage[s], owner[s], controller[s], TRUE)

AgentLeaves(s) ==
    /\ stage[s] \in {"open", "ending"} /\ owner[s] # None
    /\ Becomes(s, "ending", None, controller[s], trusted[s])

ClientLeaves(s) ==
    /\ stage[s] \in {"open", "ending"} /\ controller[s] # None
    /\ Becomes(s, "ending", owner[s], None, trusted[s])

EndSession(s) ==
    /\ stage[s] \in {"open", "ending"}
    /\ Becomes(s, "over", None, None, FALSE)

LifecycleNext == \E s \in Sids :
    \/ \E a \in Agents : OpenSession(s, a)
    \/ \E c \in Clients : Join(s, c)
    \/ Vouch(s) \/ AgentLeaves(s) \/ ClientLeaves(s) \/ EndSession(s)

LifecycleSpec == LifecycleInit /\ [][LifecycleNext]_<<stage, owner, controller, trusted>>

=============================================================================
