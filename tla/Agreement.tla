------------------------------ MODULE Agreement ------------------------------
(***************************************************************************)
(* What Handshake promises.  A client commits, once, to an agent and a     *)
(* credential.  An agent accepts, once, a client that is committed to it   *)
(* and to its own credential; a client finishes only with the agent that   *)
(* has accepted it.  An agent listens to the client it has accepted and to *)
(* nobody else, and only to what that client has said after finishing.     *)
(* Who has left does not come back.                                        *)
(***************************************************************************)
CONSTANTS Agents, Clients, Credentials, None

VARIABLES
    intent,     \* of each agent: the credential it has chosen, or None
    commitment, \* of each client: the agent and credential it is bound to, or None
    accepted,   \* of each agent: the client it has accepted, or None
    stage,      \* of each of them: "new", "talking" or "gone"
    spoken,     \* clients that have said something
    heard       \* of each agent: whom it has listened to

avars == <<intent, commitment, accepted, stage, spoken, heard>>

AgreementInit ==
    /\ intent = [a \in Agents |-> None]
    /\ commitment = [c \in Clients |-> None]
    /\ accepted = [a \in Agents |-> None]
    /\ stage = [e \in Agents \cup Clients |-> "new"]
    /\ spoken = {}
    /\ heard = [a \in Agents |-> {}]

Turns(e, s) == stage' = [stage EXCEPT ![e] = s]

Choose(a, k) ==
    /\ intent[a] = None
    /\ intent' = [intent EXCEPT ![a] = k]
    /\ UNCHANGED <<commitment, accepted, stage, spoken, heard>>

Commit(c, a, k) ==
    /\ commitment[c] = None
    /\ commitment' = [commitment EXCEPT ![c] = [agent |-> a, credential |-> k]]
    /\ UNCHANGED <<intent, accepted, stage, spoken, heard>>

\* The two agree on each other and on the credential
Accept(a, c) ==
    /\ accepted[a] = None /\ stage[a] = "new"
    /\ commitment[c] = [agent |-> a, credential |-> intent[a]]
    /\ accepted' = [accepted EXCEPT ![a] = c] /\ Turns(a, "talking")
    /\ UNCHANGED <<intent, commitment, spoken, heard>>

Finish(c) ==
    /\ stage[c] = "new" /\ commitment[c] # None
    /\ accepted[commitment[c].agent] = c
    /\ Turns(c, "talking")
    /\ UNCHANGED <<intent, commitment, accepted, spoken, heard>>

Speak(c) ==
    /\ stage[c] = "talking"
    /\ spoken' = spoken \cup {c}
    /\ UNCHANGED <<intent, commitment, accepted, stage, heard>>

Listen(a) ==
    /\ stage[a] = "talking" /\ accepted[a] \in spoken
    /\ heard' = [heard EXCEPT ![a] = @ \cup {accepted[a]}]
    /\ UNCHANGED <<intent, commitment, accepted, stage, spoken>>

Leave(e) ==
    /\ stage[e] # "gone"
    /\ Turns(e, "gone")
    /\ UNCHANGED <<intent, commitment, accepted, spoken, heard>>

AgreementNext ==
    \/ \E a \in Agents :
          \/ \E k \in Credentials : Choose(a, k)
          \/ \E c \in Clients : Accept(a, c)
          \/ Listen(a) \/ Leave(a)
    \/ \E c \in Clients :
          \/ \E a \in Agents, k \in Credentials : Commit(c, a, k)
          \/ Finish(c) \/ Speak(c) \/ Leave(c)

AgreementSpec == AgreementInit /\ [][AgreementNext]_avars

=============================================================================
