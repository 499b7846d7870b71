----------------------------- MODULE Handshake -----------------------------
(***************************************************************************)
(* Pairing and resuming from end to end: the agent's RelayClient, the keys *)
(* and proofs of crypto.py, and the browser it expects at the other end.   *)
(*                                                                         *)
(* What lies between is as unreliable as a relay with reconnecting peers   *)
(* can be: a message is lost, comes late, twice or out of order, or        *)
(* reaches a connection it was not meant for, such as the completion an    *)
(* agent sends while its client leaves and another one attaches.  The      *)
(* session id on an envelope is no help: the relay puts it there.          *)
(*                                                                         *)
(* The random values of a connection (session id, routing token, key pair, *)
(* pairing secret) are drawn for it alone, so the connection stands for    *)
(* them; a key or a proof is the term it is computed from.                 *)
(***************************************************************************)
EXTENDS Naturals

CONSTANTS
    Agents,     \* connections of agents: one RelayClient each
    Clients,    \* connections of browsers
    Paired,     \* devices that were paired before
    None,
    MaxSeq      \* bound: sequence numbers an endpoint uses

Ends == Agents \cup Clients

\* The one-time secret of a pairing link and its token; the device secret and
\* the device id that a pairing hands over
Link(a) == [kind |-> "link", of |-> a]
Device(a) == [kind |-> "device", of |-> a]

Credentials == {Link(a) : a \in Agents} \cup {Device(d) : d \in Agents \cup Paired}

Transcripts == [token : Credentials, agent : Agents, client : Clients]

Keys == [shared : SUBSET Ends, salt : Credentials, info : Transcripts]

\* What a browser is bound to (see Agreement)
Commitments == [agent : Agents, credential : Credentials]

ASSUME HandshakeAssumption ==
    /\ Agents \cap Clients = {} /\ Agents \cap Paired = {}
    /\ None \notin Ends \cup Credentials \cup Keys \cup Commitments
    /\ MaxSeq \in Nat


VARIABLES
    state,      \* how far each end is
    cred,       \* the secret, and token or device id, that it uses
    keys,       \* session_keys
    seq,        \* the last sequence number it has used
    last,       \* _last_peer_encrypted_seq of each agent
    net,        \* handshake messages that have been sent
    sealed,     \* encrypted messages that have been sent
    holds,      \* credentials that browsers have
    heard       \* history: whose encrypted messages each agent has accepted

vars == <<state, cred, keys, seq, last, net, sealed, holds, heard>>

(***************************************************************************)
(* crypto.py.                                                              *)
(***************************************************************************)

\* handshake_transcript; the session id is the agent's as its key is
Transcript(token, agent, client) == [token |-> token, agent |-> agent, client |-> client]

\* derive_session_keys: the exchange gives both ends the same shared secret
Derive(own, peer, secret, transcript) ==
    [shared |-> {own, peer}, salt |-> secret, info |-> transcript]

\* pairing_proof; the transcript is in the key
Proof(k, role) == [key |-> k, role |-> role]

\* Mutant: the comparison is left out
VerifyNothing(k, role, proof) == TRUE

\* verify_pairing_proof
Verify(k, role, proof) == proof = Proof(k, role)

\* Mutant: one key for both directions
OpenEither(k, direction, m) == m.key = k

\* decrypt, with the key and the additional data of one direction
Open(k, direction, m) == m.key = k /\ m.direction = direction

AgentKeys(a, client) == Derive(a, client, cred[a], Transcript(cred[a], a, client))
ClientKeys(c, credential, agent) == Derive(c, agent, credential, Transcript(credential, agent, c))

(***************************************************************************)
(* RelayClient.                                                            *)
(***************************************************************************)

Send(type, key, proof) == net' = net \cup {[type |-> type, key |-> key, proof |-> proof]}

\* _next_seq
NextSeq(e) == seq[e] < MaxSeq /\ seq' = [seq EXCEPT ![e] = @ + 1]

\* send_encrypted: sealed under the sender's key for this direction
Seal(e, type, direction) ==
    /\ NextSeq(e)
    /\ sealed' = sealed \cup
          {[key |-> keys[e], type |-> type, direction |-> direction, seq |-> seq'[e], from |-> e]}

To(e, s) == state' = [state EXCEPT ![e] = s]

Pairing(a) == cred[a] = Link(a)

\* The device ids and secrets in configuration files: saved once the credential
\* has been sent
Saved == Paired \cup {m.from : m \in {n \in sealed : n.type = "device_credential"}}

\* send_pair_init, or send_resume_init for a saved device
SendInit(a) ==
    /\ state[a] = "idle"
    /\ \E c \in {Link(a)} \cup {Device(p) : p \in Saved} : cred' = [cred EXCEPT ![a] = c]
    /\ NextSeq(a) /\ To(a, "init")
    /\ UNCHANGED <<keys, last, net, sealed, holds, heard>>

\* await_pair_init_ack, after which the link is shown; or the acknowledgement
\* of resume_init
InitAck(a) ==
    /\ state[a] = "init"
    /\ To(a, "wait")
    /\ holds' = IF Pairing(a) THEN holds \cup {cred[a]} ELSE holds
    /\ UNCHANGED <<cred, keys, seq, last, net, sealed, heard>>

\* resume_request, answered with resume_challenge
ResumeRequest(a) ==
    /\ state[a] = "wait" /\ ~Pairing(a)
    /\ NextSeq(a) /\ Send("resume_challenge", a, None)
    /\ To(a, "proof")
    /\ UNCHANGED <<cred, keys, last, sealed, holds, heard>>

\* Mutant: whoever proves knowledge of the secret is answered, also later on
AwaitsAgain(a, m) ==
    \/ Pairing(a) /\ state[a] # "idle" /\ m.type = "pair_challenge"
    \/ ~Pairing(a) /\ state[a] # "idle" /\ m.type = "resume_proof"

\* The message with the client's key and proof, awaited in this state
Awaits(a, m) ==
    \/ Pairing(a) /\ state[a] = "wait" /\ m.type = "pair_challenge"
    \/ ~Pairing(a) /\ state[a] = "proof" /\ m.type = "resume_proof"

\* await_pair_challenge_and_complete, and the end of await_resume_and_complete:
\* keys are derived, the client's proof is verified, the agent's is sent
Complete(a, m) ==
    /\ Awaits(a, m)
    /\ LET k == AgentKeys(a, m.key) IN
       /\ Verify(k, "client", m.proof)
       /\ keys' = [keys EXCEPT ![a] = k]
       /\ Send("complete", None, Proof(k, "agent"))
    /\ NextSeq(a) /\ To(a, IF Pairing(a) THEN "paired" ELSE "streaming")
    /\ UNCHANGED <<cred, last, sealed, holds, heard>>

\* send_device_credential, after which the session starts
SendCredential(a) ==
    /\ state[a] = "paired"
    /\ Seal(a, "device_credential", "agent_to_client")
    /\ To(a, "streaming")
    /\ UNCHANGED <<cred, keys, last, net, holds, heard>>

\* send_pty_data
SendData(a) ==
    /\ state[a] = "streaming"
    /\ Seal(a, "pty_data", "agent_to_client")
    /\ UNCHANGED <<state, cred, keys, last, net, holds, heard>>

\* decrypt_payload accepts a message
Accept(a, m) ==
    /\ state[a] = "streaming" /\ m.seq > last[a]
    /\ Open(keys[a], "client_to_agent", m)
    /\ last' = [last EXCEPT ![a] = m.seq]
    /\ heard' = [heard EXCEPT ![a] = @ \cup {m.from}]
    /\ UNCHANGED <<state, cred, keys, seq, net, sealed, holds>>

\* A message that is not the expected one, an invalid proof, a message that does
\* not open, or a lost connection: the connection is closed
AgentCloses(a) ==
    /\ state[a] \notin {"idle", "closed"}
    /\ To(a, "closed")
    /\ UNCHANGED <<cred, keys, seq, last, net, sealed, holds, heard>>

(***************************************************************************)
(* The browser, as the agent and the relay expect it to be.                *)
(***************************************************************************)

\* pair_request with the agent's key from the link; the relay makes it a
\* pair_challenge
PairRequest(c, a) ==
    /\ state[c] = "idle" /\ Link(a) \in holds
    /\ cred' = [cred EXCEPT ![c] = Link(a)]
    /\ keys' = [keys EXCEPT ![c] = ClientKeys(c, Link(a), a)]
    /\ Send("pair_challenge", c, Proof(ClientKeys(c, Link(a), a), "client"))
    /\ NextSeq(c) /\ To(c, "proved")
    /\ UNCHANGED <<last, sealed, holds, heard>>

\* resume_request for a device it holds the credential of
AskResume(c, d) ==
    /\ state[c] = "idle" /\ d \in holds /\ d.kind = "device"
    /\ cred' = [cred EXCEPT ![c] = d]
    /\ NextSeq(c) /\ To(c, "asked")
    /\ UNCHANGED <<keys, last, net, sealed, holds, heard>>

\* resume_challenge with the agent's key, answered with resume_proof
ResumeChallenge(c, m) ==
    /\ state[c] = "asked" /\ m.type = "resume_challenge"
    /\ keys' = [keys EXCEPT ![c] = ClientKeys(c, cred[c], m.key)]
    /\ Send("resume_proof", c, Proof(ClientKeys(c, cred[c], m.key), "client"))
    /\ NextSeq(c) /\ To(c, "proved")
    /\ UNCHANGED <<cred, last, sealed, holds, heard>>

\* pair_complete or resume_complete with a valid proof of the agent
Completed(c, m) ==
    /\ state[c] = "proved" /\ m.type = "complete"
    /\ Verify(keys[c], "agent", m.proof)
    /\ To(c, "streaming")
    /\ UNCHANGED <<cred, keys, seq, last, net, sealed, holds, heard>>

\* device_credential
Credential(c, m) ==
    /\ state[c] = "streaming" /\ m.type = "device_credential"
    /\ Open(keys[c], "agent_to_client", m)
    /\ holds' = holds \cup {Device(m.from)}
    /\ UNCHANGED <<state, cred, keys, seq, last, net, sealed, heard>>

\* pty_input
SendInput(c) ==
    /\ state[c] = "streaming"
    /\ Seal(c, "pty_input", "client_to_agent")
    /\ UNCHANGED <<state, cred, keys, last, net, holds, heard>>

ClientCloses(c) ==
    /\ state[c] \notin {"idle", "closed"}
    /\ To(c, "closed")
    /\ UNCHANGED <<cred, keys, seq, last, net, sealed, holds, heard>>

(***************************************************************************)
(* Specification.                                                          *)
(***************************************************************************)

Init ==
    /\ state = [e \in Ends |-> "idle"]
    /\ cred = [e \in Ends |-> None]
    /\ keys = [e \in Ends |-> None]
    /\ seq = [e \in Ends |-> 0]
    /\ last = [a \in Agents |-> 0]
    /\ net = {} /\ sealed = {}
    /\ holds = {Device(p) : p \in Paired}
    /\ heard = [a \in Agents |-> {}]

AgentNext(a) ==
    \/ SendInit(a) \/ InitAck(a) \/ ResumeRequest(a) \/ SendCredential(a) \/ SendData(a)
    \/ AgentCloses(a)
    \/ \E m \in net : Complete(a, m)
    \/ \E m \in sealed : Accept(a, m)

ClientNext(c) ==
    \/ \E a \in Agents : PairRequest(c, a)
    \/ \E d \in holds : AskResume(c, d)
    \/ \E m \in net : ResumeChallenge(c, m) \/ Completed(c, m)
    \/ \E m \in sealed : Credential(c, m)
    \/ SendInput(c) \/ ClientCloses(c)

Next ==
    \/ \E a \in Agents : AgentNext(a)
    \/ \E c \in Clients : ClientNext(c)

Spec == Init /\ [][Next]_vars

(***************************************************************************)
(* Properties.                                                             *)
(***************************************************************************)

States == {"idle", "init", "asked", "wait", "proof", "proved", "paired", "streaming", "closed"}

Proofs == [key : Keys, role : {"agent", "client"}]

Handshakes == [type : {"pair_challenge", "resume_challenge", "resume_proof", "complete"},
               key : Ends \cup {None}, proof : Proofs \cup {None}]

Encrypted == [key : Keys, type : {"device_credential", "pty_data", "pty_input"},
              direction : {"agent_to_client", "client_to_agent"},
              seq : 1..MaxSeq, from : Ends]

\* The variables have their types; an end that streams has keys.
TypeOK ==
    /\ state \in [Ends -> States]
    /\ cred \in [Ends -> Credentials \cup {None}]
    /\ keys \in [Ends -> Keys \cup {None}]
    /\ \A e \in Ends : state[e] = "idle" <=> cred[e] = None
    /\ \A e \in Ends : state[e] \in {"proved", "paired", "streaming"} => keys[e] # None
    /\ seq \in [Ends -> 0..MaxSeq] /\ last \in [Agents -> 0..MaxSeq]
    /\ net \subseteq Handshakes /\ sealed \subseteq Encrypted
    /\ holds \subseteq Credentials /\ heard \in [Agents -> SUBSET Ends]

\* Two ends agree
Agree(a, c) == keys[a] # None /\ keys[a] = keys[c] /\ cred[a] = cred[c]

\* Whatever the relay mixes up, repeats or delays, an agent that has completed a
\* handshake has done so with exactly one browser, which has the same keys from
\* the same secret: a proof for an earlier connection is no use.
\* (await_pair_challenge_and_complete, await_resume_and_complete.)
PeerAgreed ==
    \A a \in Agents : keys[a] # None =>
       /\ \E c \in Clients : Agree(a, c)
       /\ \A c, d \in Clients : keys[c] = keys[a] /\ keys[d] = keys[a] => c = d

\* A browser that has completed a handshake agrees with one agent, which has
\* verified it: a completion that was meant for the browser before it, and which
\* the relay forwards in any phase, completes nothing.  (router.py,
\* handle_pair_complete and handle_resume_complete.)
CompletionMeant ==
    \A c \in Clients : state[c] = "streaming" => \E a \in Agents : Agree(a, c)

\* An agent writes to its shell only what the browser it agrees with has sent:
\* neither its own messages nor those of another connection.  (decrypt_payload.)
HeardPeer ==
    \A a \in Agents : \A e \in heard[a] : e \in Clients /\ Agree(a, e)

\* A saved device is resumed only for a browser to which its pairing handed the
\* credential.  (The device secret in derive_session_keys.)
ResumeByHolder ==
    \A a \in Agents : keys[a] # None /\ ~Pairing(a) => cred[a] \in holds

(***************************************************************************)
(* Handshake implements Agreement.                                         *)
(***************************************************************************)

\* What the keys of an end say of its handshake; they stay when it closes
CommitmentOf(c) ==
    IF keys[c] = None THEN None
    ELSE [agent |-> keys[c].info.agent, credential |-> keys[c].salt]

AcceptedBy(a) == IF keys[a] = None THEN None ELSE keys[a].info.client

StageOf(e) ==
    CASE state[e] \in {"paired", "streaming"} -> "talking"
      [] state[e] = "closed" -> "gone"
      [] OTHER -> "new"

HasSpoken(c) == \E m \in sealed : m.from = c

Agreed == INSTANCE Agreement WITH
    intent <- [a \in Agents |-> cred[a]],
    commitment <- [c \in Clients |-> CommitmentOf(c)],
    accepted <- [a \in Agents |-> AcceptedBy(a)],
    stage <- [e \in Ends |-> StageOf(e)],
    spoken <- {c \in Clients : HasSpoken(c)}

\* In every step, also of an end that closes and one that is late: a browser is
\* bound once, to one agent and one credential, an agent completes only with a
\* browser bound to it, the browser only once that agent has, and shells get
\* only what such a browser has typed.  (The handshakes of RelayClient, against
\* whatever handle_pair_complete and handle_resume_complete forward.)
KeepsAgreement == Agreed!AgreementSpec

(***************************************************************************)
(* What makes them inductive: where the keys of each end, and each message *)
(* under way, come from.                                                   *)
(***************************************************************************)

\* A browser's keys are those of its credential and of one agent; it uses only
\* credentials that browsers have
ClientSide ==
    \A c \in Clients :
       /\ keys[c] # None => \E a \in Agents : keys[c] = ClientKeys(c, cred[c], a)
       /\ state[c] \in {"idle", "asked"} => keys[c] = None
       /\ state[c] # "idle" => cred[c] \in holds

\* An agent's keys are those of its credential and of a browser that has them
AgentSide ==
    \A a \in Agents : keys[a] # None =>
       /\ state[a] \in {"paired", "streaming", "closed"}
       /\ \E c \in Clients : keys[a] = AgentKeys(a, c) /\ Agree(a, c)

\* A proof was made with the sender's keys
ProofsSent ==
    \A m \in net :
       /\ m.type = "resume_challenge" => m.key \in Agents
       /\ m.type \in {"pair_challenge", "resume_proof"} =>
             m.key \in Clients /\ keys[m.key] # None /\ m.proof = Proof(keys[m.key], "client")
       /\ m.type = "complete" =>
             \E a \in Agents : keys[a] # None /\ m.proof = Proof(keys[a], "agent")

\* An encrypted message is sealed with its sender's keys for its direction, and
\* what an agent saves was sent in a session
SealedBySender ==
    \A m \in sealed :
       /\ keys[m.from] # None /\ m.key = keys[m.from]
       /\ m.from \in Agents <=> m.direction = "agent_to_client"
       /\ m.type = "device_credential" => m.from \in Agents

IInv ==
    /\ TypeOK /\ ClientSide /\ AgentSide /\ ProofsSent /\ SealedBySender
    /\ CompletionMeant /\ HeardPeer

=============================================================================
