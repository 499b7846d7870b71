-------------------------- MODULE HandshakeProofs --------------------------
(***************************************************************************)
(* Pairing and resuming, for any number of connections and devices.        *)
(***************************************************************************)
EXTENDS Handshake, TLAPS

\* The steps that change each part of the state.
LEMMA WhoSends ==
    ASSUME [Next]_vars, net' # net
    PROVE  \/ \E a \in Agents : ResumeRequest(a) \/ \E m \in net : Complete(a, m)
           \/ \E c \in Clients :
                 \/ \E a \in Agents : PairRequest(c, a)
                 \/ \E m \in net : ResumeChallenge(c, m)
  BY DEF Next, AgentNext, ClientNext, vars, SendInit, InitAck, SendCredential, SendData,
         AgentCloses, Accept, AskResume, Completed, Credential, SendInput, ClientCloses

LEMMA WhoSeals ==
    ASSUME [Next]_vars, sealed' # sealed
    PROVE  \/ \E a \in Agents : SendCredential(a) \/ SendData(a)
           \/ \E c \in Clients : SendInput(c)
  BY DEF Next, AgentNext, ClientNext, vars, SendInit, InitAck, ResumeRequest, Complete,
         AgentCloses, Accept, PairRequest, AskResume, ResumeChallenge, Completed, Credential,
         ClientCloses

LEMMA WhoHears ==
    ASSUME [Next]_vars, heard' # heard
    PROVE  \E a \in Agents, m \in sealed : Accept(a, m)
  BY DEF Next, AgentNext, ClientNext, vars, SendInit, InitAck, ResumeRequest, Complete,
         SendCredential, SendData, AgentCloses, PairRequest, AskResume, ResumeChallenge, Completed,
         Credential, SendInput, ClientCloses

LEMMA WhoDerives ==
    ASSUME [Next]_vars, keys' # keys
    PROVE  \/ \E a \in Agents, m \in net : Complete(a, m)
           \/ \E c \in Clients :
                 \/ \E a \in Agents : PairRequest(c, a)
                 \/ \E m \in net : ResumeChallenge(c, m)
  BY DEF Next, AgentNext, ClientNext, vars, SendInit, InitAck, ResumeRequest, SendCredential,
         SendData, AgentCloses, Accept, AskResume, Completed, Credential, SendInput, ClientCloses

\* The credentials a file holds were handed over by an agent that paired.
LEMMA Chosen ==
    ASSUME IInv, NEW a \in Agents, SendInit(a)
    PROVE  \E k \in Credentials : cred' = [cred EXCEPT ![a] = k]
  <1>1. Saved \subseteq Agents \cup Paired
    BY HandshakeAssumption DEF Saved, IInv, TypeOK, Ends, Encrypted, SealedBySender
  <1> QED BY <1>1 DEF SendInit, Credentials

\* What a browser derives, and proves.
LEMMA ClientKeysTyped ==
    ASSUME NEW c \in Clients, NEW a \in Agents, NEW k \in Credentials
    PROVE  /\ ClientKeys(c, k, a) \in Keys /\ ClientKeys(c, k, a) # None
           /\ Proof(ClientKeys(c, k, a), "client") \in Proofs
  <1>1. ClientKeys(c, k, a) \in Keys
    BY DEF ClientKeys, Derive, Transcript, Keys, Transcripts, Ends
  <1> QED BY <1>1, HandshakeAssumption DEF Proof, Proofs

\* A resume_challenge comes from an agent, and is answered with a credential.
LEMMA Challenged ==
    ASSUME IInv, NEW c \in Clients, NEW m \in net, ResumeChallenge(c, m)
    PROVE  m.key \in Agents /\ cred[c] \in Credentials /\ cred[c] \in holds
  BY DEF IInv, ResumeChallenge, ProofsSent, ClientSide, TypeOK, Ends

\* A proof that an agent has verified is that of a browser with the same keys.
LEMMA Verified ==
    ASSUME IInv, NEW a \in Agents, NEW m \in net, Complete(a, m)
    PROVE  /\ m.key \in Clients /\ keys[m.key] = AgentKeys(a, m.key)
           /\ AgentKeys(a, m.key) \in Keys /\ cred[m.key] = cred[a]
           /\ keys[a] = None /\ state[a] \in {"wait", "proof"}
  <1> USE HandshakeAssumption DEF IInv, Ends
  <1>1. m.key \in Clients /\ keys[m.key] # None /\ m.proof = Proof(keys[m.key], "client")
    BY DEF Complete, Awaits, ProofsSent
  <1>2. keys[m.key] = AgentKeys(a, m.key)
    BY <1>1 DEF Complete, Verify, Proof
  <1>3. PICK b \in Agents : keys[m.key] = ClientKeys(m.key, cred[m.key], b)
    BY <1>1 DEF ClientSide
  <1>4. cred[m.key] = cred[a]
    BY <1>2, <1>3 DEF AgentKeys, ClientKeys, Derive
  <1>5. keys[a] = None /\ state[a] \in {"wait", "proof"}
    BY DEF Complete, Awaits, AgentSide
  <1> QED BY <1>1, <1>2, <1>4, <1>5 DEF TypeOK

\* Each part of the invariant is kept by every step.
LEMMA TypeStep == IInv /\ [Next]_vars => TypeOK'
  <1> SUFFICES ASSUME IInv, [Next]_vars PROVE TypeOK'
    OBVIOUS
  <1> USE HandshakeAssumption DEF IInv, Ends, TypeOK, To, NextSeq, Send, States
  <1>1. ASSUME NEW a \in Agents, SendInit(a) PROVE TypeOK'
    <2>1. PICK k \in Credentials : cred' = [cred EXCEPT ![a] = k]
      BY <1>1, Chosen
    <2> QED BY <1>1, <2>1 DEF SendInit
  <1>2. ASSUME NEW a \in Agents, InitAck(a) PROVE TypeOK'
    BY <1>2 DEF InitAck
  <1>3. ASSUME NEW a \in Agents, ResumeRequest(a) PROVE TypeOK'
    BY <1>3 DEF ResumeRequest, Handshakes
  <1>4. ASSUME NEW a \in Agents, SendCredential(a) PROVE TypeOK'
    BY <1>4 DEF SendCredential, Seal, Encrypted
  <1>5. ASSUME NEW a \in Agents, SendData(a) PROVE TypeOK'
    BY <1>5 DEF SendData, Seal, Encrypted
  <1>6. ASSUME NEW a \in Agents, AgentCloses(a) PROVE TypeOK'
    BY <1>6 DEF AgentCloses
  <1>7. ASSUME NEW a \in Agents, NEW m \in net, Complete(a, m) PROVE TypeOK'
    <2> DEFINE k == AgentKeys(a, m.key)
    <2>1. k \in Keys
      BY <1>7, Verified
    <2>2. Proof(k, "agent") \in Proofs
      BY <2>1 DEF Proof, Proofs
    <2>3. net' \subseteq Handshakes
      BY <1>7, <2>2 DEF Complete, Handshakes
    <2>4. keys' \in [Ends -> Keys \cup {None}] /\ \A e \in Ends : keys[e] # None => keys'[e] # None
      BY <1>7, <2>1 DEF Complete
    <2>5. keys'[a] # None
      BY <1>7, <2>1 DEF Complete
    <2>6. /\ state' \in [Ends -> States] /\ cred' = cred /\ last' = last /\ sealed' = sealed
          /\ holds' = holds /\ heard' = heard /\ seq' \in [Ends -> 0..MaxSeq]
      BY <1>7 DEF Complete
    <2>7. \A e \in Ends : /\ state'[e] = "idle" <=> state[e] = "idle"
                          /\ e # a => state'[e] = state[e]
      BY <1>7, Verified DEF Complete
    <2>8. TypeOK
      BY DEF IInv
    <2> HIDE DEF IInv, NextSeq, Send, To, k
    <2>9. ASSUME NEW e \in Ends
          PROVE  /\ state'[e] = "idle" <=> cred'[e] = None
                 /\ state'[e] \in {"proved", "paired", "streaming"} => keys'[e] # None
      <3>1. /\ state[e] = "idle" <=> cred[e] = None
            /\ state[e] \in {"proved", "paired", "streaming"} => keys[e] # None
        BY <2>8
      <3> HIDE DEF TypeOK
      <3> QED BY <3>1, <2>4, <2>5, <2>6, <2>7
    <2>10. /\ cred' \in [Ends -> Credentials \cup {None}] /\ last' \in [Agents -> 0..MaxSeq]
           /\ sealed' \subseteq Encrypted /\ holds' \subseteq Credentials
           /\ heard' \in [Agents -> SUBSET Ends]
      BY <2>6, <2>8
    <2> QED BY <2>3, <2>4, <2>6, <2>9, <2>10
  <1>8. ASSUME NEW a \in Agents, NEW m \in sealed, Accept(a, m) PROVE TypeOK'
    BY <1>8 DEF Accept, Encrypted
  <1>9. ASSUME NEW c \in Clients, NEW a \in Agents, PairRequest(c, a) PROVE TypeOK'
    <2>1. Link(a) \in Credentials
      BY DEF Credentials
    <2>2. ClientKeys(c, Link(a), a) \in Keys /\ Proof(ClientKeys(c, Link(a), a), "client") \in Proofs
      BY <2>1, ClientKeysTyped
    <2> QED BY <1>9, <2>1, <2>2 DEF PairRequest, Handshakes
  <1>10. ASSUME NEW c \in Clients, NEW d \in holds, AskResume(c, d) PROVE TypeOK'
    BY <1>10 DEF AskResume
  <1>11. ASSUME NEW c \in Clients, NEW m \in net, ResumeChallenge(c, m) PROVE TypeOK'
    <2>1. /\ ClientKeys(c, cred[c], m.key) \in Keys
          /\ Proof(ClientKeys(c, cred[c], m.key), "client") \in Proofs
      BY <1>11, Challenged, ClientKeysTyped
    <2> QED BY <1>11, <2>1 DEF ResumeChallenge, Handshakes
  <1>12. ASSUME NEW c \in Clients, NEW m \in net, Completed(c, m) PROVE TypeOK'
    BY <1>12 DEF Completed
  <1>13. ASSUME NEW c \in Clients, NEW m \in sealed, Credential(c, m) PROVE TypeOK'
    BY <1>13 DEF Credential, Credentials, Encrypted, SealedBySender
  <1>14. ASSUME NEW c \in Clients, SendInput(c) PROVE TypeOK'
    BY <1>14 DEF SendInput, Seal, Encrypted
  <1>15. ASSUME NEW c \in Clients, ClientCloses(c) PROVE TypeOK'
    BY <1>15 DEF ClientCloses
  <1>16. CASE UNCHANGED vars
    BY <1>16 DEF vars
  <1> QED
    BY <1>1, <1>2, <1>3, <1>4, <1>5, <1>6, <1>7, <1>8, <1>9, <1>10, <1>11, <1>12, <1>13, <1>14,
       <1>15, <1>16 DEF Next, AgentNext, ClientNext

\* An end has one credential and one set of keys, for good; what browsers hold
\* they keep.
LEMMA Kept ==
    ASSUME IInv, [Next]_vars
    PROVE  /\ \A e \in Ends : keys[e] # None => keys'[e] = keys[e]
           /\ \A e \in Ends : cred[e] # None => cred'[e] = cred[e]
           /\ holds \subseteq holds'
  <1> USE HandshakeAssumption DEF IInv, Ends, TypeOK
  <1>1. \A e \in Ends : keys[e] # None => keys'[e] = keys[e]
    <2>1. ASSUME NEW a \in Agents, NEW m \in net, Complete(a, m)
          PROVE  \A e \in Ends : keys[e] # None => keys'[e] = keys[e]
      <3>1. keys[a] = None
        BY <2>1, Verified
      <3> QED BY <2>1, <3>1 DEF Complete
    <2>2. CASE \E c \in Clients : \/ \E a \in Agents : PairRequest(c, a)
                                  \/ \E m \in net : ResumeChallenge(c, m)
      BY <2>2 DEF PairRequest, ResumeChallenge, ClientSide
    <2> QED BY <2>1, <2>2, WhoDerives
  <1>2. \A e \in Ends : cred[e] # None => cred'[e] = cred[e]
    <2>1. cred' = cred \/ (\E a \in Agents : SendInit(a))
             \/ \E c \in Clients : (\E a \in Agents : PairRequest(c, a)) \/ \E d \in holds : AskResume(c, d)
      BY DEF Next, AgentNext, ClientNext, vars, InitAck, ResumeRequest, Complete, SendCredential,
         SendData, AgentCloses, Accept, ResumeChallenge, Completed, Credential, SendInput,
         ClientCloses
    <2> QED BY <2>1 DEF SendInit, PairRequest, AskResume
  <1>3. holds \subseteq holds'
    BY DEF Next, AgentNext, ClientNext, vars, SendInit, InitAck, ResumeRequest, Complete,
       SendCredential, SendData, AgentCloses, Accept, PairRequest, AskResume, ResumeChallenge,
       Completed, Credential, SendInput, ClientCloses
  <1> QED BY <1>1, <1>2, <1>3

LEMMA ClientStep == IInv /\ [Next]_vars => ClientSide'
  <1> SUFFICES ASSUME IInv, [Next]_vars PROVE ClientSide'
    OBVIOUS
  <1> USE HandshakeAssumption DEF IInv, Ends, TypeOK, ClientSide
  <1>1. ASSUME NEW c \in Clients, NEW a \in Agents, PairRequest(c, a) PROVE ClientSide'
    BY <1>1, ClientKeysTyped DEF PairRequest, To, ClientKeys
  <1>2. ASSUME NEW c \in Clients, NEW d \in holds, AskResume(c, d) PROVE ClientSide'
    BY <1>2 DEF AskResume, To, ClientKeys
  <1>3. ASSUME NEW c \in Clients, NEW m \in net, ResumeChallenge(c, m) PROVE ClientSide'
    <2>1. \A d \in Clients : d # c => keys'[d] = keys[d] /\ state'[d] = state[d]
      BY <1>3 DEF ResumeChallenge, To
    <2>2. keys'[c] = ClientKeys(c, cred[c], m.key) /\ state'[c] = "proved" /\ m.key \in Agents
      BY <1>3, Challenged DEF ResumeChallenge, To
    <2>3. cred' = cred /\ holds' = holds /\ cred[c] \in holds
      BY <1>3, Challenged DEF ResumeChallenge
    <2> QED BY <2>1, <2>2, <2>3 DEF ClientKeys
  <1>4. ASSUME \A c \in Clients : /\ keys'[c] = keys[c] /\ cred'[c] = cred[c]
                                  /\ state[c] = "idle" => state'[c] = "idle"
                                  /\ state'[c] \in {"idle", "asked"} => state[c] \in {"idle", "asked"}
        PROVE  ClientSide'
    BY <1>4, Kept DEF ClientKeys
  <1>5. CASE \E a \in Agents : AgentNext(a)
    BY <1>4, <1>5 DEF AgentNext, SendInit, InitAck, ResumeRequest, Complete, SendCredential, SendData,
       AgentCloses, Accept, To
  <1>6. ASSUME NEW c \in Clients,
               \/ \E m \in net : Completed(c, m)
               \/ \E m \in sealed : Credential(c, m)
               \/ SendInput(c) \/ ClientCloses(c)
        PROVE  ClientSide'
    BY <1>4, <1>6 DEF Completed, Credential, SendInput, ClientCloses, To
  <1>7. CASE UNCHANGED vars
    BY <1>4, <1>7 DEF vars
  <1> QED BY <1>1, <1>2, <1>3, <1>5, <1>6, <1>7 DEF Next, ClientNext

LEMMA AgentStep == IInv /\ [Next]_vars => AgentSide'
  <1> SUFFICES ASSUME IInv, [Next]_vars, NEW a \in Agents, keys'[a] # None
               PROVE  /\ state'[a] \in {"paired", "streaming", "closed"}
                      /\ \E c \in Clients : keys'[a] = AgentKeys(a, c)' /\ Agree(a, c)'
    BY DEF AgentSide
  <1> USE HandshakeAssumption DEF IInv, Ends
  <1>1. CASE keys[a] = None
    <2>1. PICK m \in net : Complete(a, m)
      BY <1>1, WhoDerives DEF Complete, PairRequest, ResumeChallenge, TypeOK
    <2>2. m.key \in Clients /\ keys[m.key] = AgentKeys(a, m.key) /\ cred[m.key] = cred[a]
      BY <2>1, Verified
    <2>3. /\ keys'[a] = AgentKeys(a, m.key) /\ keys'[m.key] = keys[m.key] /\ cred' = cred
          /\ state'[a] \in {"paired", "streaming"}
      BY <2>1, <2>2 DEF Complete, To, TypeOK
    <2> QED BY <1>1, <2>2, <2>3 DEF AgentKeys, Agree
  <1>2. CASE keys[a] # None
    <2>1. PICK c \in Clients : keys[a] = AgentKeys(a, c) /\ Agree(a, c)
      BY <1>2 DEF AgentSide
    <2>2. cred[a] # None
      BY <1>2 DEF AgentSide, TypeOK
    <2>3. /\ keys'[a] = keys[a] /\ keys'[c] = keys[c]
          /\ cred'[a] = cred[a] /\ cred'[c] = cred[c]
      BY <2>1, <2>2, Kept DEF Agree
    <2>4. state'[a] \in {"paired", "streaming", "closed"}
      BY <1>2 DEF AgentSide, TypeOK, Next, AgentNext, ClientNext, vars, To, SendInit, InitAck,
         ResumeRequest, Complete, Awaits, SendCredential, SendData, AgentCloses, Accept, PairRequest,
         AskResume, ResumeChallenge, Completed, Credential, SendInput, ClientCloses
    <2> QED BY <1>2, <2>1, <2>3, <2>4 DEF AgentKeys, Agree
  <1> QED BY <1>1, <1>2

LEMMA SentStep == IInv /\ [Next]_vars => ProofsSent'
  <1> SUFFICES ASSUME IInv, [Next]_vars PROVE ProofsSent'
    OBVIOUS
  <1> USE HandshakeAssumption DEF IInv, Ends
  <1> DEFINE Sent(m) ==
        /\ m.type = "resume_challenge" => m.key \in Agents
        /\ m.type \in {"pair_challenge", "resume_proof"} =>
              m.key \in Clients /\ keys'[m.key] # None /\ m.proof = Proof(keys'[m.key], "client")
        /\ m.type = "complete" =>
              \E a \in Agents : keys'[a] # None /\ m.proof = Proof(keys'[a], "agent")
  <1>1. \A m \in net : Sent(m)
    BY Kept DEF ProofsSent
  <1>2. ASSUME NEW a \in Agents, ResumeRequest(a), NEW m \in net' \ net PROVE Sent(m)
    BY <1>2 DEF ResumeRequest, Send
  <1>3. ASSUME NEW a \in Agents, NEW n \in net, Complete(a, n), NEW m \in net' \ net PROVE Sent(m)
    <2>1. AgentKeys(a, n.key) # None
      BY <1>3, Verified
    <2>2. keys'[a] = AgentKeys(a, n.key)
      BY <1>3 DEF Complete, TypeOK
    <2>3. m.type = "complete" /\ m.proof = Proof(AgentKeys(a, n.key), "agent")
      BY <1>3 DEF Complete, Send
    <2> QED BY <2>1, <2>2, <2>3
  <1>4. ASSUME NEW c \in Clients, NEW a \in Agents, PairRequest(c, a), NEW m \in net' \ net PROVE Sent(m)
    <2>1. keys'[c] = ClientKeys(c, Link(a), a) /\ keys'[c] # None
      BY <1>4, ClientKeysTyped DEF PairRequest, TypeOK, Credentials
    <2> QED BY <1>4, <2>1 DEF PairRequest, Send
  <1>5. ASSUME NEW c \in Clients, NEW n \in net, ResumeChallenge(c, n), NEW m \in net' \ net PROVE Sent(m)
    <2>1. keys'[c] = ClientKeys(c, cred[c], n.key) /\ keys'[c] # None
      BY <1>5, Challenged, ClientKeysTyped DEF ResumeChallenge, TypeOK
    <2> QED BY <1>5, <2>1 DEF ResumeChallenge, Send
  <1>6. \A m \in net' : Sent(m)
    BY <1>1, <1>2, <1>3, <1>4, <1>5, WhoSends
  <1> QED BY <1>6 DEF ProofsSent

LEMMA SealedStep == IInv /\ [Next]_vars => SealedBySender'
  <1> SUFFICES ASSUME IInv, [Next]_vars, NEW m \in sealed'
               PROVE  /\ keys'[m.from] # None /\ m.key = keys'[m.from]
                      /\ m.from \in Agents <=> m.direction = "agent_to_client"
                      /\ m.type = "device_credential" => m.from \in Agents
    BY DEF SealedBySender
  <1> USE HandshakeAssumption DEF IInv, Ends
  <1>1. CASE m \in sealed
    <2>1. m.from \in Ends
      BY <1>1 DEF TypeOK, Encrypted
    <2> QED BY <1>1, <2>1, Kept DEF SealedBySender
  <1>2. CASE m \notin sealed
    <2>1. \/ \E a \in Agents : SendCredential(a) \/ SendData(a)
          \/ \E c \in Clients : SendInput(c)
      BY <1>2, WhoSeals
    <2> QED BY <1>2, <2>1 DEF SendCredential, SendData, SendInput, Seal, TypeOK
  <1> QED BY <1>1, <1>2

\* Ends with the same keys have the same credential: it is in the keys.
LEMMA SameCredential ==
    ASSUME IInv, NEW a \in Agents, NEW c \in Clients, keys[a] # None, keys[a] = keys[c]
    PROVE  Agree(a, c) /\ keys[a].info.client = c
  <1>1. PICK b \in Agents : keys[c] = ClientKeys(c, cred[c], b)
    BY DEF IInv, ClientSide
  <1>2. PICK d \in Clients : keys[a] = AgentKeys(a, d)
    BY DEF IInv, AgentSide
  <1> QED BY <1>1, <1>2 DEF AgentKeys, ClientKeys, Derive, Transcript, Agree

\* A browser finishes only on the proof of an agent with its keys.
LEMMA MeantStep == IInv /\ [Next]_vars => CompletionMeant'
  <1> SUFFICES ASSUME IInv, [Next]_vars, NEW c \in Clients, state'[c] = "streaming"
               PROVE  \E a \in Agents : Agree(a, c)'
    BY DEF CompletionMeant
  <1>1. \E a \in Agents : Agree(a, c)
    <2>1. CASE state[c] = "streaming"
      BY <2>1 DEF IInv, CompletionMeant
    <2>2. CASE state[c] # "streaming"
      <3>1. PICK m \in net : Completed(c, m)
        BY <2>2, HandshakeAssumption DEF IInv, TypeOK, Ends, Next, AgentNext, ClientNext, vars, To,
           SendInit, InitAck, ResumeRequest, Complete, SendCredential, SendData, AgentCloses, Accept,
           PairRequest, AskResume, ResumeChallenge, Completed, Credential, SendInput, ClientCloses
      <3>2. PICK a \in Agents : keys[a] # None /\ m.proof = Proof(keys[a], "agent")
        BY <3>1 DEF Completed, IInv, ProofsSent
      <3>3. keys[a] = keys[c]
        BY <3>1, <3>2 DEF Completed, Verify, Proof
      <3> QED BY <3>2, <3>3, SameCredential
    <2> QED BY <2>1, <2>2
  <1>2. PICK a \in Agents : Agree(a, c)
    BY <1>1
  <1>3. cred[a] # None
    BY <1>2 DEF Agree, IInv, AgentSide, TypeOK, Ends
  <1> QED BY <1>2, <1>3, Kept DEF Agree, Ends

\* What an agent opens is sealed with its keys, by the browser that has them.
LEMMA HeardStep == IInv /\ [Next]_vars => HeardPeer'
  <1> SUFFICES ASSUME IInv, [Next]_vars, NEW a \in Agents, NEW e \in heard'[a]
               PROVE  e \in Clients /\ Agree(a, e)'
    BY DEF HeardPeer
  <1>1. e \in Clients /\ Agree(a, e)
    <2>1. CASE e \in heard[a]
      BY <2>1 DEF IInv, HeardPeer
    <2>2. CASE e \notin heard[a]
      <3>1. PICK m \in sealed : Accept(a, m) /\ e = m.from
        BY <2>2, WhoHears DEF Accept, IInv, TypeOK
      <3>2. e \in Clients /\ keys[a] = keys[e] /\ keys[a] # None
        BY <3>1 DEF Accept, Open, IInv, SealedBySender, TypeOK, Encrypted, Ends
      <3> QED BY <3>2, SameCredential
    <2> QED BY <2>1, <2>2
  <1>2. cred[a] # None
    BY <1>1 DEF Agree, IInv, AgentSide, TypeOK, Ends
  <1> QED BY <1>1, <1>2, Kept DEF Agree, Ends

LEMMA Initially == Init => IInv
  BY HandshakeAssumption
     DEF Init, IInv, Ends, TypeOK, States, ClientSide, AgentSide, ProofsSent, SealedBySender,
         CompletionMeant, HeardPeer, Credentials

LEMMA IInvStep == IInv /\ [Next]_vars => IInv'
  BY TypeStep, ClientStep, AgentStep, SentStep, SealedStep, MeantStep, HeardStep DEF IInv

LEMMA Inductive == Spec => []IInv
  <1>1. Init => IInv
    BY Initially
  <1>2. IInv /\ [Next]_vars => IInv'
    BY IInvStep
  <1> QED BY <1>1, <1>2, PTL DEF Spec

\* The variables keep their types, and an end streams only with keys.
THEOREM TypeCorrect == Spec => []TypeOK
  <1>1. IInv => TypeOK
    BY DEF IInv
  <1> QED BY <1>1, Inductive, PTL

\* Whatever is lost, repeated, delayed or delivered to the wrong connection, an
\* agent that has completed a handshake (await_pair_challenge_and_complete,
\* await_resume_and_complete) shares its keys with exactly one browser.
THEOREM AgentsAgree == Spec => []PeerAgreed
  <1>1. IInv => PeerAgreed
    <2> SUFFICES ASSUME IInv, NEW a \in Agents, keys[a] # None
                 PROVE  /\ \E c \in Clients : Agree(a, c)
                        /\ \A c, d \in Clients : keys[c] = keys[a] /\ keys[d] = keys[a] => c = d
      BY DEF PeerAgreed
    <2>1. \E c \in Clients : Agree(a, c)
      BY DEF IInv, AgentSide
    <2>2. \A c \in Clients : keys[c] = keys[a] => keys[a].info.client = c
      BY SameCredential
    <2> QED BY <2>1, <2>2
  <1> QED BY <1>1, Inductive, PTL

\* A completion completes the handshake of the browser it was computed for, and
\* of no other that the relay may forward it to (router.py, handle_pair_complete
\* and handle_resume_complete).
THEOREM BrowsersAgree == Spec => []CompletionMeant
  <1>1. IInv => CompletionMeant
    BY DEF IInv
  <1> QED BY <1>1, Inductive, PTL

\* What an agent decrypts (decrypt_payload) was sent by the browser it agrees
\* with.
THEOREM InputIsFromThePeer == Spec => []HeardPeer
  <1>1. IInv => HeardPeer
    BY DEF IInv
  <1> QED BY <1>1, Inductive, PTL

\* A resume is completed only for a credential that some browser has received.
THEOREM ResumedByAHolder == Spec => []ResumeByHolder
  <1>1. IInv => ResumeByHolder
    BY DEF IInv, TypeOK, Ends, AgentSide, ClientSide, Agree, ResumeByHolder
  <1> QED BY <1>1, Inductive, PTL

(***************************************************************************)
(* The refinement.                                                         *)
(***************************************************************************)

AgreementStep == [Agreed!AgreementNext]_(Agreed!avars)

\* Agreement sees the commitments and acceptances of a step that leaves the
\* credentials and keys alone unchanged.
LEMMA KeysStay ==
    ASSUME UNCHANGED <<cred, keys>>
    PROVE  /\ [a \in Agents |-> cred[a]]' = [a \in Agents |-> cred[a]]
           /\ [c \in Clients |-> CommitmentOf(c)]' = [c \in Clients |-> CommitmentOf(c)]
           /\ [a \in Agents |-> AcceptedBy(a)]' = [a \in Agents |-> AcceptedBy(a)]
  BY DEF CommitmentOf, AcceptedBy

\* Nor does it see anybody speak as long as nothing is sealed.
LEMMA SpokenStay ==
    ASSUME sealed' = sealed
    PROVE  {c \in Clients : HasSpoken(c)}' = {c \in Clients : HasSpoken(c)}
  BY DEF HasSpoken

\* It sees nobody turn if no stage changes.
LEMMA StageStays ==
    ASSUME \A e \in Ends : StageOf(e)' = StageOf(e)
    PROVE  [e \in Ends |-> StageOf(e)]' = [e \in Ends |-> StageOf(e)]
  OBVIOUS

\* An end that changes its state is seen to turn.
LEMMA StageTurns ==
    ASSUME TypeOK, NEW e \in Ends, NEW s \in States, To(e, s), NEW t,
           t = CASE s \in {"paired", "streaming"} -> "talking"
                 [] s = "closed" -> "gone"
                 [] OTHER -> "new"
    PROVE  [x \in Ends |-> StageOf(x)]' = [[x \in Ends |-> StageOf(x)] EXCEPT ![e] = t]
  <1>1. state'[e] = s /\ \A x \in Ends : x # e => state'[x] = state[x]
    BY DEF To, TypeOK
  <1>2. StageOf(e)' = t
    BY <1>1 DEF StageOf
  <1>3. \A x \in Ends : x # e => StageOf(x)' = StageOf(x)
    BY <1>1 DEF StageOf
  <1> QED BY <1>2, <1>3

\* Nothing that Agreement speaks of changes.
LEMMA StutterStep ==
    ASSUME UNCHANGED <<cred, keys, heard>>, \A e \in Ends : StageOf(e)' = StageOf(e),
           \A c \in Clients : HasSpoken(c)' <=> HasSpoken(c)
    PROVE  AgreementStep
  <1>1. {c \in Clients : HasSpoken(c)}' = {c \in Clients : HasSpoken(c)}
    OBVIOUS
  <1> QED BY <1>1, KeysStay, StageStays DEF AgreementStep, Agreed!avars, Ends

\* Who closes leaves, wherever it stands.
LEMMA CloseStep ==
    ASSUME TypeOK, NEW e \in Ends, state[e] # "closed", To(e, "closed"),
           UNCHANGED <<cred, keys, sealed, heard>>
    PROVE  AgreementStep
  <1>1. [x \in Ends |-> StageOf(x)]' = [[x \in Ends |-> StageOf(x)] EXCEPT ![e] = "gone"]
    BY StageTurns DEF States
  <1>2. StageOf(e) # "gone"
    BY DEF StageOf
  <1>3. Agreed!Leave(e)
    BY <1>1, <1>2, KeysStay, SpokenStay DEF Agreed!Leave, Agreed!Turns, Ends
  <1> QED BY <1>3 DEF AgreementStep, Agreed!AgreementNext, Ends

\* A browser that derives keys, and sends its proof, commits to one agent.
LEMMA CommitStep ==
    ASSUME IInv, NEW c \in Clients, NEW a \in Agents, NEW k \in Credentials,
           state[c] \in {"idle", "asked"}, To(c, "proved"),
           keys' = [keys EXCEPT ![c] = ClientKeys(c, k, a)],
           \A b \in Agents : cred'[b] = cred[b], UNCHANGED <<sealed, heard>>
    PROVE  AgreementStep
  <1> USE HandshakeAssumption
  <1>1. keys[c] = None /\ keys \in [Ends -> Keys \cup {None}] /\ c \in Ends
    BY DEF IInv, ClientSide, TypeOK, Ends
  <1>2. ClientKeys(c, k, a) \in Keys
    BY DEF ClientKeys, Derive, Transcript, Keys, Transcripts, Ends
  <1>3. /\ CommitmentOf(c) = None
        /\ CommitmentOf(c)' = [agent |-> a, credential |-> k]
        /\ \A d \in Clients : d # c => CommitmentOf(d)' = CommitmentOf(d)
    BY <1>1, <1>2 DEF CommitmentOf, ClientKeys, Derive, Transcript, Ends
  <1>4. [x \in Clients |-> CommitmentOf(x)]' =
          [[x \in Clients |-> CommitmentOf(x)] EXCEPT ![c] = [agent |-> a, credential |-> k]]
    BY <1>3
  <1>5. [b \in Agents |-> AcceptedBy(b)]' = [b \in Agents |-> AcceptedBy(b)]
    BY <1>1 DEF AcceptedBy, Ends
  <1>6. [x \in Ends |-> StageOf(x)]' = [x \in Ends |-> StageOf(x)]
    BY DEF IInv, TypeOK, To, StageOf
  <1>7. Agreed!Commit(c, a, k)
    BY <1>3, <1>4, <1>5, <1>6, SpokenStay DEF Agreed!Commit, Ends
  <1> QED BY <1>7 DEF AgreementStep, Agreed!AgreementNext

\* An agent that has verified a proof accepts the browser that made it.
LEMMA AcceptanceStep ==
    ASSUME IInv, NEW a \in Agents, NEW m \in net, Complete(a, m)
    PROVE  AgreementStep
  <1> USE HandshakeAssumption DEF Ends
  <1> DEFINE c == m.key
  <1> DEFINE s == IF Pairing(a) THEN "paired" ELSE "streaming"
  <1>1. c \in Clients /\ keys[c] # None
    BY Verified
  <1>2. keys[c] = AgentKeys(a, c)
    BY Verified
  <1>3. keys[a] = None /\ state[a] \in {"wait", "proof"}
    BY Verified
  <1>4. keys' = [keys EXCEPT ![a] = AgentKeys(a, c)] /\ UNCHANGED <<cred, sealed, heard>> /\ To(a, s)
    BY DEF Complete
  <1>5. keys \in [Ends -> Keys \cup {None}] /\ TypeOK
    BY DEF IInv, TypeOK
  <1>6. CommitmentOf(c) = [agent |-> a, credential |-> cred[a]]
    BY <1>1, <1>2 DEF CommitmentOf, AgentKeys, Derive, Transcript
  <1>7. /\ AcceptedBy(a) = None /\ AcceptedBy(a)' = c
        /\ \A b \in Agents : b # a => AcceptedBy(b)' = AcceptedBy(b)
    BY <1>1, <1>2, <1>3, <1>4, <1>5 DEF AcceptedBy, AgentKeys, Derive, Transcript
  <1>8. [b \in Agents |-> AcceptedBy(b)]' = [[b \in Agents |-> AcceptedBy(b)] EXCEPT ![a] = c]
    BY <1>7
  <1>9. [d \in Clients |-> CommitmentOf(d)]' = [d \in Clients |-> CommitmentOf(d)]
    BY <1>4, <1>5 DEF CommitmentOf
  <1>10. [e \in Ends |-> StageOf(e)]' = [[e \in Ends |-> StageOf(e)] EXCEPT ![a] = "talking"]
    BY <1>4, <1>5, StageTurns DEF States
  <1>11. StageOf(a) = "new"
    BY <1>3 DEF StageOf
  <1>12. Agreed!Accept(a, c)
    BY <1>1, <1>4, <1>6, <1>7, <1>8, <1>9, <1>10, <1>11, SpokenStay
       DEF Agreed!Accept, Agreed!Turns
  <1> QED BY <1>1, <1>12 DEF AgreementStep, Agreed!AgreementNext

\* A browser finishes with the agent that has accepted it.
LEMMA FinishStep ==
    ASSUME IInv, NEW c \in Clients, NEW m \in net, Completed(c, m)
    PROVE  AgreementStep
  <1> USE HandshakeAssumption DEF Ends
  <1>1. PICK a \in Agents : keys[a] # None /\ m.proof = Proof(keys[a], "agent")
    BY DEF Completed, IInv, ProofsSent
  <1>2. keys[c] = keys[a]
    BY <1>1 DEF Completed, Verify, Proof
  <1>3. PICK b \in Agents : keys[c] = ClientKeys(c, cred[c], b)
    BY <1>1, <1>2 DEF IInv, ClientSide
  <1>4. PICK d \in Clients : keys[a] = AgentKeys(a, d)
    BY <1>1 DEF IInv, AgentSide
  <1>5. CommitmentOf(c) # None /\ CommitmentOf(c).agent = a /\ AcceptedBy(a) = c
    <2>1. keys[c].info = Transcript(cred[c], b, c) /\ keys[a].info = Transcript(cred[a], a, d)
      BY <1>3, <1>4 DEF ClientKeys, AgentKeys, Derive
    <2>2. b = a /\ keys[a].info.client = c
      BY <1>2, <2>1 DEF Transcript
    <2>3. CommitmentOf(c) = [agent |-> a, credential |-> keys[c].salt]
      BY <1>1, <1>2, <2>1, <2>2 DEF CommitmentOf, Transcript
    <2>4. keys[c].salt \in Credentials
      BY <1>1, <1>2 DEF IInv, TypeOK, Keys
    <2>5. CommitmentOf(c) # None
      BY <2>3, <2>4 DEF Commitments
    <2> QED BY <1>1, <2>2, <2>3, <2>5 DEF AcceptedBy
  <1>6. [e \in Ends |-> StageOf(e)]' = [[e \in Ends |-> StageOf(e)] EXCEPT ![c] = "talking"]
    BY StageTurns DEF Completed, IInv, States
  <1>7. StageOf(c) = "new"
    BY DEF Completed, StageOf
  <1>8. Agreed!Finish(c)
    BY <1>5, <1>6, <1>7, KeysStay, SpokenStay DEF Completed, Agreed!Finish, Agreed!Turns
  <1> QED BY <1>8 DEF AgreementStep, Agreed!AgreementNext

\* What a client seals is seen as spoken.
LEMMA SpeakStep ==
    ASSUME IInv, NEW c \in Clients, SendInput(c)
    PROVE  AgreementStep
  <1> DEFINE m == [key |-> keys[c], type |-> "pty_input", direction |-> "client_to_agent",
                   seq |-> seq'[c], from |-> c]
  <1>1. sealed' = sealed \cup {m} /\ m.from = c
    BY DEF SendInput, Seal
  <1>2. {d \in Clients : HasSpoken(d)}' = {d \in Clients : HasSpoken(d)} \cup {c}
    BY <1>1 DEF HasSpoken
  <1>3. StageOf(c) = "talking"
    BY DEF SendInput, StageOf
  <1>4. [e \in Ends |-> StageOf(e)]' = [e \in Ends |-> StageOf(e)]
    BY DEF SendInput, StageOf
  <1>5. Agreed!Speak(c)
    BY <1>2, <1>3, <1>4, KeysStay DEF SendInput, Agreed!Speak, Ends
  <1> QED BY <1>5 DEF AgreementStep, Agreed!AgreementNext

\* What an agent seals is not: Agreement follows only what clients say.
LEMMA AgentSeals ==
    ASSUME NEW a \in Agents, NEW t, NEW d, Seal(a, t, d)
    PROVE  \A c \in Clients : HasSpoken(c)' <=> HasSpoken(c)
  <1> DEFINE m == [key |-> keys[a], type |-> t, direction |-> d, seq |-> seq'[a], from |-> a]
  <1>1. sealed' = sealed \cup {m} /\ m.from = a
    BY DEF Seal
  <1> QED BY <1>1, HandshakeAssumption DEF HasSpoken

\* What an agent decrypts was said by the client it has accepted.
LEMMA ListenStep ==
    ASSUME IInv, NEW a \in Agents, NEW m \in sealed, Accept(a, m)
    PROVE  AgreementStep
  <1> USE HandshakeAssumption DEF Ends
  <1>1. m.from \in Clients /\ keys[m.from] = keys[a] /\ keys[a] # None
    BY DEF Accept, Open, IInv, SealedBySender, TypeOK, Encrypted
  <1>2. keys[a].info.client = m.from
    BY <1>1, SameCredential
  <1>3. AcceptedBy(a) = m.from
    BY <1>1, <1>2 DEF AcceptedBy
  <1>4. m.from \in {c \in Clients : HasSpoken(c)}
    BY <1>1 DEF HasSpoken
  <1>5. StageOf(a) = "talking"
    BY DEF Accept, StageOf
  <1>6. [e \in Ends |-> StageOf(e)]' = [e \in Ends |-> StageOf(e)]
    BY DEF Accept, StageOf
  <1>7. Agreed!Listen(a)
    BY <1>3, <1>4, <1>5, <1>6, KeysStay, SpokenStay DEF Accept, Agreed!Listen
  <1> QED BY <1>7 DEF AgreementStep, Agreed!AgreementNext

\* An agent that opens a connection chooses its credential.
LEMMA ChooseStep ==
    ASSUME IInv, NEW a \in Agents, SendInit(a)
    PROVE  AgreementStep
  <1> USE HandshakeAssumption DEF Ends
  <1>1. PICK k \in Credentials : cred' = [cred EXCEPT ![a] = k]
    BY Chosen
  <1>2. cred[a] = None /\ cred \in [Ends -> Credentials \cup {None}]
    BY DEF SendInit, IInv, TypeOK
  <1>3. [b \in Agents |-> cred[b]]' = [[b \in Agents |-> cred[b]] EXCEPT ![a] = k]
    BY <1>1, <1>2
  <1>4. /\ [c \in Clients |-> CommitmentOf(c)]' = [c \in Clients |-> CommitmentOf(c)]
        /\ [b \in Agents |-> AcceptedBy(b)]' = [b \in Agents |-> AcceptedBy(b)]
    BY DEF SendInit, CommitmentOf, AcceptedBy
  <1>5. [e \in Ends |-> StageOf(e)]' = [e \in Ends |-> StageOf(e)]
    BY DEF SendInit, To, IInv, TypeOK, StageOf
  <1>6. Agreed!Choose(a, k)
    BY <1>2, <1>3, <1>4, <1>5, SpokenStay DEF SendInit, Agreed!Choose
  <1> QED BY <1>6 DEF AgreementStep, Agreed!AgreementNext

\* Every step is one of Agreement, or one it does not see.
LEMMA AgreementOfStep == IInv /\ [Next]_vars => AgreementStep
  <1> SUFFICES ASSUME IInv, [Next]_vars PROVE AgreementStep
    OBVIOUS
  <1> USE HandshakeAssumption DEF Ends
  <1>t. TypeOK
    BY DEF IInv
  <1>quiet. ASSUME UNCHANGED <<cred, keys, sealed, heard>>,
                   \A e \in Ends : StageOf(e)' = StageOf(e)
            PROVE  AgreementStep
    BY <1>quiet, StutterStep DEF HasSpoken
  <1>1. ASSUME NEW a \in Agents, SendInit(a) PROVE AgreementStep
    BY <1>1, ChooseStep
  <1>2. ASSUME NEW a \in Agents, InitAck(a) PROVE AgreementStep
    BY <1>2, <1>t, <1>quiet DEF InitAck, To, TypeOK, StageOf
  <1>3. ASSUME NEW a \in Agents, ResumeRequest(a) PROVE AgreementStep
    BY <1>3, <1>t, <1>quiet DEF ResumeRequest, To, TypeOK, StageOf
  <1>4. ASSUME NEW a \in Agents, SendCredential(a) PROVE AgreementStep
    <2>1. \A e \in Ends : StageOf(e)' = StageOf(e)
      BY <1>4, <1>t DEF SendCredential, To, TypeOK, StageOf
    <2>2. \A c \in Clients : HasSpoken(c)' <=> HasSpoken(c)
      BY <1>4, AgentSeals DEF SendCredential
    <2> QED BY <1>4, <2>1, <2>2, StutterStep DEF SendCredential
  <1>5. ASSUME NEW a \in Agents, SendData(a) PROVE AgreementStep
    <2>1. \A e \in Ends : StageOf(e)' = StageOf(e)
      BY <1>5 DEF SendData, StageOf
    <2>2. \A c \in Clients : HasSpoken(c)' <=> HasSpoken(c)
      BY <1>5, AgentSeals DEF SendData
    <2> QED BY <1>5, <2>1, <2>2, StutterStep DEF SendData
  <1>6. ASSUME NEW a \in Agents, AgentCloses(a) PROVE AgreementStep
    BY <1>6, <1>t, CloseStep DEF AgentCloses
  <1>7. ASSUME NEW a \in Agents, NEW m \in net, Complete(a, m) PROVE AgreementStep
    BY <1>7, AcceptanceStep
  <1>8. ASSUME NEW a \in Agents, NEW m \in sealed, Accept(a, m) PROVE AgreementStep
    BY <1>8, ListenStep
  <1>9. ASSUME NEW c \in Clients, NEW a \in Agents, PairRequest(c, a) PROVE AgreementStep
    <2>1. Link(a) \in Credentials /\ \A b \in Agents : cred'[b] = cred[b]
      BY <1>9, <1>t DEF PairRequest, TypeOK, Credentials
    <2> QED BY <1>9, <2>1, CommitStep DEF PairRequest
  <1>10. ASSUME NEW c \in Clients, NEW d \in holds, AskResume(c, d) PROVE AgreementStep
    <2>1. \A e \in Ends : StageOf(e)' = StageOf(e)
      BY <1>10, <1>t DEF AskResume, To, TypeOK, StageOf
    <2>2. [a \in Agents |-> cred[a]]' = [a \in Agents |-> cred[a]]
      BY <1>10, <1>t DEF AskResume, TypeOK
    <2>3. /\ [x \in Clients |-> CommitmentOf(x)]' = [x \in Clients |-> CommitmentOf(x)]
          /\ [a \in Agents |-> AcceptedBy(a)]' = [a \in Agents |-> AcceptedBy(a)]
      BY <1>10 DEF AskResume, CommitmentOf, AcceptedBy
    <2> QED BY <1>10, <2>1, <2>2, <2>3, StageStays, SpokenStay
            DEF AskResume, AgreementStep, Agreed!avars
  <1>11. ASSUME NEW c \in Clients, NEW m \in net, ResumeChallenge(c, m) PROVE AgreementStep
    <2>1. m.key \in Agents /\ cred[c] \in Credentials
      BY <1>11, Challenged
    <2> QED BY <1>11, <2>1, CommitStep DEF ResumeChallenge
  <1>12. ASSUME NEW c \in Clients, NEW m \in net, Completed(c, m) PROVE AgreementStep
    BY <1>12, FinishStep
  <1>13. ASSUME NEW c \in Clients, NEW m \in sealed, Credential(c, m) PROVE AgreementStep
    BY <1>13, <1>quiet DEF Credential, StageOf
  <1>14. ASSUME NEW c \in Clients, SendInput(c) PROVE AgreementStep
    BY <1>14, SpeakStep
  <1>15. ASSUME NEW c \in Clients, ClientCloses(c) PROVE AgreementStep
    BY <1>15, <1>t, CloseStep DEF ClientCloses
  <1>16. CASE UNCHANGED vars
    BY <1>16, <1>quiet DEF vars, StageOf
  <1> QED
    BY <1>1, <1>2, <1>3, <1>4, <1>5, <1>6, <1>7, <1>8, <1>9, <1>10, <1>11, <1>12, <1>13, <1>14,
       <1>15, <1>16 DEF Next, AgentNext, ClientNext

\* Pairing and resuming are an agreement, of one browser and one agent on each
\* other and on a credential, between any number of agents and browsers: in
\* whatever order the relay delivers what it likes, no handler takes a step that
\* Agreement does not allow.
THEOREM ImplementsAgreement == Spec => KeepsAgreement
  <1>1. Init => Agreed!AgreementInit
    BY DEF Init, Agreed!AgreementInit, CommitmentOf, AcceptedBy, StageOf, HasSpoken, Ends
  <1>2. IInv /\ [Next]_vars => AgreementStep
    BY AgreementOfStep
  <1> QED
    BY <1>1, <1>2, Inductive, PTL
       DEF Spec, KeepsAgreement, Agreed!AgreementSpec, AgreementStep

=============================================================================
