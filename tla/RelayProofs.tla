---------------------------- MODULE RelayProofs ----------------------------
(***************************************************************************)
(* The safety invariants of Relay, for any number of connections, session  *)
(* ids, tokens, devices and Redis faults.                                  *)
(***************************************************************************)
EXTENDS Relay, TLAPS

LEMMA EnterDisconnectType ==
    ASSUME TypeOK, NEW c \in Conns, EnterDisconnect(c)
    PROVE  /\ pc' \in [Conns -> PCs]
           /\ open' \in [Conns -> BOOLEAN]
           /\ arg' \in [Conns -> Tokens \cup Devices \cup {None}]
           /\ dst' \in [Conns -> Conns \cup {None}]
           /\ sessions' \in SUBSET Sids
           /\ agent' \in [Sids -> Agents \cup {None}]
           /\ client' \in [Sids -> Clients \cup {None}]
           /\ route' \in [Devices -> Sids \cup {None}]
           /\ UNCHANGED <<sid, phase, redisVars, used>>
  <1>1. GetPeer(c) \in Conns \cup {None}
    BY DEF TypeOK, GetPeer, Conns
  <1>2. /\ open' \in [Conns -> BOOLEAN]
        /\ arg' \in [Conns -> Tokens \cup Devices \cup {None}]
        /\ UNCHANGED <<sid, phase, redisVars, used>>
    BY DEF TypeOK, EnterDisconnect
  <1>3. /\ pc' \in [Conns -> PCs]
        /\ dst' \in [Conns -> Conns \cup {None}]
    BY <1>1 DEF TypeOK, EnterDisconnect, PCs, Leaving
  <1>4. /\ agent' \in [Sids -> Agents \cup {None}]
        /\ client' \in [Sids -> Clients \cup {None}]
    BY DEF TypeOK, EnterDisconnect, DetachFields
  <1>5. /\ sessions' \in SUBSET Sids
        /\ route' \in [Devices -> Sids \cup {None}]
    BY DEF TypeOK, EnterDisconnect, Remove
  <1> QED BY <1>2, <1>3, <1>4, <1>5

LEMMA EnterDisconnectContext ==
    ASSUME TypeOK, ContextOK, NEW c \in Conns, EnterDisconnect(c), pc[c] \notin InPairInit
    PROVE  ContextOK'
  <1>1. GetPeer(c) \in Conns \cup {None}
    BY DEF TypeOK, GetPeer, Conns
  <1> QED
    BY <1>1 DEF TypeOK, ContextOK, EnterDisconnect, Sending, InPairInit

LEMMA WellFormedInit == Init => TypeOK /\ ContextOK
  BY RelayAssumption DEF Init, TypeOK, ContextOK, InPairInit, Sending, PCs, Receive, Phases

LEMMA WellFormedStep == TypeOK /\ ContextOK /\ [Next]_vars => TypeOK' /\ ContextOK'
  <1> SUFFICES ASSUME TypeOK, ContextOK, [Next]_vars PROVE TypeOK' /\ ContextOK'
    OBVIOUS
  <1> USE RelayAssumption DEF TypeOK, ContextOK, ctxVars, slotVars, tokenVars, redisVars,
          PCs, Receive, Leaving, Sending, InPairInit
  <1>1. ASSUME NEW a \in Agents, NEW s \in Sids, NEW t \in Tokens, PairInit(a, s, t) PROVE TypeOK' /\ ContextOK'
    BY <1>1 DEF PairInit, AttachAgent, Receiving, Conns, Phases
  <1>2. ASSUME NEW a \in Agents, NEW s \in Sids, NEW d \in Devices, ResumeInit(a, s, d) PROVE TypeOK' /\ ContextOK'
    BY <1>2 DEF ResumeInit, AttachAgent, LoopTop, Receiving, Conns, Phases
  <1>3. ASSUME NEW a \in Agents, PairInitRefused(a) PROVE TypeOK' /\ ContextOK'
    BY <1>3 DEF PairInitRefused, Detach, DetachFields, LoopTop, Conns
  <1>4. ASSUME NEW a \in Agents, PairInitIssue(a) PROVE TypeOK' /\ ContextOK'
    BY <1>4 DEF PairInitIssue, Conns
  <1>5. ASSUME NEW a \in Agents, PairInitRecord(a) PROVE TypeOK' /\ ContextOK'
    BY <1>5 DEF PairInitRecord, Conns
  <1>6. ASSUME NEW a \in Agents, PairInitExpire(a) PROVE TypeOK' /\ ContextOK'
    BY <1>6 DEF PairInitExpire, LoopTop, Conns
  <1>7. ASSUME NEW a \in Agents, PairInitUndo(a) PROVE TypeOK' /\ ContextOK'
    BY <1>7 DEF PairInitUndo, Detach, DetachFields, Finish, Conns
  <1>8. ASSUME NEW a \in Agents, DeliverComplete(a) PROVE TypeOK' /\ ContextOK'
    BY <1>8 DEF DeliverComplete, Conns
  <1>9. ASSUME NEW a \in Agents, SetEstablished(a) PROVE TypeOK' /\ ContextOK'
    BY <1>9 DEF SetEstablished, Conns
  <1>10. ASSUME NEW a \in Agents, Persist(a) PROVE TypeOK' /\ ContextOK'
    BY <1>10 DEF Persist, LoopTop, Conns
  <1>11. ASSUME NEW c \in Clients, NEW t \in Tokens, PairRequest(c, t) PROVE TypeOK' /\ ContextOK'
    BY <1>11 DEF PairRequest, Receiving, Conns
  <1>12. ASSUME NEW c \in Clients, NEW d \in Devices, ResumeRequest(c, d) PROVE TypeOK' /\ ContextOK'
    BY <1>12 DEF ResumeRequest, Receiving, Conns
  <1>13. ASSUME NEW c \in Clients, PairRequestRefused(c) PROVE TypeOK' /\ ContextOK'
    BY <1>13 DEF PairRequestRefused, LoopTop, Conns
  <1>14. ASSUME NEW c \in Clients, PairRequestAttach(c) PROVE TypeOK' /\ ContextOK'
    BY <1>14 DEF PairRequestAttach, AttachClient, ClientMayAttach, Conns
  <1>15. ASSUME NEW c \in Clients, PairRequestOrphan(c) PROVE TypeOK' /\ ContextOK'
    BY <1>15 DEF PairRequestOrphan, LoopTop, Conns
  <1>16. ASSUME NEW c \in Clients, PairRequestMark(c) PROVE TypeOK' /\ ContextOK'
    BY <1>16 DEF PairRequestMark, Conns
  <1>17. ASSUME NEW c \in Clients, PairRequestChallenge(c) PROVE TypeOK' /\ ContextOK'
    <2>1. CASE EnterDisconnect(c)
      BY <1>17, <2>1, EnterDisconnectType, EnterDisconnectContext DEF PairRequestChallenge, Conns
    <2>2. CASE ~EnterDisconnect(c)
      BY <1>17, <2>2 DEF PairRequestChallenge, Conns
    <2> QED BY <2>1, <2>2
  <1>18. ASSUME NEW c \in Clients, ResumeRequestRefused(c) PROVE TypeOK' /\ ContextOK'
    BY <1>18 DEF ResumeRequestRefused, LoopTop, Conns
  <1>19. ASSUME NEW c \in Clients, ResumeRequestAttach(c) PROVE TypeOK' /\ ContextOK'
    BY <1>19 DEF ResumeRequestAttach, AttachClient, ClientMayAttach, Conns, Phases
  <1>20. ASSUME NEW c \in Conns, RejectEnvelope(c) PROVE TypeOK' /\ ContextOK'
    BY <1>20 DEF RejectEnvelope, Receiving
  <1>21. ASSUME NEW c \in Conns, ErrorReply(c) PROVE TypeOK' /\ ContextOK'
    BY <1>21 DEF ErrorReply, Receiving, LoopTop
  <1>22. ASSUME NEW c \in Conns, Route(c) PROVE TypeOK' /\ ContextOK'
    BY <1>22 DEF Route, SendToPeer, GetPeer, Receiving, Conns
  <1>23. ASSUME NEW c \in Conns, CloseSession(c) PROVE TypeOK' /\ ContextOK'
    BY <1>23 DEF CloseSession, SendToPeer, GetPeer, Receiving, Conns
  <1>24. ASSUME NEW c \in Conns, ResumeProof(c) PROVE TypeOK' /\ ContextOK'
    BY <1>24 DEF ResumeProof, SendToPeer, GetPeer, Receiving, Conns
  <1>25. ASSUME NEW c \in Conns, ResumeChallenge(c) PROVE TypeOK' /\ ContextOK'
    BY <1>25 DEF ResumeChallenge, SendToPeer, GetPeer, Receiving, Conns
  <1>26. ASSUME NEW c \in Conns, PairComplete(c) PROVE TypeOK' /\ ContextOK'
    BY <1>26 DEF PairComplete, SendToPeer, GetPeer, Receiving, Conns, Phases
  <1>27. ASSUME NEW c \in Conns, ResumeComplete(c) PROVE TypeOK' /\ ContextOK'
    BY <1>27 DEF ResumeComplete, SendToPeer, GetPeer, Receiving, Conns, Phases
  <1>28. ASSUME NEW c \in Conns, Closed(c) PROVE TypeOK' /\ ContextOK'
    BY <1>28, EnterDisconnectType, EnterDisconnectContext DEF Closed
  <1>29. ASSUME NEW c \in Conns, NotifyPeer(c) PROVE TypeOK' /\ ContextOK'
    BY <1>29 DEF NotifyPeer, Remove
  <1>30. ASSUME NEW c \in Conns, DisconnectDelete(c) PROVE TypeOK' /\ ContextOK'
    BY <1>30 DEF DisconnectDelete, Finish
  <1>31. ASSUME NEW c \in Conns, Deliver(c) PROVE TypeOK' /\ ContextOK'
    BY <1>31 DEF Deliver, LoopTop
  <1>32. ASSUME NEW c \in Conns, DeliverClose(c) PROVE TypeOK' /\ ContextOK'
    BY <1>32 DEF DeliverClose, Remove
  <1>33. ASSUME NEW c \in Conns, SendRaises(c) PROVE TypeOK' /\ ContextOK'
    BY <1>33, EnterDisconnectType, EnterDisconnectContext DEF SendRaises
  <1>34. ASSUME NEW c \in Conns, CloseDelete(c) PROVE TypeOK' /\ ContextOK'
    BY <1>34 DEF CloseDelete, LoopTop
  <1>35. ASSUME NEW c \in Conns, Disconnect(c) PROVE TypeOK' /\ ContextOK'
    BY <1>35, EnterDisconnectType, EnterDisconnectContext DEF Disconnect, Receiving
  <1>36. ASSUME NEW c \in Conns, HandshakeTimeout(c) PROVE TypeOK' /\ ContextOK'
    BY <1>36 DEF HandshakeTimeout
  <1>37. ASSUME NEW c \in Conns, PeerGone(c) PROVE TypeOK' /\ ContextOK'
    BY <1>37 DEF PeerGone
  <1>38. ASSUME NEW c \in Conns, RedisFault(c) PROVE TypeOK' /\ ContextOK'
    <2>1. faults' \in 0..MaxFaults
      BY <1>38 DEF RedisFault
    <2>2. CASE PairInitFault(c)
      BY <2>1, <2>2 DEF PairInitFault, Detach, DetachFields, Finish
    <2>3. CASE RecordFault(c)
      BY <2>1, <2>3 DEF RecordFault
    <2>4. CASE DeleteFault(c)
      BY <2>1, <2>4 DEF DeleteFault, Finish
    <2>5. CASE HandlerFault(c)
      BY <2>1, <2>5, EnterDisconnectType, EnterDisconnectContext DEF HandlerFault
    <2> QED BY <1>38, <2>2, <2>3, <2>4, <2>5 DEF RedisFault
  <1>39. ASSUME NEW t \in Tokens, TokenExpire(t) PROVE TypeOK' /\ ContextOK'
    BY <1>39 DEF TokenExpire
  <1>40. ASSUME NEW s \in Sids, RecordExpire(s) PROVE TypeOK' /\ ContextOK'
    BY <1>40 DEF RecordExpire
  <1>41. CASE UNCHANGED vars
    BY <1>41 DEF vars
  <1> QED
    BY <1>1, <1>2, <1>3, <1>4, <1>5, <1>6, <1>7, <1>8, <1>9, <1>10, <1>11, <1>12, <1>13,
       <1>14, <1>15, <1>16, <1>17, <1>18, <1>19, <1>20, <1>21, <1>22, <1>23, <1>24, <1>25,
       <1>26, <1>27, <1>28, <1>29, <1>30, <1>31, <1>32, <1>33, <1>34, <1>35, <1>36, <1>37,
       <1>38, <1>39, <1>40, <1>41 DEF Next, AgentMessage, AgentStep, ClientMessage,
       ClientStep, Message, Step, Environment

\* Every variable keeps its type.
THEOREM Typing == Spec => []TypeOK
  BY WellFormedInit, WellFormedStep, PTL DEF Spec

(***************************************************************************)
(* Kinds of step.  The proofs below see an action only through its kind.   *)
(***************************************************************************)

\* A coroutine goes on without joining or leaving a session
Stay(c) ==
    /\ pc[c] \notin Leaving /\ faults' \in {faults, faults + 1}
    /\ pc' = [pc EXCEPT ![c] = pc'[c]]
    /\ pc'[c] \in PCs \ (Leaving \cup {"issue"})
    /\ pc'[c] \in InPairInit => pc[c] \in InPairInit
    /\ pc'[c] = "undo_token" => faults' > 0
    /\ dst' = [dst EXCEPT ![c] = dst'[c]]
    /\ dst'[c] # None => sid[c] # None /\ (dst'[c] = GetPeer(c) \/ (c \in Clients /\ dst'[c] = agent[sid[c]]))
    /\ UNCHANGED <<sid, sessions, agent, client, route, used>>
    /\ \/ UNCHANGED phase
       \/ /\ c \in Agents /\ GetPeer(c) # None
          /\ phase' = [phase EXCEPT ![sid[c]] = "established"]
    /\ \A t \in Tokens :
          \/ tokenState'[t] \in {tokenState[t], "consumed"} /\ tokenSid'[t] = tokenSid[t]
          \/ pc[c] = "issue" /\ t = arg[c] /\ tokenSid'[t] = sid[c]
    /\ \A s \in Sids \ {sid[c]} : record'[s] = record[s] /\ (ttl'[s] <=> ttl[s])

\* A coroutine enters its finally clause
Leave(c) ==
    /\ pc[c] \notin Leaving \cup InPairInit
    /\ EnterDisconnect(c) /\ faults' \in {faults, faults + 1}

\* Nothing but the environment moves, or nothing at all
Outside ==
    /\ UNCHANGED <<pc, sid, dst, slotVars, used, faults>>
    /\ \A t \in Tokens : \/ tokenState'[t] = tokenState[t] /\ tokenSid'[t] = tokenSid[t]
                         \/ tokenState'[t] = "absent" /\ tokenSid'[t] = None
    /\ \A s \in Sids : (record'[s] = record[s] /\ (ttl'[s] <=> ttl[s])) \/ record'[s] = "absent"

Routed == TornDown /\ RouteHasOwner
Recorded == UndoMeansFault /\ RecordHasOwner
Registry == SlotAgreement /\ Exclusive /\ AgentOfSlot /\ ReservedOK

Kind ==
    \/ Outside
    \/ \E c \in Conns :
          \/ Stay(c) \/ Leave(c)
          \/ NotifyPeer(c) \/ DisconnectDelete(c) \/ DeliverClose(c)
          \/ DeleteFault(c) /\ faults' = faults + 1
    \/ \E c \in Clients : PairRequestAttach(c) \/ ResumeRequestAttach(c)
    \/ \E a \in Agents :
          \/ PairInitRefused(a) \/ PairInitUndo(a)
          \/ PairInitFault(a) /\ faults' = faults + 1
          \/ \E s \in Sids : \/ \E t \in Tokens : PairInit(a, s, t)
                            \/ \E d \in Devices : ResumeInit(a, s, d)

\* Every step is of one of these kinds.
LEMMA KindOfStep == TypeOK /\ ContextOK /\ [Next]_vars => Kind
  <1> SUFFICES ASSUME TypeOK, ContextOK, [Next]_vars PROVE Kind
    OBVIOUS
  <1> USE RelayAssumption DEF TypeOK, ContextOK, ctxVars, slotVars, tokenVars, redisVars,
          PCs, Receive, Leaving, Sending, InPairInit, Stay
  <1>1. ASSUME NEW a \in Agents, PairInitIssue(a) PROVE Stay(a)
    BY <1>1 DEF PairInitIssue, Conns
  <1>2. ASSUME NEW a \in Agents, PairInitRecord(a) PROVE Stay(a)
    BY <1>2 DEF PairInitRecord, Conns
  <1>3. ASSUME NEW a \in Agents, PairInitExpire(a) PROVE Stay(a)
    BY <1>3 DEF PairInitExpire, LoopTop, Conns
  <1>4. ASSUME NEW a \in Agents, DeliverComplete(a) PROVE Stay(a)
    BY <1>4 DEF DeliverComplete, Conns
  <1>5. ASSUME NEW a \in Agents, SetEstablished(a) PROVE Stay(a)
    BY <1>5 DEF SetEstablished, Conns
  <1>6. ASSUME NEW a \in Agents, Persist(a) PROVE Stay(a)
    BY <1>6 DEF Persist, LoopTop, Conns
  <1>7. ASSUME NEW c \in Clients, NEW t \in Tokens, PairRequest(c, t) PROVE Stay(c)
    BY <1>7 DEF PairRequest, Receiving, Conns
  <1>8. ASSUME NEW c \in Clients, NEW d \in Devices, ResumeRequest(c, d) PROVE Stay(c)
    BY <1>8 DEF ResumeRequest, Receiving, Conns
  <1>9. ASSUME NEW c \in Clients, PairRequestRefused(c) PROVE Stay(c)
    BY <1>9 DEF PairRequestRefused, LoopTop, Conns
  <1>10. ASSUME NEW c \in Clients, PairRequestOrphan(c) PROVE Stay(c)
    BY <1>10 DEF PairRequestOrphan, LoopTop, Conns
  <1>11. ASSUME NEW c \in Clients, PairRequestMark(c) PROVE Stay(c)
    BY <1>11 DEF PairRequestMark, Conns
  <1>12. ASSUME NEW c \in Clients, ResumeRequestRefused(c) PROVE Stay(c)
    BY <1>12 DEF ResumeRequestRefused, LoopTop, Conns
  <1>13. ASSUME NEW c \in Conns, RejectEnvelope(c) PROVE Stay(c)
    BY <1>13 DEF RejectEnvelope, Receiving
  <1>14. ASSUME NEW c \in Conns, ErrorReply(c) PROVE Stay(c)
    BY <1>14 DEF ErrorReply, Receiving, LoopTop
  <1>15. ASSUME NEW c \in Conns, Route(c) PROVE Stay(c)
    BY <1>15 DEF Route, SendToPeer, GetPeer, Receiving, Conns
  <1>16. ASSUME NEW c \in Conns, CloseSession(c) PROVE Stay(c)
    BY <1>16 DEF CloseSession, SendToPeer, GetPeer, Receiving, Conns
  <1>17. ASSUME NEW c \in Conns, ResumeProof(c) PROVE Stay(c)
    BY <1>17 DEF ResumeProof, SendToPeer, GetPeer, Receiving, Conns
  <1>18. ASSUME NEW c \in Conns, ResumeChallenge(c) PROVE Stay(c)
    BY <1>18 DEF ResumeChallenge, SendToPeer, GetPeer, Receiving, Conns
  <1>19. ASSUME NEW c \in Conns, PairComplete(c) PROVE Stay(c)
    BY <1>19 DEF PairComplete, SendToPeer, GetPeer, Receiving, Conns
  <1>20. ASSUME NEW c \in Conns, ResumeComplete(c) PROVE Stay(c)
    BY <1>20 DEF ResumeComplete, SendToPeer, GetPeer, Receiving, Conns
  <1>21. ASSUME NEW c \in Conns, Deliver(c) PROVE Stay(c)
    BY <1>21 DEF Deliver, LoopTop
  <1>22. ASSUME NEW c \in Conns, CloseDelete(c) PROVE Stay(c)
    BY <1>22 DEF CloseDelete, LoopTop
  <1>23. ASSUME NEW c \in Conns, HandshakeTimeout(c) PROVE Stay(c)
    BY <1>23 DEF HandshakeTimeout
  <1>24. ASSUME NEW c \in Conns, Disconnect(c) \/ Closed(c) \/ SendRaises(c) PROVE Leave(c)
    BY <1>24 DEF Disconnect, Closed, SendRaises, Leave, Receiving
  <1>25. ASSUME NEW c \in Clients, PairRequestChallenge(c) PROVE Stay(c) \/ Leave(c)
    <2>1. CASE EnterDisconnect(c)
      BY <1>25, <2>1 DEF PairRequestChallenge, Leave
    <2>2. CASE ~EnterDisconnect(c)
      BY <1>25, <2>2 DEF PairRequestChallenge, Conns
    <2> QED BY <2>1, <2>2
  <1>26. ASSUME NEW c \in Conns, RedisFault(c)
        PROVE  \/ Stay(c) \/ Leave(c) \/ (DeleteFault(c) /\ faults' = faults + 1)
               \/ (c \in Agents /\ PairInitFault(c) /\ faults' = faults + 1)
    <2>1. faults' = faults + 1 /\ faults' > 0
      BY <1>26 DEF RedisFault
    <2>2. CASE RecordFault(c)
      BY <2>1, <2>2 DEF RecordFault
    <2>3. CASE HandlerFault(c)
      BY <2>1, <2>3 DEF HandlerFault, Leave, InRedis
    <2>4. CASE PairInitFault(c)
      BY <2>1, <2>4 DEF PairInitFault
    <2> QED BY <1>26, <2>1, <2>2, <2>3, <2>4 DEF RedisFault
  <1>27. ASSUME \/ \E c \in Conns : PeerGone(c)
                \/ \E t \in Tokens : TokenExpire(t)
                \/ \E s \in Sids : RecordExpire(s)
                \/ UNCHANGED vars
        PROVE  Outside
    BY <1>27 DEF PeerGone, TokenExpire, RecordExpire, vars, Outside
  <1> HIDE DEF TypeOK, ContextOK, Stay
  <1>28. ASSUME NEW a \in Agents, AgentMessage(a) \/ AgentStep(a) PROVE Kind
    BY <1>28, <1>1, <1>2, <1>3, <1>4, <1>5, <1>6 DEF AgentMessage, AgentStep, Kind, Conns
  <1>29. ASSUME NEW c \in Clients, ClientMessage(c) \/ ClientStep(c) PROVE Kind
    BY <1>29, <1>7, <1>8, <1>9, <1>10, <1>11, <1>12, <1>25
       DEF ClientMessage, ClientStep, Kind, Conns
  <1>30. ASSUME NEW c \in Conns, Message(c) \/ Step(c) \/ Disconnect(c) \/ HandshakeTimeout(c) PROVE Kind
    BY <1>30, <1>13, <1>14, <1>15, <1>16, <1>17, <1>18,
       <1>19, <1>20, <1>21, <1>22, <1>23, <1>24
       DEF Message, Step, Kind
  <1>31. ASSUME Environment PROVE Kind
    BY <1>31, <1>26, <1>27 DEF Environment, Kind
  <1> QED
    BY <1>27, <1>28, <1>29, <1>30, <1>31 DEF Next, Kind

(***************************************************************************)
(* The inductive invariant, kind by kind.                                  *)
(***************************************************************************)

\* What Stay does, point by point
LEMMA StayEffect ==
    ASSUME TypeOK, ContextOK, NEW c \in Conns, Stay(c)
    PROVE  /\ pc[c] \notin Leaving /\ pc'[c] \notin Leaving /\ pc'[c] # "issue"
           /\ pc'[c] \in InPairInit => pc[c] \in InPairInit
           /\ \A x \in Conns \ {c} : pc'[x] = pc[x] /\ dst'[x] = dst[x]
           /\ UNCHANGED <<sid, sessions, agent, client, route, used>>
  BY DEF Stay, TypeOK

\* What Leave does, point by point
LEMMA LeaveEffect ==
    ASSUME TypeOK, ContextOK, NEW c \in Conns, Leave(c)
    PROVE  /\ pc[c] \notin Leaving /\ pc[c] \notin InPairInit /\ pc'[c] \in Leaving
           /\ \A x \in Conns \ {c} : pc'[x] = pc[x] /\ dst'[x] = dst[x]
           /\ UNCHANGED <<sid, phase, redisVars, used>>
           /\ pc'[c] = "disc_send" => /\ sid[c] # None /\ sessions' = sessions /\ route' = route
                                      /\ GetPeer(c) # None /\ dst'[c] = GetPeer(c)
           /\ pc'[c] = "disc_del" => /\ sid[c] # None /\ sid[c] \notin sessions'
                                     /\ \A d \in Devices : route'[d] # sid[c]
                                     /\ dst'[c] = None /\ GetPeer(c) = None
           /\ pc'[c] = "done" => sid[c] = None /\ sessions' = sessions /\ route' = route /\ dst'[c] = None
           /\ sessions' \subseteq sessions /\ sessions \subseteq sessions' \cup {sid[c]}
           /\ \A d \in Devices : route'[d] = route[d] \/ (route[d] = sid[c] /\ route'[d] = None)
           /\ \A s \in Sids :
                 /\ agent'[s] = IF c \in Agents /\ s = sid[c] /\ s \in sessions THEN None ELSE agent[s]
                 /\ client'[s] = IF c \in Clients /\ s = sid[c] /\ s \in sessions THEN None ELSE client[s]
  <1> USE RelayAssumption DEF TypeOK, Leave, EnterDisconnect, redisVars, Leaving
  <1>1. CASE sid[c] = None
    BY <1>1
  <1>2. CASE sid[c] # None /\ GetPeer(c) # None
    BY <1>2 DEF DetachFields
  <1>3. CASE sid[c] # None /\ GetPeer(c) = None
    BY <1>3 DEF DetachFields, Remove
  <1> QED BY <1>1, <1>2, <1>3

\* A session id appears only when an agent picks it.
LEMMA FreshStep == TypeOK /\ ContextOK /\ FreshOK /\ Kind => FreshOK'
  <1> SUFFICES ASSUME TypeOK, ContextOK, FreshOK, Kind PROVE FreshOK'
    OBVIOUS
  <1> USE RelayAssumption DEF TypeOK, ContextOK, ctxVars, slotVars, tokenVars, redisVars,
          Leaving, Sending, InPairInit, FreshOK
  <1>1. ASSUME Outside PROVE FreshOK'
    BY <1>1 DEF Outside
  <1>2. ASSUME NEW c \in Conns, Stay(c) PROVE FreshOK'
    BY <1>2 DEF Stay
  <1>3. ASSUME NEW c \in Conns, Leave(c) PROVE FreshOK'
    BY <1>3 DEF Leave, EnterDisconnect, GetPeer, DetachFields, Remove
  <1>4. ASSUME NEW c \in Conns, NotifyPeer(c) PROVE FreshOK'
    BY <1>4 DEF NotifyPeer, Remove
  <1>5. ASSUME NEW c \in Conns, DisconnectDelete(c) PROVE FreshOK'
    BY <1>5 DEF DisconnectDelete, Finish
  <1>6. ASSUME NEW c \in Conns, DeleteFault(c), faults' = faults + 1 PROVE FreshOK'
    BY <1>6 DEF DeleteFault, Finish
  <1>7. ASSUME NEW c \in Conns, DeliverClose(c) PROVE FreshOK'
    BY <1>7 DEF DeliverClose, Remove
  <1>8. ASSUME NEW c \in Clients, PairRequestAttach(c) PROVE FreshOK'
    BY <1>8 DEF PairRequestAttach, AttachClient, ClientMayAttach, Conns
  <1>9. ASSUME NEW c \in Clients, ResumeRequestAttach(c) PROVE FreshOK'
    BY <1>9 DEF ResumeRequestAttach, AttachClient, ClientMayAttach, Conns
  <1>10. ASSUME NEW a \in Agents, PairInitRefused(a) PROVE FreshOK'
    BY <1>10 DEF PairInitRefused, Detach, DetachFields, LoopTop, Receive, Conns
  <1>11. ASSUME NEW a \in Agents, PairInitUndo(a) PROVE FreshOK'
    BY <1>11 DEF PairInitUndo, Detach, DetachFields, Finish, Conns
  <1>12. ASSUME NEW a \in Agents, PairInitFault(a), faults' = faults + 1 PROVE FreshOK'
    BY <1>12 DEF PairInitFault, Detach, DetachFields, Finish, Conns
  <1>13. ASSUME NEW a \in Agents, NEW s \in Sids, NEW t \in Tokens, PairInit(a, s, t) PROVE FreshOK'
    BY <1>13 DEF PairInit, AttachAgent, Receiving, Receive, Conns
  <1>14. ASSUME NEW a \in Agents, NEW s \in Sids, NEW d \in Devices, ResumeInit(a, s, d) PROVE FreshOK'
    BY <1>14 DEF ResumeInit, AttachAgent, LoopTop, Receiving, Receive, Conns
  <1> HIDE DEF FreshOK
  <1> QED
    BY <1>1, <1>2, <1>3, <1>4, <1>5, <1>6, <1>7, <1>8, <1>9, <1>10, <1>11, <1>12, <1>13,
       <1>14 DEF Kind

\* Registry and connections stay in agreement.
LEMMA RegistryStep == TypeOK /\ ContextOK /\ FreshOK /\ Registry /\ Kind => Registry'
  <1> SUFFICES ASSUME TypeOK, ContextOK, FreshOK, Registry, Kind PROVE Registry'
    OBVIOUS
  <1> USE RelayAssumption
  <1>1. ASSUME Outside PROVE Registry'
    BY <1>1 DEF Outside, TypeOK, ContextOK, ctxVars, slotVars, tokenVars, redisVars,
       Leaving, Sending, InPairInit, FreshOK, Registry, SlotAgreement, Bound, Exclusive,
       AgentOfSlot, ReservedOK
  <1>2. ASSUME NEW c \in Conns, Stay(c) PROVE Registry'
    <2>1. SlotAgreement'
      BY <1>2, StayEffect DEF Registry, SlotAgreement, Bound, TypeOK, Conns
    <2>2. Exclusive'
      BY <1>2, StayEffect DEF Registry, Exclusive, Bound, Conns
    <2>3. AgentOfSlot'
      BY <1>2, StayEffect DEF Registry, AgentOfSlot, TypeOK, Conns, Leaving
    <2>4. ReservedOK'
      BY <1>2, StayEffect DEF Stay, Registry, ReservedOK, TypeOK, ContextOK, InPairInit
    <2> QED BY <2>1, <2>2, <2>3, <2>4 DEF Registry
  <1>3. ASSUME NEW c \in Conns, Leave(c) PROVE Registry'
    <2>1. SlotAgreement'
      BY <1>3, LeaveEffect DEF Registry, SlotAgreement, Bound, TypeOK, Conns
    <2>2. Exclusive'
      BY <1>3, LeaveEffect DEF Registry, Exclusive, Bound, Conns
    <2>3. AgentOfSlot'
      BY <1>3, LeaveEffect DEF Registry, AgentOfSlot, TypeOK, Conns, Leaving
    <2>4. ReservedOK'
      <3> SUFFICES ASSUME NEW a \in Conns, pc'[a] \in InPairInit
                   PROVE  /\ \A d \in Devices : route'[d] # sid[a]
                          /\ pc'[a] = "issue" =>
                                /\ sid[a] \in sessions'
                                /\ phase[sid[a]] = "pairing" /\ record[sid[a]] = "absent"
                                /\ \A x \in Conns \ {a} : sid[x] # sid[a]
                                /\ \A t \in Tokens : tokenSid[t] # sid[a]
        BY <1>3, LeaveEffect DEF ReservedOK, redisVars
      <3>1. a # c /\ pc[a] \in InPairInit /\ pc'[a] = pc[a] /\ sid[a] # None
        BY <1>3, LeaveEffect DEF Leaving, InPairInit, ContextOK
      <3> QED
        BY <1>3, <3>1, LeaveEffect DEF Registry, ReservedOK
    <2> QED BY <2>1, <2>2, <2>3, <2>4 DEF Registry
  <1>4. ASSUME NEW c \in Conns, NotifyPeer(c) PROVE Registry'
    BY <1>4 DEF NotifyPeer, Remove, TypeOK, ContextOK, ctxVars, slotVars, tokenVars,
       redisVars, Leaving, Sending, InPairInit, FreshOK, Registry, SlotAgreement, Bound,
       Exclusive, AgentOfSlot, ReservedOK
  <1>5. ASSUME NEW c \in Conns, DisconnectDelete(c) PROVE Registry'
    BY <1>5 DEF DisconnectDelete, Finish, TypeOK, ContextOK, ctxVars, slotVars, tokenVars,
       redisVars, Leaving, Sending, InPairInit, FreshOK, Registry, SlotAgreement, Bound,
       Exclusive, AgentOfSlot, ReservedOK
  <1>6. ASSUME NEW c \in Conns, DeleteFault(c), faults' = faults + 1 PROVE Registry'
    BY <1>6 DEF DeleteFault, Finish, TypeOK, ContextOK, ctxVars, slotVars, tokenVars,
       redisVars, Leaving, Sending, InPairInit, FreshOK, Registry, SlotAgreement, Bound,
       Exclusive, AgentOfSlot, ReservedOK
  <1>7. ASSUME NEW c \in Conns, DeliverClose(c) PROVE Registry'
    BY <1>7 DEF DeliverClose, Remove, TypeOK, ContextOK, ctxVars, slotVars, tokenVars,
       redisVars, Leaving, Sending, InPairInit, FreshOK, Registry, SlotAgreement, Bound,
       Exclusive, AgentOfSlot, ReservedOK
  <1>8. ASSUME NEW c \in Clients, PairRequestAttach(c) PROVE Registry'
    <2>1. SlotAgreement'
      BY <1>8 DEF PairRequestAttach, AttachClient, ClientMayAttach, Conns, TypeOK, ContextOK,
       ctxVars, slotVars, tokenVars, redisVars, Leaving, Sending, InPairInit, Registry,
       SlotAgreement, Bound, Exclusive, AgentOfSlot, ReservedOK
    <2>2. Exclusive'
      BY <1>8 DEF PairRequestAttach, AttachClient, ClientMayAttach, Conns, TypeOK, ContextOK,
       ctxVars, slotVars, tokenVars, redisVars, Leaving, Sending, InPairInit, Registry,
       SlotAgreement, Bound, Exclusive, AgentOfSlot, ReservedOK
    <2>3. AgentOfSlot'
      BY <1>8 DEF PairRequestAttach, AttachClient, ClientMayAttach, Conns, TypeOK, ContextOK,
       ctxVars, slotVars, tokenVars, redisVars, Leaving, Sending, InPairInit, Registry,
       SlotAgreement, Bound, Exclusive, AgentOfSlot, ReservedOK
    <2>4. ReservedOK'
      BY <1>8 DEF PairRequestAttach, AttachClient, ClientMayAttach, Conns, TypeOK, ContextOK,
       ctxVars, slotVars, tokenVars, redisVars, Leaving, Sending, InPairInit, Registry,
       SlotAgreement, Bound, Exclusive, AgentOfSlot, ReservedOK
    <2> QED BY <2>1, <2>2, <2>3, <2>4 DEF Registry
  <1>9. ASSUME NEW c \in Clients, ResumeRequestAttach(c) PROVE Registry'
    <2>1. SlotAgreement'
      BY <1>9 DEF ResumeRequestAttach, AttachClient, ClientMayAttach, Conns, TypeOK, ContextOK,
       ctxVars, slotVars, tokenVars, redisVars, Leaving, Sending, InPairInit, Registry,
       SlotAgreement, Bound, Exclusive, AgentOfSlot, ReservedOK
    <2>2. Exclusive'
      BY <1>9 DEF ResumeRequestAttach, AttachClient, ClientMayAttach, Conns, TypeOK, ContextOK,
       ctxVars, slotVars, tokenVars, redisVars, Leaving, Sending, InPairInit, Registry,
       SlotAgreement, Bound, Exclusive, AgentOfSlot, ReservedOK
    <2>3. AgentOfSlot'
      BY <1>9 DEF ResumeRequestAttach, AttachClient, ClientMayAttach, Conns, TypeOK, ContextOK,
       ctxVars, slotVars, tokenVars, redisVars, Leaving, Sending, InPairInit, Registry,
       SlotAgreement, Bound, Exclusive, AgentOfSlot, ReservedOK
    <2>4. ReservedOK'
      BY <1>9 DEF ResumeRequestAttach, AttachClient, ClientMayAttach, Conns, TypeOK, ContextOK,
       ctxVars, slotVars, tokenVars, redisVars, Leaving, Sending, InPairInit, Registry,
       SlotAgreement, Bound, Exclusive, AgentOfSlot, ReservedOK
    <2> QED BY <2>1, <2>2, <2>3, <2>4 DEF Registry
  <1>10. ASSUME NEW a \in Agents, PairInitRefused(a) PROVE Registry'
    BY <1>10 DEF PairInitRefused, Detach, DetachFields, LoopTop, Receive, Conns, TypeOK,
       ContextOK, ctxVars, slotVars, tokenVars, redisVars, Leaving, Sending, InPairInit,
       FreshOK, Registry, SlotAgreement, Bound, Exclusive, AgentOfSlot, ReservedOK
  <1>11. ASSUME NEW a \in Agents, PairInitUndo(a) PROVE Registry'
    BY <1>11 DEF PairInitUndo, Detach, DetachFields, Finish, Conns, TypeOK, ContextOK,
       ctxVars, slotVars, tokenVars, redisVars, Leaving, Sending, InPairInit, FreshOK,
       Registry, SlotAgreement, Bound, Exclusive, AgentOfSlot, ReservedOK
  <1>12. ASSUME NEW a \in Agents, PairInitFault(a), faults' = faults + 1 PROVE Registry'
    BY <1>12 DEF PairInitFault, Detach, DetachFields, Finish, Conns, TypeOK, ContextOK,
       ctxVars, slotVars, tokenVars, redisVars, Leaving, Sending, InPairInit, FreshOK,
       Registry, SlotAgreement, Bound, Exclusive, AgentOfSlot, ReservedOK
  <1>13. ASSUME NEW a \in Agents, NEW s \in Sids, NEW t \in Tokens, PairInit(a, s, t) PROVE Registry'
    BY <1>13 DEF PairInit, AttachAgent, Receiving, Receive, Conns, TypeOK, ContextOK,
       ctxVars, slotVars, tokenVars, redisVars, Leaving, Sending, InPairInit, FreshOK,
       Registry, SlotAgreement, Bound, Exclusive, AgentOfSlot, ReservedOK
  <1>14. ASSUME NEW a \in Agents, NEW s \in Sids, NEW d \in Devices, ResumeInit(a, s, d) PROVE Registry'
    BY <1>14 DEF ResumeInit, AttachAgent, LoopTop, Receiving, Receive, Conns, TypeOK,
       ContextOK, ctxVars, slotVars, tokenVars, redisVars, Leaving, Sending, InPairInit,
       FreshOK, Registry, SlotAgreement, Bound, Exclusive, AgentOfSlot, ReservedOK
  <1> HIDE DEF Registry
  <1> QED
    BY <1>1, <1>2, <1>3, <1>4, <1>5, <1>6, <1>7, <1>8, <1>9, <1>10, <1>11, <1>12, <1>13,
       <1>14 DEF Kind

\* Addressees stay in the sender's session.
LEMMA IsolationStep == TypeOK /\ ContextOK /\ FreshOK /\ Registry /\ Isolation /\ Kind => Isolation'
  <1> SUFFICES ASSUME TypeOK, ContextOK, FreshOK, Registry, Isolation, Kind PROVE Isolation'
    OBVIOUS
  <1> USE RelayAssumption
  <1>1. ASSUME Outside PROVE Isolation'
    BY <1>1 DEF Outside, TypeOK, ContextOK, ctxVars, slotVars, tokenVars, redisVars,
       Leaving, Sending, InPairInit, Isolation, Registry, SlotAgreement, Bound, Exclusive,
       AgentOfSlot, ReservedOK
  <1>2. ASSUME NEW c \in Conns, Stay(c) PROVE Isolation'
    BY <1>2, StayEffect DEF Stay, Isolation, GetPeer, Registry, SlotAgreement, Bound,
       AgentOfSlot, TypeOK, ContextOK, Conns, Leaving
  <1>3. ASSUME NEW c \in Conns, Leave(c) PROVE Isolation'
    BY <1>3, LeaveEffect DEF Isolation, GetPeer, Registry, SlotAgreement, Bound, TypeOK,
       ContextOK, Conns, Leaving
  <1>4. ASSUME NEW c \in Conns, NotifyPeer(c) PROVE Isolation'
    BY <1>4 DEF NotifyPeer, Remove, TypeOK, ContextOK, ctxVars, slotVars, tokenVars,
       redisVars, Leaving, Sending, InPairInit, Isolation, Registry, SlotAgreement, Bound,
       Exclusive, AgentOfSlot, ReservedOK
  <1>5. ASSUME NEW c \in Conns, DisconnectDelete(c) PROVE Isolation'
    BY <1>5 DEF DisconnectDelete, Finish, TypeOK, ContextOK, ctxVars, slotVars, tokenVars,
       redisVars, Leaving, Sending, InPairInit, Isolation, Registry, SlotAgreement, Bound,
       Exclusive, AgentOfSlot, ReservedOK
  <1>6. ASSUME NEW c \in Conns, DeleteFault(c), faults' = faults + 1 PROVE Isolation'
    BY <1>6 DEF DeleteFault, Finish, TypeOK, ContextOK, ctxVars, slotVars, tokenVars,
       redisVars, Leaving, Sending, InPairInit, Isolation, Registry, SlotAgreement, Bound,
       Exclusive, AgentOfSlot, ReservedOK
  <1>7. ASSUME NEW c \in Conns, DeliverClose(c) PROVE Isolation'
    BY <1>7 DEF DeliverClose, Remove, TypeOK, ContextOK, ctxVars, slotVars, tokenVars,
       redisVars, Leaving, Sending, InPairInit, Isolation, Registry, SlotAgreement, Bound,
       Exclusive, AgentOfSlot, ReservedOK
  <1>8. ASSUME NEW c \in Clients, PairRequestAttach(c) PROVE Isolation'
    BY <1>8 DEF PairRequestAttach, AttachClient, ClientMayAttach, Conns, TypeOK, ContextOK,
       ctxVars, slotVars, tokenVars, redisVars, Leaving, Sending, InPairInit, Isolation,
       Registry, SlotAgreement, Bound, Exclusive, AgentOfSlot, ReservedOK
  <1>9. ASSUME NEW c \in Clients, ResumeRequestAttach(c) PROVE Isolation'
    BY <1>9 DEF ResumeRequestAttach, AttachClient, ClientMayAttach, Conns, TypeOK,
       ContextOK, ctxVars, slotVars, tokenVars, redisVars, Leaving, Sending, InPairInit,
       Isolation, Registry, SlotAgreement, Bound, Exclusive, AgentOfSlot, ReservedOK
  <1>10. ASSUME NEW a \in Agents, PairInitRefused(a) PROVE Isolation'
    BY <1>10 DEF PairInitRefused, Detach, DetachFields, LoopTop, Receive, Conns, TypeOK,
       ContextOK, ctxVars, slotVars, tokenVars, redisVars, Leaving, Sending, InPairInit,
       Isolation, Registry, SlotAgreement, Bound, Exclusive, AgentOfSlot, ReservedOK
  <1>11. ASSUME NEW a \in Agents, PairInitUndo(a) PROVE Isolation'
    BY <1>11 DEF PairInitUndo, Detach, DetachFields, Finish, Conns, TypeOK, ContextOK,
       ctxVars, slotVars, tokenVars, redisVars, Leaving, Sending, InPairInit, Isolation,
       Registry, SlotAgreement, Bound, Exclusive, AgentOfSlot, ReservedOK
  <1>12. ASSUME NEW a \in Agents, PairInitFault(a), faults' = faults + 1 PROVE Isolation'
    BY <1>12 DEF PairInitFault, Detach, DetachFields, Finish, Conns, TypeOK, ContextOK,
       ctxVars, slotVars, tokenVars, redisVars, Leaving, Sending, InPairInit, Isolation,
       Registry, SlotAgreement, Bound, Exclusive, AgentOfSlot, ReservedOK
  <1>13. ASSUME NEW a \in Agents, NEW s \in Sids, NEW t \in Tokens, PairInit(a, s, t) PROVE Isolation'
    BY <1>13 DEF PairInit, AttachAgent, Receiving, Receive, Conns, TypeOK, ContextOK,
       ctxVars, slotVars, tokenVars, redisVars, Leaving, Sending, InPairInit, Isolation,
       Registry, SlotAgreement, Bound, Exclusive, AgentOfSlot, ReservedOK
  <1>14. ASSUME NEW a \in Agents, NEW s \in Sids, NEW d \in Devices, ResumeInit(a, s, d) PROVE Isolation'
    BY <1>14 DEF ResumeInit, AttachAgent, LoopTop, Receiving, Receive, Conns, TypeOK,
       ContextOK, ctxVars, slotVars, tokenVars, redisVars, Leaving, Sending, InPairInit,
       Isolation, Registry, SlotAgreement, Bound, Exclusive, AgentOfSlot, ReservedOK
  <1> HIDE DEF Isolation
  <1> QED
    BY <1>1, <1>2, <1>3, <1>4, <1>5, <1>6, <1>7, <1>8, <1>9, <1>10, <1>11, <1>12, <1>13,
       <1>14 DEF Kind

\* A pending token leads to an untouched session.
LEMMA PendingStep == TypeOK /\ ContextOK /\ FreshOK /\ Registry /\ PendingOK /\ Kind => PendingOK'
  <1> SUFFICES ASSUME TypeOK, ContextOK, FreshOK, Registry, PendingOK, Kind PROVE PendingOK'
    OBVIOUS
  <1> USE RelayAssumption
  <1>1. ASSUME Outside PROVE PendingOK'
    BY <1>1 DEF Outside, TypeOK, ContextOK, ctxVars, slotVars, tokenVars, redisVars,
       Leaving, Sending, InPairInit, FreshOK, PendingOK, Registry, SlotAgreement, Bound,
       Exclusive, AgentOfSlot, ReservedOK
  <1>2. ASSUME NEW c \in Conns, Stay(c) PROVE PendingOK'
    BY <1>2 DEF Stay, PendingOK, GetPeer, Registry, SlotAgreement, Bound, ReservedOK, FreshOK,
       TypeOK, ContextOK, InPairInit, Leaving, Conns
  <1>3. ASSUME NEW c \in Conns, Leave(c) PROVE PendingOK'
    BY <1>3, LeaveEffect DEF PendingOK, TypeOK, redisVars
  <1>4. ASSUME NEW c \in Conns, NotifyPeer(c) PROVE PendingOK'
    BY <1>4 DEF NotifyPeer, Remove, TypeOK, ContextOK, ctxVars, slotVars, tokenVars,
       redisVars, Leaving, Sending, InPairInit, FreshOK, PendingOK, Registry, SlotAgreement,
       Bound, Exclusive, AgentOfSlot, ReservedOK
  <1>5. ASSUME NEW c \in Conns, DisconnectDelete(c) PROVE PendingOK'
    BY <1>5 DEF DisconnectDelete, Finish, TypeOK, ContextOK, ctxVars, slotVars, tokenVars,
       redisVars, Leaving, Sending, InPairInit, FreshOK, PendingOK, Registry, SlotAgreement,
       Bound, Exclusive, AgentOfSlot, ReservedOK
  <1>6. ASSUME NEW c \in Conns, DeleteFault(c), faults' = faults + 1 PROVE PendingOK'
    BY <1>6 DEF DeleteFault, Finish, TypeOK, ContextOK, ctxVars, slotVars, tokenVars,
       redisVars, Leaving, Sending, InPairInit, FreshOK, PendingOK, Registry, SlotAgreement,
       Bound, Exclusive, AgentOfSlot, ReservedOK
  <1>7. ASSUME NEW c \in Conns, DeliverClose(c) PROVE PendingOK'
    BY <1>7 DEF DeliverClose, Remove, TypeOK, ContextOK, ctxVars, slotVars, tokenVars,
       redisVars, Leaving, Sending, InPairInit, FreshOK, PendingOK, Registry, SlotAgreement,
       Bound, Exclusive, AgentOfSlot, ReservedOK
  <1>8. ASSUME NEW c \in Clients, PairRequestAttach(c) PROVE PendingOK'
    BY <1>8 DEF PairRequestAttach, AttachClient, ClientMayAttach, Conns, TypeOK, ContextOK,
       ctxVars, slotVars, tokenVars, redisVars, Leaving, Sending, InPairInit, FreshOK,
       PendingOK, Registry, SlotAgreement, Bound, Exclusive, AgentOfSlot, ReservedOK
  <1>9. ASSUME NEW c \in Clients, ResumeRequestAttach(c) PROVE PendingOK'
    BY <1>9 DEF ResumeRequestAttach, AttachClient, ClientMayAttach, Conns, TypeOK,
       ContextOK, ctxVars, slotVars, tokenVars, redisVars, Leaving, Sending, InPairInit,
       FreshOK, PendingOK, Registry, SlotAgreement, Bound, Exclusive, AgentOfSlot,
       ReservedOK
  <1>10. ASSUME NEW a \in Agents, PairInitRefused(a) PROVE PendingOK'
    BY <1>10 DEF PairInitRefused, Detach, DetachFields, LoopTop, Receive, Conns, TypeOK,
       ContextOK, ctxVars, slotVars, tokenVars, redisVars, Leaving, Sending, InPairInit,
       FreshOK, PendingOK, Registry, SlotAgreement, Bound, Exclusive, AgentOfSlot,
       ReservedOK
  <1>11. ASSUME NEW a \in Agents, PairInitUndo(a) PROVE PendingOK'
    BY <1>11 DEF PairInitUndo, Detach, DetachFields, Finish, Conns, TypeOK, ContextOK,
       ctxVars, slotVars, tokenVars, redisVars, Leaving, Sending, InPairInit, FreshOK,
       PendingOK, Registry, SlotAgreement, Bound, Exclusive, AgentOfSlot, ReservedOK
  <1>12. ASSUME NEW a \in Agents, PairInitFault(a), faults' = faults + 1 PROVE PendingOK'
    BY <1>12 DEF PairInitFault, Detach, DetachFields, Finish, Conns, TypeOK, ContextOK,
       ctxVars, slotVars, tokenVars, redisVars, Leaving, Sending, InPairInit, FreshOK,
       PendingOK, Registry, SlotAgreement, Bound, Exclusive, AgentOfSlot, ReservedOK
  <1>13. ASSUME NEW a \in Agents, NEW s \in Sids, NEW t \in Tokens, PairInit(a, s, t) PROVE PendingOK'
    BY <1>13 DEF PairInit, AttachAgent, Receiving, Receive, Conns, TypeOK, ContextOK,
       ctxVars, slotVars, tokenVars, redisVars, Leaving, Sending, InPairInit, FreshOK,
       PendingOK, Registry, SlotAgreement, Bound, Exclusive, AgentOfSlot, ReservedOK
  <1>14. ASSUME NEW a \in Agents, NEW s \in Sids, NEW d \in Devices, ResumeInit(a, s, d) PROVE PendingOK'
    BY <1>14 DEF ResumeInit, AttachAgent, LoopTop, Receiving, Receive, Conns, TypeOK,
       ContextOK, ctxVars, slotVars, tokenVars, redisVars, Leaving, Sending, InPairInit,
       FreshOK, PendingOK, Registry, SlotAgreement, Bound, Exclusive, AgentOfSlot,
       ReservedOK
  <1> HIDE DEF PendingOK
  <1> QED
    BY <1>1, <1>2, <1>3, <1>4, <1>5, <1>6, <1>7, <1>8, <1>9, <1>10, <1>11, <1>12, <1>13,
       <1>14 DEF Kind

\* A device route has an owner until the session is torn down.
LEMMA RouteStep == TypeOK /\ ContextOK /\ FreshOK /\ Registry /\ Routed /\ Kind => Routed'
  <1> SUFFICES ASSUME TypeOK, ContextOK, FreshOK, Registry, Routed, Kind PROVE Routed'
    OBVIOUS
  <1> USE RelayAssumption
  <1>1. ASSUME Outside PROVE Routed'
    BY <1>1 DEF Outside, TypeOK, ContextOK, ctxVars, slotVars, tokenVars, redisVars,
       Leaving, Sending, InPairInit, FreshOK, Routed, TornDown, RouteHasOwner, Registry,
       SlotAgreement, Bound, Exclusive, AgentOfSlot, ReservedOK
  <1>2. ASSUME NEW c \in Conns, Stay(c) PROVE Routed'
    BY <1>2, StayEffect DEF Routed, TornDown, RouteHasOwner, TypeOK, Conns, Leaving
  <1>3. ASSUME NEW c \in Conns, Leave(c) PROVE Routed'
    BY <1>3, LeaveEffect DEF Routed, TornDown, RouteHasOwner, TypeOK, ContextOK, Conns, Leaving
  <1>4. ASSUME NEW c \in Conns, NotifyPeer(c) PROVE Routed'
    BY <1>4 DEF NotifyPeer, Remove, TypeOK, ContextOK, ctxVars, slotVars, tokenVars,
       redisVars, Leaving, Sending, InPairInit, FreshOK, Routed, TornDown, RouteHasOwner,
       Registry, SlotAgreement, Bound, Exclusive, AgentOfSlot, ReservedOK
  <1>5. ASSUME NEW c \in Conns, DisconnectDelete(c) PROVE Routed'
    BY <1>5 DEF DisconnectDelete, Finish, TypeOK, ContextOK, ctxVars, slotVars, tokenVars,
       redisVars, Leaving, Sending, InPairInit, FreshOK, Routed, TornDown, RouteHasOwner,
       Registry, SlotAgreement, Bound, Exclusive, AgentOfSlot, ReservedOK
  <1>6. ASSUME NEW c \in Conns, DeleteFault(c), faults' = faults + 1 PROVE Routed'
    BY <1>6 DEF DeleteFault, Finish, TypeOK, ContextOK, ctxVars, slotVars, tokenVars,
       redisVars, Leaving, Sending, InPairInit, FreshOK, Routed, TornDown, RouteHasOwner,
       Registry, SlotAgreement, Bound, Exclusive, AgentOfSlot, ReservedOK
  <1>7. ASSUME NEW c \in Conns, DeliverClose(c) PROVE Routed'
    BY <1>7 DEF DeliverClose, Remove, TypeOK, ContextOK, ctxVars, slotVars, tokenVars,
       redisVars, Leaving, Sending, InPairInit, FreshOK, Routed, TornDown, RouteHasOwner,
       Registry, SlotAgreement, Bound, Exclusive, AgentOfSlot, ReservedOK
  <1>8. ASSUME NEW c \in Clients, PairRequestAttach(c) PROVE Routed'
    BY <1>8 DEF PairRequestAttach, AttachClient, ClientMayAttach, Conns, TypeOK, ContextOK,
       ctxVars, slotVars, tokenVars, redisVars, Leaving, Sending, InPairInit, FreshOK,
       Routed, TornDown, RouteHasOwner, Registry, SlotAgreement, Bound, Exclusive,
       AgentOfSlot, ReservedOK
  <1>9. ASSUME NEW c \in Clients, ResumeRequestAttach(c) PROVE Routed'
    BY <1>9 DEF ResumeRequestAttach, AttachClient, ClientMayAttach, Conns, TypeOK,
       ContextOK, ctxVars, slotVars, tokenVars, redisVars, Leaving, Sending, InPairInit,
       FreshOK, Routed, TornDown, RouteHasOwner, Registry, SlotAgreement, Bound, Exclusive,
       AgentOfSlot, ReservedOK
  <1>10. ASSUME NEW a \in Agents, PairInitRefused(a) PROVE Routed'
    BY <1>10 DEF PairInitRefused, Detach, DetachFields, LoopTop, Receive, Conns, TypeOK,
       ContextOK, ctxVars, slotVars, tokenVars, redisVars, Leaving, Sending, InPairInit,
       FreshOK, Routed, TornDown, RouteHasOwner, Registry, SlotAgreement, Bound, Exclusive,
       AgentOfSlot, ReservedOK
  <1>11. ASSUME NEW a \in Agents, PairInitUndo(a) PROVE Routed'
    BY <1>11 DEF PairInitUndo, Detach, DetachFields, Finish, Conns, TypeOK, ContextOK,
       ctxVars, slotVars, tokenVars, redisVars, Leaving, Sending, InPairInit, FreshOK,
       Routed, TornDown, RouteHasOwner, Registry, SlotAgreement, Bound, Exclusive,
       AgentOfSlot, ReservedOK
  <1>12. ASSUME NEW a \in Agents, PairInitFault(a), faults' = faults + 1 PROVE Routed'
    BY <1>12 DEF PairInitFault, Detach, DetachFields, Finish, Conns, TypeOK, ContextOK,
       ctxVars, slotVars, tokenVars, redisVars, Leaving, Sending, InPairInit, FreshOK,
       Routed, TornDown, RouteHasOwner, Registry, SlotAgreement, Bound, Exclusive,
       AgentOfSlot, ReservedOK
  <1>13. ASSUME NEW a \in Agents, NEW s \in Sids, NEW t \in Tokens, PairInit(a, s, t) PROVE Routed'
    BY <1>13 DEF PairInit, AttachAgent, Receiving, Receive, Conns, TypeOK, ContextOK,
       ctxVars, slotVars, tokenVars, redisVars, Leaving, Sending, InPairInit, FreshOK,
       Routed, TornDown, RouteHasOwner, Registry, SlotAgreement, Bound, Exclusive,
       AgentOfSlot, ReservedOK
  <1>14. ASSUME NEW a \in Agents, NEW s \in Sids, NEW d \in Devices, ResumeInit(a, s, d) PROVE Routed'
    BY <1>14 DEF ResumeInit, AttachAgent, LoopTop, Receiving, Receive, Conns, TypeOK,
       ContextOK, ctxVars, slotVars, tokenVars, redisVars, Leaving, Sending, InPairInit,
       FreshOK, Routed, TornDown, RouteHasOwner, Registry, SlotAgreement, Bound, Exclusive,
       AgentOfSlot, ReservedOK
  <1> HIDE DEF Routed
  <1> QED
    BY <1>1, <1>2, <1>3, <1>4, <1>5, <1>6, <1>7, <1>8, <1>9, <1>10, <1>11, <1>12, <1>13,
       <1>14 DEF Kind

\* A lasting record has an owner.
LEMMA RecordStep == TypeOK /\ ContextOK /\ FreshOK /\ Registry /\ Recorded /\ Kind => Recorded'
  <1> SUFFICES ASSUME TypeOK, ContextOK, FreshOK, Registry, Recorded, Kind PROVE Recorded'
    OBVIOUS
  <1> USE RelayAssumption
  <1>1. ASSUME Outside PROVE Recorded'
    BY <1>1 DEF Outside, TypeOK, ContextOK, ctxVars, slotVars, tokenVars, redisVars,
       Leaving, Sending, InPairInit, FreshOK, Recorded, UndoMeansFault, RecordHasOwner,
       Registry, SlotAgreement, Bound, Exclusive, AgentOfSlot, ReservedOK
  <1>2. ASSUME NEW c \in Conns, Stay(c) PROVE Recorded'
    BY <1>2, StayEffect DEF Stay, Recorded, UndoMeansFault, RecordHasOwner, TypeOK, ContextOK,
       Conns, Leaving
  <1>3. ASSUME NEW c \in Conns, Leave(c) PROVE Recorded'
    BY <1>3, LeaveEffect DEF Leave, Recorded, UndoMeansFault, RecordHasOwner, TypeOK,
       redisVars, Conns, Leaving
  <1>4. ASSUME NEW c \in Conns, NotifyPeer(c) PROVE Recorded'
    BY <1>4 DEF NotifyPeer, Remove, TypeOK, ContextOK, ctxVars, slotVars, tokenVars,
       redisVars, Leaving, Sending, InPairInit, FreshOK, Recorded, UndoMeansFault,
       RecordHasOwner, Registry, SlotAgreement, Bound, Exclusive, AgentOfSlot, ReservedOK
  <1>5. ASSUME NEW c \in Conns, DisconnectDelete(c) PROVE Recorded'
    BY <1>5 DEF DisconnectDelete, Finish, TypeOK, ContextOK, ctxVars, slotVars, tokenVars,
       redisVars, Leaving, Sending, InPairInit, FreshOK, Recorded, UndoMeansFault,
       RecordHasOwner, Registry, SlotAgreement, Bound, Exclusive, AgentOfSlot, ReservedOK
  <1>6. ASSUME NEW c \in Conns, DeleteFault(c), faults' = faults + 1 PROVE Recorded'
    BY <1>6 DEF DeleteFault, Finish, TypeOK, ContextOK, ctxVars, slotVars, tokenVars,
       redisVars, Leaving, Sending, InPairInit, FreshOK, Recorded, UndoMeansFault,
       RecordHasOwner, Registry, SlotAgreement, Bound, Exclusive, AgentOfSlot, ReservedOK
  <1>7. ASSUME NEW c \in Conns, DeliverClose(c) PROVE Recorded'
    BY <1>7 DEF DeliverClose, Remove, TypeOK, ContextOK, ctxVars, slotVars, tokenVars,
       redisVars, Leaving, Sending, InPairInit, FreshOK, Recorded, UndoMeansFault,
       RecordHasOwner, Registry, SlotAgreement, Bound, Exclusive, AgentOfSlot, ReservedOK
  <1>8. ASSUME NEW c \in Clients, PairRequestAttach(c) PROVE Recorded'
    BY <1>8 DEF PairRequestAttach, AttachClient, ClientMayAttach, Conns, TypeOK, ContextOK,
       ctxVars, slotVars, tokenVars, redisVars, Leaving, Sending, InPairInit, FreshOK,
       Recorded, UndoMeansFault, RecordHasOwner, Registry, SlotAgreement, Bound, Exclusive,
       AgentOfSlot, ReservedOK
  <1>9. ASSUME NEW c \in Clients, ResumeRequestAttach(c) PROVE Recorded'
    BY <1>9 DEF ResumeRequestAttach, AttachClient, ClientMayAttach, Conns, TypeOK,
       ContextOK, ctxVars, slotVars, tokenVars, redisVars, Leaving, Sending, InPairInit,
       FreshOK, Recorded, UndoMeansFault, RecordHasOwner, Registry, SlotAgreement, Bound,
       Exclusive, AgentOfSlot, ReservedOK
  <1>10. ASSUME NEW a \in Agents, PairInitRefused(a) PROVE Recorded'
    BY <1>10 DEF PairInitRefused, Detach, DetachFields, LoopTop, Receive, Conns, TypeOK,
       ContextOK, ctxVars, slotVars, tokenVars, redisVars, Leaving, Sending, InPairInit,
       FreshOK, Recorded, UndoMeansFault, RecordHasOwner, Registry, SlotAgreement, Bound,
       Exclusive, AgentOfSlot, ReservedOK
  <1>11. ASSUME NEW a \in Agents, PairInitUndo(a) PROVE Recorded'
    BY <1>11 DEF PairInitUndo, Detach, DetachFields, Finish, Conns, TypeOK, ContextOK,
       ctxVars, slotVars, tokenVars, redisVars, Leaving, Sending, InPairInit, FreshOK,
       Recorded, UndoMeansFault, RecordHasOwner, Registry, SlotAgreement, Bound, Exclusive,
       AgentOfSlot, ReservedOK
  <1>12. ASSUME NEW a \in Agents, PairInitFault(a), faults' = faults + 1 PROVE Recorded'
    BY <1>12 DEF PairInitFault, Detach, DetachFields, Finish, Conns, TypeOK, ContextOK,
       ctxVars, slotVars, tokenVars, redisVars, Leaving, Sending, InPairInit, FreshOK,
       Recorded, UndoMeansFault, RecordHasOwner, Registry, SlotAgreement, Bound, Exclusive,
       AgentOfSlot, ReservedOK
  <1>13. ASSUME NEW a \in Agents, NEW s \in Sids, NEW t \in Tokens, PairInit(a, s, t) PROVE Recorded'
    BY <1>13 DEF PairInit, AttachAgent, Receiving, Receive, Conns, TypeOK, ContextOK,
       ctxVars, slotVars, tokenVars, redisVars, Leaving, Sending, InPairInit, FreshOK,
       Recorded, UndoMeansFault, RecordHasOwner, Registry, SlotAgreement, Bound, Exclusive,
       AgentOfSlot, ReservedOK
  <1>14. ASSUME NEW a \in Agents, NEW s \in Sids, NEW d \in Devices, ResumeInit(a, s, d) PROVE Recorded'
    BY <1>14 DEF ResumeInit, AttachAgent, LoopTop, Receiving, Receive, Conns, TypeOK,
       ContextOK, ctxVars, slotVars, tokenVars, redisVars, Leaving, Sending, InPairInit,
       FreshOK, Recorded, UndoMeansFault, RecordHasOwner, Registry, SlotAgreement, Bound,
       Exclusive, AgentOfSlot, ReservedOK
  <1> HIDE DEF Recorded
  <1> QED
    BY <1>1, <1>2, <1>3, <1>4, <1>5, <1>6, <1>7, <1>8, <1>9, <1>10, <1>11, <1>12, <1>13,
       <1>14 DEF Kind

\* A half-open slot is being left.
LEMMA HalfOpenStep == TypeOK /\ ContextOK /\ FreshOK /\ Registry /\ UndoMeansFault /\ HalfOpenIsLeaving /\ Kind => HalfOpenIsLeaving'
  <1> SUFFICES ASSUME TypeOK, ContextOK, FreshOK, Registry, UndoMeansFault, HalfOpenIsLeaving, Kind PROVE HalfOpenIsLeaving'
    OBVIOUS
  <1> USE RelayAssumption
  <1>1. ASSUME Outside PROVE HalfOpenIsLeaving'
    BY <1>1 DEF Outside, TypeOK, ContextOK, ctxVars, slotVars, tokenVars, redisVars,
       Leaving, Sending, InPairInit, FreshOK, UndoMeansFault, HalfOpenIsLeaving, Registry,
       SlotAgreement, Bound, Exclusive, AgentOfSlot, ReservedOK
  <1>2. ASSUME NEW c \in Conns, Stay(c) PROVE HalfOpenIsLeaving'
    BY <1>2, StayEffect DEF Stay, HalfOpenIsLeaving, GetPeer, TypeOK, ContextOK, Conns, Leaving
  <1>3. ASSUME NEW c \in Conns, Leave(c) PROVE HalfOpenIsLeaving'
    BY <1>3, LeaveEffect DEF Leave, HalfOpenIsLeaving, GetPeer, Registry, SlotAgreement, Bound,
       TypeOK, redisVars, Conns, Leaving
  <1>4. ASSUME NEW c \in Conns, NotifyPeer(c) PROVE HalfOpenIsLeaving'
    BY <1>4 DEF NotifyPeer, Remove, TypeOK, ContextOK, ctxVars, slotVars, tokenVars,
       redisVars, Leaving, Sending, InPairInit, FreshOK, UndoMeansFault, HalfOpenIsLeaving,
       Registry, SlotAgreement, Bound, Exclusive, AgentOfSlot, ReservedOK
  <1>5. ASSUME NEW c \in Conns, DisconnectDelete(c) PROVE HalfOpenIsLeaving'
    BY <1>5 DEF DisconnectDelete, Finish, TypeOK, ContextOK, ctxVars, slotVars, tokenVars,
       redisVars, Leaving, Sending, InPairInit, FreshOK, UndoMeansFault, HalfOpenIsLeaving,
       Registry, SlotAgreement, Bound, Exclusive, AgentOfSlot, ReservedOK
  <1>6. ASSUME NEW c \in Conns, DeleteFault(c), faults' = faults + 1 PROVE HalfOpenIsLeaving'
    BY <1>6 DEF DeleteFault, Finish, TypeOK, ContextOK, ctxVars, slotVars, tokenVars,
       redisVars, Leaving, Sending, InPairInit, FreshOK, UndoMeansFault, HalfOpenIsLeaving,
       Registry, SlotAgreement, Bound, Exclusive, AgentOfSlot, ReservedOK
  <1>7. ASSUME NEW c \in Conns, DeliverClose(c) PROVE HalfOpenIsLeaving'
    BY <1>7 DEF DeliverClose, Remove, TypeOK, ContextOK, ctxVars, slotVars, tokenVars,
       redisVars, Leaving, Sending, InPairInit, FreshOK, UndoMeansFault, HalfOpenIsLeaving,
       Registry, SlotAgreement, Bound, Exclusive, AgentOfSlot, ReservedOK
  <1>8. ASSUME NEW c \in Clients, PairRequestAttach(c) PROVE HalfOpenIsLeaving'
    BY <1>8 DEF PairRequestAttach, AttachClient, ClientMayAttach, Conns, TypeOK, ContextOK,
       ctxVars, slotVars, tokenVars, redisVars, Leaving, Sending, InPairInit, FreshOK,
       UndoMeansFault, HalfOpenIsLeaving, Registry, SlotAgreement, Bound, Exclusive,
       AgentOfSlot, ReservedOK
  <1>9. ASSUME NEW c \in Clients, ResumeRequestAttach(c) PROVE HalfOpenIsLeaving'
    BY <1>9 DEF ResumeRequestAttach, AttachClient, ClientMayAttach, Conns, TypeOK,
       ContextOK, ctxVars, slotVars, tokenVars, redisVars, Leaving, Sending, InPairInit,
       FreshOK, UndoMeansFault, HalfOpenIsLeaving, Registry, SlotAgreement, Bound,
       Exclusive, AgentOfSlot, ReservedOK
  <1>10. ASSUME NEW a \in Agents, PairInitRefused(a) PROVE HalfOpenIsLeaving'
    BY <1>10 DEF PairInitRefused, Detach, DetachFields, LoopTop, Receive, Conns, TypeOK,
       ContextOK, ctxVars, slotVars, tokenVars, redisVars, Leaving, Sending, InPairInit,
       FreshOK, UndoMeansFault, HalfOpenIsLeaving, Registry, SlotAgreement, Bound,
       Exclusive, AgentOfSlot, ReservedOK
  <1>11. ASSUME NEW a \in Agents, PairInitUndo(a) PROVE HalfOpenIsLeaving'
    BY <1>11 DEF PairInitUndo, Detach, DetachFields, Finish, Conns, TypeOK, ContextOK,
       ctxVars, slotVars, tokenVars, redisVars, Leaving, Sending, InPairInit, FreshOK,
       UndoMeansFault, HalfOpenIsLeaving, Registry, SlotAgreement, Bound, Exclusive,
       AgentOfSlot, ReservedOK
  <1>12. ASSUME NEW a \in Agents, PairInitFault(a), faults' = faults + 1 PROVE HalfOpenIsLeaving'
    BY <1>12 DEF PairInitFault, Detach, DetachFields, Finish, Conns, TypeOK, ContextOK,
       ctxVars, slotVars, tokenVars, redisVars, Leaving, Sending, InPairInit, FreshOK,
       UndoMeansFault, HalfOpenIsLeaving, Registry, SlotAgreement, Bound, Exclusive,
       AgentOfSlot, ReservedOK
  <1>13. ASSUME NEW a \in Agents, NEW s \in Sids, NEW t \in Tokens, PairInit(a, s, t) PROVE HalfOpenIsLeaving'
    BY <1>13 DEF PairInit, AttachAgent, Receiving, Receive, Conns, TypeOK, ContextOK,
       ctxVars, slotVars, tokenVars, redisVars, Leaving, Sending, InPairInit, FreshOK,
       UndoMeansFault, HalfOpenIsLeaving, Registry, SlotAgreement, Bound, Exclusive,
       AgentOfSlot, ReservedOK
  <1>14. ASSUME NEW a \in Agents, NEW s \in Sids, NEW d \in Devices, ResumeInit(a, s, d) PROVE HalfOpenIsLeaving'
    BY <1>14 DEF ResumeInit, AttachAgent, LoopTop, Receiving, Receive, Conns, TypeOK,
       ContextOK, ctxVars, slotVars, tokenVars, redisVars, Leaving, Sending, InPairInit,
       FreshOK, UndoMeansFault, HalfOpenIsLeaving, Registry, SlotAgreement, Bound,
       Exclusive, AgentOfSlot, ReservedOK
  <1> HIDE DEF HalfOpenIsLeaving
  <1> QED
    BY <1>1, <1>2, <1>3, <1>4, <1>5, <1>6, <1>7, <1>8, <1>9, <1>10, <1>11, <1>12, <1>13,
       <1>14 DEF Kind

(***************************************************************************)
(* The theorems.                                                           *)
(***************************************************************************)

\* Initially nothing is connected to anything.
LEMMA InvInit == Init => IInv
  <1> SUFFICES ASSUME Init PROVE IInv
    OBVIOUS
  <1> USE RelayAssumption
  <1>1. TypeOK /\ ContextOK
    BY WellFormedInit
  <1>2. FreshOK /\ SlotAgreement /\ Exclusive /\ AgentOfSlot /\ ReservedOK
    BY DEF Init, FreshOK, SlotAgreement, Exclusive, Bound, AgentOfSlot, ReservedOK, InPairInit, Conns
  <1>3. Isolation /\ PendingOK /\ TornDown /\ RouteHasOwner
    BY DEF Init, Isolation, PendingOK, TornDown, RouteHasOwner
  <1>4. UndoMeansFault /\ RecordHasOwner /\ HalfOpenIsLeaving
    BY DEF Init, UndoMeansFault, RecordHasOwner, HalfOpenIsLeaving
  <1> QED BY <1>1, <1>2, <1>3, <1>4 DEF IInv

\* Every step keeps the inductive invariant.
LEMMA InvStep == IInv /\ [Next]_vars => IInv'
  <1> SUFFICES ASSUME IInv, [Next]_vars PROVE IInv'
    OBVIOUS
  <1>1. TypeOK' /\ ContextOK'
    BY WellFormedStep DEF IInv
  <1>2. Kind
    BY KindOfStep DEF IInv
  <1>3. FreshOK'
    BY <1>2, FreshStep DEF IInv
  <1>4. Registry'
    BY <1>2, RegistryStep DEF IInv, Registry
  <1>5. Isolation' /\ PendingOK'
    BY <1>2, IsolationStep, PendingStep DEF IInv, Registry
  <1>6. Routed' /\ Recorded'
    BY <1>2, RouteStep, RecordStep DEF IInv, Registry, Routed, Recorded
  <1>7. HalfOpenIsLeaving'
    BY <1>2, HalfOpenStep DEF IInv, Registry
  <1> QED
    BY <1>1, <1>3, <1>4, <1>5, <1>6, <1>7 DEF IInv, Registry, Routed, Recorded

\* The inductive invariant holds in every reachable state of the relay, for
\* any number of connections, sessions, tokens, devices and Redis faults.
THEOREM Invariance == Spec => []IInv
  BY InvInit, InvStep, PTL DEF Spec

\* The registry and the contexts of the connections agree.
THEOREM RegistryAgrees == Spec => []SlotAgreement
  <1>1. IInv => SlotAgreement
    BY DEF IInv
  <1> QED BY <1>1, Invariance, PTL

\* No message is ever on its way to a connection of another session.
THEOREM SessionsIsolated == Spec => []Isolation
  <1>1. IInv => Isolation
    BY DEF IInv
  <1> QED BY <1>1, Invariance, PTL

\* A session has one live agent and one live client at most.
THEOREM OneController == Spec => []Exclusive
  <1>1. IInv => Exclusive
    BY DEF IInv
  <1> QED BY <1>1, Invariance, PTL

\* A device is locked to a session only while an agent is bound to it.
THEOREM RoutesOwned == Spec => []RouteHasOwner
  <1>1. IInv => RouteHasOwner
    BY DEF IInv
  <1> QED BY <1>1, Invariance, PTL

\* Without Redis faults no session record outlives its connections for good.
THEOREM RecordsOwned == Spec => []RecordHasOwner
  <1>1. IInv => RecordHasOwner
    BY DEF IInv
  <1> QED BY <1>1, Invariance, PTL

\* A slot with a missing side is being torn down.
THEOREM HalfOpenTransient == Spec => []HalfOpenIsLeaving
  <1>1. IInv => HalfOpenIsLeaving
    BY DEF IInv
  <1> QED BY <1>1, Invariance, PTL

\* A client never attaches to a session that is authenticated already: through
\* a token it finds the phase "pairing", through a device it sets "resuming".
THEOREM AuthenticationNotInherited == Spec => AuthNotInherited
  <1> DEFINE A == \A s \in Sids : client'[s] \notin {None, client[s]} => phase'[s] # "established"
  <1>1. IInv /\ [Next]_vars => [A]_vars
    <2> SUFFICES ASSUME IInv, Kind, NEW s \in Sids, client'[s] \notin {None, client[s]}
                 PROVE  phase'[s] # "established"
      BY KindOfStep DEF IInv
    <2> USE RelayAssumption DEF IInv, TypeOK, ContextOK, Conns
    <2>1. CASE \E c \in Clients : PairRequestAttach(c)
      BY <2>1 DEF PairRequestAttach, AttachClient, PendingOK, ClientMayAttach
    <2>2. CASE \E c \in Clients : ResumeRequestAttach(c)
      BY <2>2 DEF ResumeRequestAttach, AttachClient, ClientMayAttach
    <2>3. ASSUME NEW c \in Conns, Leave(c) PROVE FALSE
      BY <2>3, LeaveEffect
    <2>4. ASSUME NEW a \in Agents, PairInitRefused(a) \/ PairInitUndo(a) \/ PairInitFault(a) PROVE FALSE
      BY <2>4 DEF PairInitRefused, PairInitUndo, PairInitFault, Detach, DetachFields
    <2>5. ASSUME NEW a \in Agents, NEW r \in Sids,
                 \/ \E t \in Tokens : PairInit(a, r, t)
                 \/ \E d \in Devices : ResumeInit(a, r, d)
          PROVE  FALSE
      BY <2>5 DEF PairInit, ResumeInit, AttachAgent
    <2>6. ASSUME \/ Outside
                 \/ \E c \in Conns : \/ Stay(c) \/ NotifyPeer(c) \/ DisconnectDelete(c)
                                     \/ DeleteFault(c) \/ DeliverClose(c)
          PROVE  FALSE
      BY <2>6 DEF Outside, Stay, NotifyPeer, DisconnectDelete, DeleteFault, DeliverClose, slotVars
    <2> HIDE DEF IInv, TypeOK, ContextOK, Conns
    <2> QED BY <2>1, <2>2, <2>3, <2>4, <2>5, <2>6 DEF Kind
  <1> QED BY <1>1, Invariance, PTL DEF Spec, AuthNotInherited

(***************************************************************************)
(* The refinement, kind by kind.                                           *)
(***************************************************************************)

\* SessionLifecycle sees nothing happen to s
Unseen(s) ==
    /\ StageOf(s)' = StageOf(s) /\ OwnerOf(s)' = OwnerOf(s)
    /\ ControllerOf(s)' = ControllerOf(s) /\ (Trusted(s)' <=> Trusted(s))

LifecycleStep ==
    [Lifecycle!LifecycleNext]_<<[s \in Sids |-> StageOf(s)], [s \in Sids |-> OwnerOf(s)],
                                [s \in Sids |-> ControllerOf(s)], [s \in Sids |-> Trusted(s)]>>

\* A step that SessionLifecycle does not see is a stutter of it.
LEMMA Stutter == ASSUME \A r \in Sids : Unseen(r) PROVE LifecycleStep
  <1>1. [s \in Sids |-> StageOf(s)]' = [s \in Sids |-> StageOf(s)]
    BY DEF Unseen
  <1>2. [s \in Sids |-> OwnerOf(s)]' = [s \in Sids |-> OwnerOf(s)]
    BY DEF Unseen
  <1>3. [s \in Sids |-> ControllerOf(s)]' = [s \in Sids |-> ControllerOf(s)]
    BY DEF Unseen
  <1>4. [s \in Sids |-> Trusted(s)]' = [s \in Sids |-> Trusted(s)]
    <2>1. \A s \in Sids : Trusted(s)' = Trusted(s)
      BY Zenon DEF Unseen, Trusted
    <2> QED BY <2>1
  <1> QED BY <1>1, <1>2, <1>3, <1>4 DEF LifecycleStep

\* A step that it sees in one session only is told by what it sees there.
LEMMA OneSession ==
    ASSUME NEW s \in Sids, \A r \in Sids \ {s} : Unseen(r),
           NEW st, NEW a, NEW c, NEW tr \in BOOLEAN,
           StageOf(s)' = st, OwnerOf(s)' = a, ControllerOf(s)' = c, Trusted(s)' <=> tr
    PROVE  Lifecycle!Becomes(s, st, a, c, tr)
  <1>1. [x \in Sids |-> StageOf(x)]' = [[x \in Sids |-> StageOf(x)] EXCEPT ![s] = st]
    BY DEF Unseen
  <1>2. [x \in Sids |-> OwnerOf(x)]' = [[x \in Sids |-> OwnerOf(x)] EXCEPT ![s] = a]
    BY DEF Unseen
  <1>3. [x \in Sids |-> ControllerOf(x)]' = [[x \in Sids |-> ControllerOf(x)] EXCEPT ![s] = c]
    BY DEF Unseen
  <1>4. [x \in Sids |-> Trusted(x)]' = [[x \in Sids |-> Trusted(x)] EXCEPT ![s] = tr]
    <2>1. \A x \in Sids \ {s} : Trusted(x)' = Trusted(x)
      BY Zenon DEF Unseen, Trusted
    <2>2. Trusted(s)' = tr
      BY Zenon DEF Trusted
    <2> QED BY <2>1, <2>2
  <1> QED BY <1>1, <1>2, <1>3, <1>4 DEF Lifecycle!Becomes

\* Every kind of step is a step of SessionLifecycle, or one it does not see.
LEMMA LifecycleOfKind == IInv /\ Kind => LifecycleStep
  <1> SUFFICES ASSUME IInv, Kind PROVE LifecycleStep
    OBVIOUS
  <1> DEFINE Others(s) == \A r \in Sids \ {s} : Unseen(r)
  <1>t. TypeOK /\ ContextOK /\ FreshOK /\ SlotAgreement /\ TornDown /\ PendingOK /\ ReservedOK
    BY DEF IInv
  <1>used. \A s \in sessions : s \in Sids /\ s \in used
    BY <1>t DEF TypeOK, FreshOK
  <1>bound. ASSUME NEW s \in sessions, NEW c \in Conns, sid[c] = s, pc[c] \notin Leaving
        PROVE  (c \in Agents => agent[s] = c) /\ (c \in Clients => client[s] = c)
    BY <1>t, <1>bound DEF SlotAgreement, Bound
  <1>next. ASSUME NEW s \in Sids,
                  \/ \E a \in Agents : Lifecycle!OpenSession(s, a)
                  \/ \E c \in Clients : Lifecycle!Join(s, c)
                  \/ Lifecycle!Vouch(s) \/ Lifecycle!AgentLeaves(s)
                  \/ Lifecycle!ClientLeaves(s) \/ Lifecycle!EndSession(s)
        PROVE  LifecycleStep
    BY <1>next DEF LifecycleStep, Lifecycle!LifecycleNext
  \* A session that goes from the registry ends
  <1>ends. ASSUME NEW s \in Sids, Others(s), used' = used, sessions' = sessions \ {s}
        PROVE  LifecycleStep
    <2>1. CASE s \in sessions
      <3>1. StageOf(s)' = "over" /\ OwnerOf(s)' = None /\ ControllerOf(s)' = None /\ ~Trusted(s)'
        BY <1>ends, <1>used, <2>1 DEF StageOf, OwnerOf, ControllerOf, Trusted
      <3>2. StageOf(s) \in {"open", "ending"}
        BY <1>used, <2>1 DEF StageOf
      <3>3. Lifecycle!Becomes(s, "over", None, None, FALSE)
        BY <1>ends, <3>1, OneSession
      <3>4. Lifecycle!EndSession(s)
        BY <3>2, <3>3 DEF Lifecycle!EndSession
      <3> QED BY <3>4, <1>next
    <2>2. CASE s \notin sessions
      <3>1. Unseen(s)
        BY <1>ends, <2>2 DEF Unseen, StageOf, OwnerOf, ControllerOf, Trusted
      <3> QED BY <1>ends, <3>1, Stutter
    <2> QED BY <2>1, <2>2
  <1>1. CASE Outside
    <2>1. \A r \in Sids : Unseen(r)
      BY <1>1 DEF Outside, slotVars, Unseen, StageOf, LosesParty, OwnerOf, ControllerOf, Trusted
    <2> QED BY <2>1, Stutter
  <1>2. ASSUME NEW c \in Conns, Stay(c) PROVE LifecycleStep
    <2>1. /\ UNCHANGED <<sid, sessions, agent, client, used>>
          /\ \A x \in Conns : pc'[x] = "disc_send" <=> pc[x] = "disc_send"
      BY <1>2, <1>t, StayEffect DEF Leaving
    <2>2. \A r \in Sids : /\ StageOf(r)' = StageOf(r) /\ OwnerOf(r)' = OwnerOf(r)
                          /\ ControllerOf(r)' = ControllerOf(r)
      BY <2>1 DEF StageOf, LosesParty, OwnerOf, ControllerOf
    <2>3. CASE UNCHANGED phase
      <3>1. \A r \in Sids : Trusted(r)' <=> Trusted(r)
        BY <2>1, <2>3 DEF Trusted
      <3> QED BY <2>2, <3>1, Stutter DEF Unseen
    <2>4. CASE /\ c \in Agents /\ GetPeer(c) # None
               /\ phase' = [phase EXCEPT ![sid[c]] = "established"]
      <3>s. PICK s : s = sid[c]
        OBVIOUS
      <3>1. s \in sessions /\ s \in Sids /\ agent[s] = c /\ client[s] # None /\ c # None
        BY <2>4, <3>s, <1>2, <1>t, <1>used, <1>bound, RelayAssumption DEF GetPeer, Stay, Conns
      <3>2. Others(s)
        BY <2>1, <2>2, <2>4, <3>s, <1>t DEF Unseen, Trusted, TypeOK
      <3>3. Trusted(s)'
        BY <2>1, <2>4, <3>s, <3>1, <1>t DEF Trusted, TypeOK
      <3>4. Lifecycle!Becomes(s, StageOf(s), OwnerOf(s), ControllerOf(s), TRUE)
        BY <2>2, <3>1, <3>2, <3>3, OneSession
      <3>5. StageOf(s) \in {"open", "ending"} /\ OwnerOf(s) # None /\ ControllerOf(s) # None
        BY <3>1, <1>used DEF StageOf, OwnerOf, ControllerOf
      <3>6. Lifecycle!Vouch(s)
        BY <3>1, <3>4, <3>5 DEF Lifecycle!Vouch
      <3> QED BY <3>1, <3>6, <1>next
    <2> QED BY <1>2, <2>3, <2>4 DEF Stay
  <1>3. ASSUME NEW c \in Conns, Leave(c) PROVE LifecycleStep
    <2>s. PICK s : s = sid[c]
      OBVIOUS
    <2>1. pc'[c] \in {"disc_send", "disc_del", "done"} /\ UNCHANGED <<sid, phase, used>>
      BY <1>3, <2>s, <1>t, LeaveEffect DEF Leaving
    <2>2. \A r \in Sids \ {s} :
             /\ r \in sessions' <=> r \in sessions
             /\ agent'[r] = agent[r] /\ client'[r] = client[r]
             /\ LosesParty(r)' <=> LosesParty(r)
      <3>1. \A r \in Sids \ {s} : /\ r \in sessions' <=> r \in sessions
                                  /\ agent'[r] = agent[r] /\ client'[r] = client[r]
        BY <1>3, <2>s, <1>t, LeaveEffect
      <3>2. \A x \in Conns \ {c} : pc'[x] = pc[x]
        BY <1>3, <2>s, <1>t, LeaveEffect
      <3> QED BY <2>1, <2>s, <3>1, <3>2 DEF LosesParty
    <2>3. Others(s)
      BY <2>1, <2>s, <2>2 DEF Unseen, StageOf, OwnerOf, ControllerOf, Trusted
    <2>4. CASE s = None
      BY <2>3, <2>4, <2>s, <1>t, RelayAssumption, Stutter
    <2>5. CASE s # None /\ pc'[c] = "disc_del"
      <3>1. s \in Sids /\ sessions' = sessions \ {s}
        BY <1>3, <2>s, <1>t, <2>5, LeaveEffect DEF TypeOK
      <3> QED BY <2>1, <2>s, <2>3, <3>1, <1>ends
    <2>6. CASE pc'[c] = "disc_send"
      <3>1. s \in sessions /\ s \in Sids /\ sessions' = sessions /\ c # None
        BY <1>3, <2>s, <1>t, <2>6, LeaveEffect, RelayAssumption DEF GetPeer, TypeOK
      <3>2. /\ c \in Agents => agent[s] = c /\ agent'[s] = None /\ client'[s] = client[s]
            /\ c \in Clients => client[s] = c /\ client'[s] = None /\ agent'[s] = agent[s]
        BY <1>3, <2>s, <1>t, <1>bound, <3>1, LeaveEffect, RelayAssumption
      <3>3. StageOf(s)' = "ending"
        BY <2>1, <2>s, <2>6, <3>1, <1>used DEF StageOf, LosesParty
      <3>4. Trusted(s)' <=> Trusted(s)
        BY <2>1, <2>s, <3>1 DEF Trusted
      <3>5. Trusted(s) \in BOOLEAN
        BY Zenon DEF Trusted
      <3>6. CASE c \in Agents
        <4>1. OwnerOf(s)' = None /\ ControllerOf(s)' = ControllerOf(s) /\ OwnerOf(s) # None
          BY <3>1, <3>2, <3>6 DEF OwnerOf, ControllerOf
        <4>2. Lifecycle!Becomes(s, "ending", None, ControllerOf(s), Trusted(s))
          BY <2>3, <3>1, <3>3, <3>4, <3>5, <4>1, OneSession
        <4>3. StageOf(s) \in {"open", "ending"}
          BY <3>1, <1>used DEF StageOf
        <4>4. Lifecycle!AgentLeaves(s)
          BY <3>1, <4>1, <4>2, <4>3, Zenon DEF Lifecycle!AgentLeaves
        <4> QED BY <3>1, <4>4, <1>next
      <3>7. CASE c \in Clients
        <4>1. ControllerOf(s)' = None /\ OwnerOf(s)' = OwnerOf(s) /\ ControllerOf(s) # None
          BY <3>1, <3>2, <3>7 DEF OwnerOf, ControllerOf
        <4>2. Lifecycle!Becomes(s, "ending", OwnerOf(s), None, Trusted(s))
          BY <2>3, <3>1, <3>3, <3>4, <3>5, <4>1, OneSession
        <4>3. StageOf(s) \in {"open", "ending"}
          BY <3>1, <1>used DEF StageOf
        <4>4. Lifecycle!ClientLeaves(s)
          BY <3>1, <4>1, <4>2, <4>3, Zenon DEF Lifecycle!ClientLeaves
        <4> QED BY <3>1, <4>4, <1>next
      <3> QED BY <3>6, <3>7 DEF Conns
    <2>7. CASE pc'[c] = "done"
      BY <1>3, <2>s, <1>t, <2>7, <2>4, LeaveEffect
    <2> QED BY <2>1, <2>s, <2>4, <2>5, <2>6, <2>7
  <1>4. ASSUME NEW c \in Conns, NotifyPeer(c) \/ DeliverClose(c) PROVE LifecycleStep
    <2>s. PICK s : s = sid[c]
      OBVIOUS
    <2>1. /\ s \in Sids /\ sessions' = sessions \ {s}
          /\ UNCHANGED <<sid, agent, client, phase, used>>
          /\ \A x \in Conns \ {c} : pc'[x] = pc[x]
      BY <1>4, <2>s, <1>t DEF NotifyPeer, DeliverClose, Remove, TypeOK, ContextOK, Sending, redisVars
    <2>2. \A r \in Sids \ {s} : LosesParty(r)' <=> LosesParty(r)
      BY <2>1, <2>s DEF LosesParty
    <2>3. Others(s)
      BY <2>1, <2>s, <2>2 DEF Unseen, StageOf, OwnerOf, ControllerOf, Trusted
    <2> QED BY <2>1, <2>s, <2>3, <1>ends
  <1>5. ASSUME NEW c \in Conns, DisconnectDelete(c) \/ DeleteFault(c) PROVE LifecycleStep
    <2>1. /\ pc[c] = "disc_del" /\ sid[c] \notin sessions
          /\ UNCHANGED <<sessions, agent, client, phase, used>>
          /\ pc'[c] = "done"
          /\ \A x \in Conns \ {c} : pc'[x] = pc[x] /\ sid'[x] = sid[x]
      BY <1>5, <1>t DEF DisconnectDelete, DeleteFault, Finish, TypeOK, TornDown, slotVars
    <2>2. \A r \in Sids : LosesParty(r)' <=> LosesParty(r)
      BY <2>1 DEF LosesParty
    <2>3. \A r \in Sids : Unseen(r)
      BY <2>1, <2>2 DEF Unseen, StageOf, OwnerOf, ControllerOf, Trusted
    <2> QED BY <2>3, Stutter
  \* A client takes the free place of a session, and the phase is not "established"
  <1>join. ASSUME NEW c \in Clients, NEW s \in Sids, ClientMayAttach(s), AttachClient(c, s),
                  pc[c] # "disc_send", pc' = [pc EXCEPT ![c] = pc'[c]], pc'[c] # "disc_send",
                  sid[c] = None, used' = used,
                  \A r \in Sids \ {s} : phase'[r] = phase[r], phase'[s] # "established"
        PROVE  LifecycleStep
    <2>1. /\ s \in sessions /\ agent[s] # None /\ client[s] = None
          /\ UNCHANGED <<sessions, agent>>
          /\ client'[s] = c /\ \A r \in Sids \ {s} : client'[r] = client[r]
          /\ sid'[c] = s /\ \A x \in Conns \ {c} : sid'[x] = sid[x] /\ pc'[x] = pc[x]
      BY <1>join, <1>t DEF ClientMayAttach, AttachClient, TypeOK, Conns
    <2>2. \A r \in Sids : LosesParty(r)' <=> LosesParty(r)
      <3>1. c \in Conns
        BY DEF Conns
      <3> QED BY <2>1, <3>1, <1>join DEF LosesParty
    <2>3. Others(s)
      BY <2>1, <2>2, <1>join DEF Unseen, StageOf, OwnerOf, ControllerOf, Trusted
    <2>4. /\ StageOf(s)' = StageOf(s) /\ OwnerOf(s)' = OwnerOf(s)
          /\ ControllerOf(s)' = c /\ ~Trusted(s)'
      BY <2>1, <2>2, <1>join DEF StageOf, OwnerOf, ControllerOf, Trusted
    <2>5. Lifecycle!Becomes(s, StageOf(s), OwnerOf(s), c, FALSE)
      BY <2>3, <2>4, OneSession
    <2>6. StageOf(s) \in {"open", "ending"} /\ OwnerOf(s) # None /\ ControllerOf(s) = None
      BY <2>1, <1>used DEF StageOf, OwnerOf, ControllerOf
    <2>7. Lifecycle!Join(s, c)
      BY <2>5, <2>6 DEF Lifecycle!Join
    <2> QED BY <2>7, <1>next
  <1>6. ASSUME NEW c \in Clients, PairRequestAttach(c) PROVE LifecycleStep
    <2> DEFINE s == tokenSid[arg[c]]
    <2>1. arg[c] \in Tokens /\ sid[c] = None /\ c \in Conns
      BY <1>6, <1>t DEF PairRequestAttach, ContextOK, Conns
    <2>2. s \in Sids /\ s \in sessions /\ phase[s] = "pairing"
      BY <1>6, <1>t, <2>1 DEF PairRequestAttach, ClientMayAttach, PendingOK, TypeOK
    <2>3. /\ ClientMayAttach(s) /\ AttachClient(c, s) /\ pc[c] = "consume"
          /\ pc' = [pc EXCEPT ![c] = "set_handshaking"] /\ used' = used /\ phase' = phase
      BY <1>6 DEF PairRequestAttach
    <2>4. pc'[c] = "set_handshaking"
      BY <2>1, <2>3, <1>t DEF TypeOK
    <2> HIDE DEF s
    <2> QED BY <2>1, <2>2, <2>3, <2>4, <1>join
  <1>7. ASSUME NEW c \in Clients, ResumeRequestAttach(c) PROVE LifecycleStep
    <2> DEFINE s == route[arg[c]]
    <2>1. arg[c] \in Devices /\ sid[c] = None /\ c \in Conns
      BY <1>7, <1>t DEF ResumeRequestAttach, ContextOK, Conns
    <2>2. s \in Sids
      BY <1>7, <1>t, <2>1 DEF ResumeRequestAttach, TypeOK
    <2>3. /\ ClientMayAttach(s) /\ AttachClient(c, s) /\ pc[c] = "resume_limits"
          /\ pc' = [pc EXCEPT ![c] = "send"] /\ used' = used
          /\ phase' = [phase EXCEPT ![s] = "resuming"]
      BY <1>7 DEF ResumeRequestAttach
    <2>4. pc'[c] = "send" /\ phase'[s] = "resuming" /\ \A r \in Sids \ {s} : phase'[r] = phase[r]
      BY <2>1, <2>2, <2>3, <1>t DEF TypeOK
    <2> HIDE DEF s
    <2> QED BY <2>1, <2>2, <2>3, <2>4, <1>join
  <1>8. ASSUME NEW a \in Agents, PairInitRefused(a) \/ PairInitUndo(a) \/ PairInitFault(a)
        PROVE  LifecycleStep
    <2>s. PICK s : s = sid[a]
      OBVIOUS
    <2>1. /\ a \in Conns /\ pc[a] \in {"issue", "undo_token"} /\ s \in Sids /\ Detach(a, s)
          /\ used' = used /\ phase' = phase
      BY <1>8, <2>s, <1>t DEF PairInitRefused, PairInitUndo, PairInitFault, Detach, TypeOK, ContextOK,
         InPairInit, Conns
    <2>2. /\ sid'[a] = None /\ pc'[a] # "disc_send"
          /\ \A x \in Conns \ {a} : pc'[x] = pc[x] /\ sid'[x] = sid[x]
      BY <1>8, <2>s, <1>t, <2>1 DEF PairInitRefused, PairInitUndo, PairInitFault, Finish, LoopTop, TypeOK
    <2>3. \A r \in Sids \ {s} : /\ agent'[r] = agent[r] /\ client'[r] = client[r]
                                /\ r \in sessions' <=> r \in sessions
      BY <2>1, <2>s, <1>t DEF Detach, DetachFields, TypeOK
    <2>4. \A r \in Sids \ {s} : LosesParty(r)' <=> LosesParty(r)
      BY <2>1, <2>s, <2>2, <2>3 DEF LosesParty
    <2>5. Others(s)
      BY <2>1, <2>s, <2>3, <2>4 DEF Unseen, StageOf, OwnerOf, ControllerOf, Trusted
    <2>6. CASE sessions' = sessions \ {s}
      BY <2>1, <2>s, <2>5, <2>6, <1>ends
    <2>7. CASE s \in sessions /\ sessions' = sessions
      <3>1. agent[s] = a /\ a # None
        BY <2>1, <2>s, <2>7, <1>bound, RelayAssumption DEF Leaving, Conns
      <3>2. agent'[s] = None /\ client'[s] = client[s]
        BY <2>1, <2>s, <2>7, <1>t, RelayAssumption DEF Detach, DetachFields, TypeOK
      <3>3. StageOf(s)' = "ending" /\ OwnerOf(s)' = None /\ ControllerOf(s)' = ControllerOf(s)
        BY <2>1, <2>s, <2>7, <3>2, <1>used DEF StageOf, LosesParty, OwnerOf, ControllerOf
      <3>4. (Trusted(s)' <=> Trusted(s))
        BY <2>1, <2>s, <2>7 DEF Trusted
      <3>5. Trusted(s) \in BOOLEAN
        BY Zenon DEF Trusted
      <3>6. Lifecycle!Becomes(s, "ending", None, ControllerOf(s), Trusted(s))
        BY <2>1, <2>s, <2>5, <3>3, <3>4, <3>5, OneSession
      <3>7. StageOf(s) \in {"open", "ending"} /\ OwnerOf(s) # None
        BY <2>7, <3>1, <1>used DEF StageOf, OwnerOf
      <3>8. Lifecycle!AgentLeaves(s)
        BY <2>1, <2>s, <3>6, <3>7, Zenon DEF Lifecycle!AgentLeaves
      <3> QED BY <2>1, <2>s, <3>8, <1>next
    <2>8. sessions' = sessions \ {s} \/ (s \in sessions /\ sessions' = sessions)
      BY <2>1 DEF Detach
    <2> QED BY <2>6, <2>7, <2>8
  <1>9. ASSUME NEW a \in Agents, NEW s \in Sids,
               (\E t \in Tokens : PairInit(a, s, t)) \/ (\E d \in Devices : ResumeInit(a, s, d))
        PROVE  LifecycleStep
    <2>1. /\ a \in Conns /\ s \notin used /\ s \notin sessions /\ sid[a] = None
          /\ used' = used \cup {s} /\ sessions' = sessions \cup {s}
          /\ \A x \in Conns : sid[x] # s
      BY <1>9, <1>t DEF PairInit, ResumeInit, AttachAgent, FreshOK, Conns
    <2>2. /\ sid'[a] = s /\ pc'[a] # "disc_send" /\ pc[a] # "disc_send"
          /\ \A x \in Conns \ {a} : pc'[x] = pc[x] /\ sid'[x] = sid[x]
      BY <1>9, <1>t, <2>1 DEF PairInit, ResumeInit, LoopTop, Receiving, Receive, TypeOK
    <2>3. /\ agent'[s] = a /\ client'[s] = None /\ phase'[s] # "established"
          /\ \A r \in Sids \ {s} : /\ agent'[r] = agent[r] /\ client'[r] = client[r]
                                   /\ phase'[r] = phase[r]
      BY <1>9, <1>t DEF PairInit, ResumeInit, AttachAgent, TypeOK
    <2>4. \A r \in Sids \ {s} : LosesParty(r)' <=> LosesParty(r)
      BY <2>1, <2>2, <2>3 DEF LosesParty
    <2>5. Others(s)
      BY <2>1, <2>3, <2>4 DEF Unseen, StageOf, OwnerOf, ControllerOf, Trusted
    <2>6. ~LosesParty(s)'
      BY <2>1, <2>2, <2>3, RelayAssumption DEF LosesParty, Conns
    <2>7. StageOf(s)' = "open" /\ OwnerOf(s)' = a /\ ControllerOf(s)' = None /\ ~Trusted(s)'
      BY <2>1, <2>3, <2>6 DEF StageOf, OwnerOf, ControllerOf, Trusted
    <2>8. Lifecycle!Becomes(s, "open", a, None, FALSE)
      BY <2>5, <2>7, OneSession
    <2>9. Lifecycle!OpenSession(s, a)
      BY <2>1, <2>8 DEF Lifecycle!OpenSession, StageOf
    <2> QED BY <2>9, <1>next
  <1> HIDE DEF Others
  <1> QED
    BY <1>1, <1>2, <1>3, <1>4, <1>5, <1>6, <1>7, <1>8, <1>9 DEF Kind

\* The relay's sessions live as SessionLifecycle says: joined while open, ended
\* once a party has left, and never back.
THEOREM ImplementsLifecycle == Spec => FollowsLifecycle
  <1>1. Init => Lifecycle!LifecycleInit
    BY DEF Init, Lifecycle!LifecycleInit, StageOf, OwnerOf, ControllerOf, Trusted
  <1>2. IInv /\ [Next]_vars => LifecycleStep
    BY KindOfStep, LifecycleOfKind DEF IInv
  <1> QED
    BY <1>1, <1>2, Invariance, PTL
       DEF Spec, FollowsLifecycle, Lifecycle!LifecycleSpec, LifecycleStep

(***************************************************************************)
(* What follows from it.                                                   *)
(***************************************************************************)

LEMMA StepOfLifecycle == IInv /\ [Next]_vars => LifecycleStep
  BY KindOfStep, LifecycleOfKind DEF IInv

\* What SessionLifecycle makes of a session, it makes of that one only.
LEMMA BecomesAt ==
    ASSUME NEW s \in Sids, NEW st, NEW a, NEW c, NEW tr \in BOOLEAN,
           Lifecycle!Becomes(s, st, a, c, tr)
    PROVE  /\ StageOf(s)' = st /\ OwnerOf(s)' = a /\ ControllerOf(s)' = c /\ (Trusted(s)' <=> tr)
           /\ \A r \in Sids \ {s} : Unseen(r)
  <1>1. [x \in Sids |-> StageOf(x)]' = [[x \in Sids |-> StageOf(x)] EXCEPT ![s] = st]
    BY DEF Lifecycle!Becomes
  <1>2. [x \in Sids |-> OwnerOf(x)]' = [[x \in Sids |-> OwnerOf(x)] EXCEPT ![s] = a]
    BY DEF Lifecycle!Becomes
  <1>3. [x \in Sids |-> ControllerOf(x)]' = [[x \in Sids |-> ControllerOf(x)] EXCEPT ![s] = c]
    BY DEF Lifecycle!Becomes
  <1>4. [x \in Sids |-> Trusted(x)]' = [[x \in Sids |-> Trusted(x)] EXCEPT ![s] = tr]
    BY DEF Lifecycle!Becomes
  <1>5. StageOf(s)' = st /\ \A r \in Sids \ {s} : StageOf(r)' = StageOf(r)
    BY <1>1
  <1>6. OwnerOf(s)' = a /\ \A r \in Sids \ {s} : OwnerOf(r)' = OwnerOf(r)
    BY <1>2
  <1>7. ControllerOf(s)' = c /\ \A r \in Sids \ {s} : ControllerOf(r)' = ControllerOf(r)
    BY <1>3
  <1>8. Trusted(s)' = tr /\ \A r \in Sids \ {s} : Trusted(r)' = Trusted(r)
    BY <1>4
  <1> QED BY <1>5, <1>6, <1>7, <1>8 DEF Unseen

\* What SessionLifecycle lets become of one session in a step.
Moves(s) ==
    \/ Unseen(s)
    \/ StageOf(s) = "unused" /\ StageOf(s)' = "open"
    \/ /\ StageOf(s) \in {"open", "ending"} /\ StageOf(s)' = StageOf(s)
       /\ OwnerOf(s)' = OwnerOf(s)
       /\ \/ ControllerOf(s) = None /\ ~Trusted(s)'
          \/ ControllerOf(s)' = ControllerOf(s)
    \/ StageOf(s) \in {"open", "ending"} /\ StageOf(s)' \in {"ending", "over"}

LEMMA SessionMoves == ASSUME LifecycleStep, NEW s \in Sids PROVE Moves(s)
  <1>1. CASE \A r \in Sids : ~(\/ \E a \in Agents : Lifecycle!OpenSession(r, a)
                               \/ \E c \in Clients : Lifecycle!Join(r, c)
                               \/ Lifecycle!Vouch(r) \/ Lifecycle!AgentLeaves(r)
                               \/ Lifecycle!ClientLeaves(r) \/ Lifecycle!EndSession(r))
    <2>1. /\ [x \in Sids |-> StageOf(x)]' = [x \in Sids |-> StageOf(x)]
          /\ [x \in Sids |-> OwnerOf(x)]' = [x \in Sids |-> OwnerOf(x)]
          /\ [x \in Sids |-> ControllerOf(x)]' = [x \in Sids |-> ControllerOf(x)]
          /\ [x \in Sids |-> Trusted(x)]' = [x \in Sids |-> Trusted(x)]
      BY <1>1 DEF LifecycleStep, Lifecycle!LifecycleNext
    <2>2. StageOf(s)' = StageOf(s) /\ OwnerOf(s)' = OwnerOf(s) /\ ControllerOf(s)' = ControllerOf(s)
      BY <2>1
    <2>3. Trusted(s)' = Trusted(s)
      BY <2>1
    <2> QED BY <2>2, <2>3 DEF Moves, Unseen
  <1> SUFFICES ASSUME NEW r \in Sids,
                      \/ \E a \in Agents : Lifecycle!OpenSession(r, a)
                      \/ \E c \in Clients : Lifecycle!Join(r, c)
                      \/ Lifecycle!Vouch(r) \/ Lifecycle!AgentLeaves(r)
                      \/ Lifecycle!ClientLeaves(r) \/ Lifecycle!EndSession(r)
               PROVE  Moves(s)
    BY <1>1
  <1>o. ASSUME \A x \in Sids \ {r} : Unseen(x), r # s PROVE Moves(s)
    BY <1>o DEF Moves
  <1>b. \A x \in Sids : Trusted(x) \in BOOLEAN
    BY DEF Trusted
  <1>2. ASSUME NEW a \in Agents, Lifecycle!OpenSession(r, a) PROVE Moves(s)
    BY <1>2, <1>o, BecomesAt DEF Lifecycle!OpenSession, Moves
  <1>3. ASSUME NEW c \in Clients, Lifecycle!Join(r, c) PROVE Moves(s)
    BY <1>3, <1>o, BecomesAt DEF Lifecycle!Join, Moves
  <1>4. CASE Lifecycle!Vouch(r)
    BY <1>4, <1>o, BecomesAt DEF Lifecycle!Vouch, Moves
  <1>5. CASE Lifecycle!AgentLeaves(r)
    BY <1>5, <1>b, <1>o, BecomesAt DEF Lifecycle!AgentLeaves, Moves
  <1>6. CASE Lifecycle!ClientLeaves(r)
    BY <1>6, <1>b, <1>o, BecomesAt DEF Lifecycle!ClientLeaves, Moves
  <1>7. CASE Lifecycle!EndSession(r)
    BY <1>7, <1>o, BecomesAt DEF Lifecycle!EndSession, Moves
  <1> QED BY <1>2, <1>3, <1>4, <1>5, <1>6, <1>7

\* Nobody takes another's place in an open session: while it stays open its agent
\* is the same, and so is its client once there is one.
KeptTogether ==
    [][\A s \in Sids : StageOf(s) = "open" /\ StageOf(s)' = "open" =>
          /\ OwnerOf(s)' = OwnerOf(s)
          /\ ControllerOf(s) # None => ControllerOf(s)' = ControllerOf(s)]_vars

\* A session that a party has left only ends, and one that has ended stays so.
NeverBack ==
    [][\A s \in Sids :
          /\ StageOf(s) = "ending" => StageOf(s)' \in {"ending", "over"}
          /\ StageOf(s) = "over" => StageOf(s)' = "over"]_vars

\* Of any number of connections that attach, leave and are torn down in any order
\* (attach_client, detach, teardown_session), none replaces a peer of a session
\* that goes on.
THEOREM PeersStay == Spec => KeptTogether
  <1>1. IInv /\ [Next]_vars =>
           [\A s \in Sids : StageOf(s) = "open" /\ StageOf(s)' = "open" =>
               /\ OwnerOf(s)' = OwnerOf(s)
               /\ ControllerOf(s) # None => ControllerOf(s)' = ControllerOf(s)]_vars
    BY StepOfLifecycle, SessionMoves DEF Moves, Unseen
  <1> QED BY <1>1, Invariance, PTL DEF Spec, KeptTogether

\* No connection brings a session back that a party has left (teardown_session
\* against attach_client and every other handler).
THEOREM SessionsDoNotReturn == Spec => NeverBack
  <1>1. IInv /\ [Next]_vars =>
           [\A s \in Sids :
               /\ StageOf(s) = "ending" => StageOf(s)' \in {"ending", "over"}
               /\ StageOf(s) = "over" => StageOf(s)' = "over"]_vars
    BY StepOfLifecycle, SessionMoves DEF Moves, Unseen
  <1> QED BY <1>1, Invariance, PTL DEF Spec, NeverBack

=============================================================================
