------------------------------- MODULE Relay -------------------------------
(***************************************************************************)
(* The relay server: one asyncio coroutine per WebSocket (_ws_loop), the   *)
(* in-process SessionRegistry they share, and the tokens and session       *)
(* records they keep in Redis.                                             *)
(*                                                                         *)
(* asyncio runs one coroutine at a time and switches only at an await, so  *)
(* an action is what a handler does between two awaits, and pc[c] names    *)
(* the await connection c is suspended in.  Every await may let any other  *)
(* coroutine run: a Redis round trip always does, a WebSocket send does    *)
(* when the peer's write buffer is full.                                   *)
(*                                                                         *)
(* The endpoints are unconstrained: a connection may send any message its  *)
(* role admits, at any time.  The one thing assumed of them is that an     *)
(* agent never picks a session id twice (64 random bits, pairing.py).      *)
(***************************************************************************)
EXTENDS Naturals

CONSTANTS
    Agents,     \* WebSockets accepted on /ws/agent, one element per connection
    Clients,    \* WebSockets accepted on /ws/client
    Sids,       \* routing session ids
    Tokens,     \* pairing tokens
    Devices,    \* durable device ids
    None,       \* Python's None
    MaxFaults   \* bound: how many Redis calls may raise

Conns == Agents \cup Clients

ASSUME RelayAssumption ==
    /\ Agents \cap Clients = {}
    /\ Tokens \cap Devices = {}
    /\ None \notin Conns \cup Sids \cup Tokens \cup Devices
    /\ MaxFaults \in Nat

VARIABLES
    pc,         \* the await each connection's coroutine is suspended in
    open,       \* the WebSocket is still open, as far as the transport knows
    sid,        \* ctx.session_id
    arg,        \* the running handler's local: a token or a device id
    dst,        \* the running handler's local: the WebSocket it is sending to
    sessions,   \* the keys of registry._sessions
    agent,      \* the agent field of each SessionSlot object
    client,     \* the client field of each SessionSlot object
    phase,      \* the phase field of each SessionSlot object
    route,      \* registry._devices
    tokenState, \* Redis relay:token:<digest>, field "state", or "absent"
    tokenSid,   \* Redis relay:token:<digest>, field "session_id"
    record,     \* Redis relay:session:<sid>, field "state", or "absent"
    ttl,        \* the session record has an expiry
    used,       \* session ids some agent has already picked
    faults      \* Redis calls that have raised so far

ctxVars   == <<open, sid, arg, dst>>
slotVars  == <<sessions, agent, client, phase, route>>
tokenVars == <<tokenState, tokenSid>>
redisVars == <<tokenState, tokenSid, record, ttl>>
vars == <<pc, ctxVars, slotVars, redisVars, used, faults>>

Phases == {"pairing", "waiting_resume", "resuming", "established"}
Receive == {"timed_recv", "open_recv"}
Leaving == {"disc_send", "disc_del", "done"}
Sending == {"send", "complete_send", "close_send"}
PCs == Receive \cup Leaving \cup Sending \cup
       {"timed_out", "closing", "issue", "create_hset", "create_expire",
        "undo_token", "consume", "set_handshaking", "challenge",
        "set_established", "persist", "resume_limits", "teardown_del"}

(***************************************************************************)
(* SessionRegistry.                                                        *)
(***************************************************************************)

\* registry.get_peer(ctx.session_id, ctx.role)
GetPeer(c) ==
    IF sid[c] \notin sessions THEN None
    ELSE IF c \in Agents THEN client[sid[c]] ELSE agent[sid[c]]

\* Mutant: the agent lands on the client's side of the slot
AttachWrongRole(a, s, ph) ==
    /\ sessions' = sessions \cup {s}
    /\ agent' = agent
    /\ client' = [client EXCEPT ![s] = a]
    /\ phase' = [phase EXCEPT ![s] = ph]

\* registry.attach of an agent under a session id that has no slot yet
AttachAgent(a, s, ph) ==
    /\ sessions' = sessions \cup {s}
    /\ agent' = [agent EXCEPT ![s] = a]
    /\ client' = [client EXCEPT ![s] = None]
    /\ phase' = [phase EXCEPT ![s] = ph]

\* Mutant: the leaving side stays in the slot
DetachNothing(c, s) == UNCHANGED <<agent, client>>

\* registry.detach: clear one side, and delete the slot if it is now empty.
\* A slot that is no longer in the registry is left alone.
DetachFields(c, s) ==
    /\ agent' = IF c \in Agents /\ s \in sessions
                THEN [agent EXCEPT ![s] = None] ELSE agent
    /\ client' = IF c \in Clients /\ s \in sessions
                 THEN [client EXCEPT ![s] = None] ELSE client

\* Mutant: the device routes are forgotten
RemoveSlotOnly(s) == sessions' = sessions \ {s} /\ UNCHANGED route

\* registry.remove: drop the slot (the object keeps its fields for whoever
\* still holds it) and every device routed to it.
Remove(s) ==
    /\ sessions' = sessions \ {s}
    /\ route' = [d \in Devices |-> IF route[d] = s THEN None ELSE route[d]]

\* Mutant: a client that is attached already does not matter
AnyClientMayAttach(s) == s \in sessions /\ agent[s] # None

\* registry.attach succeeds for a client: an agent is there, no client is
ClientMayAttach(s) == s \in sessions /\ agent[s] # None /\ client[s] = None

\* Mutant: ctx.session_id is not set
AttachUnbound(c, s) ==
    /\ client' = [client EXCEPT ![s] = c]
    /\ UNCHANGED <<sid, sessions, agent, route>>

\* registry.attach of a client, and ctx.session_id
AttachClient(c, s) ==
    /\ client' = [client EXCEPT ![s] = c]
    /\ sid' = [sid EXCEPT ![c] = s]
    /\ UNCHANGED <<sessions, agent, route>>

(***************************************************************************)
(* _ws_loop.                                                               *)
(***************************************************************************)

\* Mutant: a resume in progress waits without a deadline as well
ExemptResuming(c) == sid[c] \in sessions /\ phase[sid[c]] # "pairing"

\* The two phases whose connections wait without a deadline
Exempt(c) == /\ sid[c] \in sessions
             /\ phase[sid[c]] \in {"established", "waiting_resume"}

\* Top of the loop: the timeout of the next receive is computed once, here
LoopTop(c) ==
    pc' = [pc EXCEPT ![c] = IF Exempt(c)' THEN "open_recv" ELSE "timed_recv"]

Receiving(c) == pc[c] \in Receive

\* The finally clause up to its first await: detach, and start telling the
\* peer (disc_send) or, without one, drop the session (disc_del).  The socket
\* itself is closed only when the coroutine has ended.
EnterDisconnect(c) ==
    /\ open' = [open EXCEPT ![c] = @ /\ sid[c] # None]
    /\ arg' = [arg EXCEPT ![c] = None]
    /\ \/ /\ sid[c] = None
          /\ pc' = [pc EXCEPT ![c] = "done"]
          /\ dst' = [dst EXCEPT ![c] = None]
          /\ UNCHANGED <<sessions, agent, client, route>>
       \/ /\ sid[c] # None /\ GetPeer(c) # None
          /\ DetachFields(c, sid[c])
          /\ dst' = [dst EXCEPT ![c] = GetPeer(c)]
          /\ pc' = [pc EXCEPT ![c] = "disc_send"]
          /\ UNCHANGED <<sessions, route>>
       \/ /\ sid[c] # None /\ GetPeer(c) = None
          /\ DetachFields(c, sid[c])
          /\ Remove(sid[c])
          /\ dst' = [dst EXCEPT ![c] = None]
          /\ pc' = [pc EXCEPT ![c] = "disc_del"]
    /\ UNCHANGED <<sid, phase, redisVars, used>>

\* The coroutine ends; its context is gone and the server closes the socket
Finish(c) ==
    /\ sid' = [sid EXCEPT ![c] = None]
    /\ open' = [open EXCEPT ![c] = FALSE]
    /\ pc' = [pc EXCEPT ![c] = "done"]

\* receive_text raises WebSocketDisconnect
Disconnect(c) ==
    /\ Receiving(c) /\ ~open[c]
    /\ EnterDisconnect(c)
    /\ UNCHANGED faults

\* The deadline of this receive passes; the relay starts closing the socket
HandshakeTimeout(c) ==
    /\ pc[c] = "timed_recv"
    /\ pc' = [pc EXCEPT ![c] = "timed_out"]
    /\ open' = [open EXCEPT ![c] = FALSE]
    /\ UNCHANGED <<sid, arg, dst, slotVars, redisVars, used, faults>>

\* A malformed envelope, a wrong version or a sequence number that does not
\* increase: the relay starts closing the socket
RejectEnvelope(c) ==
    /\ Receiving(c)
    /\ pc' = [pc EXCEPT ![c] = "closing"]
    /\ open' = [open EXCEPT ![c] = FALSE]
    /\ UNCHANGED <<sid, arg, dst, slotVars, redisVars, used, faults>>

\* websocket.close() returns
Closed(c) ==
    /\ pc[c] \in {"timed_out", "closing"}
    /\ EnterDisconnect(c)
    /\ UNCHANGED faults

\* Mutant: the peer is told, but the session is not torn down
NotifyPeerOnly(c) ==
    /\ pc[c] = "disc_send"
    /\ dst' = [dst EXCEPT ![c] = None]
    /\ pc' = [pc EXCEPT ![c] = "disc_del"]
    /\ UNCHANGED <<open, sid, arg, slotVars, redisVars, used, faults>>

\* send_envelope of session_close to the peer returns, or raises and is
\* ignored; then teardown_session up to its await
NotifyPeer(c) ==
    /\ pc[c] = "disc_send"
    /\ Remove(sid[c])
    /\ dst' = [dst EXCEPT ![c] = None]
    /\ pc' = [pc EXCEPT ![c] = "disc_del"]
    /\ UNCHANGED <<open, sid, arg, agent, client, phase, redisVars, used, faults>>

\* Mutant: only the agent deletes the record
AgentDeletes(c) ==
    /\ pc[c] = "disc_del"
    /\ record' = IF c \in Agents THEN [record EXCEPT ![sid[c]] = "absent"] ELSE record
    /\ ttl' = IF c \in Agents THEN [ttl EXCEPT ![sid[c]] = FALSE] ELSE ttl
    /\ Finish(c)
    /\ UNCHANGED <<arg, dst, slotVars, tokenVars, used, faults>>

\* delete_session_record returns and the coroutine ends
DisconnectDelete(c) ==
    /\ pc[c] = "disc_del"
    /\ record' = [record EXCEPT ![sid[c]] = "absent"]
    /\ ttl' = [ttl EXCEPT ![sid[c]] = FALSE]
    /\ Finish(c)
    /\ UNCHANGED <<arg, dst, slotVars, tokenVars, used, faults>>

\* A message the dispatcher or a handler answers with an error only
ErrorReply(c) ==
    /\ Receiving(c)
    /\ UNCHANGED <<ctxVars, slotVars, redisVars, used, faults>>
    /\ LoopTop(c)

(***************************************************************************)
(* Pairing.                                                                *)
(***************************************************************************)

\* registry.detach
Detach(c, s) ==
    /\ DetachFields(c, s)
    /\ sessions' = IF (agent[s] = None \/ c \in Agents) /\ (client[s] = None \/ c \in Clients)
                   THEN sessions \ {s} ELSE sessions
    /\ UNCHANGED <<phase, route>>

\* handle_pair_init up to its first await
PairInit(a, s, t) ==
    /\ Receiving(a) /\ sid[a] = None /\ s \notin used
    /\ AttachAgent(a, s, "pairing")
    /\ sid' = [sid EXCEPT ![a] = s]
    /\ arg' = [arg EXCEPT ![a] = t]
    /\ used' = used \cup {s}
    /\ pc' = [pc EXCEPT ![a] = "issue"]
    /\ UNCHANGED <<open, dst, route, redisVars, faults>>

\* Rate limited, or the token is malformed or taken: the reservation is undone
\* and dispatch answers with an error
PairInitRefused(a) ==
    /\ pc[a] = "issue"
    /\ Detach(a, sid[a])
    /\ sid' = [sid EXCEPT ![a] = None]
    /\ arg' = [arg EXCEPT ![a] = None]
    /\ UNCHANGED <<open, dst, redisVars, used, faults>>
    /\ LoopTop(a)

\* The script of issue_token
PairInitIssue(a) ==
    /\ pc[a] = "issue" /\ tokenState[arg[a]] = "absent"
    /\ tokenState' = [tokenState EXCEPT ![arg[a]] = "pending"]
    /\ tokenSid' = [tokenSid EXCEPT ![arg[a]] = sid[a]]
    /\ pc' = [pc EXCEPT ![a] = "create_hset"]
    /\ UNCHANGED <<ctxVars, slotVars, record, ttl, used, faults>>

\* HSET of create_session_record.  The token is live already: the client may
\* have set a later state, which this overwrites.
PairInitRecord(a) ==
    /\ pc[a] = "create_hset"
    /\ record' = [record EXCEPT ![sid[a]] = "awaiting_client"]
    /\ pc' = [pc EXCEPT ![a] = "create_expire"]
    /\ UNCHANGED <<ctxVars, slotVars, tokenVars, ttl, used, faults>>

\* EXPIRE of create_session_record, and the acknowledgement
PairInitExpire(a) ==
    /\ pc[a] = "create_expire"
    /\ ttl' = [ttl EXCEPT ![sid[a]] = record[sid[a]] # "absent"]
    /\ arg' = [arg EXCEPT ![a] = None]
    /\ UNCHANGED <<open, sid, dst, slotVars, tokenVars, record, used, faults>>
    /\ LoopTop(a)

\* create_session_record raised: the token is deleted, the reservation undone
\* and the exception ends the connection
PairInitUndo(a) ==
    /\ pc[a] = "undo_token"
    /\ tokenState' = [tokenState EXCEPT ![arg[a]] = "absent"]
    /\ tokenSid' = [tokenSid EXCEPT ![arg[a]] = None]
    /\ arg' = [arg EXCEPT ![a] = None]
    /\ Detach(a, sid[a])
    /\ Finish(a)
    /\ UNCHANGED <<dst, record, ttl, used, faults>>

\* handle_pair_request up to its awaits
PairRequest(c, t) ==
    /\ Receiving(c) /\ sid[c] = None
    /\ arg' = [arg EXCEPT ![c] = t]
    /\ pc' = [pc EXCEPT ![c] = "consume"]
    /\ UNCHANGED <<open, sid, dst, slotVars, redisVars, used, faults>>

\* Rate limited, or the token is unknown or already used
PairRequestRefused(c) ==
    /\ pc[c] = "consume"
    /\ arg' = [arg EXCEPT ![c] = None]
    /\ UNCHANGED <<open, sid, dst, slotVars, redisVars, used, faults>>
    /\ LoopTop(c)

\* The script of consume_token succeeds and the client attaches
PairRequestAttach(c) ==
    /\ pc[c] = "consume" /\ tokenState[arg[c]] = "pending"
    /\ ClientMayAttach(tokenSid[arg[c]])
    /\ tokenState' = [tokenState EXCEPT ![arg[c]] = "consumed"]
    /\ AttachClient(c, tokenSid[arg[c]])
    /\ arg' = [arg EXCEPT ![c] = None]
    /\ pc' = [pc EXCEPT ![c] = "set_handshaking"]
    /\ UNCHANGED <<open, dst, phase, tokenSid, record, ttl, used, faults>>

\* The script succeeds, but the agent is gone: the token is spent all the same
PairRequestOrphan(c) ==
    /\ pc[c] = "consume" /\ tokenState[arg[c]] = "pending"
    /\ ~ClientMayAttach(tokenSid[arg[c]])
    /\ tokenState' = [tokenState EXCEPT ![arg[c]] = "consumed"]
    /\ arg' = [arg EXCEPT ![c] = None]
    /\ UNCHANGED <<open, sid, dst, slotVars, tokenSid, record, ttl, used, faults>>
    /\ LoopTop(c)

\* HSET of set_session_state: a record that has expired or was deleted comes
\* back, without an expiry
PairRequestMark(c) ==
    /\ pc[c] = "set_handshaking"
    /\ record' = [record EXCEPT ![sid[c]] = "handshaking"]
    /\ pc' = [pc EXCEPT ![c] = "challenge"]
    /\ UNCHANGED <<ctxVars, slotVars, tokenVars, ttl, used, faults>>

\* The client has its challenge; the agent's goes to whatever slot.agent is
\* now: the slot object was fetched before two awaits, and None has no send
PairRequestChallenge(c) ==
    /\ pc[c] = "challenge"
    /\ UNCHANGED faults
    /\ \/ /\ open[c] /\ agent[sid[c]] # None
          /\ dst' = [dst EXCEPT ![c] = agent[sid[c]]]
          /\ pc' = [pc EXCEPT ![c] = "send"]
          /\ UNCHANGED <<open, sid, arg, slotVars, redisVars, used>>
       \/ /\ ~open[c] \/ agent[sid[c]] = None
          /\ EnterDisconnect(c)

(***************************************************************************)
(* Resuming.                                                               *)
(***************************************************************************)

\* handle_resume_init when the device is free
ResumeInit(a, s, d) ==
    /\ Receiving(a) /\ sid[a] = None /\ s \notin used
    /\ route[d] = None
    /\ AttachAgent(a, s, "waiting_resume")
    /\ route' = [route EXCEPT ![d] = s]
    /\ sid' = [sid EXCEPT ![a] = s]
    /\ used' = used \cup {s}
    /\ UNCHANGED <<open, arg, dst, redisVars, faults>>
    /\ LoopTop(a)

\* handle_resume_request up to its awaits
ResumeRequest(c, d) ==
    /\ Receiving(c) /\ sid[c] = None
    /\ arg' = [arg EXCEPT ![c] = d]
    /\ pc' = [pc EXCEPT ![c] = "resume_limits"]
    /\ UNCHANGED <<open, sid, dst, slotVars, redisVars, used, faults>>

\* Rate limited, device offline, or a client is attached already
ResumeRequestRefused(c) ==
    /\ pc[c] = "resume_limits"
    /\ arg' = [arg EXCEPT ![c] = None]
    /\ UNCHANGED <<open, sid, dst, slotVars, redisVars, used, faults>>
    /\ LoopTop(c)

\* Mutant: the phase the last client left behind is kept
ResumeRequestInherit(c) ==
    /\ pc[c] = "resume_limits" /\ route[arg[c]] # None
    /\ ClientMayAttach(route[arg[c]])
    /\ AttachClient(c, route[arg[c]])
    /\ dst' = [dst EXCEPT ![c] = agent[route[arg[c]]]]
    /\ arg' = [arg EXCEPT ![c] = None]
    /\ pc' = [pc EXCEPT ![c] = "send"]
    /\ UNCHANGED <<open, phase, redisVars, used, faults>>

\* The client attaches and the agent is to be told
ResumeRequestAttach(c) ==
    /\ pc[c] = "resume_limits" /\ route[arg[c]] # None
    /\ LET s == route[arg[c]] IN
       /\ ClientMayAttach(s)
       /\ AttachClient(c, s)
       /\ phase' = [phase EXCEPT ![s] = "resuming"]
       /\ dst' = [dst EXCEPT ![c] = agent[s]]
    /\ arg' = [arg EXCEPT ![c] = None]
    /\ pc' = [pc EXCEPT ![c] = "send"]
    /\ UNCHANGED <<open, redisVars, used, faults>>

(***************************************************************************)
(* Messages for the peer.                                                  *)
(***************************************************************************)

\* The handler found a peer and starts sending to it
SendToPeer(c, state) ==
    /\ Receiving(c) /\ GetPeer(c) # None
    /\ dst' = [dst EXCEPT ![c] = GetPeer(c)]
    /\ pc' = [pc EXCEPT ![c] = state]
    /\ UNCHANGED <<open, sid, arg, sessions, agent, client, route, redisVars, used, faults>>

\* handle_resume_proof, handle_resume_challenge: in any phase
ResumeProof(c) == c \in Clients /\ SendToPeer(c, "send") /\ UNCHANGED phase
ResumeChallenge(a) == a \in Agents /\ SendToPeer(a, "send") /\ UNCHANGED phase

\* handle_pair_complete and handle_resume_complete: the agent vouches for its
\* peer, in any phase; the peer's receive keeps the timeout it started with
PairComplete(a) ==
    /\ a \in Agents /\ SendToPeer(a, "complete_send")
    /\ phase' = [phase EXCEPT ![sid[a]] = "established"]

ResumeComplete(a) ==
    /\ a \in Agents /\ SendToPeer(a, "send")
    /\ phase' = [phase EXCEPT ![sid[a]] = "established"]

\* handle_routable: session traffic, and session_close
Routable(c) == sid[c] \in sessions /\ phase[sid[c]] = "established"
Route(c) == Routable(c) /\ SendToPeer(c, "send") /\ UNCHANGED phase
CloseSession(c) == Routable(c) /\ SendToPeer(c, "close_send") /\ UNCHANGED phase

\* send_envelope returns: nothing left to do
Deliver(c) ==
    /\ pc[c] = "send" /\ open[dst[c]]
    /\ dst' = [dst EXCEPT ![c] = None]
    /\ UNCHANGED <<open, sid, arg, slotVars, redisVars, used, faults>>
    /\ LoopTop(c)

\* pair_complete was sent; mark_session_established follows
DeliverComplete(a) ==
    /\ pc[a] = "complete_send" /\ open[dst[a]]
    /\ dst' = [dst EXCEPT ![a] = None]
    /\ pc' = [pc EXCEPT ![a] = "set_established"]
    /\ UNCHANGED <<open, sid, arg, slotVars, redisVars, used, faults>>

\* session_close was sent; teardown_session up to its await
DeliverClose(c) ==
    /\ pc[c] = "close_send" /\ open[dst[c]]
    /\ Remove(sid[c])
    /\ dst' = [dst EXCEPT ![c] = None]
    /\ pc' = [pc EXCEPT ![c] = "teardown_del"]
    /\ UNCHANGED <<open, sid, arg, agent, client, phase, redisVars, used, faults>>

\* The destination is closed: the exception ends the sender's connection
SendRaises(c) ==
    /\ pc[c] \in Sending /\ ~open[dst[c]]
    /\ EnterDisconnect(c)
    /\ UNCHANGED faults

\* HSET of mark_session_established
SetEstablished(a) ==
    /\ pc[a] = "set_established"
    /\ record' = [record EXCEPT ![sid[a]] = "established"]
    /\ pc' = [pc EXCEPT ![a] = "persist"]
    /\ UNCHANGED <<ctxVars, slotVars, tokenVars, ttl, used, faults>>

\* PERSIST of mark_session_established
Persist(a) ==
    /\ pc[a] = "persist"
    /\ ttl' = [ttl EXCEPT ![sid[a]] = FALSE]
    /\ UNCHANGED <<ctxVars, slotVars, tokenVars, record, used, faults>>
    /\ LoopTop(a)

\* delete_session_record after session_close.  The connection stays bound.
CloseDelete(c) ==
    /\ pc[c] = "teardown_del"
    /\ record' = [record EXCEPT ![sid[c]] = "absent"]
    /\ ttl' = [ttl EXCEPT ![sid[c]] = FALSE]
    /\ UNCHANGED <<ctxVars, slotVars, tokenVars, used, faults>>
    /\ LoopTop(c)

(***************************************************************************)
(* A Redis call raises, its effect not applied.                            *)
(***************************************************************************)

InPairInit == {"issue", "create_hset", "create_expire", "undo_token"}
InRedis == InPairInit \cup {"consume", "resume_limits", "set_handshaking",
                            "set_established", "persist", "teardown_del", "disc_del"}

\* issue_token or delete_token raised: the reservation is undone
PairInitFault(a) ==
    /\ pc[a] \in {"issue", "undo_token"}
    /\ Detach(a, sid[a])
    /\ Finish(a)
    /\ arg' = [arg EXCEPT ![a] = None]
    /\ UNCHANGED <<dst, redisVars, used>>

\* create_session_record raised
RecordFault(a) ==
    /\ pc[a] \in {"create_hset", "create_expire"}
    /\ pc' = [pc EXCEPT ![a] = "undo_token"]
    /\ UNCHANGED <<ctxVars, slotVars, redisVars, used>>

\* The delete in _handle_disconnect raised: the record stays
DeleteFault(c) ==
    /\ pc[c] = "disc_del"
    /\ Finish(c)
    /\ UNCHANGED <<arg, dst, slotVars, redisVars, used>>

\* Any other call: the exception ends the connection
HandlerFault(c) ==
    /\ pc[c] \in InRedis \ (InPairInit \cup {"disc_del"})
    /\ EnterDisconnect(c)

RedisFault(c) ==
    /\ faults < MaxFaults
    /\ faults' = faults + 1
    /\ PairInitFault(c) \/ RecordFault(c) \/ DeleteFault(c) \/ HandlerFault(c)

(***************************************************************************)
(* The environment.                                                        *)
(***************************************************************************)

\* The endpoint's socket goes away
PeerGone(c) ==
    /\ open[c]
    /\ open' = [open EXCEPT ![c] = FALSE]
    /\ UNCHANGED <<pc, sid, arg, dst, slotVars, redisVars, used, faults>>

TokenExpire(t) ==
    /\ tokenState[t] # "absent"
    /\ tokenState' = [tokenState EXCEPT ![t] = "absent"]
    /\ tokenSid' = [tokenSid EXCEPT ![t] = None]
    /\ UNCHANGED <<pc, ctxVars, slotVars, record, ttl, used, faults>>

RecordExpire(s) ==
    /\ ttl[s]
    /\ record' = [record EXCEPT ![s] = "absent"]
    /\ ttl' = [ttl EXCEPT ![s] = FALSE]
    /\ UNCHANGED <<pc, ctxVars, slotVars, tokenVars, used, faults>>

(***************************************************************************)
(* Specification.                                                          *)
(***************************************************************************)

Init ==
    /\ pc = [c \in Conns |-> "timed_recv"]
    /\ open = [c \in Conns |-> TRUE]
    /\ sid = [c \in Conns |-> None]
    /\ arg = [c \in Conns |-> None]
    /\ dst = [c \in Conns |-> None]
    /\ sessions = {}
    /\ agent = [s \in Sids |-> None]
    /\ client = [s \in Sids |-> None]
    /\ phase = [s \in Sids |-> "pairing"]
    /\ route = [d \in Devices |-> None]
    /\ tokenState = [t \in Tokens |-> "absent"]
    /\ tokenSid = [t \in Tokens |-> None]
    /\ record = [s \in Sids |-> "absent"]
    /\ ttl = [s \in Sids |-> FALSE]
    /\ used = {}
    /\ faults = 0

\* What a message makes an idle connection do
Message(c) ==
    \/ RejectEnvelope(c) \/ ErrorReply(c) \/ Route(c) \/ CloseSession(c)
    \/ ResumeProof(c) \/ ResumeChallenge(c) \/ PairComplete(c) \/ ResumeComplete(c)

AgentMessage(a) == \E s \in Sids :
    (\E t \in Tokens : PairInit(a, s, t)) \/ (\E d \in Devices : ResumeInit(a, s, d))

ClientMessage(c) ==
    (\E t \in Tokens : PairRequest(c, t)) \/ (\E d \in Devices : ResumeRequest(c, d))

\* A suspended coroutine goes on
AgentStep(a) ==
    \/ PairInitRefused(a) \/ PairInitIssue(a) \/ PairInitRecord(a)
    \/ PairInitExpire(a) \/ PairInitUndo(a)
    \/ DeliverComplete(a) \/ SetEstablished(a) \/ Persist(a)

ClientStep(c) ==
    \/ PairRequestRefused(c) \/ PairRequestAttach(c) \/ PairRequestOrphan(c)
    \/ PairRequestMark(c) \/ PairRequestChallenge(c)
    \/ ResumeRequestRefused(c) \/ ResumeRequestAttach(c)

Step(c) ==
    \/ Closed(c) \/ NotifyPeer(c) \/ DisconnectDelete(c)
    \/ Deliver(c) \/ DeliverClose(c) \/ SendRaises(c) \/ CloseDelete(c)

Environment ==
    \/ \E c \in Conns : PeerGone(c) \/ RedisFault(c)
    \/ \E t \in Tokens : TokenExpire(t)
    \/ \E s \in Sids : RecordExpire(s)

Next ==
    \/ \E a \in Agents : AgentMessage(a) \/ AgentStep(a)
    \/ \E c \in Clients : ClientMessage(c) \/ ClientStep(c)
    \/ \E c \in Conns : Message(c) \/ Step(c) \/ Disconnect(c) \/ HandshakeTimeout(c)
    \/ Environment

Spec == Init /\ [][Next]_vars

(***************************************************************************)
(* Invariants.                                                             *)
(***************************************************************************)

TypeOK ==
    /\ pc \in [Conns -> PCs]
    /\ open \in [Conns -> BOOLEAN]
    /\ sid \in [Conns -> Sids \cup {None}]
    /\ arg \in [Conns -> Tokens \cup Devices \cup {None}]
    /\ dst \in [Conns -> Conns \cup {None}]
    /\ sessions \in SUBSET Sids
    /\ agent \in [Sids -> Agents \cup {None}]
    /\ client \in [Sids -> Clients \cup {None}]
    /\ phase \in [Sids -> Phases]
    /\ route \in [Devices -> Sids \cup {None}]
    /\ tokenState \in [Tokens -> {"absent", "pending", "consumed"}]
    /\ tokenSid \in [Tokens -> Sids \cup {None}]
    /\ record \in [Sids -> {"absent", "awaiting_client", "handshaking", "established"}]
    /\ ttl \in [Sids -> BOOLEAN]
    /\ used \in SUBSET Sids
    /\ faults \in 0..MaxFaults

\* Bound to a session by a coroutine that has not begun to leave it
Bound(c, s) == sid[c] = s /\ pc[c] \notin Leaving

\* The registry and the connections agree: a slot names only connections that
\* are bound to its session and not leaving it, and a bound connection finds
\* itself in its session's slot as long as the registry has the slot.
\* (registry.attach, detach, remove against ctx.session_id.)
SlotAgreement ==
    \A s \in sessions :
       /\ \A c \in Conns : c \in {agent[s], client[s]} => Bound(c, s)
       /\ \A a \in Agents : Bound(a, s) => agent[s] = a
       /\ \A c \in Clients : Bound(c, s) => client[s] = c

\* Whatever a suspended send is addressed to has the other role and is, or was
\* when its coroutine ended, bound to the sender's own session: no message of
\* one session reaches another one.  (Every send_envelope to a peer.)
Isolation ==
    \A c \in Conns : dst[c] # None =>
       /\ c \in Agents <=> dst[c] \in Clients
       /\ sid[dst[c]] = sid[c] \/ pc[dst[c]] = "done"

\* A session never has two controllers: no two live connections of one role
\* are bound to it, in the registry or out of it.  (handle_pair_request,
\* handle_resume_request against _handle_disconnect.)
Exclusive ==
    \A s \in Sids : \A R \in {Agents, Clients} : \A c, d \in R :
       Bound(c, s) /\ Bound(d, s) => c = d

\* A device is routed to a session only while an agent connection is bound to
\* it, so a reconnecting agent is locked out only by a live coroutine.
\* (register_device against _handle_disconnect and teardown_session.)
RouteHasOwner ==
    \A d \in Devices : route[d] # None => \E a \in Agents : sid[a] = route[d]

\* While Redis answers, a session record without an expiry belongs to a
\* connection that has yet to delete it: none is left behind for good.
\* (create_session_record, set_session_state, mark_session_established
\* against delete_session_record.)
RecordHasOwner ==
    \A s \in Sids : faults = 0 /\ record[s] # "absent" /\ ~ttl[s]
                     => \E c \in Conns : sid[c] = s

\* A slot that has lost its agent, or that has lost its client after one was
\* attached, is on its way out: the connection that left it is about to remove
\* it.  (_handle_disconnect.)
HalfOpenIsLeaving ==
    \A s \in sessions :
       /\ agent[s] = None => faults > 0 \/ \E a \in Agents : sid[a] = s /\ pc[a] = "disc_send"
       /\ client[s] = None /\ phase[s] \in {"resuming", "established"}
             => \E c \in Clients : sid[c] = s /\ pc[c] = "disc_send"

\* A client that attaches never finds the session authenticated for a client
\* before it.  (The single-use token, and slot.phase = "resuming" in
\* handle_resume_request.)
AuthNotInherited ==
    [][\A s \in Sids : client'[s] \notin {None, client[s]} => phase'[s] # "established"]_vars

(***************************************************************************)
(* What makes the invariants inductive.                                    *)
(***************************************************************************)

\* Where a coroutine is tells whether it has a session and an addressee
ContextOK ==
    \A c \in Conns :
       /\ pc[c] \in {"consume", "resume_limits", "done"} => sid[c] = None
       /\ pc[c] \in InPairInit \cup Sending \cup
                    {"set_handshaking", "challenge", "set_established", "persist",
                     "teardown_del", "disc_send", "disc_del"} => sid[c] # None
       /\ dst[c] # None <=> pc[c] \in Sending \cup {"disc_send"}
       /\ pc[c] \in InPairInit => c \in Agents /\ arg[c] \in Tokens
       /\ pc[c] = "consume" => arg[c] \in Tokens
       /\ pc[c] = "resume_limits" => arg[c] \in Devices

\* A session id that no agent has picked is nowhere
FreshOK ==
    \A s \in Sids \ used :
       /\ s \notin sessions /\ record[s] = "absent"
       /\ \A c \in Conns : sid[c] # s
       /\ \A d \in Devices : route[d] # s
       /\ \A t \in Tokens : tokenSid[t] # s

\* The agent of a slot object, in the registry or not, is of its session
AgentOfSlot ==
    \A s \in Sids : agent[s] # None => sid[agent[s]] = s \/ pc[agent[s]] = "done"

\* Until its token is issued nobody else has heard of a reserved session, and
\* no session that is being paired is one a device is routed to
ReservedOK ==
    \A a \in Conns : pc[a] \in InPairInit =>
       /\ \A d \in Devices : route[d] # sid[a]
       /\ pc[a] = "issue" =>
             /\ sid[a] \in sessions
             /\ phase[sid[a]] = "pairing" /\ record[sid[a]] = "absent"
             /\ \A c \in Conns \ {a} : sid[c] # sid[a]
             /\ \A t \in Tokens : tokenSid[t] # sid[a]

\* A pending token is the only way into a session no client has been in
PendingOK ==
    \A t \in Tokens : tokenState[t] = "pending" =>
       /\ tokenSid[t] # None
       /\ \A d \in Devices : route[d] # tokenSid[t]
       /\ \A u \in Tokens : tokenState[u] = "pending" /\ tokenSid[u] = tokenSid[t] => u = t
       /\ tokenSid[t] \in sessions =>
             client[tokenSid[t]] = None /\ phase[tokenSid[t]] = "pairing"

\* Once a leaving connection is past teardown_session nothing names its session
TornDown ==
    \A c \in Conns : pc[c] = "disc_del" =>
       sid[c] \notin sessions /\ \A d \in Devices : route[d] # sid[c]

UndoMeansFault == \A c \in Conns : pc[c] = "undo_token" => faults > 0

IInv ==
    /\ TypeOK /\ ContextOK /\ FreshOK
    /\ SlotAgreement /\ Exclusive /\ AgentOfSlot /\ ReservedOK
    /\ Isolation /\ PendingOK
    /\ TornDown /\ RouteHasOwner
    /\ UndoMeansFault /\ RecordHasOwner /\ HalfOpenIsLeaving

(***************************************************************************)
(* Claims of the comments that the code does not keep.                     *)
(***************************************************************************)

\* ws_handlers.py:65: the phases "established" and "waiting_resume" are exempt
\* from the handshake deadline.
ExemptNeverTimedOut ==
    [][\A c \in Conns : pc[c] # "timed_out" /\ pc'[c] = "timed_out" => ~Exempt(c)]_vars

\* session_registry.py:6: no interleaving risk; in particular the agent that
\* handle_pair_request has checked is still there when it is sent to.
ChallengeHasAgent ==
    \A c \in Clients : pc[c] = "challenge" => agent[sid[c]] # None

(***************************************************************************)
(* Relay implements SessionLifecycle.                                      *)
(***************************************************************************)

\* A party of the session has left it, and the session is yet to be removed
LosesParty(s) ==
    agent[s] = None \/ \E c \in Conns : sid[c] = s /\ pc[c] = "disc_send"

StageOf(s) ==
    IF s \notin used THEN "unused"
    ELSE IF s \notin sessions THEN "over"
    ELSE IF LosesParty(s) THEN "ending" ELSE "open"

OwnerOf(s) == IF s \in sessions THEN agent[s] ELSE None
ControllerOf(s) == IF s \in sessions THEN client[s] ELSE None
Trusted(s) == s \in sessions /\ phase[s] = "established"

Lifecycle == INSTANCE SessionLifecycle WITH
    stage <- [s \in Sids |-> StageOf(s)],
    owner <- [s \in Sids |-> OwnerOf(s)],
    controller <- [s \in Sids |-> ControllerOf(s)],
    trusted <- [s \in Sids |-> Trusted(s)]

\* A session is joined while it is open, by a client that is not trusted yet.
\* Once a party has left it is never open again, in whatever order the
\* teardowns of its connections run, and its id does not come back.  (Every
\* handler against _handle_disconnect and teardown_session.)
FollowsLifecycle == Lifecycle!LifecycleSpec

(***************************************************************************)
(* Liveness.                                                               *)
(***************************************************************************)

\* A suspended coroutine is resumed: Redis answers or raises, a send ends when
\* the socket drains or the keepalive of the server gives it up, a close ends.
\* A closed socket holds finitely many unread messages, so its receive raises
\* in the end (SF).  A client sets its deadline once before its session is
\* established, so it passes, whatever the client sends (SF).
Fairness ==
    /\ \A a \in Agents : WF_vars(AgentStep(a))
    /\ \A c \in Clients : WF_vars(ClientStep(c)) /\ SF_vars(HandshakeTimeout(c))
    /\ \A c \in Conns : WF_vars(Step(c)) /\ SF_vars(Disconnect(c))

FairSpec == Spec /\ Fairness

\* A session one of whose sockets is closed is forgotten, with its device
\* routes, so that the agent can register again.  (_handle_disconnect.)
SessionFreed ==
    \A s \in Sids :
       (\E c \in Conns : sid[c] = s /\ ~open[c]) ~> (s \notin sessions /\ \A d \in Devices : route[d] # s)

\* A handshake ends: a session with a client is established, or is given up.
\* (handshake_timeout_s.)
HandshakeEnds ==
    \A s \in Sids :
       (s \in sessions /\ client[s] # None)
          ~> (s \in sessions => client[s] = None \/ phase[s] = "established")

=============================================================================
