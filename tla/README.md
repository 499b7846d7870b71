# TLA+ models and proofs of termhop

termhop streams a terminal from an **agent** (the machine that runs the shell) to a **browser client** through a
**relay**. The agent prints a link with a one-time pairing token; the client that presents it is joined to the agent by
the relay, the two authenticate each other end to end, and from then on the relay forwards ciphertext. A device that has
been paired can be resumed later without a new token.

This directory holds TLA+ modules for the parts of that system whose correctness depends on the order of events, TLC
configurations that check them on small instances, and TLAPS proofs of their main properties for all instances.

## 1. The system

| Component | Source | State it keeps | Operations |
|---|---|---|---|
| connection loop | `relay/ws_handlers.py` | per connection: role, session id, last sequence number, handshake deadline | accept, receive with a deadline, reject, dispatch, disconnect |
| message handlers | `relay/router.py` | the phase of a session slot | `pair_init`, `pair_request`, `pair_complete`, `resume_init/request/challenge/proof/complete`, routed traffic, `session_close` |
| session registry | `relay/session_registry.py` | session id -> (agent, client, phase); device id -> session id | attach, detach, remove, get_peer, register_device |
| tokens and records | `relay/pairing.py` | Redis `relay:token:*`, `relay:session:*` with expiries | issue, consume, delete a token; create, set, persist, delete a record |
| attempt limiters | `relay/ratelimit.py` | Redis window per address, count and block per token or device | `check_ip_rate_limit`, `check_token_rate_limit` |
| connection cap | `relay/ratelimit.py` | open connections per address | `try_acquire`, `release` |
| session manager | `agent/common/session_manager.py` | session records (memory and manifest file), control leases (memory) | create, rename, start, attach, detach, pause, resume, terminate, complete, load, save |
| command line | `agent/common/cli.py` | saved credential, one PTY | pair or resume, reconnect loop |
| relay client, pump | `agent/common/relay_client.py`, `session_pump.py` | handshake state, sequence numbers | handshake, two pump tasks |
| cryptography | `agent/common/crypto.py` | - | transcript, key derivation, proofs, sealing with additional data |
| PTY backends | `agent/{linux,macos,windows}/pty_backend.py` | a reader callback, or a thread per read | spawn, read, write, resize, close |
| envelopes, links, installers | the rest of `agent/` | - | parsing, formatting, shell scripts |

**How they interact.** The relay runs one coroutine per WebSocket. All of them share the registry (plain dictionaries, no
lock) and Redis. asyncio switches coroutines only at an `await`; the code between two awaits is atomic. Three kinds of
await matter: a receive, a Redis call, and a send to another connection's socket (which suspends when that socket's
buffer is full). The agent is a separate process with its own files.

**What is hard in it.**

* A handler looks something up, awaits, and uses it: the other side may have left meanwhile (`handle_pair_request`).
* A connection leaves in two steps, detach and teardown, with a send in between; a newcomer can slip in.
* A deadline is computed before a wait, from a phase that another coroutine changes during the wait.
* Redis may fail between any two of the calls of one handler, and keys expire on their own.
* Limiter scripts of overlapping attempts run in another order than their time stamps.
* The session manager's file may fail to be written, and the process may die between any two calls.
* A read of the PTY is cancelled while a callback or a thread is about to deliver to it, and the next connection reads on.
* The relay forwards by session, not by handshake: a completion meant for one client may reach the next one.

PROJECT.json lists each hazard at its line, with the properties that watch over it.

**What makes each component correct.**

* Relay: one agent and one client per session at most; messages stay in their session; a client never inherits the
  authentication of another; registry and connections agree; whatever ends a session, its slot, device route and record
  go with it; a handshake ends.
* Limiters: no more attempts get through than the limits say; nobody is refused without cause; a token pairs once.
* Connection cap: places are neither lost nor given back twice.
* Session manager: one controller per session, never displaced; nobody controls a session that has ended; outcomes are
  final on disk; nothing that was saved is lost.
* Handshake: whoever completes one agrees with exactly one peer on the keys, and hears only that peer.
* Command line: a shell is started once, streamed to one connection at a time, and outlives them; its record does not say more
  than what is so.
* PTY reader: output is sent in order, a lost connection costs one chunk at most, and the end of the output is seen.

## 2. The modules

### Relay

`Relay.tla` models `ws_handlers.py`, `router.py`, `session_registry.py` and the Redis keys of `pairing.py` together,
because their interaction is what can go wrong.

*State.* `pc[c]` names the await in which connection `c` is suspended; `sid`, `arg`, `dst` are the locals that survive the
await (`ctx.session_id`, the token or device at hand, the socket being sent to); `open` is the transport's view of the
socket. `sessions`, `agent`, `client`, `phase` are the registry's slots. They are kept apart from membership in the
registry on purpose: a handler may hold a slot object that has been removed. `route` is `_devices`; `tokenState`,
`tokenSid`, `record`, `ttl` are Redis.

*Actions.* One action is what a handler does between two awaits, so a handler with three awaits is a chain of actions
through `pc` (`PairRequest`, `PairRequestAttach`, `PairRequestMark`, `PairRequestChallenge`, `Deliver`), and every other
coroutine may run between them. The `finally` clause is `EnterDisconnect` (to its first await), `NotifyPeer`,
`DisconnectDelete`. An exception ends the connection through `EnterDisconnect`, except in `handle_pair_init`, which undoes
its reservation first. `RedisFault` lets any Redis call raise, `TokenExpire` and `RecordExpire` let keys expire,
`PeerGone` closes a socket at any time.

*What is assumed.* Endpoints are unconstrained: any message a role may send, in any order, at any time. Only one thing is
assumed of agents, that a session id (64 random bits) is never picked twice. Deadlines are not clocked: a receive that
began with a timeout may time out at any moment, one that began without never does. This is enough for the properties
stated, and it keeps the essential point, that the choice is made once, at `LoopTop`.

*What is left out.* The payloads and their validation (a refused message is `ErrorReply` or `RejectEnvelope`), logging,
and `last_seq` (a rejected sequence number is `RejectEnvelope`). The skipped notification of a peer that is known to be
closed is the interleaving in which `NotifyPeer` follows at once.

### SessionLifecycle

`SessionLifecycle.tla` is the abstract specification of what the relay does with a session: an agent opens it once, a client
joins, the agent vouches for the client, either of them leaves, and the session ends. Relay implements it with the mapping at
the end of `Relay.tla` (`StageOf`, `OwnerOf`, `ControllerOf`, `Trusted`): a session is *ending* from the moment a party is
detached until it is removed from the registry, which is the window between `detach` and the end of the teardown. The code
does let a client slip in during this window, so `Join` is allowed in "ending" (the run fails if it is not); what the
refinement excludes is that such a session is opened again, comes back, or that the newcomer is trusted already.

### RateLimit

`RateLimit.tla` models the two Lua scripts and the token's own scripts on a clock. An attempt takes its stamp in `Begin`,
and its address script runs up to `MaxDelay` later (`AddressCheck`); the token scripts follow (`CapCheck`, `CapBlocked`,
`Issue`, `Record`, `Consume`), and the pairing agent's wait to be scanned ends by its deadline (`TimeOut`). Expiry is by time (`Alive`). The histories `checked` and `tried` record when scripts ran
and are read by properties only. Assumed: the relay and Redis agree on the time, and it does not go backwards
(`time.time()` is used); an agent draws each token once (`secrets.token_urlsafe`); a script runs within `MaxDelay` of its
stamp, less than the window.

### ConnectionLimiter

`ConnectionLimiter.tla` models `try_acquire`, `release` and the frame of `_ws_loop` around them: a refused origin never
asks, a refused connection returns before the `try`, everything else gives its place back in the `finally`.

### SessionManager and Control

`SessionManager.tla` models every operation of the agent's session manager. Each call is synchronous, so it is one action;
`Save` either replaces the file or raises and leaves it, and what memory then holds is what the code has changed before
the call. `Restart` is a crash between two calls: the new process loads the manifest and knows no lease. Time is a clock,
because leases end by it; an expired lease is removed by the next call that looks at it (`Refused`, or the call itself).
In `attach`, a `_save` that raises leaves a lease whose token nobody knows, which is why `known` differs from `issued`.

`Control.tla` is the abstract specification of leases: `Grant` to a session that nobody controls, of a token never used,
and `End` of any number of them. `SessionManager` implements it with the mapping `holder <- LeaseOf, spent <- issued`.

### AgentSession

`AgentSession.tla` models `pair_and_stream`, `_run_persistent_session` (`cli.py`), the pump (`session_pump.py`), both
handshakes and the acceptance of input (`relay_client.py`), and the device credential in the configuration file
(`config.py`), over several processes.

*State.* `at` names the await in which the main coroutine is suspended, `toRelay` and `toPty` those of the two pump tasks;
`mode` says whether the coroutine is pairing, resuming in a new process, or in the reconnect loop. `shell` is the PTY's child,
`record` the process's entry in the manifest, `device` and `disk` the credential in memory and in the file.

*Actions.* As in Relay, one action is what the code does between two awaits: `Credential`, for instance, is everything from the
return of `send_device_credential` to the await of `send_session_list`, with its failures. `Fails` is where an exception of a
handshake leads, which is the end for a new process and another round for the reconnect loop; `Stream` is the look at
`is_alive` that both make before they stream. `PumpEnds` is the end of `run_pty_session`, the cancellation of the other task
included. `Interrupt` is SIGINT, which cancels the coroutine where it waits and runs its `finally` clauses; `Kill` runs none.

*What is assumed.* The relay answers anything, and replays, reorders or withholds input. A valid `resume_proof` comes only from
a client that holds the credential, and input that decrypts was sealed for this connection: that is what the cryptography is
for. A client that has authenticated may leave before its credential arrives. The shell exits, and the socket is lost, at any
moment. Once the shell has gone, a write or a resize may or may not raise, as the platform has it.

*What is left out.* The bytes of the terminal's output (PtyReader has their order), the relay URL, and `pair()`, which nothing
calls.

### HostedShell

`HostedShell.tla` is the abstract specification of what the agent does with a shell: `Boot`, then connections that `Open`, `Attach`
the shell and `Detach` from it; `Spawn` once per process; `Type` of a message over its own connection, in order; `End` of the
process. AgentSession implements it with the mapping at its end (`LinkOf`, `RecordOf`). It leaves open how a connection is made,
resumed and lost, who notices first that something has ended, and whether the record is completed when the process is killed; it
excludes that a lost connection takes the shell down, that a shell is started before its client is there or a second one beside it,
that input of one connection is typed through another, and that a record says `exited` while the process goes on.

### PtyReader

`PtyReader.tla` models `read` of the backends and the task that calls it (`_pump_pty_to_relay`), over the connections of one
shell; `conpty` says which backend it is. On POSIX a read registers a callback with the event loop (`Read`, `OnReadable`) and
removes it in its `finally` clause (`Unwind`), which runs after the task has been cancelled and before `run_pty_session` returns.
On Windows it starts a thread (`BlockingRead`), whose result the loop hands to the read's own future (`FinishRead`) unless that
read is over. Output is a number of chunks; `owner` and `sent` are histories of who took a chunk and what was sent. A chunk is
what one `proc.read` returns, and a send that is cancelled or raises counts as not sent, which is the worse case. That two
threads that read one ConPTY get the chunks one after the other is an assumption about the operating system.

### OutputStream

`OutputStream.tla` is the abstract specification of the shell's output, with no reader, task or thread in it: chunks are delivered in
order; every connection that breaks allows one to be skipped; what was skipped never exceeds what was allowed, not even when the end
is reported. PtyReader implements it (`Broken` counts the connections that have broken). It adds up what `LossBounded` says of one
connection: over the whole life of a shell at most one chunk per broken connection is missing.

### Handshake

`Handshake.tla` models both handshakes from end to end: the agent's `RelayClient` with its sequence numbers, `crypto.py`, and
the browser at the other end as the agent expects it. A connection stands for the random values it draws (session id, routing
token, key pair, link secret). Keys and proofs are terms: `Derive` gives equal keys for equal exchanged secret, salt and
transcript and different ones otherwise, and that is all the primitives are assumed to do.

*The network* is a set of messages that only grows: `Complete`, `Completed`, `Accept` and the others take any message of the
right type, whoever it was meant for and however often it was taken before. This includes what Relay really does, such as
forwarding an agent's completion to a client that has just taken the place of another. Messages are made by the two protocols
only. Session ids on envelopes are not compared: the relay writes them. A message that is not the expected one closes the
connection, which `AgentCloses` and `ClientCloses` may do at any moment.

*Left out* are base64 and length checks, and the envelopes (`error`, `session_list`, `session_resize`) that carry no keys.

### Agreement

`Agreement.tla` is the abstract specification of pairing and resuming, without messages and keys: a client commits once, to an agent
and a credential; an agent accepts, once, a client that is committed to it and to its own credential; the client finishes only with
that agent; an agent listens only to the client it has accepted, and only to what it has said after finishing; who has left stays
away. Handshake implements it. The mapping (`CommitmentOf`, `AcceptedBy`, `StageOf`, `HasSpoken`) reads commitments and acceptances
off the keys, which an end keeps when it closes, so the refinement speaks about ends that have gone as well.

### Instances and proofs

`MCRelay`, `MCSessionManager`, `MCRateLimit`, `MCAgentSession` and `MCHandshake` give constants their values for TLC. `RelayProofs`,
`RateLimitProofs`, `ConnectionLimiterProofs`, `SessionManagerProofs`, `AgentSessionProofs`, `HandshakeProofs` and `PtyReaderProofs`
hold the proofs. Definitions marked *Mutant* are plausible bugs: each property of a run is
shown to fail when one of them replaces the definition that follows it.

## 3. What the runs check

| Run | Bounds | Shows |
|---|---|---|
| `relay_race` | 1 agent, 2 clients, 1 session, 1 token, 1 device, 1 fault | `Exclusive`, `HalfOpenIsLeaving`, `RecordHasOwner`, `AuthNotInherited`, the refinement `FollowsLifecycle`, and, under `FairSpec`, `SessionFreed` and `HandshakeEnds` |
| `relay_pairs` | 2 agents, 1 client, 2 sessions, 1 token, 1 device, 1 fault | `SlotAgreement`, `Isolation`, `RouteHasOwner` |
| `relay_exempt`, `relay_challenge` | 1 agent, 1 client | two claims of the comments that the code does not keep (section 5) |
| `session_manager` | 2 sessions, 3 tokens, lease 2, clock 5, 1 failed write | `EndedHasNoLease`, `NothingUnsaved`, `EndedIsFinal`, the refinement `LeasesAreControl` |
| `rate_limit` | 4 attempts, 1 address, window 2, 3 per window, delay 1, 2 per token, clock 4 | `WindowCap`, `RefusedForCause`, `GuessCap`, `LimitedForCause`, `SingleUse`, `AgentOutlivesToken` |
| `connection_limiter` | 4 connections, 2 addresses, cap 2 | `CountExact`, `CapHeld` |
| `agent_session` | 2 connections, 2 credentials, 2 inputs per connection, 1 fault | `SavedIsAuthentic`, `NoDanglingTask`, `InputInOrder`, `EndRecorded`, the refinement `HostsShell`, and `ExitEndsSession` under `FairSpec` |
| `agent_stranded` | the same | a first pairing does strand the agent (section 5) |
| `handshake` | 2 connections of agents, 2 of browsers, 1 device paired before, 5 messages per connection | `PeerAgreed`, `CompletionMeant`, `HeardPeer`, `ResumeByHolder`, the refinement `KeepsAgreement` |
| `pty_reader` | 4 chunks, 3 connections, either backend | `LossBounded`, `EndIsLast`, the refinement `StreamsOutput`, and `EndIsSeen` under `FairSpec` |
| `pty_threads` | 1 chunk, 2 connections | two threads read one ConPTY (section 5) |

*Why the bounds are enough to be interesting.* Two clients are the least with one that leaves and one
that takes its place during the teardown; they may enter by the token or by the device. A third would come to a session whose
removal is under way, which the second can do too, and the proofs cover any number. Two agents with two sessions
are the least for a message to reach the wrong one, and sharing one device makes them compete for its route. One fault at
every possible place shows each partial failure; two would only repeat what a fault does. A connection is used once in the
model, as in the code; when all are done nothing is left to do, which is why deadlock is not checked there. In
`rate_limit` the window is longer than the delay, so scripts do run out of order, and the clock runs past the life of a
token, its count and its block. In `agent_session` two connections are a pairing followed by a resume, by the reconnect loop or
by a new process, with input of the first delivered on the second. In `handshake` two connections on each side are the least for a
message to reach the wrong one and for a pairing to be followed by a resume of the same device, and five messages per connection
reach past either handshake. In `pty_reader` three connections let a thread of the first one outlive the second. `MaxSeq`,
`MaxChunks`, `MaxConns`, `MaxInputs`, `MaxFaults` and `MaxTime` bound what is otherwise unbounded.

*Fairness.* `FairSpec` assumes that a suspended coroutine is resumed: Redis answers or raises, and a send to a socket ends
when it drains or when the server's keepalive gives it up (weak fairness of each connection's own steps). It assumes
strong fairness of two things. `Disconnect`: a closed socket delivers finitely many messages before its receive raises.
`HandshakeTimeout` of clients: a client's deadline is set once before its session is established, so it passes whatever
the client keeps sending. Nothing is assumed of endpoints, nor of an agent's deadline, which `resume_challenge` renews.

`AgentSession` has its own `FairSpec`: the event loop goes on with the main coroutine once a task is done or the connection is
closed, and a send ends, because the socket drains or the keepalive gives it up (weak fairness). What an exited shell has left
to read is finite, so its end is read in the end (strong fairness of `ReadEnd`). Nothing is assumed of relay, client or shell,
and nothing of the handshakes: a resume may be awaited for ever.

`PtyReader`'s `FairSpec` assumes that the loop calls back a readable PTY's reader and runs the tasks that are ready, that threads
run, and that a send ends (weak fairness of each). Nothing is assumed of the shell or of how long a connection lasts.

## 4. What is proved

Every theorem holds for all values of the constants that satisfy the named assumptions.

*RelayProofs.* `IInv`, the inductive invariant, is the conjunction of the safety invariants with what they need:
`ContextOK` (where a coroutine is tells whether it has a session and an addressee), `FreshOK` (a session id nobody has
picked is nowhere), `AgentOfSlot`, `ReservedOK` and `PendingOK` (until a token is issued nobody else has heard of the
session, and a pending token is the only way into it), `TornDown` (past the teardown nothing names the session). None of
the safety invariants is inductive alone. `Exclusive`, for instance, rests on `SlotAgreement`: a client may attach only to
a slot without one, and only agreement says that then no live client is bound to it.
The step proof does not treat forty actions conjunct by conjunct. `KindOfStep` shows that every step is of one of a few
kinds: it keeps its connection in its session (`Stay`), it leaves (`Leave`), it is taken by a connection that has none
(`Outside`), or it belongs to the environment, and says what each kind may change. `FreshStep`, `RegistryStep`, `IsolationStep`,
`PendingStep`, `RouteStep`, `RecordStep` and `HalfOpenStep` then prove one group of conjuncts each, by kinds where they
can and by action where they must. `InvStep` puts them together. Theorems: `Typing`, `Invariance`, `RegistryAgrees`,
`SessionsIsolated`, `OneController`, `RoutesOwned`, `RecordsOwned`, `HalfOpenTransient`, the action property
`AuthenticationNotInherited`, and the refinement `ImplementsLifecycle`, whose steps are proved by the same kinds: a step is seen by
`SessionLifecycle` in one session at most (`Stutter`, `OneSession`). `SessionMoves` reads off the abstract
specification what may become of one session in a step, and with it two results follow for the relay that no run checks:
`PeersStay`, that two parties who share an open session keep each other until one leaves, and `SessionsDoNotReturn`, that a
session a party has left only ends. Assumptions: `RelayAssumption` (agents, clients and `None` are distinct; tokens and devices
are).

*SessionManagerProofs.* The invariant adds `EndedIsKnown` to the checked ones: memory is never behind the manifest on an
end. It is what survives a write that fails. `SaveEffect` states what a write may leave, `WriteStep` that a change of memory
which keeps its own part keeps the whole. `LeasesRefineControl` proves the refinement: only `Attach` grants, and every other
step, the passing of time included, ends a set of leases, possibly empty.

*ConnectionLimiterProofs.* `CountsExact` and `CapKept`, by cardinalities of finite sets.

*AgentSessionProofs.* `StageOK` ties the stage of the main coroutine to the credential: the one about to be saved is of a client
that has authenticated, which `SavedIsAuthentic` alone does not say, and no session is begun from the reconnect loop, without
which an end before the `try` could not be told from one inside it. `WrittenOK` relates the history of writes to
`_last_peer_encrypted_seq` of the present connection and leaves none for the next. The action properties `InputInOrder` and
`EndRecorded` follow from a step that starts in the invariant. `ImplementsHost` is the refinement of HostedShell. It needs one more
invariant, `ShellOK`: where the coroutine is tells whether there is a shell (there is none before `Begin`, and there is one in
every round of the reconnect loop), whether it can have been closed (only when the process has ended), and what the record
says. The steps are then grouped by what HostedShell makes of them (`EndStep`, `BeginStep`, `AttachStep`, `DetachStep`,
`RoundStep`, `InputStep`), and all that it does not see are one lemma (`StutterStep`). `ShellSurvives`, that a lost connection
leaves the shell alone (`ShellKept`), is a corollary. Assumption: `AgentAssumption` (`None` is no credential; the bounds are
numbers).

*RateLimitProofs.* The caps are about sets of attempts, the code about scores and counters; the invariant ties them. `WindowOK`: an
attempt stays in its window until it is as old as the window is long, less the delay, which is where `MaxDelay < Window` is
needed. `CountsOK`: a count has counted at least as many attempts as it says, since its expiry was set, and outlives its token,
so that `Guesses` of a living token never exceed it; without this `GuessCap` would fail when the count expires first. `TokensOK`
gives `SingleUse` and orders the agent's deadline after the token's expiry. Theorems: `TypeCorrect`, `WindowCapped`,
`RefusalsAreCaused`, `GuessesCapped`, `BlocksAreCaused`, `TokensAreUsedOnce`, `DeadlineOutlivesToken`. Assumption: `LimitsAssumption`
(finitely many attempts, positive limits, the delay shorter than the window).

*HandshakeProofs.* The invariant says where each thing under way comes from: a browser's keys from its credential and one agent
(`ClientSide`), an agent's from a browser that has the same ones (`AgentSide`), a proof from its maker's keys (`ProofsSent`), a sealed
message from its sender's (`SealedBySender`). Then a proof that verifies was made with the verifier's keys, and keys contain the
transcript and so name both ends: that is why one proof cannot serve two connections. Two lemmas carry this argument: `Verified` (the
proof an agent accepts is that of a browser with its keys and credential) and `SameCredential` (ends with the same keys agree, and
the keys name the browser). There is one lemma for each conjunct: `WhoDerives`, `WhoSends`, `WhoSeals` and `WhoHears` say which few
actions change each variable, and `Kept` that keys and credentials, once there, stay. `ImplementsAgreement` is the refinement of
Agreement: `CommitStep`, `AcceptanceStep`, `FinishStep`, `SpeakStep`, `ListenStep`, `ChooseStep` and `CloseStep` each prove one
action of it, from the same two lemmas. Theorems: `TypeCorrect`, `AgentsAgree`, `BrowsersAgree`, `InputIsFromThePeer`,
`ResumedByAHolder`, `ImplementsAgreement`, for any number of connections and devices. Assumption: `HandshakeAssumption` (the sets
are distinct, and `None` is none of the things it stands in for: an end, a credential, keys, a commitment).

*PtyReaderProofs.* `ReadersOK` says who may still take something from the PTY, `TakenOK` that what a reader holds is the newest chunk of
its own connection, `EndOK` that the end is read after everything else, `LossOK` that a connection that may still take a chunk has
lost none. `LossBounded` is not inductive without the last: a thread may lose a chunk long after its connection has ended.
`ImplementsStream` is the refinement of OutputStream. Its point is a count: `LostAreFew` maps each lost chunk to the connection that
took it, which has broken; by `LossBounded` no two have the same one, so there are at most as many. Theorems: `TypeCorrect`,
`LossIsBounded`, `EndComesLast`, the action property `OutputIsInOrder` and `ImplementsStream`, for any number of chunks and
connections.

*Only model-checked:* the liveness properties `SessionFreed`, `HandshakeEnds`, `ExitEndsSession` and `EndIsSeen` (the prover does not
reason about fairness). Every other property of the passing runs is a theorem, the five
refinements included. The type invariants of Handshake, PtyReader and AgentSession, and `ShellKept` and `OutputInOrder`, are proved
and not listed in the runs: the refinements that are imply the last two.

## 5. Where the code and its texts disagree

* `relay_exempt`: an established client can be closed with "handshake timed out", because its timeout was computed before
  the phase changed. The comment at `ws_handlers.py:68` exempts it.
* `relay_challenge`: `slot.agent` can be `None` when the challenge is sent, in spite of "no interleaving risk" in
  `session_registry.py:6`.
* `agent_stranded`: `save_config` runs when the credential has been sent, not when the client has it. A client that leaves
  meanwhile leaves the agent, at its next start, waiting for a device nobody has, against `cli.py:177`.
* `pty_threads`: a cancelled read leaves its thread in the ConPTY, and the next connection's read starts another one;
  `windows/pty_backend.py:49` says there is at most one. The properties of `pty_reader` hold all the same.

Three more are plain from the source, or visible in the models, and have no run of their own:

* A connection that began to wait without a deadline keeps waiting after its session is gone, against `ws_handlers.py:65` ("can't be
  held open indefinitely"): the timeout is computed once, at `LoopTop`.
* `complete()` has no guard and turns `terminated` into `exited`; `docs/SESSION_LIFECYCLE.md:11` says `terminated` is terminal. This is
  why `EndedIsFinal` lets it.
* An agent that has reconnected does not send `session_list` again (`cli.py:85`); `docs/SESSION_LIFECYCLE.md:26` promises one after a
  resume.

## 6. Not modelled

* Envelope and link parsing, configuration files but for the device credential, logging, installers: pure functions or
  operating-system I/O without shared state.
* The primitives of the cryptography, and an endpoint that does not follow the protocol, in Handshake. Relay does allow any
  endpoint to send anything its role may.
* A restart of the relay: it drops every connection and the registry at once and leaves only Redis records behind, which nothing
  reads. Redis that fails during a teardown leaves a record too, which is why `RecordHasOwner` is about the time before a fault.
* Two agents that share one manifest: nothing coordinates them, so there is no promise to check. A manifest that cannot be read
  counts as empty and is overwritten by the next save; SessionManager assumes it can be read.
* A shell that exits while the agent awaits a resume: nothing looks at it until a client has resumed, and nothing says it should.
* The leases of the session manager are modelled as the class offers them; `cli.py` uses only `create`, `start`, `list` and `complete`.

What could come next is one composition of Relay with agents and clients that follow `Handshake`, over queues. Handshake already
allows more than such a composition would: any message at any connection at any time. What it would add is liveness across the
three, for which the code gives little ground, since a resume is awaited without a deadline on either side of the relay.
