---------------------------- MODULE AgentSession ----------------------------
(***************************************************************************)
(* The agent: pair_and_stream pairs or resumes, starts one shell, and      *)
(* keeps it while relay connections come and go.  An action is what the    *)
(* main coroutine, or one of the two pump tasks, does up to its next       *)
(* await; the socket may be lost and the shell may exit between any two.   *)
(*                                                                         *)
(* The relay and the client are the environment.  The relay may answer     *)
(* anything, and replay, drop or reorder what clients send; what it cannot *)
(* do is prove knowledge of a secret: a resume succeeds only for a client  *)
(* that has received the device credential.                                *)
(***************************************************************************)
EXTENDS Naturals

CONSTANTS
    Creds,      \* device credentials (id and secret), each drawn once
    None,
    MaxConns,   \* bound: connections the agent opens
    MaxInputs,  \* bound: pty_input messages a client sends on one connection
    MaxFaults   \* bound: files that cannot be written, shells not spawned

ASSUME AgentAssumption ==
    /\ None \notin Creds
    /\ MaxConns \in Nat /\ MaxInputs \in Nat /\ MaxFaults \in Nat

VARIABLES
    at,         \* the await of the main coroutine
    mode,       \* "pair", "resume" (a new process), "again" (the reconnect loop)
    conn,       \* connections opened so far: the number of the present one
    sock,       \* its socket
    device,     \* config.device_id and device_secret
    disk,       \* the same, in the configuration file
    shell,      \* the PTY's child
    record,     \* this process's session record, in the manifest
    toRelay,    \* the task _pump_pty_to_relay
    toPty,      \* the task _pump_relay_to_pty
    lastSeq,    \* _last_peer_encrypted_seq
    flying,     \* the credential on its way to the client
    holds,      \* credentials that a client has received
    inputs,     \* pty_input messages clients have sent: connection, number
    writes,     \* history: how often each was written to the PTY
    drawn,      \* history: credentials generated
    authentic,  \* history: credentials generated for a client that then authenticated
    faults,     \* faults so far
    killed      \* history: this process died without running its finally clauses

taskVars   == <<toRelay, toPty, lastSeq, writes>>
clientVars == <<flying, holds, inputs>>
credVars   == <<device, disk, drawn, authentic>>
vars == <<at, mode, conn, sock, shell, record, faults, killed,
          taskVars, clientVars, credVars>>

Messages == (1..MaxConns) \X (1..MaxInputs)

Working == {"connect", "ack", "wait", "proof", "credential", "list", "pump", "closing", "sleep"}

(***************************************************************************)
(* The end of a process, and the next one.                                 *)
(***************************************************************************)

\* The coroutine is inside _run_persistent_session
Streaming == mode = "again" \/ at \in {"pump", "closing", "sleep"}

\* The coroutine ends, by return or exception; with the process goes the PTY
Exit ==
    /\ at' = "ended" /\ sock' = "none"
    /\ shell' = IF shell = "alive" THEN "closed" ELSE shell
    /\ toRelay' = "none" /\ toPty' = "none"

\* A file cannot be written, or the shell cannot be spawned
Fault == faults < MaxFaults /\ faults' = faults + 1

\* Mutant: the session is not completed
ExitRunning == Exit /\ UNCHANGED <<record, faults>>

\* The finally clause of the session: complete(), which may fail to be saved
ExitCompleted ==
    /\ Exit
    /\ \/ record' = "exited" /\ UNCHANGED faults
       \/ UNCHANGED record /\ Fault

\* The process is killed
Kill ==
    /\ at # "ended"
    /\ Exit
    /\ killed' = TRUE
    /\ UNCHANGED <<mode, conn, record, faults, lastSeq, writes, clientVars, credVars>>

\* SIGINT: the main coroutine is cancelled where it waits, and its finally
\* clauses run; before _run_persistent_session there is none for the record
Interrupt ==
    /\ at # "ended"
    /\ \/ Streaming /\ ExitCompleted
       \/ ~Streaming /\ Exit /\ UNCHANGED <<record, faults>>
    /\ UNCHANGED <<mode, conn, killed, lastSeq, writes, clientVars, credVars>>

\* run_cli: the configuration is loaded; --new-pairing forgets the credential
Start ==
    /\ at = "ended"
    /\ disk' \in {disk, None}
    /\ device' = disk'
    /\ mode' = IF disk' = None THEN "pair" ELSE "resume"
    /\ at' = "connect"
    /\ shell' = "none" /\ record' = "none" /\ killed' = FALSE
    /\ UNCHANGED <<conn, sock, faults, taskVars, clientVars, drawn, authentic>>

\* An exception: the reconnect loop closes the connection and goes round, a new
\* process ends without having started a session
Fails ==
    /\ UNCHANGED <<record, faults>>
    /\ \/ mode = "again" /\ at' = "closing" /\ sock' = "none" /\ UNCHANGED <<shell, toRelay, toPty>>
       \/ mode # "again" /\ Exit

(***************************************************************************)
(* The handshake (RelayClient).                                            *)
(***************************************************************************)

Moves(s) == at' = s /\ UNCHANGED <<sock, shell, record, faults, toRelay, toPty>>

\* connect, and pair_init or resume_init.  A pairing draws a new credential.
Connect ==
    /\ at = "connect" /\ conn < MaxConns
    /\ conn' = conn + 1 /\ sock' = "open" /\ at' = "ack"
    /\ lastSeq' = 0
    /\ \/ /\ mode = "pair"
          /\ \E d \in Creds \ drawn : device' = d /\ drawn' = drawn \cup {d}
       \/ mode # "pair" /\ UNCHANGED <<device, drawn>>
    /\ UNCHANGED <<mode, shell, record, faults, killed, toRelay, toPty, writes,
                   clientVars, disk, authentic>>

\* The relay cannot be reached, answers anything but what is awaited, or the
\* connection is lost
HandshakeFails ==
    /\ at \in {"connect", "ack", "wait", "proof"}
    /\ Fails
    /\ UNCHANGED <<mode, conn, killed, lastSeq, writes, clientVars, credVars>>

\* pair_init_ack or resume_init_ack
Ack ==
    /\ at = "ack" /\ sock = "open"
    /\ Moves("wait")
    /\ UNCHANGED <<mode, conn, killed, lastSeq, writes, clientVars, credVars>>

\* Mutant: the credential is saved before the client has proved anything
PairChallengeSaved ==
    /\ at = "wait" /\ sock = "open" /\ mode = "pair"
    /\ disk' = device
    /\ \/ Moves("credential") /\ authentic' = authentic \cup {device}
       \/ Fails /\ UNCHANGED authentic
    /\ UNCHANGED <<mode, conn, killed, lastSeq, writes, clientVars, device, drawn>>

\* pair_challenge with a proof that is valid: pair_complete is sent
PairChallenge ==
    /\ at = "wait" /\ sock = "open" /\ mode = "pair"
    /\ Moves("credential") /\ authentic' = authentic \cup {device}
    /\ UNCHANGED <<mode, conn, killed, lastSeq, writes, clientVars, device, disk, drawn>>

\* resume_request: resume_challenge is sent
ResumeRequest ==
    /\ at = "wait" /\ sock = "open" /\ mode # "pair"
    /\ Moves("proof")
    /\ UNCHANGED <<mode, conn, killed, lastSeq, writes, clientVars, credVars>>

(***************************************************************************)
(* Starting the session.                                                   *)
(***************************************************************************)

\* Spawn the shell, create and start its record.  One of them may fail, and the
\* exception leaves what is done: there is no try yet.
Begin ==
    \/ /\ at' = "list" /\ shell' = "alive" /\ record' = "running"
       /\ UNCHANGED <<sock, faults, toRelay, toPty>>
    \/ /\ Fault /\ Exit
       /\ record' \in {"none", "created"}

\* _run_persistent_session looks at the shell, and streams if it is alive:
\* run_pty_session starts both tasks
Stream ==
    \/ /\ shell = "alive"
       /\ at' = "pump" /\ toRelay' = "reading" /\ toPty' = "receiving"
       /\ UNCHANGED <<sock, shell, record, faults>>
    \/ shell # "alive" /\ ExitCompleted

\* resume_proof is valid: resume_complete is sent.  A new process starts its
\* session; the reconnect loop streams, if the shell has not exited meanwhile.
ResumeProof ==
    /\ at = "proof" /\ sock = "open" /\ device \in holds
    /\ \/ mode = "resume" /\ Begin
       \/ mode = "again" /\ Stream
    /\ UNCHANGED <<mode, conn, killed, lastSeq, writes, clientVars, credVars>>

\* send_device_credential returns: the message is on its way.  Then save_config
\* and the session.
Credential ==
    /\ at = "credential" /\ sock = "open"
    /\ flying' = device
    /\ \/ disk' = device /\ Begin
       \/ UNCHANGED disk /\ Fault /\ Exit /\ UNCHANGED record
    /\ UNCHANGED <<mode, conn, killed, lastSeq, writes, holds, inputs,
                   device, drawn, authentic>>

\* send_device_credential or send_session_list raises: not a HandshakeError, so
\* the process ends, and not yet in the try, so the record stays as it is
SendLost ==
    /\ at \in {"credential", "list"} /\ sock = "lost"
    /\ Exit
    /\ UNCHANGED <<mode, conn, record, faults, killed, lastSeq, writes, clientVars, credVars>>

\* send_session_list returns
SessionList ==
    /\ at = "list" /\ sock = "open"
    /\ Stream
    /\ UNCHANGED <<mode, conn, killed, lastSeq, writes, clientVars, credVars>>

(***************************************************************************)
(* The pump.                                                               *)
(***************************************************************************)

ToRelay(s) ==
    /\ toRelay' = s
    /\ UNCHANGED <<at, mode, conn, sock, shell, record, faults, killed, toPty,
                   lastSeq, writes, clientVars, credVars>>

\* What a shell has written can be read after it has exited
ReadOutput == toRelay = "reading" /\ ToRelay("sending")
SendOutput == toRelay = "sending" /\ sock = "open" /\ ToRelay("reading")
\* Mutant: the end of the output is taken for an empty read
ReadNothing == toRelay = "reading" /\ shell = "exited" /\ ToRelay("reading")
\* read raises EOFError: session_close is to be sent
ReadEnd    == toRelay = "reading" /\ shell = "exited" /\ ToRelay("leaving")
SendClose  == toRelay = "leaving" /\ sock = "open" /\ ToRelay("done")
SendRaises == toRelay \in {"sending", "leaving"} /\ sock = "lost" /\ ToRelay("done")

ToPty(s) ==
    /\ toPty' = s
    /\ UNCHANGED <<at, mode, conn, sock, shell, record, faults, killed, toRelay,
                   clientVars, credVars>>

\* Mutant: sequence numbers are not compared
AcceptAny(m) == m[1] = conn

\* decrypt_payload accepts it: sealed under this connection's keys, and newer
Accept(m) == m[1] = conn /\ m[2] > lastSeq

\* pty_input; once the shell has gone, the write may raise
Input(m) ==
    /\ toPty = "receiving" /\ sock = "open" /\ m \in inputs
    /\ \/ /\ Accept(m) /\ shell = "alive" /\ ToPty("receiving")
          /\ lastSeq' = m[2] /\ writes' = [writes EXCEPT ![m] = @ + 1]
       \/ /\ Accept(m) /\ shell # "alive" /\ (ToPty("receiving") \/ ToPty("broken"))
          /\ lastSeq' = m[2] /\ UNCHANGED writes
       \/ ~Accept(m) /\ ToPty("done") /\ UNCHANGED <<lastSeq, writes>>

\* session_close, a malformed envelope, or the connection is lost; or a resize
\* that raises, once the shell has gone
InputEnds ==
    /\ toPty = "receiving"
    /\ ToPty("done") \/ (shell # "alive" /\ ToPty("broken"))
    /\ UNCHANGED <<lastSeq, writes>>

\* Mutant: only the task that is done goes away
PumpEndsAlone ==
    /\ at = "pump" /\ (toRelay = "done" \/ toPty \in {"done", "broken"})
    /\ \/ toPty = "broken" /\ ExitCompleted
       \/ /\ toPty # "broken" /\ shell = "alive"
          /\ at' = "closing"
          /\ toRelay' = (IF toRelay = "done" THEN "none" ELSE toRelay)
          /\ toPty' = (IF toPty = "done" THEN "none" ELSE toPty)
          /\ UNCHANGED <<sock, shell, record, faults>>
       \/ toPty # "broken" /\ shell # "alive" /\ ExitCompleted
    /\ UNCHANGED <<mode, conn, killed, lastSeq, writes, clientVars, credVars>>

\* Mutant: preserve_backend is not passed
PumpEndsShell ==
    /\ at = "pump" /\ (toRelay = "done" \/ toPty \in {"done", "broken"})
    /\ \/ toPty = "broken" /\ ExitCompleted
       \/ /\ toPty # "broken"
          /\ at' = "closing" /\ toRelay' = "none" /\ toPty' = "none"
          /\ shell' = (IF shell = "alive" THEN "closed" ELSE shell)
          /\ UNCHANGED <<sock, record, faults>>
    /\ UNCHANGED <<mode, conn, killed, lastSeq, writes, clientVars, credVars>>

\* run_pty_session: one task is done, the other one is cancelled.  With a live
\* shell the connection is closed next; an unexpected exception ends it all.
PumpEnds ==
    /\ at = "pump" /\ (toRelay = "done" \/ toPty \in {"done", "broken"})
    /\ \/ toPty = "broken" /\ ExitCompleted
       \/ /\ toPty # "broken" /\ shell = "alive"
          /\ at' = "closing" /\ toRelay' = "none" /\ toPty' = "none"
          /\ UNCHANGED <<sock, shell, record, faults>>
       \/ toPty # "broken" /\ shell # "alive" /\ ExitCompleted
    /\ UNCHANGED <<mode, conn, killed, lastSeq, writes, clientVars, credVars>>

\* The connection is closed; is_alive decides between another round and the end
Closed ==
    /\ at = "closing"
    /\ \/ /\ shell = "alive"
          /\ at' = "sleep" /\ sock' = "none"
          /\ UNCHANGED <<shell, record, faults, toRelay, toPty>>
       \/ shell # "alive" /\ ExitCompleted
    /\ UNCHANGED <<mode, conn, killed, lastSeq, writes, clientVars, credVars>>

\* A second later it connects again, without looking at the shell
Wake ==
    /\ at = "sleep"
    /\ at' = "connect" /\ mode' = "again"
    /\ UNCHANGED <<conn, sock, shell, record, faults, killed, taskVars, clientVars, credVars>>

(***************************************************************************)
(* The environment.                                                        *)
(***************************************************************************)

ShellExits ==
    /\ shell = "alive"
    /\ shell' = "exited"
    /\ UNCHANGED <<at, mode, conn, sock, record, faults, killed, taskVars, clientVars, credVars>>

SocketLost ==
    /\ sock = "open"
    /\ sock' = "lost"
    /\ UNCHANGED <<at, mode, conn, shell, record, faults, killed, taskVars, clientVars, credVars>>

\* The client gets the credential, or has left before it could
CredentialArrives ==
    /\ flying # None
    /\ flying' = None
    /\ holds' \in {holds, holds \cup {flying}}
    /\ UNCHANGED <<at, mode, conn, sock, shell, record, faults, killed, taskVars,
                   inputs, credVars>>

\* An authenticated client sends its next input
ClientTypes(m) ==
    /\ at \in {"credential", "list", "pump"} /\ m[1] = conn
    /\ \A k \in inputs : k[1] = conn => k[2] < m[2]
    /\ inputs' = inputs \cup {m}
    /\ UNCHANGED <<at, mode, conn, sock, shell, record, faults, killed, taskVars,
                   flying, holds, credVars>>

(***************************************************************************)
(* Specification.                                                          *)
(***************************************************************************)

Init ==
    /\ at = "ended" /\ mode = "pair" /\ conn = 0 /\ sock = "none"
    /\ device = None /\ disk = None
    /\ shell = "none" /\ record = "none"
    /\ toRelay = "none" /\ toPty = "none" /\ lastSeq = 0
    /\ flying = None /\ holds = {} /\ inputs = {}
    /\ writes = [m \in Messages |-> 0]
    /\ drawn = {} /\ authentic = {}
    /\ faults = 0 /\ killed = FALSE

Main ==
    \/ Connect \/ HandshakeFails \/ Ack \/ PairChallenge \/ ResumeRequest \/ ResumeProof
    \/ Credential \/ SendLost \/ SessionList \/ PumpEnds \/ Closed \/ Wake

Pump ==
    \/ ReadOutput \/ SendOutput \/ ReadEnd \/ SendClose \/ SendRaises
    \/ InputEnds \/ \E m \in Messages : Input(m)

Environment ==
    \/ ShellExits \/ SocketLost \/ CredentialArrives
    \/ \E m \in Messages : ClientTypes(m)

Next == Main \/ Pump \/ Environment \/ Kill \/ Interrupt \/ Start

Spec == Init /\ [][Next]_vars

\* The event loop runs a coroutine that is not waiting for a peer; a send ends
\* when the socket drains or is given up, and so does a close.  What an exited
\* shell has left to read is finite, so its end is read in the end.
Fairness ==
    /\ WF_vars(PumpEnds) /\ WF_vars(Closed)
    /\ SF_vars(ReadEnd) /\ WF_vars(SendOutput) /\ WF_vars(SendClose) /\ WF_vars(SendRaises)

FairSpec == Spec /\ Fairness

(***************************************************************************)
(* Properties.                                                             *)
(***************************************************************************)

TypeOK ==
    /\ at \in Working \cup {"ended"} /\ mode \in {"pair", "resume", "again"}
    /\ conn \in 0..MaxConns /\ sock \in {"none", "open", "lost"}
    /\ device \in Creds \cup {None} /\ disk \in Creds \cup {None}
    /\ mode # "pair" => device # None
    /\ shell \in {"none", "alive", "exited", "closed"}
    /\ record \in {"none", "created", "running", "exited"}
    /\ killed \in BOOLEAN /\ faults \in 0..MaxFaults
    /\ toRelay \in {"none", "reading", "sending", "leaving", "done"}
    /\ toPty \in {"none", "receiving", "broken", "done"}
    /\ lastSeq \in 0..MaxInputs /\ writes \in [Messages -> Nat]
    /\ flying \in Creds \cup {None} /\ holds \in SUBSET Creds
    /\ inputs \in SUBSET Messages
    /\ drawn \in SUBSET Creds /\ authentic \in SUBSET Creds

\* The agent never comes back in resume mode for a pairing whose client did not
\* authenticate: the file holds only credentials of such clients.  (save_config
\* after await_pair_challenge_and_complete.)
SavedIsAuthentic == disk # None => disk \in authentic

\* No pump task outlives its connection, so the next one never shares the PTY
\* with a reader of the last.  (The cancellation in run_pty_session.)
NoDanglingTask == at # "pump" => toRelay = "none" /\ toPty = "none"

\* A connection that ends never takes a live shell with it: only the end of the
\* agent does.  (preserve_backend; docs/SESSION_LIFECYCLE.md:3.)
ShellKept == [][shell = "alive" /\ shell' = "closed" => at' = "ended"]_vars

\* Whatever the relay replays, holds back or reorders, each input is written at
\* most once, in the order it was typed, to the connection it was meant for.
\* (decrypt_payload, and a new RelayClient per connection.)
InputInOrder ==
    [][\A m \in Messages : writes'[m] # writes[m] =>
          /\ m[1] = conn
          /\ \A k \in Messages : writes[k] > 0 /\ k[1] = conn => k[2] < m[2]]_vars

\* However a process ends that has begun to stream (the shell exits, a task
\* breaks, an interrupt while a replacement connection is awaited), the end of
\* its session is recorded, unless it is killed or the file cannot be written.
\* (The finally clauses of pair_and_stream.)
EndRecorded ==
    [][(Streaming /\ at # "ended" /\ at' = "ended") =>
          (killed' \/ record' = "exited" \/ faults' > faults)]_vars

\* A shell that exits while it is being streamed, or while the connection that
\* streamed it is being closed, ends the session, whatever the connection does
\* meanwhile.  (_pump_pty_to_relay and the loops of _run_persistent_session.)
ExitEndsSession == (at \in {"pump", "closing"} /\ shell = "exited") ~> at = "ended"

(***************************************************************************)
(* AgentSession implements HostedShell.                                    *)
(***************************************************************************)

LinkOf ==
    CASE at = "ended" -> "off"
      [] at \in {"connect", "closing", "sleep"} -> "idle"
      [] at = "pump" -> "attached"
      [] OTHER -> "open"

\* A record that was created but not started runs nothing
RecordOf == IF record = "created" THEN "none" ELSE record

Host == INSTANCE HostedShell WITH
    link <- LinkOf,
    round <- conn,
    record <- RecordOf,
    last <- lastSeq,
    typed <- writes

\* Whatever connections come and go, and in whatever order they, the shell and
\* the process end: a shell is started once, streamed over one connection at a
\* time, and taken down only by the end of the process; each input is written at
\* most once, in order, over its own connection; the record never gets ahead of
\* the shell.  (pair_and_stream and _run_persistent_session, preserve_backend;
\* docs/SESSION_LIFECYCLE.md:3.)
HostsShell == Host!HostSpec

(***************************************************************************)
(* A claim of a comment that the code does not keep.                       *)
(***************************************************************************)

\* cli.py:177: an interrupted pairing does not strand the agent in resume mode
\* with a credential no client ever received.
NotStranded == at = "wait" /\ mode = "resume" => device \in holds \/ flying = device

=============================================================================
