------------------------- MODULE AgentSessionProofs -------------------------
(***************************************************************************)
(* Safety of AgentSession, for any numbers of connections, credentials,    *)
(* inputs and faults.                                                      *)
(***************************************************************************)
EXTENDS AgentSession, TLAPS

\* What the stage of the main coroutine tells about the credential: there is one
\* once it has connected; the one about to be saved is a client's that has
\* authenticated; and no session is begun from the reconnect loop.
StageOK ==
    /\ at \notin {"ended", "connect"} => device # None
    /\ at = "credential" => device \in authentic /\ mode = "pair"
    /\ at = "list" => mode # "again"

\* What has been written came on a connection opened so far, and on the present
\* one it is not newer than the number that decrypt_payload remembers.
WrittenOK ==
    \A m \in Messages : writes[m] > 0 =>
        m[1] <= conn /\ (m[1] = conn => m[2] <= lastSeq)

IInv == TypeOK /\ StageOK /\ WrittenOK /\ SavedIsAuthentic /\ NoDanglingTask

\* The first process has not begun.
LEMMA InvInit == Init => IInv
  <1> SUFFICES ASSUME Init PROVE IInv
    OBVIOUS
  <1>1. WrittenOK
    BY DEF Init, WrittenOK
  <1>2. 0 \in 0..MaxConns /\ 0 \in 0..MaxInputs /\ 0 \in 0..MaxFaults
    BY AgentAssumption
  <1>3. TypeOK
    BY <1>2 DEF Init, TypeOK, Working
  <1> QED BY <1>1, <1>3 DEF Init, IInv, StageOK, SavedIsAuthentic, NoDanglingTask

\* Every step keeps the types and the stages.
LEMMA TypeStep == TypeOK /\ StageOK /\ [Next]_vars => TypeOK' /\ StageOK'
  <1> SUFFICES ASSUME TypeOK, StageOK, [Next]_vars PROVE TypeOK' /\ StageOK'
    OBVIOUS
  <1> USE AgentAssumption DEF TypeOK, StageOK, Working, vars, taskVars, clientVars, credVars, Messages
  <1>1. CASE Connect
    BY <1>1 DEF Connect
  <1>2. CASE HandshakeFails \/ Ack
    BY <1>2 DEF HandshakeFails, Fails, Exit, Ack, Moves
  <1>3. CASE PairChallenge \/ ResumeRequest
    BY <1>3 DEF PairChallenge, Moves, ResumeRequest
  <1>4. CASE ResumeProof
    BY <1>4 DEF ResumeProof, Begin, Stream, Exit, ExitCompleted, Fault
  <1>5. CASE Credential
    BY <1>5 DEF Credential, Begin, Exit, Fault
  <1>6. CASE SendLost
    BY <1>6 DEF SendLost, Exit
  <1>7. CASE SessionList
    BY <1>7 DEF SessionList, Stream, Exit, ExitCompleted, Fault
  <1>8. CASE PumpEnds \/ Closed
    BY <1>8 DEF PumpEnds, Exit, ExitCompleted, Fault, Closed
  <1>9. CASE Wake
    BY <1>9 DEF Wake
  <1>10. CASE Start
    BY <1>10 DEF Start
  <1>11. CASE ReadOutput \/ SendOutput \/ ReadEnd \/ SendClose \/ SendRaises
    BY <1>11 DEF ReadOutput, ToRelay, SendOutput, ReadEnd, SendClose,
       SendRaises
  <1>12. CASE InputEnds
    BY <1>12 DEF InputEnds, ToPty
  <1>13. CASE ShellExits \/ SocketLost \/ CredentialArrives
    BY <1>13 DEF ShellExits, SocketLost, CredentialArrives
  <1>14. CASE Kill
    BY <1>14 DEF Kill, Exit
  <1>15. CASE Interrupt
    BY <1>15 DEF Interrupt, Exit, ExitCompleted, Fault, Streaming
  <1>16. ASSUME NEW m \in Messages, Input(m) PROVE TypeOK' /\ StageOK'
    BY <1>16 DEF Input, ToPty, Accept
  <1>17. ASSUME NEW m \in Messages, ClientTypes(m) PROVE TypeOK' /\ StageOK'
    BY <1>17 DEF ClientTypes
  <1>18. CASE UNCHANGED vars
    BY <1>18 DEF vars, taskVars, clientVars, credVars
  <1> QED BY <1>1, <1>2, <1>3, <1>4, <1>5, <1>6, <1>7, <1>8,
         <1>9, <1>10, <1>11, <1>12, <1>13, <1>14, <1>15, <1>16, <1>17, <1>18
     DEF Next, Main, Pump, Environment

\* The file is written with the credential of an authenticated client, or with
\* none.
LEMMA SavedStep == StageOK /\ SavedIsAuthentic /\ [Next]_vars => SavedIsAuthentic'
  <1> SUFFICES ASSUME StageOK, SavedIsAuthentic, [Next]_vars PROVE SavedIsAuthentic'
    OBVIOUS
  <1> USE DEF StageOK, SavedIsAuthentic, vars, taskVars, clientVars, credVars
  <1>1. CASE Connect
    BY <1>1 DEF Connect
  <1>2. CASE HandshakeFails \/ Ack
    BY <1>2 DEF HandshakeFails, Fails, Exit, Ack, Moves
  <1>3. CASE PairChallenge \/ ResumeRequest
    BY <1>3 DEF PairChallenge, Moves, ResumeRequest
  <1>4. CASE ResumeProof
    BY <1>4 DEF ResumeProof, Begin, Stream, Exit, ExitCompleted, Fault
  <1>5. CASE Credential
    BY <1>5 DEF Credential, Begin, Exit, Fault
  <1>6. CASE SendLost
    BY <1>6 DEF SendLost, Exit
  <1>7. CASE SessionList
    BY <1>7 DEF SessionList, Stream, Exit, ExitCompleted, Fault
  <1>8. CASE PumpEnds \/ Closed
    BY <1>8 DEF PumpEnds, Exit, ExitCompleted, Fault, Closed
  <1>9. CASE Wake
    BY <1>9 DEF Wake
  <1>10. CASE Start
    BY <1>10 DEF Start
  <1>11. CASE ReadOutput \/ SendOutput \/ ReadEnd \/ SendClose \/ SendRaises
    BY <1>11 DEF ReadOutput, ToRelay, SendOutput, ReadEnd, SendClose,
       SendRaises
  <1>12. CASE InputEnds
    BY <1>12 DEF InputEnds, ToPty
  <1>13. CASE ShellExits \/ SocketLost \/ CredentialArrives
    BY <1>13 DEF ShellExits, SocketLost, CredentialArrives
  <1>14. CASE Kill
    BY <1>14 DEF Kill, Exit
  <1>15. CASE Interrupt
    BY <1>15 DEF Interrupt, Exit, ExitCompleted, Fault, Streaming
  <1>16. ASSUME NEW m \in Messages, Input(m) PROVE SavedIsAuthentic'
    BY <1>16 DEF Input, ToPty, Accept
  <1>17. ASSUME NEW m \in Messages, ClientTypes(m) PROVE SavedIsAuthentic'
    BY <1>17 DEF ClientTypes
  <1>18. CASE UNCHANGED vars
    BY <1>18 DEF vars, taskVars, clientVars, credVars
  <1> QED BY <1>1, <1>2, <1>3, <1>4, <1>5, <1>6, <1>7, <1>8,
         <1>9, <1>10, <1>11, <1>12, <1>13, <1>14, <1>15, <1>16, <1>17, <1>18
     DEF Next, Main, Pump, Environment

\* The coroutine leaves the pump with no task running, and none starts elsewhere.
LEMMA TaskStep == NoDanglingTask /\ [Next]_vars => NoDanglingTask'
  <1> SUFFICES ASSUME NoDanglingTask, [Next]_vars PROVE NoDanglingTask'
    OBVIOUS
  <1> USE DEF NoDanglingTask, vars, taskVars, clientVars, credVars
  <1>1. CASE Connect
    BY <1>1 DEF Connect
  <1>2. CASE HandshakeFails \/ Ack
    BY <1>2 DEF HandshakeFails, Fails, Exit, Ack, Moves
  <1>3. CASE PairChallenge \/ ResumeRequest
    BY <1>3 DEF PairChallenge, Moves, ResumeRequest
  <1>4. CASE ResumeProof
    BY <1>4 DEF ResumeProof, Begin, Stream, Exit, ExitCompleted, Fault
  <1>5. CASE Credential
    BY <1>5 DEF Credential, Begin, Exit, Fault
  <1>6. CASE SendLost
    BY <1>6 DEF SendLost, Exit
  <1>7. CASE SessionList
    BY <1>7 DEF SessionList, Stream, Exit, ExitCompleted, Fault
  <1>8. CASE PumpEnds \/ Closed
    BY <1>8 DEF PumpEnds, Exit, ExitCompleted, Fault, Closed
  <1>9. CASE Wake
    BY <1>9 DEF Wake
  <1>10. CASE Start
    BY <1>10 DEF Start
  <1>11. CASE ReadOutput \/ SendOutput \/ ReadEnd \/ SendClose \/ SendRaises
    BY <1>11 DEF ReadOutput, ToRelay, SendOutput, ReadEnd, SendClose,
       SendRaises
  <1>12. CASE InputEnds
    BY <1>12 DEF InputEnds, ToPty
  <1>13. CASE ShellExits \/ SocketLost \/ CredentialArrives
    BY <1>13 DEF ShellExits, SocketLost, CredentialArrives
  <1>14. CASE Kill
    BY <1>14 DEF Kill, Exit
  <1>15. CASE Interrupt
    BY <1>15 DEF Interrupt, Exit, ExitCompleted, Fault, Streaming
  <1>16. ASSUME NEW m \in Messages, Input(m) PROVE NoDanglingTask'
    BY <1>16 DEF Input, ToPty, Accept
  <1>17. ASSUME NEW m \in Messages, ClientTypes(m) PROVE NoDanglingTask'
    BY <1>17 DEF ClientTypes
  <1>18. CASE UNCHANGED vars
    BY <1>18 DEF vars, taskVars, clientVars, credVars
  <1> QED BY <1>1, <1>2, <1>3, <1>4, <1>5, <1>6, <1>7, <1>8,
         <1>9, <1>10, <1>11, <1>12, <1>13, <1>14, <1>15, <1>16, <1>17, <1>18
     DEF Next, Main, Pump, Environment

\* Only a connection that begins and an input that is taken touch what WrittenOK
\* speaks of.
Quiet == UNCHANGED <<conn, lastSeq, writes>>

LEMMA QuietStep == [Next]_vars => Quiet \/ Connect \/ \E m \in Messages : Input(m)
  <1> SUFFICES ASSUME [Next]_vars, ~Connect, ~(\E m \in Messages : Input(m)) PROVE Quiet
    OBVIOUS
  <1> USE DEF Quiet, vars, taskVars, clientVars, credVars
  <1>1. CASE HandshakeFails \/ Ack
    BY <1>1 DEF HandshakeFails, Fails, Exit, Ack, Moves
  <1>2. CASE PairChallenge \/ ResumeRequest
    BY <1>2 DEF PairChallenge, Moves, ResumeRequest
  <1>3. CASE ResumeProof
    BY <1>3 DEF ResumeProof, Begin, Stream, Exit, ExitCompleted, Fault
  <1>4. CASE Credential
    BY <1>4 DEF Credential, Begin, Exit, Fault
  <1>5. CASE SendLost
    BY <1>5 DEF SendLost, Exit
  <1>6. CASE SessionList
    BY <1>6 DEF SessionList, Stream, Exit, ExitCompleted, Fault
  <1>7. CASE PumpEnds \/ Closed
    BY <1>7 DEF PumpEnds, Exit, ExitCompleted, Fault, Closed
  <1>8. CASE Wake
    BY <1>8 DEF Wake
  <1>9. CASE Start
    BY <1>9 DEF Start
  <1>10. CASE ReadOutput \/ SendOutput \/ ReadEnd \/ SendClose \/ SendRaises
    BY <1>10 DEF ReadOutput, ToRelay, SendOutput, ReadEnd, SendClose,
       SendRaises
  <1>11. CASE InputEnds
    BY <1>11 DEF InputEnds, ToPty
  <1>12. CASE ShellExits \/ SocketLost \/ CredentialArrives
    BY <1>12 DEF ShellExits, SocketLost, CredentialArrives
  <1>13. CASE Kill
    BY <1>13 DEF Kill, Exit
  <1>14. CASE Interrupt
    BY <1>14 DEF Interrupt, Exit, ExitCompleted, Fault, Streaming
  <1>15. ASSUME NEW m \in Messages, ClientTypes(m) PROVE Quiet
    BY <1>15 DEF ClientTypes
  <1>16. CASE UNCHANGED vars
    BY <1>16 DEF vars, taskVars, clientVars, credVars
  <1> QED BY <1>1, <1>2, <1>3, <1>4, <1>5, <1>6, <1>7, <1>8,
         <1>9, <1>10, <1>11, <1>12, <1>13, <1>14, <1>15, <1>16
     DEF Next, Main, Pump, Environment

\* A new connection finds nothing written on it; an input that is taken becomes
\* the newest.
LEMMA WrittenStep == TypeOK /\ WrittenOK /\ [Next]_vars => WrittenOK'
  <1> SUFFICES ASSUME TypeOK, WrittenOK, [Next]_vars PROVE WrittenOK'
    OBVIOUS
  <1> USE DEF WrittenOK
  <1>1. CASE Quiet
    BY <1>1 DEF Quiet
  <1>2. CASE Connect
    <2>1. writes' = writes /\ conn' = conn + 1 /\ conn \in Nat
      BY <1>2, AgentAssumption DEF Connect, TypeOK
    <2>2. \A k \in Messages : k[1] \in Nat
      BY AgentAssumption DEF Messages
    <2> QED BY <2>1, <2>2
  <1>3. ASSUME NEW m \in Messages, Input(m) PROVE WrittenOK'
    <2>1. CASE UNCHANGED <<conn, lastSeq, writes>>
      BY <2>1
    <2>2. CASE conn' = conn /\ m[1] = conn /\ m[2] > lastSeq /\ lastSeq' = m[2]
      <3>1. lastSeq \in Nat /\ conn \in Nat /\ \A k \in Messages : k[1] \in Nat /\ k[2] \in Nat
        BY AgentAssumption DEF TypeOK, Messages
      <3>2. \A k \in Messages : k # m => writes'[k] = writes[k]
        BY <1>3 DEF Input, ToPty, TypeOK
      <3> SUFFICES ASSUME NEW k \in Messages, writes'[k] > 0
                   PROVE  k[1] <= conn' /\ (k[1] = conn' => k[2] <= lastSeq')
        OBVIOUS
      <3>3. CASE k = m
        BY <2>2, <3>1, <3>3
      <3>4. CASE k # m
        <4>1. writes[k] > 0
          BY <3>2, <3>4
        <4>2. k[1] <= conn /\ (k[1] = conn => k[2] <= lastSeq)
          BY <4>1
        <4> QED BY <2>2, <3>1, <4>2
      <3> QED BY <3>3, <3>4
    <2> QED BY <1>3, <2>1, <2>2 DEF Input, ToPty, Accept
  <1> QED BY <1>1, <1>2, <1>3, QuietStep

LEMMA InvStep == IInv /\ [Next]_vars => IInv'
  BY TypeStep, SavedStep, TaskStep, WrittenStep DEF IInv

\* The inductive invariant holds in every reachable state.
THEOREM Invariance == Spec => []IInv
  <1>1. Init => IInv
    BY InvInit
  <1>2. IInv /\ [Next]_vars => IInv'
    BY InvStep
  <1> QED BY <1>1, <1>2, PTL DEF Spec

\* The variables keep their types; outside "pair" there is a credential.
THEOREM TypeCorrect == Spec => []TypeOK
  <1>1. IInv => TypeOK
    BY DEF IInv
  <1> QED BY Invariance, <1>1, PTL

\* The file never holds the credential of a client that has not authenticated.
THEOREM SavedAuthentic == Spec => []SavedIsAuthentic
  <1>1. IInv => SavedIsAuthentic
    BY DEF IInv
  <1> QED BY Invariance, <1>1, PTL

\* No pump task outlives its connection.
THEOREM NoTaskDangles == Spec => []NoDanglingTask
  <1>1. IInv => NoDanglingTask
    BY DEF IInv
  <1> QED BY Invariance, <1>1, PTL

\* Every input is written at most once, in order, on its own connection.
THEOREM InputOrdered == Spec => InputInOrder
  <1> DEFINE Step == \A m \in Messages : writes'[m] # writes[m] =>
          /\ m[1] = conn
          /\ \A k \in Messages : writes[k] > 0 /\ k[1] = conn => k[2] < m[2]
  <1>1. IInv /\ [Next]_vars => [Step]_vars
    <2> SUFFICES ASSUME IInv, [Next]_vars, NEW m \in Messages, writes'[m] # writes[m]
                 PROVE  /\ m[1] = conn
                        /\ \A k \in Messages : writes[k] > 0 /\ k[1] = conn => k[2] < m[2]
      OBVIOUS
    <2>1. PICK n \in Messages : Input(n)
      BY QuietStep DEF Quiet, Connect
    <2>2. m = n /\ n[1] = conn /\ n[2] > lastSeq
      BY <2>1 DEF Input, Accept, IInv, TypeOK
    <2>3. lastSeq \in Nat /\ \A k \in Messages : k[2] \in Nat
      BY AgentAssumption DEF IInv, TypeOK, Messages
    <2>4. \A k \in Messages : writes[k] > 0 /\ k[1] = conn => k[2] <= lastSeq
      BY DEF IInv, WrittenOK
    <2> QED BY <2>2, <2>3, <2>4
  <1> QED BY Invariance, <1>1, PTL DEF Spec, InputInOrder

\* A process that has begun to stream records the end of its session, unless it is
\* killed or cannot.
THEOREM EndsRecorded == Spec => EndRecorded
  <1> DEFINE Step == ((Streaming /\ at # "ended" /\ at' = "ended") =>
                        (killed' \/ record' = "exited" \/ faults' > faults))
  <1>0. IInv /\ [Next]_vars => [Step]_vars
    <2> SUFFICES ASSUME IInv, [Next]_vars PROVE Step
      OBVIOUS
    <2> USE DEF IInv, TypeOK, StageOK, Streaming, Fault, vars, taskVars, clientVars, credVars
    <2>1. CASE Connect
      BY <2>1 DEF Connect
    <2>2. CASE HandshakeFails \/ Ack
      BY <2>2 DEF HandshakeFails, Fails, Exit, Ack, Moves
    <2>3. CASE PairChallenge \/ ResumeRequest
      BY <2>3 DEF PairChallenge, Moves, ResumeRequest
    <2>4. CASE ResumeProof
      BY <2>4 DEF ResumeProof, Begin, Stream, Exit, ExitCompleted, Fault
    <2>5. CASE Credential
      BY <2>5 DEF Credential, Begin, Exit, Fault
    <2>6. CASE SendLost
      BY <2>6 DEF SendLost, Exit
    <2>7. CASE SessionList
      BY <2>7 DEF SessionList, Stream, Exit, ExitCompleted, Fault
    <2>8. CASE PumpEnds \/ Closed
      BY <2>8 DEF PumpEnds, Exit, ExitCompleted, Fault, Closed
    <2>9. CASE Wake
      BY <2>9 DEF Wake
    <2>10. CASE Start
      BY <2>10 DEF Start
    <2>11. CASE ReadOutput \/ SendOutput \/ ReadEnd \/ SendClose \/ SendRaises
      BY <2>11 DEF ReadOutput, ToRelay, SendOutput, ReadEnd, SendClose,
       SendRaises
    <2>12. CASE InputEnds
      BY <2>12 DEF InputEnds, ToPty
    <2>13. CASE ShellExits \/ SocketLost \/ CredentialArrives
      BY <2>13 DEF ShellExits, SocketLost, CredentialArrives
    <2>14. CASE Kill
      BY <2>14 DEF Kill, Exit
    <2>15. CASE Interrupt
      BY <2>15 DEF Interrupt, Exit, ExitCompleted, Fault, Streaming
    <2>16. ASSUME NEW m \in Messages, Input(m) PROVE Step
      BY <2>16 DEF Input, ToPty, Accept
    <2>17. ASSUME NEW m \in Messages, ClientTypes(m) PROVE Step
      BY <2>17 DEF ClientTypes
    <2>18. CASE UNCHANGED vars
      BY <2>18 DEF vars, taskVars, clientVars, credVars
    <2> QED BY <2>1, <2>2, <2>3, <2>4, <2>5, <2>6, <2>7, <2>8,
         <2>9, <2>10, <2>11, <2>12, <2>13, <2>14, <2>15, <2>16, <2>17, <2>18
     DEF Next, Main, Pump, Environment
  <1> QED BY Invariance, <1>0, PTL DEF Spec, EndRecorded

(***************************************************************************)
(* The refinement.                                                         *)
(***************************************************************************)

\* From the start of the session to the end of the process there is a shell, and
\* a record that says so; before, there is neither.
ShellOK ==
    at # "ended" =>
       IF Streaming \/ at = "list"
       THEN shell \in {"alive", "exited"} /\ record = "running"
       ELSE shell = "none" /\ record = "none"

LEMMA ShellStep == TypeOK /\ ShellOK /\ [Next]_vars => ShellOK'
  <1> SUFFICES ASSUME TypeOK, ShellOK, [Next]_vars PROVE ShellOK'
    OBVIOUS
  <1> USE DEF ShellOK, Streaming, vars, taskVars, clientVars, credVars
  <1>1. CASE Connect
    BY <1>1 DEF Connect
  <1>2. CASE HandshakeFails \/ Ack
    BY <1>2 DEF HandshakeFails, Fails, Exit, Ack, Moves
  <1>3. CASE PairChallenge \/ ResumeRequest
    BY <1>3 DEF PairChallenge, Moves, ResumeRequest
  <1>4. CASE ResumeProof
    BY <1>4 DEF ResumeProof, Begin, Stream, Exit, ExitCompleted, Fault
  <1>5. CASE Credential
    BY <1>5 DEF Credential, Begin, Exit, Fault
  <1>6. CASE SendLost
    BY <1>6 DEF SendLost, Exit
  <1>7. CASE SessionList
    BY <1>7 DEF SessionList, Stream, Exit, ExitCompleted, Fault
  <1>8. CASE PumpEnds \/ Closed
    BY <1>8 DEF PumpEnds, Exit, ExitCompleted, Fault, Closed
  <1>9. CASE Wake
    BY <1>9 DEF Wake
  <1>10. CASE Start
    BY <1>10 DEF Start
  <1>11. CASE ReadOutput \/ SendOutput \/ ReadEnd \/ SendClose \/ SendRaises \/ InputEnds
    BY <1>11 DEF ReadOutput, ToRelay, SendOutput, ReadEnd, SendClose, SendRaises, InputEnds, ToPty
  <1>12. CASE ShellExits \/ SocketLost \/ CredentialArrives
    BY <1>12 DEF ShellExits, SocketLost, CredentialArrives
  <1>13. CASE Kill \/ Interrupt
    BY <1>13 DEF Kill, Interrupt, Exit, ExitCompleted, Fault
  <1>14. ASSUME NEW m \in Messages, Input(m) \/ ClientTypes(m) PROVE ShellOK'
    BY <1>14 DEF Input, ToPty, Accept, ClientTypes
  <1>15. CASE UNCHANGED vars
    BY <1>15
  <1> QED BY <1>1, <1>2, <1>3, <1>4, <1>5, <1>6, <1>7, <1>8, <1>9, <1>10, <1>11, <1>12, <1>13,
             <1>14, <1>15 DEF Next, Main, Pump, Environment

LEMMA ShellInvariance == Spec => []ShellOK
  <1>1. Init => ShellOK
    BY DEF Init, ShellOK
  <1>2. IInv /\ ShellOK /\ [Next]_vars => ShellOK'
    BY ShellStep DEF IInv
  <1> QED BY <1>1, <1>2, Invariance, PTL DEF Spec

HostStep == [Host!HostNext]_(Host!hvars)

\* What HostedShell does not see
Unseen == UNCHANGED <<LinkOf, conn, shell, RecordOf, lastSeq, writes>>

LEMMA StutterStep == Unseen => HostStep
  BY DEF Unseen, HostStep, Host!hvars

\* However a process ends, by exception, interrupt or death, its shell goes with
\* it, and what it records of a running session is its end or nothing.
LEMMA EndStep ==
    ASSUME at # "ended", Exit, UNCHANGED <<conn, lastSeq, writes>>,
           \/ RecordOf' = RecordOf
           \/ record = "running" /\ record' = "exited"
    PROVE  HostStep
  <1>1. LinkOf # "off" /\ LinkOf' = "off"
    BY DEF LinkOf, Exit
  <1>2. RecordOf' = RecordOf \/ (RecordOf = "running" /\ RecordOf' = "exited")
    BY DEF RecordOf
  <1>3. Host!End
    BY <1>1, <1>2 DEF Exit, Host!End
  <1> QED BY <1>3 DEF HostStep, Host!HostNext

\* The same for an end that completes the session.
LEMMA CompletedEnd ==
    ASSUME at # "ended", record = "running", ExitCompleted, UNCHANGED <<conn, lastSeq, writes>>
    PROVE  HostStep
  BY EndStep DEF ExitCompleted, RecordOf

\* A connection on which the session begins.
LEMMA BeginStep ==
    ASSUME ShellOK, ~Streaming, at \in {"proof", "credential"}, Begin,
           UNCHANGED <<conn, lastSeq, writes>>
    PROVE  HostStep
  <1>1. shell = "none" /\ record = "none"
    BY DEF ShellOK
  <1>2. CASE at' = "list" /\ shell' = "alive" /\ record' = "running"
    <2>1. LinkOf = "open" /\ LinkOf' = "open" /\ RecordOf' = "running"
      BY <1>2 DEF LinkOf, RecordOf
    <2>2. Host!Spawn
      BY <1>1, <1>2, <2>1 DEF Host!Spawn
    <2> QED BY <2>2 DEF HostStep, Host!HostNext
  <1>3. CASE Exit /\ record' \in {"none", "created"}
    BY <1>1, <1>3, EndStep DEF RecordOf
  <1> QED BY <1>2, <1>3 DEF Begin

\* A connection over which it is streamed.
LEMMA AttachStep ==
    ASSUME ShellOK, at = "list" \/ (at = "proof" /\ mode = "again"), Stream,
           UNCHANGED <<conn, lastSeq, writes>>
    PROVE  HostStep
  <1>1. record = "running"
    BY DEF ShellOK, Streaming
  <1>2. CASE shell = "alive" /\ at' = "pump" /\ UNCHANGED <<shell, record>>
    <2>1. LinkOf = "open" /\ LinkOf' = "attached" /\ RecordOf = "running" /\ RecordOf' = RecordOf
      BY <1>1, <1>2 DEF LinkOf, RecordOf
    <2>2. Host!Attach
      BY <1>2, <2>1 DEF Host!Attach
    <2> QED BY <2>2 DEF HostStep, Host!HostNext
  <1>3. CASE ExitCompleted
    BY <1>1, <1>3, CompletedEnd
  <1> QED BY <1>2, <1>3 DEF Stream

\* A connection that goes while the process stays.
LEMMA DetachStep ==
    ASSUME LinkOf \in {"open", "attached"}, LinkOf' = "idle", shell # "none",
           UNCHANGED <<conn, shell, record, lastSeq, writes>>
    PROVE  HostStep
  <1>1. Host!Detach
    BY DEF Host!Detach, RecordOf
  <1> QED BY <1>1 DEF HostStep, Host!HostNext

\* A failed handshake ends a new process, and sends the reconnect loop round.
LEMMA FailsStep ==
    ASSUME TypeOK, ShellOK, HandshakeFails
    PROVE  HostStep
  <1>1. CASE mode = "again" /\ at' = "closing" /\ UNCHANGED <<shell, record>>
    <2>1. LinkOf \in {"idle", "open"} /\ LinkOf' = "idle"
      BY <1>1 DEF HandshakeFails, LinkOf
    <2>2. shell # "none"
      BY <1>1 DEF HandshakeFails, ShellOK, Streaming
    <2>3. CASE LinkOf = "idle"
      BY <1>1, <2>1, <2>3, StutterStep DEF HandshakeFails, Unseen, RecordOf
    <2>4. CASE LinkOf = "open"
      BY <1>1, <2>1, <2>2, <2>4, DetachStep DEF HandshakeFails
    <2> QED BY <2>1, <2>3, <2>4
  <1>2. CASE Exit /\ record' = record
    BY <1>2, EndStep DEF HandshakeFails, RecordOf
  <1> QED BY <1>1, <1>2 DEF HandshakeFails, Fails

\* The pump and the closing of a connection: the process goes on with its shell,
\* or ends with the session completed.
LEMMA RoundStep ==
    ASSUME ShellOK, PumpEnds \/ Closed
    PROVE  HostStep
  <1>1. record = "running" /\ shell # "none" /\ UNCHANGED <<conn, lastSeq, writes>>
    BY DEF ShellOK, Streaming, PumpEnds, Closed
  <1>2. CASE at = "pump" /\ at' = "closing" /\ UNCHANGED <<shell, record>>
    BY <1>1, <1>2, DetachStep DEF LinkOf
  <1>3. CASE at = "closing" /\ at' = "sleep" /\ UNCHANGED <<shell, record>>
    BY <1>1, <1>3, StutterStep DEF Unseen, LinkOf, RecordOf
  <1>4. CASE at # "ended" /\ ExitCompleted
    BY <1>1, <1>4, CompletedEnd
  <1> QED BY <1>2, <1>3, <1>4 DEF PumpEnds, Closed

\* Input that is accepted is typed, if there is still a shell to type it into.
LEMMA InputStep ==
    ASSUME IInv, NEW m \in Messages, Input(m)
    PROVE  HostStep
  <1>1. LinkOf = "attached" /\ LinkOf' = LinkOf /\ UNCHANGED <<conn, shell, RecordOf>>
    BY DEF Input, ToPty, IInv, NoDanglingTask, LinkOf, RecordOf
  <1>2. CASE Accept(m) /\ lastSeq' = m[2]
             /\ writes' = IF shell = "alive" THEN [writes EXCEPT ![m] = @ + 1] ELSE writes
    <2>1. Host!Type(m)
      BY <1>1, <1>2 DEF Accept, Host!Type
    <2> QED BY <2>1 DEF HostStep, Host!HostNext
  <1>3. CASE UNCHANGED <<lastSeq, writes>>
    BY <1>1, <1>3, StutterStep DEF Unseen
  <1> QED BY <1>2, <1>3 DEF Input

\* Every step is one of HostedShell, or one it does not see.
LEMMA HostOfStep == IInv /\ ShellOK /\ [Next]_vars => HostStep
  <1> SUFFICES ASSUME IInv, ShellOK, [Next]_vars PROVE HostStep
    OBVIOUS
  <1>t. TypeOK
    BY DEF IInv
  <1> USE DEF taskVars, clientVars, credVars
  <1>1. CASE Connect
    <2>1. LinkOf = "idle" /\ LinkOf' = "open" /\ RecordOf' = RecordOf
      BY <1>1 DEF Connect, LinkOf, RecordOf
    <2>2. Host!Open
      BY <1>1, <2>1 DEF Connect, Host!Open
    <2> QED BY <2>2 DEF HostStep, Host!HostNext
  <1>2. CASE HandshakeFails
    BY <1>2, <1>t, FailsStep
  <1>3. CASE Ack \/ PairChallenge \/ ResumeRequest \/ Wake
    <2>1. Unseen
      BY <1>3 DEF Ack, PairChallenge, ResumeRequest, Moves, Wake, Fails, Unseen, LinkOf, RecordOf
    <2> QED BY <2>1, StutterStep
  <1>4. CASE ResumeProof
    <2>1. CASE mode = "resume" /\ Begin
      BY <1>4, <2>1, BeginStep DEF ResumeProof, Streaming
    <2>2. CASE mode = "again" /\ Stream
      BY <1>4, <2>2, AttachStep DEF ResumeProof
    <2> QED BY <1>4, <2>1, <2>2 DEF ResumeProof
  <1>5. CASE Credential
    <2>1. ~Streaming
      BY <1>5 DEF Credential, IInv, StageOK, Streaming
    <2>2. CASE Begin
      BY <1>5, <2>1, <2>2, BeginStep DEF Credential
    <2>3. CASE Exit /\ record' = record
      BY <1>5, <2>3, EndStep DEF Credential, RecordOf
    <2> QED BY <1>5, <2>2, <2>3 DEF Credential
  <1>6. CASE SendLost
    BY <1>6, EndStep DEF SendLost, RecordOf
  <1>7. CASE SessionList
    BY <1>7, AttachStep DEF SessionList
  <1>8. CASE PumpEnds \/ Closed
    BY <1>8, RoundStep
  <1>9. CASE Start
    <2>1. LinkOf = "off" /\ LinkOf' = "idle" /\ RecordOf' = "none"
      BY <1>9 DEF Start, LinkOf, RecordOf
    <2>2. Host!Boot
      BY <1>9, <2>1 DEF Start, Host!Boot
    <2> QED BY <2>2 DEF HostStep, Host!HostNext
  <1>10. CASE ReadOutput \/ SendOutput \/ ReadEnd \/ SendClose \/ SendRaises \/ InputEnds
    <2>1. Unseen
      BY <1>10 DEF ReadOutput, SendOutput, ReadEnd, SendClose, SendRaises, ToRelay, InputEnds, ToPty,
         Unseen, LinkOf, RecordOf
    <2> QED BY <2>1, StutterStep
  <1>11. CASE ShellExits
    <2>1. LinkOf' = LinkOf /\ RecordOf' = RecordOf
      BY <1>11 DEF ShellExits, LinkOf, RecordOf
    <2>2. Host!ShellExits
      BY <1>11, <2>1 DEF ShellExits, Host!ShellExits
    <2> QED BY <2>2 DEF HostStep, Host!HostNext
  <1>12. ASSUME SocketLost \/ CredentialArrives \/ \E m \in Messages : ClientTypes(m)
         PROVE  HostStep
    <2>1. Unseen
      BY <1>12 DEF SocketLost, CredentialArrives, ClientTypes, Unseen, LinkOf, RecordOf
    <2> QED BY <2>1, StutterStep
  <1>13. CASE Kill
    BY <1>13, EndStep DEF Kill, RecordOf
  <1>14. CASE Interrupt
    <2>1. CASE Streaming /\ ExitCompleted
      BY <1>14, <2>1, CompletedEnd DEF Interrupt, ShellOK
    <2>2. CASE Exit /\ record' = record
      BY <1>14, <2>2, EndStep DEF Interrupt, RecordOf
    <2> QED BY <1>14, <2>1, <2>2 DEF Interrupt
  <1>15. ASSUME NEW m \in Messages, Input(m) PROVE HostStep
    BY <1>15, InputStep
  <1>16. CASE UNCHANGED vars
    BY <1>16, StutterStep DEF vars, Unseen, LinkOf, RecordOf
  <1> QED BY <1>1, <1>2, <1>3, <1>4, <1>5, <1>6, <1>7, <1>8, <1>9, <1>10, <1>11, <1>12, <1>13,
             <1>14, <1>15, <1>16 DEF Next, Main, Pump, Environment

\* An agent hosts its shell as HostedShell says, however many connections,
\* credentials, inputs and faults there are.
THEOREM ImplementsHost == Spec => HostsShell
  <1>1. Init => Host!HostInit
    BY DEF Init, Host!HostInit, LinkOf, RecordOf
  <1>2. IInv /\ ShellOK /\ [Next]_vars => HostStep
    BY HostOfStep
  <1> QED
    BY <1>1, <1>2, Invariance, ShellInvariance, PTL
       DEF Spec, HostsShell, Host!HostSpec, HostStep

\* So a connection never takes the shell with it: only the end of the agent does.
\* (preserve_backend.)
THEOREM ShellSurvives == Spec => ShellKept
  <1>1. HostStep => (shell = "alive" /\ shell' = "closed" => at' = "ended")
    <2>1. LinkOf' = "off" => at' = "ended"
      BY DEF LinkOf
    <2> QED
      BY <2>1 DEF HostStep, Host!HostNext, Host!hvars, Host!Boot, Host!Open, Host!Spawn, Host!Attach,
         Host!Detach, Host!Type, Host!ShellExits, Host!End
  <1>2. IInv /\ ShellOK /\ [Next]_vars => [shell = "alive" /\ shell' = "closed" => at' = "ended"]_vars
    BY <1>1, HostOfStep
  <1> QED BY <1>2, Invariance, ShellInvariance, PTL DEF Spec, ShellKept

=============================================================================
