----------------------------- MODULE PtyReader -----------------------------
(***************************************************************************)
(* Reading the shell's output.  One pump task at a time calls              *)
(* backend.read() and sends what it returns; it is cancelled with its      *)
(* connection, and the next connection reads from the same backend.        *)
(*                                                                         *)
(* The POSIX backends wait with a reader callback of the event loop.  The  *)
(* ConPTY backend starts a thread for every read, and a thread that blocks *)
(* in the PTY cannot be cancelled.  Output is numbered in the order the    *)
(* shell writes it; 0 stands for the end of it.                            *)
(***************************************************************************)
EXTENDS Naturals

CONSTANTS
    MaxChunks,  \* bound: chunks the shell writes
    MaxConns    \* bound: connections that stream

ASSUME ReaderAssumption == MaxChunks \in Nat /\ MaxConns \in Nat

Chunks == 1..MaxChunks
Conns == 1..MaxConns

VARIABLES
    conpty,     \* the backend: ConPTY or POSIX
    shell,      \* the PTY's child
    written,    \* chunks it has written
    taken,      \* chunks that have been read out of the PTY
    conn,       \* the connection that streams, or was the last to
    pump,       \* its task _pump_pty_to_relay
    future,     \* what the running read() awaits
    value,      \* the result of future, or the data being sent
    reader,     \* POSIX: the loop has a reader callback for the PTY
    unwinding,  \* POSIX: a cancelled read() has yet to run its finally clause
    thread,     \* ConPTY: the last thread of each connection
    outcome,    \* what that thread has read
    owner,      \* history: the connection whose read took each chunk
    sent        \* history: chunks sent to the relay

ptyVars == <<conpty, shell, written>>
readVars == <<future, value, reader, unwinding, thread, outcome, taken, owner>>
vars == <<ptyVars, readVars, conn, pump, sent>>

(***************************************************************************)
(* The PTY.                                                                *)
(***************************************************************************)

ShellWrites ==
    /\ shell = "alive" /\ written < MaxChunks
    /\ written' = written + 1
    /\ UNCHANGED <<conpty, shell, readVars, conn, pump, sent>>

ShellExits ==
    /\ shell = "alive"
    /\ shell' = "exited"
    /\ UNCHANGED <<conpty, written, readVars, conn, pump, sent>>

Readable == taken < written \/ shell = "exited"

\* proc.read by connection k returns v: the next chunk, or 0 after the last one
Take(k, v) ==
    /\ Readable
    /\ \/ /\ taken < written /\ v = taken + 1
          /\ taken' = v /\ owner' = [owner EXCEPT ![v] = k]
       \/ taken = written /\ v = 0 /\ UNCHANGED <<taken, owner>>

(***************************************************************************)
(* read().                                                                 *)
(***************************************************************************)

\* Up to its await: add_reader, or a thread of its own
Read(k) ==
    /\ pump' = "reading"
    /\ future' = "pending" /\ value' = 0
    /\ reader' = ~conpty
    /\ thread' = IF conpty THEN [thread EXCEPT ![k] = "blocked"] ELSE thread

\* Mutant: the callback stays registered
ReadableAgain ==
    /\ reader
    /\ \E v \in Chunks \cup {0} :
          /\ Take(conn, v)
          /\ \/ future = "pending" /\ future' = "set" /\ value' = v
             \/ future # "pending" /\ UNCHANGED <<future, value>>
    /\ UNCHANGED <<ptyVars, conn, pump, reader, unwinding, thread, outcome, sent>>

\* _on_readable: what it has taken is dropped if the future is done
OnReadable ==
    /\ reader
    /\ reader' = FALSE
    /\ \E v \in Chunks \cup {0} :
          /\ Take(conn, v)
          /\ \/ future = "pending" /\ future' = "set" /\ value' = v
             \/ future # "pending" /\ UNCHANGED <<future, value>>
    /\ UNCHANGED <<ptyVars, conn, pump, unwinding, thread, outcome, sent>>

\* blocking_read: the thread gets something, and has the loop call finish_read
BlockingRead(k) ==
    /\ thread[k] = "blocked"
    /\ thread' = [thread EXCEPT ![k] = "posted"]
    /\ \E v \in Chunks \cup {0} : Take(k, v) /\ outcome' = [outcome EXCEPT ![k] = v]
    /\ UNCHANGED <<ptyVars, conn, pump, future, value, reader, unwinding, sent>>

\* Mutant: one future for the backend, so that any thread's result is the read's
FinishAnyRead(k) ==
    /\ thread[k] = "posted"
    /\ thread' = [thread EXCEPT ![k] = "none"]
    /\ \/ future = "pending" /\ future' = "set" /\ value' = outcome[k]
       \/ future # "pending" /\ UNCHANGED <<future, value>>
    /\ UNCHANGED <<ptyVars, conn, pump, reader, unwinding, outcome, taken, owner, sent>>

\* finish_read: the future is the one of the read that started the thread, and
\* nothing happens if that read was cancelled
FinishRead(k) ==
    /\ thread[k] = "posted"
    /\ thread' = [thread EXCEPT ![k] = "none"]
    /\ \/ k = conn /\ future = "pending" /\ future' = "set" /\ value' = outcome[k]
       \/ ~(k = conn /\ future = "pending") /\ UNCHANGED <<future, value>>
    /\ UNCHANGED <<ptyVars, conn, pump, reader, unwinding, outcome, taken, owner, sent>>

(***************************************************************************)
(* The pump.                                                               *)
(***************************************************************************)

\* Mutant: the cancelled tasks are not awaited
StartAtOnce ==
    /\ pump = "none" /\ shell = "alive" /\ conn < MaxConns
    /\ conn' = conn + 1
    /\ Read(conn')
    /\ UNCHANGED <<ptyVars, unwinding, outcome, taken, owner, sent>>

\* run_pty_session of the next connection.  The last one has awaited its
\* cancelled tasks.
Start ==
    /\ pump = "none" /\ ~unwinding /\ shell = "alive" /\ conn < MaxConns
    /\ conn' = conn + 1
    /\ Read(conn')
    /\ UNCHANGED <<ptyVars, unwinding, outcome, taken, owner, sent>>

\* The future is done and the task goes on: it sends the data, or, at the end of
\* the output, says so and leaves
ReadReturns ==
    /\ pump = "reading" /\ future = "set"
    /\ pump' = IF value = 0 THEN "ended" ELSE "sending"
    /\ future' = "none" /\ reader' = FALSE
    /\ UNCHANGED <<ptyVars, conn, value, unwinding, thread, outcome, taken, owner, sent>>

\* send_pty_data returns, and the next read begins
Sent ==
    /\ pump = "sending"
    /\ sent' = sent \cup {value}
    /\ Read(conn)
    /\ UNCHANGED <<ptyVars, conn, unwinding, outcome, taken, owner>>

\* The connection ends and the pump is cancelled, or its send raises
Cancel ==
    /\ pump \in {"reading", "sending"}
    /\ pump' = "none" /\ future' = "none" /\ value' = 0
    /\ unwinding' = (pump = "reading" /\ ~conpty)
    /\ UNCHANGED <<ptyVars, conn, reader, thread, outcome, taken, owner, sent>>

\* The finally clause of a cancelled read(): remove_reader of the PTY
Unwind ==
    /\ unwinding
    /\ unwinding' = FALSE /\ reader' = FALSE
    /\ UNCHANGED <<ptyVars, conn, pump, future, value, thread, outcome, taken, owner, sent>>

(***************************************************************************)
(* Specification.                                                          *)
(***************************************************************************)

Init ==
    /\ conpty \in BOOLEAN /\ shell = "alive"
    /\ written = 0 /\ taken = 0
    /\ conn = 0 /\ pump = "none" /\ future = "none" /\ value = 0
    /\ reader = FALSE /\ unwinding = FALSE
    /\ thread = [k \in Conns |-> "none"] /\ outcome = [k \in Conns |-> 0]
    /\ owner = [i \in Chunks |-> 0] /\ sent = {}

Next ==
    \/ ShellWrites \/ ShellExits
    \/ OnReadable \/ \E k \in Conns : BlockingRead(k) \/ FinishRead(k)
    \/ Start \/ ReadReturns \/ Sent \/ Cancel \/ Unwind

Spec == Init /\ [][Next]_vars

\* The loop calls back a reader whose PTY is readable and runs what is ready;
\* threads run; a send ends when the socket drains or is given up.
Fairness ==
    /\ WF_vars(OnReadable) /\ WF_vars(ReadReturns) /\ WF_vars(Sent) /\ WF_vars(Unwind)
    /\ \A k \in Conns : WF_vars(BlockingRead(k)) /\ WF_vars(FinishRead(k))

FairSpec == Spec /\ Fairness

(***************************************************************************)
(* Properties.                                                             *)
(***************************************************************************)

TypeOK ==
    /\ conpty \in BOOLEAN /\ shell \in {"alive", "exited"}
    /\ written \in 0..MaxChunks /\ taken \in 0..MaxChunks
    /\ conn \in 0..MaxConns /\ pump \in {"none", "reading", "sending", "ended"}
    /\ future \in {"none", "pending", "set"} /\ value \in 0..MaxChunks
    /\ reader \in BOOLEAN /\ unwinding \in BOOLEAN
    /\ thread \in [Conns -> {"none", "blocked", "posted"}]
    /\ outcome \in [Conns -> 0..MaxChunks]
    /\ owner \in [Chunks -> 0..MaxConns] /\ sent \in SUBSET Chunks

\* The chunk i is with the running pump: in its future, its thread, or its hands
InHand(i) ==
    \/ value = i
    \/ thread[owner[i]] = "posted" /\ outcome[owner[i]] = i /\ owner[i] = conn /\ pump = "reading"

\* Taken out of the PTY and gone
Lost(i) == i \in 1..taken /\ i \notin sent /\ ~InHand(i)

\* Whatever is cancelled at whatever moment, and however many threads read, the
\* output reaches the relay in the order it was written and never twice.
\* (read of both backends across the connections of one shell.)
OutputInOrder ==
    [][\A i \in sent' \ sent : \A j \in sent : j < i]_vars

\* A connection that ends costs at most one chunk of output, and one that goes
\* on costs none.  (The callback against the cancellation; the blocked thread.)
LossBounded ==
    \A i \in Chunks : Lost(i) =>
       /\ owner[i] < conn \/ pump = "none"
       /\ \A j \in Chunks : Lost(j) /\ owner[j] = owner[i] => i = j

\* When the pump reports the end of the output, nothing of it is left anywhere:
\* each chunk was sent, or was lost with an earlier connection.  (EOFError.)
EndIsLast ==
    pump = "ended" => \A i \in 1..written : i \in sent \/ (Lost(i) /\ owner[i] < conn)

\* A pump that reads after the shell has exited learns of it, whoever else reads.
\* (remove_reader of the old read against add_reader of the new one.)
EndIsSeen == (shell = "exited" /\ pump = "reading") ~> pump \in {"ended", "none"}

(***************************************************************************)
(* PtyReader implements OutputStream.                                      *)
(***************************************************************************)

\* Connections that have broken: all of them but the one that streams
Broken == IF pump = "none" THEN conn ELSE conn - 1

Stream == INSTANCE OutputStream WITH
    produced <- written,
    delivered <- sent,
    allowed <- Broken,
    ended <- pump = "ended"

\* Whatever is cancelled at whatever moment, and however many threads read: the
\* output reaches the relay in the order it was written and never twice, with at
\* most one chunk missing for every connection that has broken, also when its
\* end is reported; after that nothing follows.  (read of both backends across
\* the connections of one shell.)
StreamsOutput == Stream!StreamSpec

(***************************************************************************)
(* What makes the invariants inductive.                                    *)
(***************************************************************************)

\* Who may still take something: the reader callback belongs to the read that
\* waits or was just cancelled, a thread to a connection that has begun
ReadersOK ==
    /\ reader => ~conpty /\ (unwinding \/ (pump = "reading" /\ future = "pending"))
    /\ unwinding => ~conpty /\ pump = "none"
    /\ conn = 0 => pump = "none" /\ ~unwinding
    /\ future # "none" => pump = "reading"
    /\ \A k \in Conns : thread[k] # "none" => conpty /\ k <= conn
    /\ (pump # "none" /\ ~(pump = "reading" /\ future = "pending")) => thread[conn] = "none"

\* What has been taken is accounted for, and what a reader holds is its own
TakenOK ==
    /\ taken <= written /\ sent \subseteq 1..taken
    /\ \A i \in 1..taken : owner[i] \in 1..conn
    /\ value # 0 =>
          /\ pump \in {"reading", "sending"} /\ future # "pending"
          /\ value <= taken /\ owner[value] = conn /\ \A j \in sent : j < value
    /\ pump = "sending" => value # 0
    /\ \A k \in Conns : thread[k] = "posted" /\ outcome[k] # 0 =>
          /\ outcome[k] <= taken /\ owner[outcome[k]] = k
          /\ k = conn /\ pump = "reading" => \A j \in sent : j < outcome[k]

\* The end is read after everything else
EndOK ==
    /\ (future = "set" /\ value = 0) \/ pump = "ended" => taken = written /\ shell = "exited"
    /\ pump = "ended" => value = 0
    /\ \A k \in Conns : thread[k] = "posted" /\ outcome[k] = 0 => taken = written /\ shell = "exited"

NothingLostBy(k) == \A i \in Chunks : Lost(i) => owner[i] # k

\* A connection that goes on, or that may still take a chunk, has lost none
LossOK ==
    /\ pump # "none" \/ reader => NothingLostBy(conn)
    /\ \A k \in Conns : thread[k] = "blocked" => NothingLostBy(k)

IInv == TypeOK /\ ReadersOK /\ TakenOK /\ EndOK /\ LossOK /\ LossBounded

(***************************************************************************)
(* A claim of a comment that the code does not keep.                       *)
(***************************************************************************)

\* windows/pty_backend.py:49: at most one bridge thread exists for a backend at
\* a time.
OneReader == \A j, k \in Conns : thread[j] = "blocked" /\ thread[k] = "blocked" => j = k

=============================================================================
