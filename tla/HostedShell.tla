----------------------------- MODULE HostedShell -----------------------------
(***************************************************************************)
(* What AgentSession promises of the shell it hosts.  A process of the     *)
(* agent starts its shell once, on a connection, and has it attached to    *)
(* one connection at a time, each of them used once.  A connection that    *)
(* goes leaves the shell alone; only the end of the process takes it down. *)
(* Each message is typed at most once, while its own connection is         *)
(* attached, and never after a later one of that connection.  The record   *)
(* of the session says that the shell runs only once it does, and that it  *)
(* has exited only when the process is through with it.                    *)
(***************************************************************************)
EXTENDS Naturals

CONSTANT Messages   \* pairs: the connection, and the number on it

VARIABLES
    link,       \* "off", "idle" (no connection), "open" or "attached"
    round,      \* the number of the last connection
    shell,      \* "none", "alive", "exited" or "closed"
    record,     \* "none", "running" or "exited"
    last,       \* the number of the last message on this connection
    typed       \* how often each message was typed into the shell

hvars == <<link, round, shell, record, last, typed>>

HostInit ==
    /\ link = "off" /\ round = 0 /\ shell = "none" /\ record = "none"
    /\ last = 0 /\ typed = [m \in Messages |-> 0]

Boot ==
    /\ link = "off" /\ link' = "idle"
    /\ shell' = "none" /\ record' = "none"
    /\ UNCHANGED <<round, last, typed>>

Open ==
    /\ link = "idle" /\ link' = "open"
    /\ round' = round + 1 /\ last' = 0
    /\ UNCHANGED <<shell, record, typed>>

Spawn ==
    /\ link = "open" /\ shell = "none"
    /\ shell' = "alive" /\ record' = "running"
    /\ UNCHANGED <<link, round, last, typed>>

Attach ==
    /\ link = "open" /\ shell = "alive" /\ record = "running"
    /\ link' = "attached"
    /\ UNCHANGED <<round, shell, record, last, typed>>

\* Without a shell there is nothing to come back for
Detach ==
    /\ link \in {"open", "attached"} /\ shell # "none"
    /\ link' = "idle"
    /\ UNCHANGED <<round, shell, record, last, typed>>

Type(m) ==
    /\ link = "attached" /\ m[1] = round /\ m[2] > last
    /\ last' = m[2]
    /\ typed' = IF shell = "alive" THEN [typed EXCEPT ![m] = @ + 1] ELSE typed
    /\ UNCHANGED <<link, round, shell, record>>

ShellExits ==
    /\ shell = "alive" /\ shell' = "exited"
    /\ UNCHANGED <<link, round, record, last, typed>>

\* The process may not get as far as its record
End ==
    /\ link # "off" /\ link' = "off"
    /\ shell' = IF shell = "alive" THEN "closed" ELSE shell
    /\ record' = record \/ (record = "running" /\ record' = "exited")
    /\ UNCHANGED <<round, last, typed>>

HostNext ==
    \/ Boot \/ Open \/ Spawn \/ Attach \/ Detach \/ ShellExits \/ End
    \/ \E m \in Messages : Type(m)

HostSpec == HostInit /\ [][HostNext]_hvars

=============================================================================
