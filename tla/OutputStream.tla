---------------------------- MODULE OutputStream ----------------------------
(***************************************************************************)
(* What PtyReader promises of the shell's output.  The shell produces      *)
(* numbered chunks; they are delivered in order, none of them twice.  Each *)
(* connection that breaks allows one chunk to be skipped, no matter which, *)
(* and nothing else does: what has been skipped never exceeds what was     *)
(* allowed, not even when the end is reported, after which nothing comes.  *)
(***************************************************************************)
EXTENDS Naturals, FiniteSets

VARIABLES
    produced,   \* chunks so far
    delivered,  \* those that have been delivered
    allowed,    \* how many may be skipped
    ended       \* the end has been reported

svars == <<produced, delivered, allowed, ended>>

StreamInit == produced = 0 /\ delivered = {} /\ allowed = 0 /\ ended = FALSE

\* Of the first n chunks, those that have not been and will not be delivered
Skipped(n) == (1..n) \ delivered

Produce ==
    /\ ~ended
    /\ produced' = produced + 1
    /\ UNCHANGED <<delivered, allowed, ended>>

Break ==
    /\ ~ended
    /\ allowed' = allowed + 1
    /\ UNCHANGED <<produced, delivered, ended>>

Deliver(i) ==
    /\ ~ended
    /\ \A j \in delivered : j < i
    /\ Cardinality(Skipped(i - 1)) <= allowed
    /\ delivered' = delivered \cup {i}
    /\ UNCHANGED <<produced, allowed, ended>>

End ==
    /\ ~ended
    /\ Cardinality(Skipped(produced)) <= allowed
    /\ ended' = TRUE
    /\ UNCHANGED <<produced, delivered, allowed>>

StreamNext == Produce \/ Break \/ (\E i \in 1..produced : Deliver(i)) \/ End

StreamSpec == StreamInit /\ [][StreamNext]_svars

=============================================================================
