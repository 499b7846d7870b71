------------------------- MODULE ConnectionLimiter -------------------------
(***************************************************************************)
(* The cap on open websockets per address, and the frame of _ws_loop that  *)
(* takes and gives back the places.  What a connection does while it is    *)
(* open is in Relay.                                                       *)
(***************************************************************************)
EXTENDS Integers, FiniteSets

CONSTANTS
    Conns,          \* websocket connections, each used once
    Addresses,
    MaxPerIp        \* max_connections_per_ip

ASSUME LimiterAssumption == IsFiniteSet(Conns) /\ MaxPerIp \in Nat \ {0}

VARIABLES
    counts,         \* _counts: 0 for an address without an entry
    at,             \* where the handler of each connection is
    peer            \* peer_ip of each connection

vars == <<counts, at, peer>>

Init ==
    /\ counts = [i \in Addresses |-> 0]
    /\ at = [c \in Conns |-> "new"]
    /\ peer \in [Conns -> Addresses]

Goes(c, place) == at' = [at EXCEPT ![c] = place] /\ UNCHANGED peer

\* A client whose origin is not allowed never asks for a place
RefuseOrigin(c) ==
    /\ at[c] = "new"
    /\ Goes(c, "done")
    /\ UNCHANGED counts

\* try_acquire
Acquire(c) ==
    /\ at[c] = "new" /\ counts[peer[c]] < MaxPerIp
    /\ counts' = [counts EXCEPT ![peer[c]] = @ + 1]
    /\ Goes(c, "open")

\* try_acquire refuses, and the handler awaits the close
TooMany(c) ==
    /\ at[c] = "new" /\ counts[peer[c]] >= MaxPerIp
    /\ Goes(c, "refused")
    /\ UNCHANGED counts

\* Mutant: the refusal is inside the try, whose finally gives a place back
RefusedReleases(c) ==
    /\ at[c] = "refused"
    /\ counts' = [counts EXCEPT ![peer[c]] = IF @ <= 1 THEN 0 ELSE @ - 1]
    /\ Goes(c, "done")

\* The handler of a refused connection returns before the try
Refused(c) ==
    /\ at[c] = "refused"
    /\ Goes(c, "done")
    /\ UNCHANGED counts

\* Mutant: a handler that fails gives nothing back
LeaveKeepingPlace(c) ==
    /\ at[c] = "open"
    /\ \/ counts' = [counts EXCEPT ![peer[c]] = IF @ <= 1 THEN 0 ELSE @ - 1]
       \/ UNCHANGED counts
    /\ Goes(c, "leaving")

\* finally: release, before the teardown of the session is awaited.  Every way
\* out of the loop, an exception of accept included, comes here.
Leave(c) ==
    /\ at[c] = "open"
    /\ counts' = [counts EXCEPT ![peer[c]] = IF @ <= 1 THEN 0 ELSE @ - 1]
    /\ Goes(c, "leaving")

\* _handle_disconnect has ended
Left(c) ==
    /\ at[c] = "leaving"
    /\ Goes(c, "done")
    /\ UNCHANGED counts

Next ==
    \E c \in Conns :
        \/ RefuseOrigin(c) \/ Acquire(c) \/ TooMany(c) \/ Refused(c) \/ Leave(c) \/ Left(c)

Spec == Init /\ [][Next]_vars

(***************************************************************************)
(* Properties.                                                             *)
(***************************************************************************)

TypeOK ==
    /\ counts \in [Addresses -> Nat]
    /\ at \in [Conns -> {"new", "open", "refused", "leaving", "done"}]
    /\ peer \in [Conns -> Addresses]

OpenAt(i) == {c \in Conns : at[c] = "open" /\ peer[c] = i}

\* A place is never lost nor given back twice, however a handler ends: the count
\* of an address is the number of its open connections.  (release in the finally
\* of _ws_loop, the refusals outside its try.)
CountExact == \A i \in Addresses : counts[i] = Cardinality(OpenAt(i))

\* No address holds more open connections than its cap.
CapHeld == \A i \in Addresses : Cardinality(OpenAt(i)) <= MaxPerIp

=============================================================================
