---------------------------- MODULE MCHandshake ----------------------------
(***************************************************************************)
(* Handshake for TLC: connections that pair, and connections that resume a *)
(* device paired before or just now.                                       *)
(***************************************************************************)
EXTENDS Handshake, TLC

CONSTANTS a1, a2, c1, c2, d1

TwoAgents == {a1, a2}
TwoClients == {c1, c2}
OneDevice == {d1}

Symmetry == Permutations(Agents) \cup Permutations(Clients)

=============================================================================
