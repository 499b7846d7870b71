------------------------------ MODULE MCRelay ------------------------------
(***************************************************************************)
(* Instances of Relay for TLC.  With one session id three clients compete  *)
(* for one agent; with two, two agents share one device, one token and one *)
(* client, and a connection may end up in either session.                  *)
(***************************************************************************)
EXTENDS Relay, TLC

CONSTANTS a1, a2, c1, c2, s1, s2, t1, d1

OneAgent == {a1}
TwoAgents == {a1, a2}
OneClient == {c1}
TwoClients == {c1, c2}
OneSid == {s1}
TwoSids == {s1, s2}
OneToken == {t1}
OneDevice == {d1}

\* Connections and session ids are interchangeable
Symmetry == Permutations(Agents) \cup Permutations(Clients) \cup Permutations(Sids)

=============================================================================
