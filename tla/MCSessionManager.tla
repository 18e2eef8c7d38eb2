-------------------------- MODULE MCSessionManager --------------------------
(* Small instances of SessionManager for TLC. *)
EXTENDS SessionManager, TLC

CONSTANTS p1, p2, key, web, ssh

MCPeers2 == {p1, p2}
MCSymmetry == Permutations(MCPeers2)

MCPlans == {"Free", "Team"}
MCActions == {key}
MCTargets == {web, ssh}
MCToggles == {"terminal"}

\* Bound: while a request is queued or counted by the limiter, the plan is
\* Free and at most one screen session exists, connected and with no policy,
\* address or switch of its own. Everything else is explored with nobody queued
\* or counted: queue and limiter read none of it.
MCOneSide ==
    \/ queue = <<>> /\ \A p \in Peers : hits[p] = <<>>
    \/ /\ plan = "Free"
       /\ \A p, q \in Peers : Exists(sessions[p]) /\ Exists(sessions[q]) => p = q
       /\ \A p \in Peers :
             /\ policy[p] = {}
             /\ sessions[p].kind = "Screen"
             /\ sessions[p].state # "Reconnecting"
             /\ sessions[p].allowed_targets = {}
             /\ "terminal" \notin sessions[p].grants
=============================================================================
