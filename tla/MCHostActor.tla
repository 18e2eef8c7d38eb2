----------------------------- MODULE MCHostActor -----------------------------
(* Small instances of HostActor for TLC. *)
EXTENDS HostActor

CONSTANT p1

MCPeers1 == {p1}

MCPlans == {"Free"}
MCRoles1 == {"FullControl"}
MCRoles2 == {"ViewOnly", "FullControl"}
MCAttended == {"Attended"}
MCAttendances == {"Attended", "Unattended"}
MCHellos == BOOLEAN
MCNone == {}
MCScreenOnly == {FALSE}

\* Bound: a third connection is explored only where the device password, a
\* shell and a second role have played no part.
MCThirdLink ==
    Len(link_peer) = MaxLinks =>
        /\ trusted = {} /\ unattended_pending = {}
        /\ \A l \in Dialed : ~hello[l].terminal
        /\ terminal_only_guests = {}
        /\ \A p \in Peers : Exists(sessions[p]) => sessions[p].role = "FullControl"
        /\ \A i \in 1..Len(queue) : queue[i].requested_role = "FullControl"
=============================================================================
