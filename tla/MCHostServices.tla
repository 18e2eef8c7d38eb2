--------------------------- MODULE MCHostServices ---------------------------
(* Small instances of HostServices for TLC. *)
EXTENDS HostServices, TLC

CONSTANTS p1, p2, web, mail, native, other, left, right, s1, s2, s3

MCPeers1 == {p1}
MCPeers2 == {p1, p2}
MCPlans == {"Free"}
MCTargets1 == {web}
MCTargets2 == {web, mail}
MCStreamIds == {s1, s2, s3}
MCModes == {native, other}
MCMonitors == {left, right}
MCNative == (left :> native) @@ (right :> other)
MCFull == {"FullControl"}
MCChannelToggles == {"terminal", "tunnel"}
MCDeviceToggles == {"display_mode", "reboot"}
MCNone == {}
MCToggles == MCChannelToggles \cup MCDeviceToggles
MCSymmetry ==
    Permutations(MCPeers2) \cup Permutations(MCTargets2) \cup Permutations(MCStreamIds)

\* No switch of these has been moved since the grant.
MCUnmoved(toggles) ==
    \A p \in Peers : LET s == sessions[p] IN
        Exists(s) => s.grants \cap toggles
                       = granted(sessions, p, s.role, s.kind).grants \cap toggles

\* One guest alone.
MCOneGuest ==
    \E p \in Peers :
        /\ connected \cup replaced \subseteq {p}
        /\ \A q \in Peers \ {p} : ~Exists(sessions[q])
        /\ \A i \in DOMAIN shell_peer : shell_peer[i] = p
        /\ \A i \in DOMAIN sockets : sockets[i].peer = p

MCDisplayIdle ==
    /\ display_mode_generation = 0 /\ capture_target = left
    /\ MCUnmoved({"display_mode"})

MCRebootIdle == reboot_generation = 0 /\ MCUnmoved({"reboot"})

MCTunnelIdle ==
    /\ sockets = << >> /\ \A c \in DOMAIN links : links[c].alpn = "terminal"
    /\ \A p \in Peers : sessions[p].allowed_targets = {}
    /\ MCUnmoved({"tunnel"})

MCTerminalIdle ==
    /\ shell_peer = << >> /\ \A c \in DOMAIN links : links[c].alpn = "tunnel"
    /\ MCUnmoved({"terminal"})

\* Bound: a third forwarded connection is asked for before there is a channel,
\* and all of them while the guest's first connection lasts.
MCThirdStream ==
    Len(sockets) = MaxStreams => links = << >> /\ connected # {} /\ replaced = {}

\* Bound: a second channel is dialed where one address is forwarded; channels
\* know nothing of addresses.
MCOneAddress ==
    Len(links) = MaxDials =>
        Cardinality({sockets[k].target : k \in DOMAIN sockets}
                    \cup UNION {sessions[p].allowed_targets : p \in Peers}) <= 1

\* Bound: one service at a time.  Two guests use the monitors, or ask for a
\* reboot; one guest uses shells, or forwarded connections.
MCOneService ==
    \/ MCTunnelIdle /\ MCTerminalIdle /\ (MCDisplayIdle \/ MCRebootIdle)
    \/ /\ MCDisplayIdle /\ MCRebootIdle /\ MCOneGuest
       /\ MCTunnelIdle \/ (MCTerminalIdle /\ MCThirdStream /\ MCOneAddress)
=============================================================================
