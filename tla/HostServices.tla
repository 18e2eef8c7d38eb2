---------------------------- MODULE HostServices ----------------------------
(***************************************************************************)
(* What a granted session runs on the host besides its picture, as the     *)
(* actor of crates/runtime/src/network.rs keeps it: shells over rd/term/1, *)
(* forwarded connections over rd/tunnel/1, the switched mode of a monitor  *)
(* of the host and the countdown of a requested reboot; and what closing a *)
(* connection, a revoke and the host's switches tear down.                 *)
(*                                                                         *)
(* HostActor has how connections and sessions come and go; here a peer is  *)
(* connected or not, and its session is granted, revoked, dropped and      *)
(* resumed through the manager.  Every peer advertises every feature.      *)
(*                                                                         *)
(* A forwarded connection has a number, which is the order it was asked    *)
(* for in, and a stream id, which the guest chooses and may use again.     *)
(***************************************************************************)
EXTENDS SessionManager

CONSTANTS
    MAX_TERMINALS_PER_SESSION,
    MAX_TUNNEL_STREAMS_PER_SESSION,
    REBOOT_WARNING,     \* REBOOT_WARNING_SECS, in ticks
    Monitors,
    Modes,              \* display modes, which every monitor has
    NativeMode,         \* the one the person at the host chose for each monitor
    GrantRoles,         \* roles this host grants
    StreamIds,          \* stream ids a guest uses
    MaxShells,          \* bound: shells ever started
    MaxStreams,         \* bound: forwarded connections ever asked for
    MaxDials,           \* bound: channels ever opened
    MaxSwitches,        \* bound: mode switches
    MaxReboots          \* bound: values of reboot_generation

ASSUME ServicesAssumption ==
    /\ MAX_TERMINALS_PER_SESSION \in Nat
    /\ MAX_TUNNEL_STREAMS_PER_SESSION \in Nat
    /\ REBOOT_WARNING \in Nat
    /\ NativeMode \in [Monitors -> Modes]
    /\ GrantRoles \subseteq Roles
    /\ MaxShells \in Nat /\ MaxStreams \in Nat /\ MaxDials \in Nat
    /\ MaxSwitches \in Nat /\ MaxReboots \in Nat

VARIABLES
    connected,       \* peers with a control connection
    replaced,        \* peers with an older one whose end is not reported yet
    links,           \* the connections under services, by number
    channel,         \* the link of each peer and service in force, or 0
    shell_peer,      \* whose shell each id is; ids come from next_shell
    shells,          \* RunningShells
    exiting,         \* shells whose reader thread has not reported its end
    sockets,         \* forwarded connections asked for, in order
    tunnel_streams,  \* address each peer's stream id is listed under, or None
    connecting,      \* sockets whose connect task is running
    awaiting,        \* tunnel_awaiting_channel
    writing,         \* sockets with a running guest-to-target task
    reading,         \* sockets with a running target-to-guest task
    display_mode_state,
    capture_target,  \* the monitor capture is pointed at
    screen,          \* the mode of each monitor
    unrestored,      \* the platform refused a restore
    strayed,         \* capture was pointed elsewhere while a switch stood
    confirms,        \* armed confirmation timeouts, by generation
    display_mode_generation,
    pending_reboot,
    reboot_generation,
    countdowns,      \* age of the countdown of each generation, or None
    machine          \* up, going (the command was issued) or down

connectionVars == <<connected, replaced>>
channelVars == <<links, channel>>
shellVars == <<shell_peer, shells, exiting>>
tunnelVars == <<sockets, tunnel_streams, connecting, awaiting, writing, reading>>
displayVars == <<display_mode_state, capture_target, screen, unrestored, strayed,
                 confirms, display_mode_generation>>
rebootVars == <<pending_reboot, reboot_generation, countdowns, machine>>
serviceVars == <<connectionVars, channelVars, shellVars, tunnelVars, displayVars,
                 rebootVars>>
vars == <<managerVars, serviceVars>>

Alpns == {"terminal", "tunnel"}
ShellIds == 1..Len(shell_peer)
SocketIds == 1..Len(sockets)
LinkIds == 1..Len(links)
NoSwitch == [owner |-> None, original |-> None, generation |-> 0]
NoReboot == [peer |-> None, generation |-> 0, age |-> 0]

shells_of(p) == {id \in shells : shell_peer[id] = p}
sockets_of(p) == {k \in SocketIds : sockets[k].peer = p}
listed(p) == {id \in StreamIds : tunnel_streams[p][id] # None}

\* Sockets of p asked for under one of ids.
under(p, ids) == {k \in sockets_of(p) : sockets[k].id \in ids}

\* Sockets started on link c.
over(c) == {k \in SocketIds : sockets[k].via = c}

Manager(ss) ==
    /\ sessions' = ss
    /\ UNCHANGED <<plan, policy, queue, hits>>

-----------------------------------------------------------------------------
(* Channels and shells.                                                    *)

may_tunnel(p) == Active(sessions[p]) /\ "tunnel" \in sessions[p].grants

may_open(alpn, p) ==
    IF alpn = "tunnel" THEN may_tunnel(p) ELSE terminal_allows(sessions[p])

\* Slip: the connection under the channel is left open.
closed_links_left_up(alpns, p) == links

\* The links left when the channels of p over alpns are closed from this side;
\* the task of each reports its end later.
closed_links(alpns, p) ==
    [c \in LinkIds |->
        IF links[c].state = "up" /\ \E a \in alpns : channel[p][a] = c
          THEN [links[c] EXCEPT !.state = "ended"] ELSE links[c]]

ClosedChannels(alpns, p) ==
    /\ links' = closed_links(alpns, p)
    /\ channel' = [channel EXCEPT ![p] = [a \in Alpns |->
                      IF a \in alpns THEN 0 ELSE @[a]]]

\* end_shell for each of ids: killed, and forgotten before the reader thread
\* reports.
EndShells(ids) ==
    /\ shells' = shells \ ids
    /\ UNCHANGED <<shell_peer, exiting>>

\* Slip: one shell more than the bound.
terminal_bound_off_by_one(p) ==
    Cardinality(shells_of(p)) <= MAX_TERMINALS_PER_SESSION

terminal_bound(p) == Cardinality(shells_of(p)) < MAX_TERMINALS_PER_SESSION

\* on_terminal_open_request.  A refusal, of the grant, of the bound or by the
\* platform, changes nothing.
TerminalOpenRequest(p) ==
    /\ p \in connected
    /\ Len(shell_peer) < MaxShells
    /\ terminal_allows(sessions[p]) /\ terminal_bound(p)
    /\ shell_peer' = Append(shell_peer, p)
    /\ shells' = shells \cup {Len(shell_peer) + 1}
    /\ exiting' = exiting \cup {Len(shell_peer) + 1}
    /\ UNCHANGED <<managerVars, connectionVars, channelVars, tunnelVars, displayVars,
                   rebootVars>>

\* The reader thread of a shell ends, because the process exited or was
\* killed, and its ShellEnded is handled.
ShellEnded(id) ==
    /\ id \in exiting
    /\ shells' = shells \ {id}
    /\ exiting' = exiting \ {id}
    /\ UNCHANGED <<managerVars, connectionVars, channelVars, shell_peer, tunnelVars,
                   displayVars, rebootVars>>

\* TerminalClose from the guest.
TerminalClose(id) ==
    /\ id \in shells /\ shell_peer[id] \in connected
    /\ EndShells({id})
    /\ UNCHANGED <<managerVars, connectionVars, channelVars, tunnelVars, displayVars,
                   rebootVars>>

-----------------------------------------------------------------------------
(* Forwarded connections.                                                  *)

\* Slip: the socket that waits for the channel is not let go.
EndStreamsKeepingAwaiting(p, ids, going_on) ==
    LET gone == under(p, ids \cap listed(p)) IN
    /\ tunnel_streams' = [tunnel_streams EXCEPT ![p] = [id \in StreamIds |->
                             IF id \in ids THEN None ELSE @[id]]]
    /\ writing' = going_on \ (gone \cap over(channel[p]["tunnel"]))
    /\ UNCHANGED awaiting

\* end_tunnel_stream for each of ids that is listed, beside the sockets that go
\* on writing.  Dropping the sender that the channel in force has for a stream
\* ends the writing task; nothing ends the reading one, which goes on until the
\* target closes, or speaks with no channel left to carry it.
EndStreams(p, ids, going_on) ==
    LET gone == under(p, ids \cap listed(p)) IN
    /\ tunnel_streams' = [tunnel_streams EXCEPT ![p] = [id \in StreamIds |->
                             IF id \in ids THEN None ELSE @[id]]]
    /\ awaiting' = awaiting \ gone
    /\ writing' = going_on \ (gone \cap over(channel[p]["tunnel"]))

\* The part of close_tunnel about streams.  What was started on the link in
\* force loses its writing task with the link.
CloseStreams(p) ==
    /\ tunnel_streams' = [tunnel_streams EXCEPT ![p] = [id \in StreamIds |-> None]]
    /\ awaiting' = awaiting \ sockets_of(p)
    /\ writing' = writing \ (sockets_of(p) \cap over(channel[p]["tunnel"]))
    /\ UNCHANGED <<sockets, connecting, reading>>

\* Slip: one stream more than the bound.
tunnel_bound_off_by_one(p) ==
    Cardinality(listed(p)) <= MAX_TUNNEL_STREAMS_PER_SESSION

tunnel_bound(p) == Cardinality(listed(p)) < MAX_TUNNEL_STREAMS_PER_SESSION

\* Slip: an id that is listed keeps its first address.
listed_once(p, id, target) ==
    [tunnel_streams EXCEPT ![p][id] = IF @ = None THEN target ELSE @]

\* An id that is listed already is listed under its new address.
listed_under(p, id, target) == [tunnel_streams EXCEPT ![p][id] = target]

\* on_tunnel_open_request.  A refusal changes nothing.
TunnelOpenRequest(p, id, target) ==
    /\ p \in connected
    /\ Len(sockets) < MaxStreams
    /\ tunnel_allows(sessions[p], target) /\ tunnel_bound(p)
    /\ sockets' = Append(sockets, [peer |-> p, id |-> id, target |-> target, via |-> 0])
    /\ tunnel_streams' = listed_under(p, id, target)
    /\ connecting' = connecting \cup {Len(sockets) + 1}
    /\ UNCHANGED <<managerVars, connectionVars, channelVars, shellVars, awaiting,
                   writing, reading, displayVars, rebootVars>>

\* start_tunnel_stream for the sockets ks of p on link c, beside those that go
\* on writing: each takes the place of what is registered there under its id.
Start(p, ks, c, going_on) ==
    /\ sockets' = [k \in SocketIds |->
                      IF k \in ks THEN [sockets[k] EXCEPT !.via = c] ELSE sockets[k]]
    /\ writing' = (going_on \ (under(p, {sockets[k].id : k \in ks}) \cap over(c)))
                       \cup ks
    /\ reading' = reading \cup ks

\* Slip: the grant and the address are not read again.
still_allowed_unread(p, id) == id \in listed(p)

\* What is read is the address the id is listed under by now.
still_allowed(p, id) ==
    id \in listed(p) /\ tunnel_allows(sessions[p], tunnel_streams[p][id])

\* on_tunnel_target_connected with, or without, a socket.
TargetConnected(k, reached) ==
    LET p == sockets[k].peer
        id == sockets[k].id
        c == channel[p]["tunnel"]
    IN
    /\ k \in connecting
    /\ connecting' = connecting \ {k}
    /\ IF reached /\ still_allowed(p, id)
         THEN /\ IF c = 0
                   THEN /\ awaiting' = (awaiting \ under(p, {id})) \cup {k}
                        /\ UNCHANGED <<sockets, writing, reading>>
                   ELSE Start(p, {k}, c, writing) /\ UNCHANGED awaiting
              /\ UNCHANGED tunnel_streams
         ELSE /\ tunnel_streams' = [tunnel_streams EXCEPT ![p][id] = None]
              /\ UNCHANGED <<sockets, awaiting, writing, reading>>
    /\ UNCHANGED <<managerVars, connectionVars, channelVars, shellVars,
                   displayVars, rebootVars>>

\* The reading task of a socket has ended, because its target closed or said
\* something that its link no longer takes, and its StreamEnded is handled: it
\* names the peer and the id, and ends what is listed there by now.
ReadEnded(k) ==
    LET p == sockets[k].peer IN
    /\ k \in reading
    /\ reading' = reading \ {k}
    /\ EndStreams(p, {sockets[k].id}, writing)
    /\ UNCHANGED <<managerVars, connectionVars, channelVars, shellVars, sockets,
                   connecting, displayVars, rebootVars>>

\* The guest's close frame for a stream on a link that is up: the sender that
\* link has for it goes, and StreamEnded is handled.
CloseFrame(c, id) ==
    LET p == links[c].peer
        here == under(p, {id}) \cap over(c)
    IN
    /\ links[c].alpn = "tunnel" /\ links[c].state \in {"up", "replaced"}
    /\ here # {}
    /\ EndStreams(p, {id}, writing \ here)
    /\ UNCHANGED <<managerVars, connectionVars, channelVars, shellVars, sockets,
                   connecting, reading, displayVars, rebootVars>>

\* TunnelClose from the guest.
TunnelClose(p, id) ==
    /\ p \in connected /\ id \in listed(p)
    /\ EndStreams(p, {id}, writing)
    /\ UNCHANGED <<managerVars, connectionVars, channelVars, shellVars, sockets,
                   connecting, reading, displayVars, rebootVars>>

\* The writing task of a socket gives up after TUNNEL_IDLE_TIMEOUT_SECS.
StreamIdle(k) ==
    /\ k \in writing
    /\ writing' = writing \ {k}
    /\ UNCHANGED <<managerVars, connectionVars, channelVars, shellVars, sockets,
                   tunnel_streams, connecting, awaiting, reading,
                   displayVars, rebootVars>>

\* The links after one of p over alpn more: a tunnel that was in force and up
\* goes on beside the new one.
dialed_links(alpn, p) ==
    LET old == channel[p][alpn] IN
    Append([c \in LinkIds |->
               IF c = old /\ links[c].state = "up"
                 THEN [links[c] EXCEPT !.state = "replaced"] ELSE links[c]],
           [peer |-> p, alpn |-> alpn, state |-> "up"])

\* A guest dials a tunnel or a terminal connection.  Without a control
\* connection or the grant it is closed on the spot, and so is a terminal
\* connection beside another.  A tunnel takes the place of the one in force,
\* which is left to itself, and starts what was waiting for a channel.
ChannelConnected(alpn, p) ==
    LET old == channel[p][alpn]
        new == Len(links) + 1
        parked == awaiting \cap sockets_of(p)
    IN
    /\ Len(links) < MaxDials
    /\ p \in connected /\ may_open(alpn, p)
    /\ alpn = "terminal" => old = 0
    /\ links' = dialed_links(alpn, p)
    /\ channel' = [channel EXCEPT ![p][alpn] = new]
    /\ IF alpn = "tunnel"
         THEN /\ Start(p, parked, new,
                       IF old # 0 /\ links[old].state = "ended"
                         THEN writing \ over(old) ELSE writing)
              /\ awaiting' = awaiting \ parked
         ELSE UNCHANGED <<sockets, awaiting, writing, reading>>
    /\ UNCHANGED <<managerVars, connectionVars, shellVars, tunnel_streams,
                   connecting, displayVars, rebootVars>>

\* The connection under a service ends by itself; its task will report it.
\* The senders registered on a replaced one go with it.
ChannelLost(c) ==
    /\ links[c].state \in {"up", "replaced"}
    /\ links' = [links EXCEPT ![c].state = "ended"]
    /\ writing' = IF links[c].state = "replaced" THEN writing \ over(c) ELSE writing
    /\ UNCHANGED <<managerVars, connectionVars, channel, shellVars, sockets,
                   tunnel_streams, connecting, awaiting, reading,
                   displayVars, rebootVars>>

\* ConnectFailed, the report of an ended connection: close_tunnel or
\* close_terminal of the peer.  It names the peer and not the connection, so a
\* late one closes a newer channel.
ConnectFailed(c) ==
    LET p == links[c].peer
        alpn == links[c].alpn
    IN
    /\ links[c].state = "ended"
    /\ links' = [closed_links({alpn}, p) EXCEPT ![c].state = "reported"]
    /\ channel' = [channel EXCEPT ![p][alpn] = 0]
    /\ IF alpn = "tunnel" THEN CloseStreams(p) /\ UNCHANGED shellVars
                          ELSE EndShells(shells_of(p)) /\ UNCHANGED tunnelVars
    /\ UNCHANGED <<managerVars, connectionVars, displayVars, rebootVars>>

\* The host's "close everything" button: on_tunnel_close_all.
TunnelCloseAll(p) ==
    /\ p \in connected
    /\ ClosedChannels({"tunnel"}, p)
    /\ CloseStreams(p)
    /\ UNCHANGED <<managerVars, connectionVars, shellVars, displayVars, rebootVars>>

\* on_tunnel_set_target.
TunnelSetTarget(p, target, allowed) ==
    /\ p \in connected
    /\ IF allowed
         THEN AllowTunnelTarget(p, target) /\ UNCHANGED tunnelVars
         ELSE /\ DenyTunnelTarget(p, target)
              /\ EndStreams(p, {id \in StreamIds : tunnel_streams[p][id] = target},
                            writing)
              /\ UNCHANGED <<sockets, connecting, reading>>
    /\ UNCHANGED <<connectionVars, channelVars, shellVars, displayVars, rebootVars>>

-----------------------------------------------------------------------------
(* The monitors.                                                           *)

\* restore_display_mode; works says whether the platform takes the mode back.
\* It is set on the monitor capture is pointed at by now.
RestoreDisplayMode(works) ==
    /\ display_mode_state' = NoSwitch
    /\ screen' = IF works
                   THEN [screen EXCEPT ![capture_target] = display_mode_state.original]
                   ELSE screen
    /\ unrestored' = (unrestored \/ ~works)
    /\ UNCHANGED <<capture_target, strayed>>

\* on_monitor_select.  The choice is kept even when the capturer refuses it.
MonitorSelect(p, monitor) ==
    /\ p \in connected
    /\ Active(sessions[p]) /\ "view" \in sessions[p].grants
    /\ capture_target' = monitor
    /\ strayed' = (strayed \/ (display_mode_state # NoSwitch /\ monitor # capture_target))
    /\ UNCHANGED <<managerVars, connectionVars, channelVars, shellVars, tunnelVars,
                   display_mode_state, screen, unrestored, confirms,
                   display_mode_generation, rebootVars>>

\* Slip: every switch remembers the mode it replaces.
original_of_last_switch == screen[capture_target]

original_mode ==
    IF display_mode_state = NoSwitch THEN screen[capture_target]
                                     ELSE display_mode_state.original

\* on_display_set_mode.  Without the grant, for an unknown mode or one the
\* platform refuses, nothing happens.
DisplaySetMode(p, mode) ==
    /\ p \in connected
    /\ Active(sessions[p]) /\ "display_mode" \in sessions[p].grants
    /\ display_mode_generation < MaxSwitches
    /\ screen' = [screen EXCEPT ![capture_target] = mode]
    /\ display_mode_generation' = display_mode_generation + 1
    /\ display_mode_state' = [owner |-> p, original |-> original_mode,
                              generation |-> display_mode_generation + 1]
    /\ confirms' = confirms \cup {display_mode_generation + 1}
    /\ UNCHANGED <<managerVars, connectionVars, channelVars, shellVars, tunnelVars,
                   capture_target, unrestored, strayed, rebootVars>>

should_auto_revert_display_mode(generation, healthy) ==
    /\ display_mode_state # NoSwitch
    /\ display_mode_state.generation = generation
    /\ ~healthy

\* on_display_mode_confirm_timeout; healthy is what capture answers.
DisplayModeConfirmTimeout(generation, healthy, works) ==
    /\ generation \in confirms
    /\ IF should_auto_revert_display_mode(generation, healthy)
         THEN RestoreDisplayMode(works)
         ELSE UNCHANGED <<display_mode_state, capture_target, screen, unrestored,
                          strayed>>
    /\ confirms' = confirms \ {generation}
    /\ UNCHANGED <<managerVars, connectionVars, channelVars, shellVars, tunnelVars,
                   display_mode_generation, rebootVars>>

-----------------------------------------------------------------------------
(* The reboot countdown.                                                   *)

\* on_reboot_request; one that is counting down is not restarted.
RebootRequest(p) ==
    /\ p \in connected
    /\ reboot_allows(sessions[p])
    /\ pending_reboot = NoReboot
    /\ reboot_generation < MaxReboots
    /\ reboot_generation' = reboot_generation + 1
    /\ pending_reboot' = [peer |-> p, generation |-> reboot_generation + 1, age |-> 0]
    /\ countdowns' = [countdowns EXCEPT ![reboot_generation + 1] = 0]
    /\ UNCHANGED <<managerVars, connectionVars, channelVars, shellVars, tunnelVars,
                   displayVars, machine>>

\* on_reboot_cancel.
CancelReboot ==
    /\ pending_reboot' = NoReboot
    /\ reboot_generation' = reboot_generation + 1
    /\ UNCHANGED <<countdowns, machine>>

\* The person at the host stops it.
RebootCancel ==
    /\ pending_reboot # NoReboot
    /\ CancelReboot
    /\ UNCHANGED <<managerVars, connectionVars, channelVars, shellVars, tunnelVars,
                   displayVars>>

\* Slip: a leftover countdown closes the window in force.
window_closed_by_any(generation) == pending_reboot # NoReboot

window_closed_by(generation) ==
    pending_reboot # NoReboot /\ pending_reboot.generation = generation

\* on_reboot_countdown_elapsed: the grant is read again, and the machine is
\* told to go down.
RebootCountdownElapsed(generation) ==
    /\ countdowns[generation] = REBOOT_WARNING
    /\ countdowns' = [countdowns EXCEPT ![generation] = None]
    /\ IF window_closed_by(generation)
         THEN /\ pending_reboot' = NoReboot
              /\ machine' = IF reboot_allows(sessions[pending_reboot.peer])
                              THEN "going" ELSE machine
         ELSE UNCHANGED <<pending_reboot, machine>>
    /\ UNCHANGED <<managerVars, connectionVars, channelVars, shellVars, tunnelVars,
                   displayVars, reboot_generation>>

\* The command returned an error and on_reboot_attempted records it, or the
\* machine went down with this process.
RebootAttempted(failed) ==
    /\ machine = "going"
    /\ machine' = IF failed THEN "up" ELSE "down"
    /\ UNCHANGED <<managerVars, connectionVars, channelVars, shellVars, tunnelVars,
                   displayVars, pending_reboot, reboot_generation, countdowns>>

-----------------------------------------------------------------------------
(* Sessions and connections: what each of their handlers does to services. *)

OnGrant(p, role, kind) ==
    /\ p \in connected
    /\ may_grant(sessions, p, role, kind)
    /\ Manager(grant_as(sessions, p, role, kind))
    /\ UNCHANGED serviceVars

\* on_revoke ends the session, its media and its transfers; shells, forwarded
\* connections, the monitor and the countdown are left as they are.
OnRevoke(p) ==
    /\ p \in connected
    /\ Manager(revoke(sessions, p))
    /\ UNCHANGED serviceVars

\* Slip: the sockets stay open when `tunnel` is switched off.
torn_down_keeping_tunnel(which, allowed) ==
    IF allowed \/ which = "tunnel" THEN {} ELSE {which}

\* Slip: the countdown stays up when `reboot` is switched off.
torn_down_keeping_reboot(which, allowed) ==
    IF allowed \/ which = "reboot" THEN {} ELSE {which}

\* Switching a grant off ends what it paid for.
torn_down(which, allowed) == IF allowed THEN {} ELSE {which}

\* on_set_grant.
OnSetGrant(p, which, allowed, works) ==
    LET off == torn_down(which, allowed) IN
    /\ p \in connected /\ Active(sessions[p])
    /\ Manager(set_grant(sessions, p, which, allowed))
    /\ ClosedChannels(off \cap Alpns, p)
    /\ IF "tunnel" \in off THEN CloseStreams(p) ELSE UNCHANGED tunnelVars
    /\ IF "terminal" \in off THEN EndShells(shells_of(p)) ELSE UNCHANGED shellVars
    /\ IF "display_mode" \in off /\ display_mode_state.owner = p
         THEN RestoreDisplayMode(works) /\ UNCHANGED <<confirms, display_mode_generation>>
         ELSE UNCHANGED displayVars
    /\ IF "reboot" \in off /\ pending_reboot.peer = p
         THEN CancelReboot ELSE UNCHANGED rebootVars
    /\ UNCHANGED connectionVars

\* Slip: the monitor keeps its mode when its owner's connection ends.
owns_nothing(p) == FALSE

owns_display(p) == display_mode_state.owner = p

\* Slip: shells are left to their process.
killed_with_none(p) == {}

\* The shells close_terminal kills.
killed_with(p) == shells_of(p)

\* What on_closed does to services.
Teardown(p, works) ==
    /\ ClosedChannels(Alpns, p)
    /\ CloseStreams(p)
    /\ EndShells(killed_with(p))
    /\ IF owns_display(p)
         THEN RestoreDisplayMode(works) /\ UNCHANGED <<confirms, display_mode_generation>>
         ELSE UNCHANGED displayVars
    /\ UNCHANGED rebootVars

\* on_closed of the connection in force: everything that lived on it goes, and
\* the session is ended, when the guest left on purpose, or waits to be
\* resumed.
Closed(p, left, works) ==
    /\ p \in connected
    /\ connected' = connected \ {p}
    /\ Manager(IF Active(sessions[p]) /\ ~left THEN on_disconnect(sessions, p)
                                               ELSE revoke(sessions, p))
    /\ Teardown(p, works)
    /\ UNCHANGED replaced

\* on_closed of a connection that a newer one has replaced: ignored while the
\* newer one is there, and one more teardown when that is gone too.
ReplacedClosed(p, works) ==
    /\ p \in replaced
    /\ replaced' = replaced \ {p}
    /\ IF p \in connected
         THEN UNCHANGED <<managerVars, channelVars, shellVars, tunnelVars,
                          displayVars, rebootVars>>
         ELSE /\ Manager(IF Exists(sessions[p]) THEN on_disconnect(sessions, p)
                                               ELSE revoke(sessions, p))
              /\ Teardown(p, works)
    /\ UNCHANGED connected

\* A guest comes without a claim: what was waiting to be resumed is over.  If
\* it is admitted, its connection takes the place of the one it may have, and
\* what runs for the peer goes on.
\* Bound: one replaced connection of a peer at a time.
Handshaked(p, admitted) ==
    /\ ~(admitted /\ p \in connected \cap replaced)
    /\ Manager(IF Active(sessions[p]) THEN sessions ELSE revoke(sessions, p))
    /\ connected' = IF admitted THEN connected \cup {p} ELSE connected
    /\ replaced' = IF admitted THEN replaced \cup (connected \cap {p}) ELSE replaced
    /\ UNCHANGED <<channelVars, shellVars, tunnelVars, displayVars, rebootVars>>

\* A guest comes back with a claim on the session that waits for it.  It is
\* turned away when the window is over.
ResumeClaimed(p) ==
    /\ sessions[p].state = "Reconnecting"
    /\ Manager(on_reconnect(sessions, p))
    /\ connected' = IF within_window(sessions[p]) THEN connected \cup {p} ELSE connected
    /\ UNCHANGED <<replaced, channelVars, shellVars, tunnelVars, displayVars, rebootVars>>

\* A guest comes back with a claim on the connection this host still holds:
\* release_connection_claimed_by lets go of that, and an active session, which
\* is parked by it, resumes at once.
LiveClaimed(p, works) ==
    /\ p \in connected
    /\ connected' = IF Active(sessions[p]) THEN connected ELSE connected \ {p}
    /\ Manager(IF Active(sessions[p]) THEN sessions ELSE revoke(sessions, p))
    /\ Teardown(p, works)
    /\ UNCHANGED replaced

\* The timer of a parked session; HostActor has when it fires.
ResumeWindowElapsed(p) ==
    /\ sessions[p].state = "Reconnecting"
    /\ Manager(revoke(sessions, p))
    /\ UNCHANGED serviceVars

Older(age) == IF age \in 0..(REBOOT_WARNING - 1) THEN age + 1 ELSE age

ServicesTick ==
    /\ Manager(AgeSessions(sessions))
    /\ pending_reboot' = [pending_reboot EXCEPT !.age =
                             IF pending_reboot = NoReboot THEN @ ELSE Older(@)]
    /\ countdowns' = [g \in DOMAIN countdowns |-> Older(countdowns[g])]
    /\ UNCHANGED <<connectionVars, channelVars, shellVars, tunnelVars, displayVars,
                   reboot_generation, machine>>

ServicesInit ==
    /\ Init
    /\ connected = {} /\ replaced = {}
    /\ links = << >> /\ channel = [p \in Peers |-> [a \in Alpns |-> 0]]
    /\ shell_peer = << >> /\ shells = {} /\ exiting = {}
    /\ sockets = << >> /\ tunnel_streams = [p \in Peers |-> [id \in StreamIds |-> None]]
    /\ connecting = {} /\ awaiting = {} /\ writing = {} /\ reading = {}
    /\ display_mode_state = NoSwitch /\ capture_target \in Monitors
    /\ screen = NativeMode /\ unrestored = FALSE /\ strayed = FALSE
    /\ confirms = {} /\ display_mode_generation = 0
    /\ pending_reboot = NoReboot /\ reboot_generation = 0 /\ machine = "up"
    /\ countdowns = [g \in 1..MaxReboots |-> None]

ShellNext ==
    \/ \E p \in Peers : TerminalOpenRequest(p)
    \/ \E id \in ShellIds : ShellEnded(id) \/ TerminalClose(id)

TunnelNext ==
    \/ \E p \in Peers, target \in TunnelTargets :
           \/ \E id \in StreamIds : TunnelOpenRequest(p, id, target)
           \/ \E allowed \in BOOLEAN : TunnelSetTarget(p, target, allowed)
    \/ \E k \in SocketIds :
           \/ \E reached \in BOOLEAN : TargetConnected(k, reached)
           \/ ReadEnded(k)
           \/ StreamIdle(k)
    \/ \E p \in Peers, id \in StreamIds : TunnelClose(p, id)
    \/ \E c \in LinkIds, id \in StreamIds : CloseFrame(c, id)
    \/ \E p \in Peers : TunnelCloseAll(p)

ChannelNext ==
    \/ \E alpn \in Alpns, p \in Peers : ChannelConnected(alpn, p)
    \/ \E c \in LinkIds : ChannelLost(c) \/ ConnectFailed(c)

DisplayNext ==
    \/ \E p \in Peers, mode \in Modes : DisplaySetMode(p, mode)
    \/ \E p \in Peers, monitor \in Monitors : MonitorSelect(p, monitor)
    \/ \E g \in 1..MaxSwitches, healthy, works \in BOOLEAN :
           DisplayModeConfirmTimeout(g, healthy, works)

RebootNext ==
    \/ \E p \in Peers : RebootRequest(p)
    \/ RebootCancel
    \/ \E g \in 1..MaxReboots : RebootCountdownElapsed(g)
    \/ \E failed \in BOOLEAN : RebootAttempted(failed)

SessionNext ==
    \E p \in Peers :
        \/ \E role \in GrantRoles, kind \in SessionKinds : OnGrant(p, role, kind)
        \/ OnRevoke(p)
        \/ \E which \in Toggles, allowed, works \in BOOLEAN :
               OnSetGrant(p, which, allowed, works)
        \/ \E left, works \in BOOLEAN : Closed(p, left, works)
        \/ \E works \in BOOLEAN : ReplacedClosed(p, works) \/ LiveClaimed(p, works)
        \/ \E admitted \in BOOLEAN : Handshaked(p, admitted)
        \/ ResumeClaimed(p) \/ ResumeWindowElapsed(p)

ServicesNext ==
    /\ machine # "down"
    /\ \/ ShellNext \/ TunnelNext \/ ChannelNext \/ DisplayNext \/ RebootNext
       \/ SessionNext \/ ServicesTick

ServicesSpec == ServicesInit /\ [][ServicesNext]_vars

-----------------------------------------------------------------------------
(* Properties.                                                             *)

\* A socket is carrying bytes for its guest: to the target, or from it over a
\* link that is there.  What is queued for a socket already is not counted.
carrying(p) ==
    {k \in sockets_of(p) :
        \/ k \in writing
        \/ k \in reading /\ links[sockets[k].via].state \in {"up", "replaced"}}

\* Carrying sockets of p that no close of its tunnel would reach: a newer
\* tunnel connection took the place of theirs.
left_to_replaced(p) == {k \in carrying(p) : links[sockets[k].via].state = "replaced"}

\* The services name shells, sockets, links and generations that exist.
ServicesTypeOK ==
    /\ TypeOK
    /\ connected \subseteq Peers /\ replaced \subseteq Peers
    /\ links \in Seq([peer : Peers, alpn : Alpns,
                      state : {"up", "replaced", "ended", "reported"}])
    /\ channel \in [Peers -> [Alpns -> 0..Len(links)]]
    /\ shell_peer \in Seq(Peers) /\ shells \cup exiting \subseteq ShellIds
    /\ sockets \in Seq([peer : Peers, id : StreamIds, target : TunnelTargets,
                        via : 0..Len(links)])
    /\ tunnel_streams \in [Peers -> [StreamIds -> TunnelTargets \cup {None}]]
    /\ UNION {connecting, awaiting, writing, reading} \subseteq SocketIds
    /\ display_mode_state \in [owner : Peers \cup {None}, original : Modes \cup {None},
                               generation : 0..MaxSwitches]
    /\ capture_target \in Monitors /\ screen \in [Monitors -> Modes]
    /\ unrestored \in BOOLEAN /\ strayed \in BOOLEAN
    /\ confirms \subseteq 1..MaxSwitches
    /\ pending_reboot \in [peer : Peers \cup {None}, generation : 0..MaxReboots,
                           age : 0..REBOOT_WARNING]
    /\ countdowns \in [1..MaxReboots -> None..REBOOT_WARNING]
    /\ machine \in {"up", "going", "down"}

\* Nothing a guest started goes on once it has no control connection: no
\* shell, no listed stream, no socket held for a channel, no channel and no
\* switched monitor, although connects, channel ends, shell exits and the end
\* of a replaced control connection are reported late, to a session that was
\* resumed in between; and no socket carries its bytes, but for those of a
\* tunnel connection that a newer one replaced, which close_tunnel does not
\* know (on_closed: "a process left running on somebody's machine after the
\* session that asked for it is gone is the failure ADR 0079 exists to
\* prevent").  A socket whose target is silent stays open, carrying nothing.
NothingOutlivesTheConnection ==
    \A p \in Peers \ connected :
        /\ shells_of(p) = {}
        /\ listed(p) = {}
        /\ sockets_of(p) \cap awaiting = {}
        /\ carrying(p) = left_to_replaced(p)
        /\ \A a \in Alpns : channel[p][a] = 0
        /\ display_mode_state.owner # p

\* A guest never has more shells or listed streams than its session may,
\* counting the connects still under way and whatever ids it uses
\* (on_tunnel_open_request: "a guest that can open one socket on somebody's
\* network can open a thousand").  And a socket that the host can still write
\* to over the tunnel in force, or holds for one to come, is in that list
\* under its id, so that ending a stream reaches it wherever it is waiting
\* (end_tunnel_stream), unless its id was asked for a second time: the list
\* counts ids, and a request or an answer under an id in use takes its entry.
ServicesBounded ==
    /\ ServicesTypeOK
    /\ \A p \in Peers :
          /\ Cardinality(shells_of(p)) <= MAX_TERMINALS_PER_SESSION
          /\ Cardinality(listed(p)) <= MAX_TUNNEL_STREAMS_PER_SESSION
          /\ \A k \in sockets_of(p) \cap (awaiting \cup writing) :
                 \/ sockets[k].id \in listed(p)
                 \/ sockets[k].via \notin {0, channel[p]["tunnel"]}
                 \/ under(p, {sockets[k].id}) # {k}

\* A socket starts to carry bytes, or to wait for the channel that will, only
\* while the session has the grant and the address its id is listed under,
\* however long the connect took; and that is the socket's own address unless
\* its id was asked for again since (on_tunnel_target_connected: "a grant
\* withdrawn while it was happening must not be honoured by the socket it
\* produced").
SocketsOpenUnderTheGrant ==
    [][\A k \in (awaiting \cup writing)' \ (awaiting \cup writing) :
          LET s == sockets[k]
              address == tunnel_streams'[s.peer][s.id]
          IN  /\ tunnel_allows(sessions'[s.peer], address)
              /\ \/ address = s.target
                 \/ \E j \in under(s.peer, {s.id}) : j > k]_vars

\* Switching a grant off ends at once what it paid for: the shells, the
\* streams, their channel and the bytes over it, the switched monitor, the
\* countdown (on_set_grant: "must not be able to appear and quietly keep
\* running").  The bytes over a tunnel connection that was replaced before go
\* on, as that is in no table of the host.
SwitchedOffStopsNow ==
    [][\A p \in Peers, g \in Toggles :
          /\ g \in sessions[p].grants \ sessions'[p].grants
          /\ \E works \in BOOLEAN : OnSetGrant(p, g, FALSE, works)
          => /\ g = "terminal" => shells_of(p)' = {}
             /\ g = "tunnel" =>
                    /\ listed(p)' = {}
                    /\ (sockets_of(p) \cap awaiting)' = {}
                    /\ carrying(p)' \subseteq left_to_replaced(p)
                    /\ channel'[p]["tunnel"] = 0
             /\ g = "display_mode" => display_mode_state'.owner # p
             /\ g = "reboot" => pending_reboot'.peer # p]_vars

\* A switched monitor can always be put back: while a switch stands the mode
\* it would restore is the one the person at the host chose for the monitor
\* that was switched, through takeovers by another guest and repeated switches,
\* and with none every monitor shows that mode (on_display_set_mode: "a switch
\* with no way back must not happen at all").  Two things undo it for good: a
\* restore the platform refused, and a guest that points capture at another
\* monitor while a switch stands, since the restore follows the capture.
DisplayReversible ==
    unrestored \/ strayed \/
        /\ \A m \in Monitors :
              screen[m] = NativeMode[m] \/ (m = capture_target /\ display_mode_state # NoSwitch)
        /\ display_mode_state # NoSwitch =>
              display_mode_state.original = NativeMode[capture_target]

\* The machine never goes down before the window in force has been on the
\* host's screen for the whole of REBOOT_WARNING_SECS, whatever was cancelled
\* and asked for again before (on_reboot_cancel: "the timer already armed
\* still fires, finds a generation that no longer matches").
WarnedInFull ==
    [][machine # "going" /\ machine' = "going" =>
          pending_reboot.age = REBOOT_WARNING]_vars

-----------------------------------------------------------------------------
(* What a comment of the code says of it, and the code does not do.        *)

\* A revoke ends the shells and the forwarded connections of the guest
\* (close_terminal and close_tunnel: "What a revoke runs").
RevokedRunsNothing ==
    \A p \in Peers : ~Exists(sessions[p]) =>
        /\ shells_of(p) = {}
        /\ listed(p) = {}
=============================================================================
