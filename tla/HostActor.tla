------------------------------ MODULE HostActor ------------------------------
(***************************************************************************)
(* The host side of the actor of crates/runtime/src/network.rs: which      *)
(* connection serves a peer, what becomes of its session when the          *)
(* connection ends, and how the peer comes back to it.                     *)
(*                                                                         *)
(* The actor handles one event at a time, so one event is one action; what *)
(* interleaves is the order in which events reach it.  Each handler is an  *)
(* operator from the actor's state (the record Self, the code's            *)
(* `&mut self`) to the next one, so that a handler that calls another reads *)
(* as it does in the code.                                                 *)
(*                                                                         *)
(* A link is one QUIC connection.  Its number stands both for the          *)
(* `next_connection_id` it is adopted under and for the random session id  *)
(* of its handshake, which is what a resume claim names.  The guests are   *)
(* the environment: they dial, leave, crash and lose the network at any    *)
(* time, and the host learns of it later, if its reader of that link is    *)
(* the one that reports next.                                              *)
(***************************************************************************)
EXTENDS SessionManager

CONSTANTS
    MaxLinks,          \* bound on the number of connections ever dialed
    InviteRoles,       \* roles the invites of this host ask for
    UNATTENDED_ROLE,   \* role the device password admits with
    Attendances,       \* whether somebody can be at the machine
    Credentialed,      \* peers the owner may let try the device password
    TerminalHellos,    \* whether a Hello may ask for a shell only
    Saved              \* peers in the address book

ASSUME HostAssumption ==
    /\ MaxLinks \in Nat
    /\ InviteRoles \subseteq Roles
    /\ UNATTENDED_ROLE \in Roles
    /\ Attendances \subseteq HostAttendance
    /\ TerminalHellos \subseteq BOOLEAN
    /\ Credentialed \subseteq Peers
    /\ Saved \subseteq Peers

Links == 1..MaxLinks

NoLink == 0

VARIABLES
    (* the actor *)
    connections,           \* connections[p]: link that serves p
    readers,               \* adopted links whose reader has not reported Closed
    parked_sessions,       \* parked_sessions[p]: link p's session dropped on
    timers,                \* age of the sleep that ends the window of a drop
    terminal_only_guests,  \* peers whose Hello asked for a shell only
    unattended_pending,    \* peers with an unanswered credential challenge
    trusted,               \* peers that may try the device password
    viewers,               \* CaptureSession::viewers
    media,                 \* peers with an encode loop
    (* the wire and the guests *)
    link_peer,             \* who dialed each link so far
    link_status,           \* what has become of each of them
    hello,                 \* hello[l]: Handshaked event waiting for the actor
    said,                  \* the host's last word about consent on l
    guest_session          \* link of the session p would claim to resume

actorVars == <<connections, readers, parked_sessions, timers,
               terminal_only_guests, unattended_pending, trusted, viewers, media>>
guestVars == <<link_peer, hello, guest_session>>
vars == <<managerVars, actorVars, guestVars, link_status, said>>

\* left: the guest closed it with CLOSE_NORMAL; lost: it ended any other way;
\* shut: this host closed it.
LinkStatus == {"free", "up", "left", "lost", "shut"}

Dialed == 1..Len(link_peer)

NoHello == [claim |-> NoLink, terminal |-> FALSE, waiting |-> FALSE]

Hello == [claim : 0..MaxLinks, terminal : BOOLEAN, waiting : BOOLEAN]

-----------------------------------------------------------------------------
(* The handlers.                                                           *)

Self == [sessions |-> sessions, queue |-> queue, hits |-> hits,
         connections |-> connections, readers |-> readers,
         parked_sessions |-> parked_sessions, timers |-> timers,
         terminal_only_guests |-> terminal_only_guests,
         unattended_pending |-> unattended_pending, viewers |-> viewers,
         media |-> media, link_status |-> link_status, said |-> said]

\* The step that leaves the actor in state s.
Become(s) ==
    /\ sessions' = s.sessions /\ queue' = s.queue /\ hits' = s.hits
    /\ connections' = s.connections /\ readers' = s.readers
    /\ parked_sessions' = s.parked_sessions /\ timers' = s.timers
    /\ terminal_only_guests' = s.terminal_only_guests
    /\ unattended_pending' = s.unattended_pending
    /\ viewers' = s.viewers /\ media' = s.media
    /\ link_status' = s.link_status /\ said' = s.said

\* SessionManager::revoke drops the session and the oldest request.
drop_session(s, p) ==
    [s EXCEPT !.sessions = revoke(@, p), !.queue = remove(@, p)]

adopt(s, p, l) ==
    [s EXCEPT !.connections[p] = l, !.readers = @ \cup {l}]

\* The close this side sees afterwards is its own, unless the guest's
\* CLOSE_NORMAL was there first.
close_link(s, l) ==
    [s EXCEPT !.link_status[l] = IF @ = "left" THEN @ ELSE "shut"]

\* A message queued on the connection that serves p, if there is one.
send_to(s, p, word) ==
    IF s.connections[p] = NoLink THEN s
    ELSE [s EXCEPT !.said[s.connections[p]] = word]

\* Slip: the viewer goes and its encode loop stays.
stop_media_of_viewer_only(s, p) ==
    [s EXCEPT !.viewers = @ \ {p}]

stop_media(s, p) ==
    [s EXCEPT !.media = @ \ {p}, !.viewers = @ \ {p}]

session_kind_asked(s, p) ==
    IF p \in s.terminal_only_guests THEN "Terminal" ELSE "Screen"

\* CaptureController::add_viewer; starts says whether the platform lets the
\* capture start, which the first viewer needs.
add_viewer(s, p, starts) ==
    IF s.viewers # {} \/ starts THEN [s EXCEPT !.viewers = @ \cup {p}] ELSE s

\* The session goes on without a viewer when the capture does not start.
start_granted_session(s, p, starts) ==
    LET t == send_to(s, p, "grant")
    IN  IF "view" \in t.sessions[p].grants THEN add_viewer(t, p, starts) ELSE t

\* Slip: the challenge stays open behind the grant.
grant_role_keeping_challenge(s, p, role, starts) ==
    LET kind == session_kind_asked(s, p)
        granted_ == [s EXCEPT !.sessions = grant_as(@, p, role, kind),
                              !.queue = remove(@, p)]
    IN  IF may_grant(s.sessions, p, role, kind)
          THEN start_granted_session(granted_, p, starts) ELSE s

grant_role(s, p, role, starts) ==
    LET kind == session_kind_asked(s, p)
        granted_ == [s EXCEPT !.sessions = grant_as(@, p, role, kind),
                              !.queue = remove(@, p),
                              !.unattended_pending = @ \ {p}]
    IN  IF may_grant(s.sessions, p, role, kind)
          THEN start_granted_session(granted_, p, starts) ELSE s

\* Slip: nothing ends the window.
park_session_without_timer(s, p, l) ==
    [s EXCEPT !.parked_sessions[p] = l]

park_session(s, p, l) ==
    [s EXCEPT !.parked_sessions[p] = l, !.timers[l] = 0]

\* Slip: every drop is waited for.
end_or_park_without_leave(s, p, l, closed) ==
    LET dropped == [s EXCEPT !.sessions = on_disconnect(@, p),
                             !.hits[p] = << >>]
    IN  CASE ~Exists(s.sessions[p]) -> drop_session(s, p)
          [] Exists(s.sessions[p]) /\ closed -> park_session(dropped, p, l)
          [] OTHER -> dropped

\* Slip: CLOSE_NORMAL counts as leaving from either side.
end_or_park_either_side(s, p, l, closed) ==
    LET dropped == [s EXCEPT !.sessions = on_disconnect(@, p),
                             !.hits[p] = << >>]
    IN  CASE ~Exists(s.sessions[p]) -> drop_session(s, p)
          [] Exists(s.sessions[p]) /\ closed
               /\ s.link_status[l] \in {"left", "shut"} -> drop_session(dropped, p)
          [] Exists(s.sessions[p]) /\ closed
               /\ s.link_status[l] \notin {"left", "shut"} ->
                 park_session(dropped, p, l)
          [] OTHER -> dropped

\* closed says whether l was still the connection that served p.
end_or_park_session(s, p, l, closed) ==
    LET dropped == [s EXCEPT !.sessions = on_disconnect(@, p),
                             !.hits[p] = << >>]
    IN  CASE ~Exists(s.sessions[p]) -> drop_session(s, p)
          [] Exists(s.sessions[p]) /\ closed /\ s.link_status[l] = "left" ->
                 drop_session(dropped, p)
          [] Exists(s.sessions[p]) /\ closed /\ s.link_status[l] # "left" ->
                 park_session(dropped, p, l)
          [] OTHER -> dropped

\* Slip: any generation tears the peer's state down.
on_closed_any_generation(s, p, l) ==
    LET closed == s.connections[p] # NoLink
        torn == stop_media(
                  [s EXCEPT !.connections[p] = NoLink,
                            !.unattended_pending = @ \ {p},
                            !.terminal_only_guests = @ \ {p}], p)
    IN  end_or_park_session(torn, p, l, closed)

\* Slip: a guest that was never granted anything leaves its connection behind.
on_closed_of_sessions_only(s, p, l) ==
    LET closed == s.connections[p] = l
        torn == stop_media(
                  [s EXCEPT !.connections[p] = NoLink,
                            !.unattended_pending = @ \ {p},
                            !.terminal_only_guests = @ \ {p}], p)
    IN  IF Exists(s.sessions[p]) /\ s.connections[p] \in {NoLink, l}
          THEN end_or_park_session(torn, p, l, closed) ELSE s

on_closed(s, p, l) ==
    LET closed == s.connections[p] = l
        torn == stop_media(
                  [s EXCEPT !.connections[p] = NoLink,
                            !.unattended_pending = @ \ {p},
                            !.terminal_only_guests = @ \ {p}], p)
    IN  IF s.connections[p] \in {NoLink, l}
          THEN end_or_park_session(torn, p, l, closed) ELSE s

end_parked_session(s, p) ==
    LET t == [s EXCEPT !.parked_sessions[p] = NoLink]
    IN  IF s.parked_sessions[p] # NoLink /\ s.sessions[p].state = "Reconnecting"
          THEN drop_session(t, p) ELSE t

\* Slip: any tick ends whatever is parked.
on_any_window_elapsed(s, p, l) == end_parked_session(s, p)

on_resume_window_elapsed(s, p, l) ==
    IF s.parked_sessions[p] = l THEN end_parked_session(s, p) ELSE s

release_connection_claimed_by(s, p, claim) ==
    IF claim # NoLink /\ s.connections[p] = claim
      THEN on_closed(close_link(s, claim), p, claim) ELSE s

on_resume_claim(s, p, l, claim, starts) ==
    LET asked == IF s.parked_sessions[p] = claim
                   THEN [s EXCEPT !.sessions = on_reconnect(@, p)] ELSE s
        resumed == /\ s.parked_sessions[p] = claim
                   /\ Exists(s.sessions[p]) /\ within_window(s.sessions[p])
    IN  IF resumed
          THEN start_granted_session(
                 adopt([asked EXCEPT !.parked_sessions[p] = NoLink], p, l), p, starts)
          ELSE close_link(end_parked_session(asked, p), l)

may_try_unattended(p) == p \in trusted

offer_credential_challenge(s, p) ==
    [s EXCEPT !.unattended_pending = @ \cup {p}]

\* The consent request of a fresh connection; a refused one is dropped unless
\* the device may let itself in.
admit(s, p, l, role, admission) ==
    LET kind == session_kind_asked(s, p)
        asks == admission.ask_the_person
        queued == asks /\ ~rate_limited(s.hits[p]) /\ ~queue_full(s.queue)
        t == [s EXCEPT !.hits[p] = IF asks THEN check_at(@) ELSE @,
                       !.queue = IF queued THEN push_as(@, p, role, kind) ELSE @]
    IN  CASE admission.offer_credentials ->
                 offer_credential_challenge(adopt(t, p, l), p)
          [] ~admission.offer_credentials /\ queued -> adopt(t, p, l)
          [] OTHER -> close_link(t, l)

\* Slip: what was waiting in the window stays resumable.
on_handshaked_keeping_parked(s, p, l, ticket_ok, role, attendance) ==
    LET admission == decide(attendance, may_try_unattended(p))
    IN  IF ~ticket_ok \/ refuses(admission)
          THEN close_link(s, l) ELSE admit(s, p, l, role, admission)

on_handshaked(s, p, l, ticket_ok, role, attendance) ==
    LET t == end_parked_session(s, p)
        admission == decide(attendance, may_try_unattended(p))
    IN  IF ~ticket_ok \/ refuses(admission)
          THEN close_link(t, l) ELSE admit(t, p, l, role, admission)

-----------------------------------------------------------------------------
(* Events of the actor.                                                    *)

Handshaked(l, ticket_ok, role, attendance, starts) ==
    LET p == link_peer[l]
        claim == hello[l].claim
        released == release_connection_claimed_by(Self, p, claim)
        known == [released EXCEPT !.terminal_only_guests =
                     IF hello[l].terminal THEN @ \cup {p} ELSE @ \ {p}]
    IN  /\ hello[l].waiting
        /\ hello' = [hello EXCEPT ![l] = NoHello]
        /\ Become(IF claim # NoLink
                    THEN on_resume_claim(known, p, l, claim, starts)
                    ELSE on_handshaked(known, p, l, ticket_ok, role, attendance))
        /\ UNCHANGED <<plan, policy, trusted, link_peer, guest_session>>

\* The reader of l has come to the end of its stream.
Closed(l) ==
    /\ l \in readers
    /\ link_status[l] # "up"
    /\ Become(on_closed([Self EXCEPT !.readers = @ \ {l}], link_peer[l], l))
    /\ UNCHANGED <<plan, policy, trusted, guestVars>>

ResumeWindowElapsed(l) ==
    /\ timers[l] >= RECONNECT_WINDOW
    /\ Become(on_resume_window_elapsed(
                 [Self EXCEPT !.timers[l] = None], link_peer[l], l))
    /\ UNCHANGED <<plan, policy, trusted, guestVars>>

\* rebuild_labels_and_snapshot runs at the end of every handler that changes
\* one of these, so the table is a function of the state.
Labelled ==
    {p \in Peers : contains(queue, p) \/ Active(sessions[p])} \cup Saved

OnGrant(p, role, starts) ==
    /\ p \in Labelled
    /\ Become(grant_role(Self, p, role, starts))
    /\ UNCHANGED <<plan, policy, trusted, guestVars>>

OnRevoke(p) ==
    /\ p \in Labelled
    /\ Exists(sessions[p]) \/ contains(queue, p)
    /\ Become(stop_media(
                send_to([drop_session(Self, p) EXCEPT
                            !.unattended_pending = @ \ {p}], p, "revoke"), p))
    /\ UNCHANGED <<plan, policy, trusted, guestVars>>

\* A credential answer on the connection that serves p, which need not be the
\* one the challenge went out on.  An answer the host may no longer take, or
\* cannot check, ends the exchange; a wrong one may be tried again.
OnUnattendedAnswer(p, verdict, starts) ==
    LET taken == [Self EXCEPT !.unattended_pending = @ \ {p}]
    IN  /\ connections[p] \in readers
        /\ p \in unattended_pending
        /\ Become(CASE ~may_try_unattended(p) \/ verdict = "unavailable" -> taken
                    [] may_try_unattended(p) /\ verdict = "right" ->
                           grant_role(taken, p, UNATTENDED_ROLE, starts)
                    [] OTHER -> Self)
        /\ UNCHANGED <<plan, policy, trusted, guestVars>>

\* on_address_book_set_trusted: challenges already out stay out.
SetTrusted(p) ==
    /\ p \in Credentialed
    /\ trusted' = IF p \in trusted THEN trusted \ {p} ELSE trusted \cup {p}
    /\ Become(Self)
    /\ UNCHANGED <<plan, policy, guestVars>>

\* on_unattended_disable: nobody may try, and nobody is trying any more.
UnattendedDisable ==
    /\ trusted' = {}
    /\ Become([Self EXCEPT !.unattended_pending = {}])
    /\ UNCHANGED <<plan, policy, guestVars>>

\* A media connection of p, which p may open whenever it likes.  A host whose
\* encoder has failed lets go of the old loop and starts none.
OnMediaAccepted(p, faulted) ==
    /\ connections[p] # NoLink /\ Active(sessions[p])
    /\ "view" \in sessions[p].grants
    /\ Become([Self EXCEPT !.media = IF faulted THEN @ \ {p} ELSE @ \cup {p}])
    /\ UNCHANGED <<plan, policy, trusted, guestVars>>

OnMediaFault(p) ==
    /\ p \in media
    /\ Become([Self EXCEPT !.media = @ \ {p}])
    /\ UNCHANGED <<plan, policy, trusted, guestVars>>

HostSetPlan(pl) ==
    /\ plan' = pl
    /\ Become(Self)
    /\ UNCHANGED <<policy, trusted, guestVars>>

HostTick ==
    /\ Become([Self EXCEPT
                 !.sessions = AgeSessions(@),
                 !.hits = [p \in Peers |-> AgeHits(@[p])],
                 !.timers = [l \in Links |->
                     IF @[l] \in 0..(RECONNECT_WINDOW - 1) THEN @[l] + 1 ELSE @[l]]])
    /\ UNCHANGED <<plan, policy, trusted, guestVars>>

-----------------------------------------------------------------------------
(* The guests.                                                             *)

\* The next connection of a guest that has none: a new one, or one that names
\* the session it was in.
GuestDials(p, claim, terminal) ==
    LET l == Len(link_peer) + 1
    IN  /\ l \in Links
        /\ \A k \in Dialed : link_peer[k] = p => link_status[k] # "up"
        /\ claim \in {NoLink, guest_session[p]}
        /\ link_peer' = Append(link_peer, p)
        /\ hello' = [hello EXCEPT ![l] = [claim |-> claim, terminal |-> terminal,
                                          waiting |-> TRUE]]
        /\ guest_session' = [guest_session EXCEPT ![p] = claim]
        /\ Become([Self EXCEPT !.link_status[l] = "up"])
        /\ UNCHANGED <<plan, policy, trusted>>

GuestHearsGrant(l) ==
    /\ link_status[l] = "up" /\ said[l] = "grant"
    /\ guest_session' = [guest_session EXCEPT ![link_peer[l]] = l]
    /\ Become(Self)
    /\ UNCHANGED <<plan, policy, trusted, link_peer, hello>>

\* A guest that is told "no" closes the connection, with CLOSE_MALFORMED.
GuestHearsRevoke(l) ==
    /\ link_status[l] = "up" /\ said[l] = "revoke"
    /\ guest_session' = [guest_session EXCEPT ![link_peer[l]] = NoLink]
    /\ Become([Self EXCEPT !.link_status[l] = "lost"])
    /\ UNCHANGED <<plan, policy, trusted, link_peer, hello>>

GuestLeaves(l) ==
    /\ link_status[l] = "up"
    /\ guest_session' = [guest_session EXCEPT ![link_peer[l]] = NoLink]
    /\ Become([Self EXCEPT !.link_status[l] = "left"])
    /\ UNCHANGED <<plan, policy, trusted, link_peer, hello>>

\* The network drops the link; a guest that crashed has forgotten its session.
LinkLost(l, crashed) ==
    /\ link_status[l] = "up"
    /\ guest_session' = [guest_session EXCEPT ![link_peer[l]] =
                            IF crashed THEN NoLink ELSE @]
    /\ Become([Self EXCEPT !.link_status[l] = "lost"])
    /\ UNCHANGED <<plan, policy, trusted, link_peer, hello>>

-----------------------------------------------------------------------------
HostInit ==
    /\ Init
    /\ connections = [p \in Peers |-> NoLink]
    /\ readers = {}
    /\ parked_sessions = [p \in Peers |-> NoLink]
    /\ timers = [l \in Links |-> None]
    /\ terminal_only_guests = {}
    /\ unattended_pending = {}
    /\ trusted = {}
    /\ viewers = {}
    /\ media = {}
    /\ link_peer = << >>
    /\ link_status = [l \in Links |-> "free"]
    /\ hello = [l \in Links |-> NoHello]
    /\ said = [l \in Links |-> "nothing"]
    /\ guest_session = [p \in Peers |-> NoLink]

GuestNext(l) ==
    \/ GuestHearsGrant(l)
    \/ GuestHearsRevoke(l)
    \/ GuestLeaves(l)
    \/ \E crashed \in BOOLEAN : LinkLost(l, crashed)

LinkNext(l) ==
    \/ \E ticket_ok, starts \in BOOLEAN, role \in InviteRoles, attendance \in Attendances :
           Handshaked(l, ticket_ok, role, attendance, starts)
    \/ Closed(l)
    \/ ResumeWindowElapsed(l)

HostNext(p) ==
    \/ \E role \in InviteRoles, starts \in BOOLEAN : OnGrant(p, role, starts)
    \/ OnRevoke(p)
    \/ \E verdict \in {"right", "wrong", "unavailable"}, starts \in BOOLEAN :
           OnUnattendedAnswer(p, verdict, starts)
    \/ SetTrusted(p)
    \/ \E faulted \in BOOLEAN : OnMediaAccepted(p, faulted)
    \/ OnMediaFault(p)
    \/ \E terminal \in TerminalHellos, claim \in {NoLink, guest_session[p]} :
           GuestDials(p, claim, terminal)

ActorNext ==
    \/ \E l \in Dialed : GuestNext(l) \/ LinkNext(l)
    \/ \E p \in Peers : HostNext(p)
    \/ UnattendedDisable
    \/ \E pl \in Plans : HostSetPlan(pl)
    \/ HostTick

ActorSpec == HostInit /\ [][ActorNext]_vars

\* The actor's loop and the tasks that feed it keep running: events queued
\* for it are handled and the clock moves.  Nothing is assumed of the guests
\* or of the person at the host.
Fairness ==
    /\ WF_vars(HostTick)
    /\ \A l \in Links :
          /\ WF_vars(l \in Dialed /\ Closed(l))
          /\ WF_vars(l \in Dialed /\ ResumeWindowElapsed(l))

FairSpec == ActorSpec /\ Fairness

-----------------------------------------------------------------------------
(* Properties.                                                             *)

\* The actor's maps name peers and links that exist, and the manager it owns
\* keeps its own type invariant.
HostTypeOK ==
    /\ TypeOK
    /\ link_peer \in Seq(Peers) /\ Len(link_peer) <= MaxLinks
    /\ connections \in [Peers -> {NoLink} \cup Dialed]
    /\ readers \subseteq Dialed
    /\ parked_sessions \in [Peers -> {NoLink} \cup Dialed]
    /\ guest_session \in [Peers -> {NoLink} \cup Dialed]
    /\ timers \in [Links -> None..RECONNECT_WINDOW]
    /\ terminal_only_guests \subseteq Peers
    /\ unattended_pending \subseteq Peers
    /\ trusted \subseteq Peers
    /\ viewers \subseteq Peers
    /\ media \subseteq Peers
    /\ link_status \in [Links -> LinkStatus]
    /\ hello \in [Links -> Hello]
    /\ said \in [Links -> {"nothing", "grant", "revoke"}]

\* What is parked is awaited.  Its peer is not here: whichever way a peer comes
\* back, by a claim or by a new request, and however late the end of its old
\* connection is reported, what was parked is taken up or let go before the new
\* connection is served (on_handshaked: "the old one must not be resumable
\* after it").  And its peer did not leave on purpose: nothing is parked under a
\* connection the guest closed with CLOSE_NORMAL, while the same code from this
\* side parks (end_or_park_session, ADR 0112).
ParkedIsAwaited ==
    /\ HostTypeOK
    /\ \A p \in Peers : parked_sessions[p] # NoLink =>
          /\ connections[p] = NoLink
          /\ link_status[parked_sessions[p]] # "left"

\* Both ways in are offered at once and one decision closes the other: while a
\* challenge is pending, the connection that serves its peer has been told
\* neither yes nor no, whatever order the dialog, the password, reconnects and
\* late closes come in (on_handshaked: "nobody is admitted by both").
DecidedOnce ==
    \A p \in unattended_pending :
        connections[p] # NoLink /\ said[connections[p]] = "nothing"

\* The screen is encoded for a peer only over a control connection and under
\* an active session: whatever order a drop, its late report, a revoke, a
\* resume and a new media connection come in, and whether or not the platform
\* let the capture start, no encode loop serves a session that ended or waits
\* to be resumed (on_closed: "both sides of the media pipeline end with the
\* control connection").  The capture itself is not in the claim: a request
\* granted while its peer's session is parked registers a viewer that the
\* refused resume does not take back.
EncodedWhileActive ==
    \A p \in media : connections[p] # NoLink /\ Active(sessions[p])

\* A guest served over a connection that stays up keeps its session: only a
\* decision at the host changes it.  A late Closed of an older connection, a
\* window that ran out for an earlier drop and a refused handshake of the same
\* peer leave it alone (on_closed: "only the current generation may tear the
\* peer's state down").
LiveSessionUndisturbed ==
    [][\A p \in Peers : LET l == connections[p] IN
          /\ l # NoLink /\ Active(sessions[p])
          /\ link_status[l] = "up" /\ link_status'[l] = "up"
          => \/ sessions'[p] = sessions[p]
             \/ said'[l] = "revoke"
             \/ \E starts \in BOOLEAN :
                    \/ \E role \in InviteRoles : OnGrant(p, role, starts)
                    \/ OnUnattendedAnswer(p, "right", starts)]_vars

\* A guest that comes back before the host noticed the drop gets its session
\* back as it was, on the new connection, although letting go of the old one
\* runs the whole teardown first (release_connection_claimed_by).
UnnoticedDropResumes ==
    [][\A l \in Dialed : LET p == link_peer[l] IN
          /\ hello[l].waiting /\ ~hello'[l].waiting
          /\ hello[l].claim # NoLink /\ hello[l].claim = connections[p]
          /\ Active(sessions[p])
          => connections'[p] = l /\ sessions'[p] = sessions[p]]_vars

\* The window of one drop ends that drop's session and no other: what a timer
\* ends was parked under the timer's own connection (on_resume_window_elapsed:
\* "finds a different id and leaves the newer one alone").
WindowEndsItsOwnDrop ==
    [][\A p \in Peers, l \in Dialed :
          /\ ResumeWindowElapsed(l)
          /\ sessions'[p] # sessions[p]
          => parked_sessions[p] = l]_vars

\* Whoever is gone is let go: a parked session is resumed, replaced or ended
\* (park_session arms a timer for every drop), and a connection that ended is
\* replaced by a newer one of its peer or reported by its reader.
GoneIsLetGo ==
    \A p \in Peers, l \in Links :
        /\ parked_sessions[p] = l ~> parked_sessions[p] # l
        /\ connections[p] = l /\ link_status[l] # "up" ~> connections[p] # l
=============================================================================
