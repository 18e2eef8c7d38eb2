--------------------------- MODULE SessionManager ---------------------------
(***************************************************************************)
(* The sole authorization point of a host: `SessionManager` of             *)
(* crates/core/src/session.rs.  Each public method is first an operator on *)
(* values, so that the host actor can make several calls in one handler,   *)
(* and then an action of this module.                                      *)
(*                                                                         *)
(* A peer without an entry in the code's `sessions` map has NoSession,     *)
(* whose state is Idle, as `state()` reports it.  `disconnected_at` is the *)
(* age of the disconnection, or None.                                      *)
(***************************************************************************)
EXTENDS Consent

CONSTANTS
    Plans,                              \* plans the license layer may set
    MAX_CONCURRENT_GUESTS_FREE,
    MAX_CONCURRENT_GUESTS_TRIAL,
    MAX_CONCURRENT_GUESTS_PRO,
    MAX_CONCURRENT_GUESTS_TEAM,
    MAX_TERMINAL_SESSIONS,
    MAX_TUNNEL_TARGETS_PER_SESSION,
    RECONNECT_WINDOW,                   \* RECONNECT_WINDOW_SECS, in ticks
    ControlActions,                     \* actions a control policy can name
    TunnelTargets,                      \* addresses a host can name
    Toggles                             \* switches the host may move

ASSUME ManagerAssumption ==
    /\ Plans \subseteq {"Free", "Trial", "Pro", "Team"}
    /\ "Free" \in Plans
    /\ MAX_CONCURRENT_GUESTS_FREE \in Nat
    /\ MAX_CONCURRENT_GUESTS_TRIAL \in Nat
    /\ MAX_CONCURRENT_GUESTS_PRO \in Nat
    /\ MAX_CONCURRENT_GUESTS_TEAM \in Nat
    /\ MAX_TERMINAL_SESSIONS \in Nat
    /\ MAX_TUNNEL_TARGETS_PER_SESSION \in Nat
    /\ RECONNECT_WINDOW \in Nat
    /\ Toggles \subseteq IndependentGrants

VARIABLES
    plan,      \* Plan in force
    policy,    \* what ControlPolicy::allowed_for answers for each peer
    queue,     \* ConsentQueue
    hits,      \* ConsentRateLimiter
    sessions   \* ActiveSession of each peer, or NoSession

managerVars == <<plan, policy, queue, hits, sessions>>

None == -1

Session == [role : Roles, kind : SessionKinds, grants : SUBSET Grants,
            allowed_actions : SUBSET ControlActions,
            allowed_targets : SUBSET TunnelTargets,
            state : {"Idle", "Active", "Reconnecting"},
            disconnected_at : None..(RECONNECT_WINDOW + 1)]

NoSession == [role |-> "ViewOnly", kind |-> "Screen", grants |-> {},
              allowed_actions |-> {}, allowed_targets |-> {},
              state |-> "Idle", disconnected_at |-> None]

Exists(s) == s.state # "Idle"

Active(s) == s.state = "Active"

-----------------------------------------------------------------------------
(* Queries.                                                                *)

max_concurrent_guests(pl) ==
    CASE pl = "Free"  -> MAX_CONCURRENT_GUESTS_FREE
      [] pl = "Trial" -> MAX_CONCURRENT_GUESTS_TRIAL
      [] pl = "Pro"   -> MAX_CONCURRENT_GUESTS_PRO
      [] pl = "Team"  -> MAX_CONCURRENT_GUESTS_TEAM

IsController(s) == Exists(s) /\ s.kind = "Screen" /\ is_controller(s.role)

\* `controller()` returns one of these; SingleController says there is at
\* most one, whatever order the map is walked in.
controllers(ss) == {p \in Peers : IsController(ss[p])}

OfKind(ss, kind) == {p \in Peers : Exists(ss[p]) /\ ss[p].kind = kind}

authorize_input(s, action) ==
    /\ Active(s)
    /\ \/ s.role = "FullControl" /\ "input" \in s.grants
       \/ s.role = "ControlLimited" /\ action \in s.allowed_actions

someone_may_inject(ss) ==
    \E p \in Peers :
        /\ Active(ss[p])
        /\ \/ ss[p].role = "FullControl" /\ "input" \in ss[p].grants
           \/ ss[p].role = "ControlLimited" /\ ss[p].allowed_actions # {}

tunnel_allows(s, target) ==
    Active(s) /\ "tunnel" \in s.grants /\ target \in s.allowed_targets

terminal_allows(s) == Active(s) /\ "terminal" \in s.grants

reboot_allows(s) == Active(s) /\ "reboot" \in s.grants

-----------------------------------------------------------------------------
(* Methods, as operators on values.                                        *)

limit_of(kind) ==
    IF kind = "Screen" THEN max_concurrent_guests(plan)
                       ELSE MAX_TERMINAL_SESSIONS

\* Slip: the controller check of grant_as is missing.
may_grant_any_controller(ss, peer, role, kind) ==
    \/ Exists(ss[peer]) /\ ss[peer].kind = kind
    \/ Cardinality(OfKind(ss, kind) \ {peer}) < limit_of(kind)

\* Slip: one guest too many.
may_grant_off_by_one(ss, peer, role, kind) ==
    /\ \/ Exists(ss[peer]) /\ ss[peer].kind = kind
       \/ Cardinality(OfKind(ss, kind) \ {peer}) <= limit_of(kind)
    /\ kind = "Screen" /\ is_controller(role) =>
           controllers(ss) \subseteq {peer}

\* grant_as up to its first write.
may_grant(ss, peer, role, kind) ==
    LET already_active == Exists(ss[peer]) /\ ss[peer].kind = kind
        others == Cardinality(OfKind(ss, kind) \ {peer})
    IN  /\ already_active \/ others < limit_of(kind)
        /\ kind = "Screen" /\ is_controller(role) =>
               controllers(ss) \subseteq {peer}

\* Slip: a terminal session is given its role's own grants.
granted_ignoring_kind(ss, peer, role, kind) ==
    [role |-> role, kind |-> kind, grants |-> from_role(role),
     allowed_actions |-> IF role = "ControlLimited" /\ kind = "Screen"
                           THEN policy[peer] ELSE {},
     allowed_targets |-> ss[peer].allowed_targets,
     state |-> "Active", disconnected_at |-> None]

\* The session grant_as inserts; NoSession has no targets to keep.
granted(ss, peer, role, kind) ==
    [role |-> role,
     kind |-> kind,
     grants |-> IF kind = "Screen" THEN from_role(role) ELSE for_terminal(role),
     allowed_actions |-> IF role = "ControlLimited" /\ kind = "Screen"
                           THEN policy[peer] ELSE {},
     allowed_targets |-> ss[peer].allowed_targets,
     state |-> "Active",
     disconnected_at |-> None]

grant_as(ss, peer, role, kind) ==
    [ss EXCEPT ![peer] = granted(ss, peer, role, kind)]

revoke(ss, peer) == [ss EXCEPT ![peer] = NoSession]

set_grant(ss, peer, which, allowed) ==
    [ss EXCEPT ![peer].grants = set(@, which, allowed)]

\* Slip: any disconnected session may resume.
ever_disconnected(s) == s.disconnected_at # None

within_window(s) ==
    s.disconnected_at # None /\ s.disconnected_at <= RECONNECT_WINDOW

\* Slip: the resumed session starts again from its role's grants.
on_reconnect_from_role(ss, peer) ==
    IF Exists(ss[peer]) /\ within_window(ss[peer])
      THEN [ss EXCEPT ![peer].state = "Active", ![peer].disconnected_at = None,
                      ![peer].grants = @ \cup from_role(ss[peer].role)]
      ELSE [ss EXCEPT ![peer] = NoSession]

\* A session that may not resume is removed, not left for its timer.
on_reconnect(ss, peer) ==
    IF Exists(ss[peer]) /\ within_window(ss[peer])
      THEN [ss EXCEPT ![peer].state = "Active", ![peer].disconnected_at = None]
      ELSE [ss EXCEPT ![peer] = NoSession]

on_disconnect(ss, peer) ==
    [ss EXCEPT ![peer].state = "Reconnecting", ![peer].disconnected_at = 0]

AgeSessions(ss) ==
    [p \in Peers |->
        IF ss[p].disconnected_at \in 0..RECONNECT_WINDOW
          THEN [ss[p] EXCEPT !.disconnected_at = @ + 1] ELSE ss[p]]

-----------------------------------------------------------------------------
(* One action per method.  A call that returns an error changes nothing    *)
(* unless the action says so.                                              *)

Init ==
    /\ plan = "Free"
    /\ policy = [p \in Peers |-> {}]
    /\ queue = << >>
    /\ hits = [p \in Peers |-> << >>]
    /\ sessions = [p \in Peers |-> NoSession]

SetPlan(pl) ==
    /\ plan' = pl
    /\ UNCHANGED <<policy, queue, hits, sessions>>

\* Slip: running sessions follow the new policy.
SetControlPolicyLive(pol) ==
    /\ policy' = pol
    /\ sessions' = [p \in Peers |->
                       IF IsController(sessions[p])
                         THEN [sessions[p] EXCEPT !.allowed_actions = pol[p]]
                         ELSE sessions[p]]
    /\ UNCHANGED <<plan, queue, hits>>

SetControlPolicy(pol) ==
    /\ policy' = pol
    /\ UNCHANGED <<plan, queue, hits, sessions>>

\* The hit is recorded before the queue is asked, and stays when it is full.
RequestConsentFor(peer, role, kind) ==
    /\ hits' = [hits EXCEPT ![peer] = check_at(@)]
    /\ queue' = IF rate_limited(hits[peer]) \/ queue_full(queue) THEN queue
                ELSE push_as(queue, peer, role, kind)
    /\ UNCHANGED <<plan, policy, sessions>>

ForgetConsentRate(peer) ==
    /\ hits' = [hits EXCEPT ![peer] = << >>]
    /\ UNCHANGED <<plan, policy, queue, sessions>>

GrantAs(peer, role, kind) ==
    /\ may_grant(sessions, peer, role, kind)
    /\ queue' = remove(queue, peer)
    /\ sessions' = grant_as(sessions, peer, role, kind)
    /\ UNCHANGED <<plan, policy, hits>>

Revoke(peer) ==
    /\ sessions' = revoke(sessions, peer)
    /\ queue' = remove(queue, peer)
    /\ UNCHANGED <<plan, policy, hits>>

SetGrant(peer, which, allowed) ==
    /\ Active(sessions[peer])
    /\ sessions' = set_grant(sessions, peer, which, allowed)
    /\ UNCHANGED <<plan, policy, queue, hits>>

OnDisconnect(peer) ==
    /\ Exists(sessions[peer])
    /\ sessions' = on_disconnect(sessions, peer)
    /\ UNCHANGED <<plan, policy, queue, hits>>

OnReconnect(peer) ==
    /\ sessions' = on_reconnect(sessions, peer)
    /\ UNCHANGED <<plan, policy, queue, hits>>

AllowTunnelTarget(peer, target) ==
    /\ Active(sessions[peer])
    /\ \/ target \in sessions[peer].allowed_targets
       \/ Cardinality(sessions[peer].allowed_targets)
              < MAX_TUNNEL_TARGETS_PER_SESSION
    /\ sessions' = [sessions EXCEPT ![peer].allowed_targets = @ \cup {target}]
    /\ UNCHANGED <<plan, policy, queue, hits>>

DenyTunnelTarget(peer, target) ==
    /\ sessions' = [sessions EXCEPT ![peer].allowed_targets = @ \ {target}]
    /\ UNCHANGED <<plan, policy, queue, hits>>

EndAll ==
    /\ queue' = << >>
    /\ sessions' = [p \in Peers |-> NoSession]
    /\ UNCHANGED <<plan, policy, hits>>

\* One tick of the monotonic clock.
Tick ==
    /\ hits' = [p \in Peers |-> AgeHits(hits[p])]
    /\ sessions' = AgeSessions(sessions)
    /\ UNCHANGED <<plan, policy, queue>>

PeerNext(p) ==
    \/ \E role \in Roles, kind \in SessionKinds :
           RequestConsentFor(p, role, kind) \/ GrantAs(p, role, kind)
    \/ ForgetConsentRate(p)
    \/ Revoke(p)
    \/ \E which \in Toggles, allowed \in BOOLEAN : SetGrant(p, which, allowed)
    \/ OnDisconnect(p)
    \/ OnReconnect(p)
    \/ \E target \in TunnelTargets :
           AllowTunnelTarget(p, target) \/ DenyTunnelTarget(p, target)

Next ==
    \/ \E pl \in Plans : SetPlan(pl)
    \/ \E pol \in [Peers -> SUBSET ControlActions] : SetControlPolicy(pol)
    \/ \E p \in Peers : PeerNext(p)
    \/ EndAll
    \/ Tick

Spec == Init /\ [][Next]_managerVars

-----------------------------------------------------------------------------
(* Properties.                                                             *)

\* The manager's state has its types; a session is Reconnecting exactly while
\* `disconnected_at` is set, and a peer the map does not hold has no residue.
TypeOK ==
    /\ plan \in Plans
    /\ policy \in [Peers -> SUBSET ControlActions]
    /\ queue \in Seq(Ticket)
    /\ hits \in [Peers -> Seq(0..RATE_WINDOW)]
    /\ sessions \in [Peers -> Session]
    /\ \A p \in Peers :
          /\ (sessions[p].state = "Reconnecting")
                 <=> (sessions[p].disconnected_at # None)
          /\ ~Exists(sessions[p]) => sessions[p] = NoSession

\* However grants, re-grants of another kind, revokes and resumes interleave,
\* at most one peer holds a controller role on the screen
\* (grant_as: "the old controller must be revoked first").
SingleController ==
    \A p, q \in Peers :
        IsController(sessions[p]) /\ IsController(sessions[q]) => p = q

\* `view` and `input` follow the role and the kind of the session alone: no
\* sequence of set_grant calls turns a session into one that sees or drives
\* the screen, and a terminal session never holds input in any form.
RoleFixesViewAndInput ==
    \A p \in Peers : LET s == sessions[p] IN
        Exists(s) =>
          /\ ("view" \in s.grants) <=> (s.kind = "Screen")
          /\ ("input" \in s.grants)
                 <=> (s.kind = "Screen" /\ s.role = "FullControl")
          /\ s.allowed_actions # {} =>
                 s.kind = "Screen" /\ s.role = "ControlLimited"

\* Two peers never pass authorize_input at the same time: whoever can inject
\* is the one controller.
OneInjector ==
    \A p, q \in Peers : \A a, b \in ControlActions :
        authorize_input(sessions[p], a) /\ authorize_input(sessions[q], b)
            => p = q

\* The queue never outgrows its bound, and after any mix of pushes and
\* removals in the middle each ticket still carries its own position.
QueueNumbered ==
    /\ Len(queue) <= MAX_PENDING_CONSENTS
    /\ \A i \in 1..Len(queue) : queue[i].queue_position = i - 1

\* A step that adds a screen guest leaves no more of them than the plan in
\* force allows, and one that adds a terminal no more than
\* MAX_TERMINAL_SESSIONS; a plan that shrinks ends nobody's session.
GuestLimit ==
    [][\A kind \in SessionKinds :
          \/ Cardinality(OfKind(sessions', kind)) <= limit_of(kind)
          \/ OfKind(sessions', kind) \subseteq OfKind(sessions, kind)]_managerVars

\* Nothing but the host's own grant, switch or named address widens what a
\* session holds: not a new policy, not a disconnection, not a resume.
OnlyTheHostWidens ==
    [][\A p \in Peers :
          /\ \/ /\ sessions'[p].grants \subseteq sessions[p].grants
                /\ sessions'[p].allowed_actions
                       \subseteq sessions[p].allowed_actions
             \/ \E role \in Roles, kind \in SessionKinds :
                    GrantAs(p, role, kind)
             \/ \E which \in Toggles : SetGrant(p, which, TRUE)
          /\ \/ sessions'[p].allowed_targets \subseteq sessions[p].allowed_targets
             \/ \E target \in TunnelTargets :
                    AllowTunnelTarget(p, target)]_managerVars

\* A session becomes Active only by a grant or by a resume inside the
\* reconnect window.
ResumeInsideWindow ==
    [][\A p \in Peers :
          ~Active(sessions[p]) /\ Active(sessions'[p]) =>
              \/ Exists(sessions[p]) /\ sessions[p].disconnected_at <= RECONNECT_WINDOW
              \/ \E role \in Roles, kind \in SessionKinds :
                     GrantAs(p, role, kind)]_managerVars
=============================================================================
