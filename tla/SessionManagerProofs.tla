------------------------ MODULE SessionManagerProofs ------------------------
(***************************************************************************)
(* The safety properties of SessionManager, for every set of peers, every  *)
(* plan, every limit and every reconnect window.                           *)
(***************************************************************************)
EXTENDS SessionManagerTypes

-----------------------------------------------------------------------------
(* The shape of a step.  A step leaves the authority of a session as it is *)
(* (switches apart), ends the session, or is the host's grant to its peer. *)

\* p's session keeps its role, its kind and its allowlist; `view` and `input`
\* stay; a switch turns on only by set_grant; it wakes only inside its window.
Kept(p) ==
    LET s == sessions[p]
        t == sessions'[p]
    IN  /\ Exists(t) <=> Exists(s)
        /\ t.role = s.role /\ t.kind = s.kind
        /\ t.allowed_actions = s.allowed_actions
        /\ ("view" \in t.grants) <=> ("view" \in s.grants)
        /\ ("input" \in t.grants) <=> ("input" \in s.grants)
        /\ Active(t) /\ ~Active(s) => Exists(s) /\ within_window(s)
        /\ \/ t.grants \subseteq s.grants
           \/ \E which \in Toggles : SetGrant(p, which, TRUE)
        /\ \/ t.allowed_targets \subseteq s.allowed_targets
           \/ \E target \in TunnelTargets : AllowTunnelTarget(p, target)

GrantedNow(p) == \E role \in Roles, kind \in SessionKinds : GrantAs(p, role, kind)

LEMMA SameIsKept ==
    ASSUME NEW p \in Peers, sessions'[p] = sessions[p]
    PROVE  Kept(p)
BY SMTT(30) DEF Kept

\* Every step of the manager, seen from one session.
LEMMA StepShape ==
    ASSUME TypeOK, [Next]_managerVars, NEW p \in Peers
    PROVE  Kept(p) \/ sessions'[p] = NoSession \/ GrantedNow(p)
<1>a. sessions \in [Peers -> Session] /\ \A q \in Peers : Coherent(sessions[q])
  BY TypeOKIsCoherent
<1>b. sessions[p] \in Session
  BY <1>a
<1>1. CASE sessions' = sessions
  BY <1>1, SameIsKept
<1>2. ASSUME NEW q \in Peers, NEW role \in Roles, NEW kind \in SessionKinds,
             GrantAs(q, role, kind)
      PROVE  Kept(p) \/ GrantedNow(p)
  <2>1. CASE q = p
    BY <1>2, <2>1 DEF GrantedNow
  <2>2. CASE q # p
    BY <1>2, <1>a, <2>2, SameIsKept DEF GrantAs, grant_as
  <2> QED
    BY <2>1, <2>2
<1>3. ASSUME NEW q \in Peers, Revoke(q)
      PROVE  Kept(p) \/ sessions'[p] = NoSession
  BY <1>3, <1>a, SameIsKept DEF Revoke, revoke
<1>4. ASSUME NEW q \in Peers, NEW which \in Toggles, NEW allowed \in BOOLEAN,
             SetGrant(q, which, allowed)
      PROVE  Kept(p)
  <2>1. CASE q # p
    BY SMTT(30), <1>4, <1>a, <2>1, SameIsKept DEF SetGrant, set_grant
  <2>2. CASE q = p
    <3> DEFINE g == set(sessions[p].grants, which, allowed)
    <3>1. sessions'[p] = [sessions[p] EXCEPT !.grants = g]
      BY <1>4, <1>a, <2>2 DEF SetGrant, set_grant
    <3>2. which # "view" /\ which # "input"
      BY ManagerAssumption DEF IndependentGrants
    <3>3. /\ ("view" \in g) <=> ("view" \in sessions[p].grants)
          /\ ("input" \in g) <=> ("input" \in sessions[p].grants)
          /\ ~allowed => g \subseteq sessions[p].grants
      BY <3>2 DEF set
    <3> HIDE DEF g
    <3>4. /\ sessions'[p].grants = g
          /\ sessions'[p].role = sessions[p].role
          /\ sessions'[p].kind = sessions[p].kind
          /\ sessions'[p].state = sessions[p].state
          /\ sessions'[p].allowed_actions = sessions[p].allowed_actions
          /\ sessions'[p].allowed_targets = sessions[p].allowed_targets
      BY <1>b, <3>1 DEF Session
    <3>5. \/ g \subseteq sessions[p].grants
          \/ \E w \in Toggles : SetGrant(p, w, TRUE)
      <4>1. CASE allowed = TRUE
        BY ZenonT(30), <1>4, <2>2, <4>1
      <4>2. CASE allowed = FALSE
        BY ZenonT(30), <3>3, <4>2
      <4> QED
        BY ZenonT(30), <4>1, <4>2
    <3> QED
      BY ZenonT(30), <3>3, <3>4, <3>5 DEF Kept, Exists, Active
  <2> QED
    BY <2>1, <2>2
<1>5. ASSUME NEW q \in Peers, OnDisconnect(q)
      PROVE  Kept(p)
  <2>1. CASE q # p
    BY <1>5, <1>a, <2>1, SameIsKept DEF OnDisconnect, on_disconnect
  <2>2. CASE q = p
    <3>1. sessions'[p] = [sessions[p] EXCEPT !.state = "Reconnecting",
                                             !.disconnected_at = 0]
      BY <1>5, <1>a, <2>2 DEF OnDisconnect, on_disconnect
    <3> QED
      BY ZenonT(30), <1>5, <1>b, <2>2, <3>1 DEF OnDisconnect, Kept, Session, Exists, Active
  <2> QED
    BY <2>1, <2>2
<1>6. ASSUME NEW q \in Peers, OnReconnect(q)
      PROVE  Kept(p) \/ sessions'[p] = NoSession
  <2>1. CASE q # p
    BY <1>6, <1>a, <2>1, SameIsKept DEF OnReconnect, on_reconnect
  <2>2. CASE q = p /\ ~(Exists(sessions[p]) /\ within_window(sessions[p]))
    BY <1>6, <1>a, <2>2 DEF OnReconnect, on_reconnect
  <2>3. CASE q = p /\ Exists(sessions[p]) /\ within_window(sessions[p])
    <3>1. sessions'[p] = [sessions[p] EXCEPT !.state = "Active",
                                             !.disconnected_at = None]
      BY <1>6, <1>a, <2>3 DEF OnReconnect, on_reconnect
    <3> QED
      BY ZenonT(30), <1>b, <2>3, <3>1 DEF Kept, Session, Exists, Active
  <2> QED
    BY <2>1, <2>2, <2>3
<1>7. ASSUME NEW q \in Peers, NEW target \in TunnelTargets,
             AllowTunnelTarget(q, target)
      PROVE  Kept(p)
  <2>1. CASE q # p
    BY <1>7, <1>a, <2>1, SameIsKept DEF AllowTunnelTarget
  <2>2. CASE q = p
    <3>1. sessions'[p] = [sessions[p] EXCEPT
                             !.allowed_targets = sessions[p].allowed_targets
                                                     \cup {target}]
      BY <1>7, <1>a, <2>2 DEF AllowTunnelTarget
    <3>2. \E t \in TunnelTargets : AllowTunnelTarget(p, t)
      BY <1>7, <2>2
    <3> QED
      BY ZenonT(30), <1>b, <3>1, <3>2 DEF Kept, Session, Exists, Active
  <2> QED
    BY <2>1, <2>2
<1>8. ASSUME NEW q \in Peers, NEW target \in TunnelTargets,
             DenyTunnelTarget(q, target)
      PROVE  Kept(p)
  <2>1. CASE q # p
    BY <1>8, <1>a, <2>1, SameIsKept DEF DenyTunnelTarget
  <2>2. CASE q = p
    <3>1. sessions'[p] = [sessions[p] EXCEPT
                             !.allowed_targets = sessions[p].allowed_targets
                                                     \ {target}]
      BY <1>8, <1>a, <2>2 DEF DenyTunnelTarget
    <3> QED
      BY ZenonT(30), <1>b, <3>1 DEF Kept, Session, Exists, Active
  <2> QED
    BY <2>1, <2>2
<1>9. CASE EndAll
  BY <1>9 DEF EndAll
<1>10. CASE Tick
  <2>1. CASE sessions[p].disconnected_at \in 0..RECONNECT_WINDOW
    <3>1. sessions'[p] = [sessions[p] EXCEPT
                             !.disconnected_at = sessions[p].disconnected_at + 1]
      BY <1>10, <2>1 DEF Tick, AgeSessions
    <3> QED
      BY ZenonT(30), <1>b, <3>1 DEF Kept, Session, Exists, Active
  <2>2. CASE sessions[p].disconnected_at \notin 0..RECONNECT_WINDOW
    BY ZenonT(30), <1>10, <2>2, SameIsKept DEF Tick, AgeSessions
  <2> QED
    BY <2>1, <2>2
<1> QED
  BY SMTT(30), <1>1, <1>2, <1>3, <1>4, <1>5, <1>6, <1>7, <1>8, <1>9, <1>10
     DEF Next, PeerNext, managerVars, SetPlan, SetControlPolicy,
         RequestConsentFor, ForgetConsentRate

-----------------------------------------------------------------------------
(* The safety invariants.                                                  *)

\* What grant_as inserts, field by field.
LEMMA GrantedFields ==
    ASSUME TypeOK, NEW p \in Peers, NEW role \in Roles, NEW kind \in SessionKinds,
           GrantAs(p, role, kind)
    PROVE  /\ sessions'[p] = granted(sessions, p, role, kind)
           /\ sessions'[p].role = role /\ sessions'[p].kind = kind
           /\ Exists(sessions'[p]) /\ Active(sessions'[p])
           /\ \A q \in Peers \ {p} : sessions'[q] = sessions[q]
BY DEF TypeOK, GrantAs, grant_as, granted, Exists, Active

LEMMA InitRoleFixes == Init => RoleFixesViewAndInput
BY DEF Init, RoleFixesViewAndInput, NoSession, Exists

\* from_role and for_terminal agree with the role and the kind.
LEMMA NextRoleFixes ==
    TypeOK /\ RoleFixesViewAndInput /\ [Next]_managerVars
        => RoleFixesViewAndInput'
<1> SUFFICES ASSUME TypeOK, RoleFixesViewAndInput, [Next]_managerVars,
                    NEW p \in Peers, Exists(sessions'[p])
             PROVE  LET s == sessions'[p] IN
                    /\ ("view" \in s.grants) <=> (s.kind = "Screen")
                    /\ ("input" \in s.grants)
                           <=> (s.kind = "Screen" /\ s.role = "FullControl")
                    /\ s.allowed_actions # {} =>
                           s.kind = "Screen" /\ s.role = "ControlLimited"
  BY SMTT(30) DEF RoleFixesViewAndInput
<1>1. CASE Kept(p)
  BY <1>1 DEF Kept, RoleFixesViewAndInput
<1>2. CASE sessions'[p] = NoSession
  BY SMTT(30), <1>2 DEF NoSession, Exists
<1>3. ASSUME NEW role \in Roles, NEW kind \in SessionKinds, GrantAs(p, role, kind)
      PROVE  LET s == sessions'[p] IN
             /\ ("view" \in s.grants) <=> (s.kind = "Screen")
             /\ ("input" \in s.grants)
                    <=> (s.kind = "Screen" /\ s.role = "FullControl")
             /\ s.allowed_actions # {} =>
                    s.kind = "Screen" /\ s.role = "ControlLimited"
  <2>1. /\ "view" \in from_role(role)
        /\ ("input" \in from_role(role)) <=> (role = "FullControl")
        /\ "view" \notin for_terminal(role) /\ "input" \notin for_terminal(role)
    BY DEF from_role, for_terminal, Grants
  <2>2. sessions'[p] = granted(sessions, p, role, kind)
    BY SMTT(30), <1>3, GrantedFields
  <2>3. CASE kind = "Screen"
    BY SMTT(30), <2>1, <2>2, <2>3 DEF granted
  <2>4. CASE kind = "Terminal"
    BY <2>1, <2>2, <2>4 DEF granted
  <2> QED
    BY <2>3, <2>4 DEF SessionKinds
<1> QED
  BY <1>1, <1>2, <1>3, StepShape DEF GrantedNow

\* `view` and `input` follow the role and the kind alone, in every state.
THEOREM RoleFixesViewAndInputHolds == Spec => []RoleFixesViewAndInput
<1>1. Init => TypeOK /\ RoleFixesViewAndInput
  BY InitTypeOK, InitRoleFixes
<1>2. TypeOK /\ RoleFixesViewAndInput /\ [Next]_managerVars
          => (TypeOK /\ RoleFixesViewAndInput)'
  BY NextTypeOK, NextRoleFixes
<1> QED
  BY <1>1, <1>2, PTL DEF Spec

LEMMA InitSingleController == Init => SingleController
BY DEF Init, SingleController, IsController, NoSession, Exists

\* A new controller is granted only when nobody else holds the role.
LEMMA NextSingleController ==
    TypeOK /\ SingleController /\ [Next]_managerVars => SingleController'
<1> SUFFICES ASSUME TypeOK, SingleController, [Next]_managerVars,
                    NEW p \in Peers, NEW q \in Peers, p # q,
                    IsController(sessions'[p]), IsController(sessions'[q])
             PROVE  FALSE
  BY DEF SingleController
<1>1. ASSUME NEW r \in Peers, ~GrantedNow(r), IsController(sessions'[r])
      PROVE  IsController(sessions[r])
  <2>1. CASE Kept(r)
    BY SMTT(30), <1>1, <2>1 DEF Kept, IsController
  <2>2. CASE sessions'[r] = NoSession
    BY <1>1, <2>2 DEF NoSession, IsController, Exists
  <2> QED
    BY SMTT(30), <1>1, <2>1, <2>2, StepShape
<1>2. ASSUME NEW a \in Peers, NEW b \in Peers, a # b, GrantedNow(a),
             IsController(sessions'[a]), IsController(sessions'[b])
      PROVE  FALSE
  <2>1. PICK role \in Roles, kind \in SessionKinds : GrantAs(a, role, kind)
    BY SMTT(30), <1>2 DEF GrantedNow
  <2>2. kind = "Screen" /\ is_controller(role) /\ sessions'[b] = sessions[b]
    BY SMTT(30), <1>2, <2>1, GrantedFields DEF IsController
  <2>3. controllers(sessions) \subseteq {a}
    BY SMTT(30), <2>1, <2>2 DEF GrantAs, may_grant
  <2>4. b \in controllers(sessions)
    BY <1>2, <2>2 DEF controllers
  <2> QED
    BY <1>2, <2>3, <2>4
<1>3. CASE GrantedNow(p)
  BY <1>2, <1>3
<1>4. CASE GrantedNow(q)
  BY <1>2, <1>4
<1>5. CASE ~GrantedNow(p) /\ ~GrantedNow(q)
  BY SMTT(30), <1>1, <1>5 DEF SingleController
<1> QED
  BY <1>3, <1>4, <1>5

\* At most one peer ever holds a controller role on the screen, for any number
\* of peers, any plan and any limit.
THEOREM SingleControllerHolds == Spec => []SingleController
<1>1. Init => TypeOK /\ SingleController
  BY InitTypeOK, InitSingleController
<1>2. TypeOK /\ SingleController /\ [Next]_managerVars
          => (TypeOK /\ SingleController)'
  BY NextTypeOK, NextSingleController
<1> QED
  BY <1>1, <1>2, PTL DEF Spec

\* Whoever passes authorize_input is a controller, so there is one at most.
LEMMA InjectorIsController ==
    RoleFixesViewAndInput /\ SingleController => OneInjector
<1> SUFFICES ASSUME RoleFixesViewAndInput, SingleController
             PROVE  OneInjector
  OBVIOUS
<1>1. ASSUME NEW p \in Peers, NEW a \in ControlActions,
             authorize_input(sessions[p], a)
      PROVE  IsController(sessions[p])
  BY <1>1 DEF authorize_input, Active, Exists, RoleFixesViewAndInput,
              IsController, is_controller
<1> QED
  BY <1>1 DEF OneInjector, SingleController

\* Two peers never pass authorize_input in the same state.
THEOREM OneInjectorHolds == Spec => []OneInjector
BY RoleFixesViewAndInputHolds, SingleControllerHolds, InjectorIsController, PTL

-----------------------------------------------------------------------------
(* The queue.                                                              *)

LEMMA NextQueueNumbered ==
    TypeOK /\ QueueNumbered /\ [Next]_managerVars => QueueNumbered'
<1> SUFFICES ASSUME TypeOK, QueueNumbered, [Next]_managerVars
             PROVE  QueueNumbered'
  OBVIOUS
<1>a. queue \in Seq(Ticket) /\ Len(queue) \in Nat
  BY DEF TypeOK
<1>1. CASE queue' = queue
  BY <1>1 DEF QueueNumbered
<1>2. ASSUME NEW p \in Peers, NEW role \in Roles, NEW kind \in SessionKinds,
             RequestConsentFor(p, role, kind)
      PROVE  QueueNumbered'
  <2>1. CASE queue' = queue
    BY <1>1, <2>1
  <2>2. CASE queue' # queue
    <3>1. queue' = push_as(queue, p, role, kind) /\ ~queue_full(queue)
      BY <1>2, <2>2 DEF RequestConsentFor
    <3>2. Len(queue) + 1 <= MAX_PENDING_CONSENTS
      BY <1>a, <3>1, ConsentAssumption DEF queue_full
    <3>3. \A i \in 1..Len(queue) : queue[i].queue_position = i - 1
      BY DEF QueueNumbered
    <3>4. /\ Len(queue') = Len(queue) + 1
          /\ \A i \in 1..(Len(queue) + 1) : queue'[i].queue_position = i - 1
      BY <1>a, <3>1, <3>3, PushLemma
    <3> QED
      BY <3>2, <3>4 DEF QueueNumbered
  <2> QED
    BY <2>1, <2>2
<1>3. ASSUME NEW p \in Peers, queue' = remove(queue, p)
      PROVE  QueueNumbered'
  <2>1. Len(remove(queue, p)) \in Nat
    BY <1>a, RemoveLemma
  <2>2. Len(queue') <= MAX_PENDING_CONSENTS
    BY SMTT(30), <1>3, <1>a, <2>1, RemoveLemma, ConsentAssumption DEF QueueNumbered
  <2>3. \A i \in 1..Len(queue') : queue'[i].queue_position = i - 1
    BY SMTT(30), <1>3, <1>a, RemoveLemma DEF QueueNumbered
  <2> QED
    BY <2>2, <2>3 DEF QueueNumbered
<1>4. CASE queue' = << >>
  BY <1>4, ConsentAssumption DEF QueueNumbered
<1> QED
  BY SMTT(30), <1>1, <1>2, <1>3, <1>4
     DEF Next, PeerNext, managerVars, SetPlan, SetControlPolicy, Tick, EndAll,
         ForgetConsentRate, GrantAs, Revoke, SetGrant, OnDisconnect, OnReconnect,
         AllowTunnelTarget, DenyTunnelTarget

\* The consent queue stays within its bound and every ticket carries its place.
THEOREM QueueNumberedHolds == Spec => []QueueNumbered
<1>1. Init => TypeOK /\ QueueNumbered
  BY SMTT(30), InitTypeOK, ConsentAssumption DEF Init, QueueNumbered
<1>2. TypeOK /\ QueueNumbered /\ [Next]_managerVars => (TypeOK /\ QueueNumbered)'
  BY NextTypeOK, NextQueueNumbered
<1> QED
  BY <1>1, <1>2, PTL DEF Spec

-----------------------------------------------------------------------------
(* What a step may never do.                                               *)

\* Grants, switches and named addresses are the only ways to gain authority.
THEOREM OnlyTheHostWidensHolds == Spec => OnlyTheHostWidens
<1> DEFINE Step == \A p \in Peers :
          /\ \/ /\ sessions'[p].grants \subseteq sessions[p].grants
                /\ sessions'[p].allowed_actions
                       \subseteq sessions[p].allowed_actions
             \/ \E role \in Roles, kind \in SessionKinds :
                    GrantAs(p, role, kind)
             \/ \E which \in Toggles : SetGrant(p, which, TRUE)
          /\ \/ sessions'[p].allowed_targets \subseteq sessions[p].allowed_targets
             \/ \E target \in TunnelTargets :
                    AllowTunnelTarget(p, target)
<1>1. TypeOK /\ [Next]_managerVars => [Step]_managerVars
  <2> SUFFICES ASSUME TypeOK, [Next]_managerVars PROVE Step
    BY ZenonT(30)
  <2> SUFFICES ASSUME NEW p \in Peers
               PROVE
          /\ \/ /\ sessions'[p].grants \subseteq sessions[p].grants
                /\ sessions'[p].allowed_actions
                       \subseteq sessions[p].allowed_actions
             \/ \E role \in Roles, kind \in SessionKinds :
                    GrantAs(p, role, kind)
             \/ \E which \in Toggles : SetGrant(p, which, TRUE)
          /\ \/ sessions'[p].allowed_targets \subseteq sessions[p].allowed_targets
             \/ \E target \in TunnelTargets :
                    AllowTunnelTarget(p, target)
    BY ZenonT(30)
  <2>1. CASE Kept(p)
    BY ZenonT(30), <2>1 DEF Kept
  <2>2. CASE sessions'[p] = NoSession
    BY <2>2 DEF NoSession
  <2>3. CASE GrantedNow(p)
    <3>1. PICK role \in Roles, kind \in SessionKinds : GrantAs(p, role, kind)
      BY <2>3 DEF GrantedNow
    <3>a. sessions'[p] = granted(sessions, p, role, kind)
      BY <3>1, GrantedFields
    <3>2. sessions'[p].allowed_targets = sessions[p].allowed_targets
      BY <3>a DEF granted
    <3> QED
      BY ZenonT(30), <3>1, <3>2
  <2> QED
    BY ZenonT(30), <2>1, <2>2, <2>3, StepShape
<1> QED
  BY <1>1, TypeCorrect, PTL DEF Spec, OnlyTheHostWidens

\* A session wakes by a grant or by a resume inside the window, never later.
THEOREM ResumeInsideWindowHolds == Spec => ResumeInsideWindow
<1> DEFINE Step == \A p \in Peers :
          ~Active(sessions[p]) /\ Active(sessions'[p]) =>
              \/ Exists(sessions[p]) /\ sessions[p].disconnected_at <= RECONNECT_WINDOW
              \/ \E role \in Roles, kind \in SessionKinds :
                     GrantAs(p, role, kind)
<1>1. TypeOK /\ [Next]_managerVars => [Step]_managerVars
  <2> SUFFICES ASSUME TypeOK, [Next]_managerVars, NEW p \in Peers,
                      ~Active(sessions[p]), Active(sessions'[p])
               PROVE  \/ /\ Exists(sessions[p])
                         /\ sessions[p].disconnected_at <= RECONNECT_WINDOW
                      \/ GrantedNow(p)
    BY DEF GrantedNow
  <2>1. CASE Kept(p)
    BY <2>1 DEF Kept, within_window
  <2>2. CASE sessions'[p] = NoSession
    BY <2>2 DEF NoSession, Active
  <2> QED
    BY <2>1, <2>2, StepShape
<1> QED
  BY <1>1, TypeCorrect, PTL DEF Spec, ResumeInsideWindow

\* A set of holders that grows by one stays within a limit it was below.
LEMMA GuestCount ==
    ASSUME NEW S, NEW p, NEW n \in Nat, IsFiniteSet(S),
           Cardinality(S \ {p}) < n
    PROVE  Cardinality(S \cup {p}) <= n
<1>1. IsFiniteSet(S \ {p}) /\ S \cup {p} = (S \ {p}) \cup {p} /\ p \notin S \ {p}
  BY FS_Subset
<1>2. Cardinality(S \cup {p}) = Cardinality(S \ {p}) + 1
  BY <1>1, FS_AddElement
<1> QED
  BY <1>1, <1>2, FS_CardinalityType

\* New guests of either kind fit the limit in force when they are let in; no
\* other call adds one.
THEOREM GuestLimitHolds == Spec => GuestLimit
<1> DEFINE Step == \A kind \in SessionKinds :
          \/ Cardinality(OfKind(sessions', kind)) <= limit_of(kind)
          \/ OfKind(sessions', kind) \subseteq OfKind(sessions, kind)
<1>1. TypeOK /\ [Next]_managerVars => [Step]_managerVars
  <2> SUFFICES ASSUME TypeOK, [Next]_managerVars, NEW kind \in SessionKinds
               PROVE  \/ Cardinality(OfKind(sessions', kind)) <= limit_of(kind)
                      \/ OfKind(sessions', kind) \subseteq OfKind(sessions, kind)
    OBVIOUS
  <2>1. ASSUME NEW p \in Peers, ~GrantedNow(p), p \in OfKind(sessions', kind)
        PROVE  p \in OfKind(sessions, kind)
    <3>1. CASE Kept(p)
      BY SMTT(30), <2>1, <3>1 DEF OfKind, Kept
    <3>2. CASE sessions'[p] = NoSession
      BY SMTT(30), <2>1, <3>2 DEF OfKind, NoSession, Exists
    <3> QED
      BY SMTT(30), <2>1, <3>1, <3>2, StepShape
  <2>2. CASE \A p \in Peers : ~GrantedNow(p)
    BY <2>1, <2>2 DEF OfKind
  <2>3. ASSUME NEW p \in Peers, NEW role \in Roles, NEW k \in SessionKinds,
               GrantAs(p, role, k)
        PROVE  \/ Cardinality(OfKind(sessions', kind)) <= limit_of(kind)
               \/ OfKind(sessions', kind) \subseteq OfKind(sessions, kind)
    <3>1. /\ sessions'[p].kind = k
          /\ \A q \in Peers \ {p} : sessions'[q] = sessions[q]
      BY <2>3, GrantedFields
    <3>2. OfKind(sessions', kind) \subseteq OfKind(sessions, kind) \cup {p}
      BY <3>1 DEF OfKind
    <3>3. CASE k # kind
      BY <3>1, <3>3 DEF OfKind
    <3>4. CASE k = kind /\ Exists(sessions[p]) /\ sessions[p].kind = kind
      BY <3>2, <3>4 DEF OfKind
    <3>5. CASE k = kind /\ ~(Exists(sessions[p]) /\ sessions[p].kind = kind)
      <4>1. Cardinality(OfKind(sessions, kind) \ {p}) < limit_of(kind)
        BY <2>3, <3>5 DEF GrantAs, may_grant
      <4>2. limit_of(kind) \in Nat
        BY ManagerAssumption DEF limit_of, max_concurrent_guests, TypeOK
      <4>3. IsFiniteSet(OfKind(sessions, kind) \cup {p})
        BY ConsentAssumption, FS_Subset DEF OfKind
      <4>4. IsFiniteSet(OfKind(sessions, kind))
        BY <4>3, FS_Subset
      <4>5. Cardinality(OfKind(sessions, kind) \cup {p}) <= limit_of(kind)
        BY ZenonT(30), <4>1, <4>2, <4>4, GuestCount
      <4>6. /\ Cardinality(OfKind(sessions', kind))
                   <= Cardinality(OfKind(sessions, kind) \cup {p})
            /\ Cardinality(OfKind(sessions', kind)) \in Nat
            /\ Cardinality(OfKind(sessions, kind) \cup {p}) \in Nat
        BY <3>2, <4>3, FS_Subset, FS_CardinalityType
      <4> QED
        BY SMTT(30), <4>2, <4>5, <4>6
    <3> QED
      BY SMTT(30), <3>3, <3>4, <3>5
  <2> QED
    BY <2>2, <2>3 DEF GrantedNow
<1> QED
  BY <1>1, TypeCorrect, PTL DEF Spec, GuestLimit
=============================================================================
