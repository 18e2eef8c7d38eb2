------------------------ MODULE SessionManagerTypes -------------------------
(***************************************************************************)
(* Type correctness of SessionManager, for every set of peers, every plan, *)
(* every limit and every reconnect window.                                 *)
(***************************************************************************)
EXTENDS SessionManagerLemmas

-----------------------------------------------------------------------------
(* Type correctness.                                                       *)

\* A session with its types, Reconnecting exactly while it is disconnected.
Coherent(s) ==
    /\ s \in Session
    /\ (s.state = "Reconnecting") <=> (s.disconnected_at # None)
    /\ ~Exists(s) => s = NoSession

LEMMA TypeOKIsCoherent ==
    TypeOK <=> /\ plan \in Plans
               /\ policy \in [Peers -> SUBSET ControlActions]
               /\ queue \in Seq(Ticket)
               /\ hits \in [Peers -> Seq(0..RATE_WINDOW)]
               /\ sessions \in [Peers -> Session]
               /\ \A p \in Peers : Coherent(sessions[p])
BY DEF TypeOK, Coherent

LEMMA NoSessionCoherent == Coherent(NoSession)
BY ManagerAssumption
   DEF Coherent, NoSession, Session, Exists, None, Roles, SessionKinds

\* What grant_as inserts is an Active session, whatever it replaces.
LEMMA GrantedCoherent ==
    ASSUME TypeOK, NEW p \in Peers, NEW role \in Roles, NEW kind \in SessionKinds
    PROVE  Coherent(granted(sessions, p, role, kind))
<1> DEFINE g == granted(sessions, p, role, kind)
<1>1. from_role(role) \subseteq Grants /\ for_terminal(role) \subseteq Grants
  BY DEF from_role, for_terminal, Grants, IndependentGrants
<1>2. policy[p] \subseteq ControlActions
  BY DEF TypeOK
<1>3. sessions[p].allowed_targets \subseteq TunnelTargets
  BY DEF TypeOK, Session
<1>4. g \in Session
  BY <1>1, <1>2, <1>3, ManagerAssumption DEF granted, Session, None
<1>5. g.state = "Active" /\ g.disconnected_at = None
  BY DEF granted
<1> QED
  BY <1>4, <1>5 DEF Coherent, Exists

\* One peer's session is replaced by a coherent one.
LEMMA ReplaceLemma ==
    ASSUME NEW ss \in [Peers -> Session], \A p \in Peers : Coherent(ss[p]),
           NEW p \in Peers, NEW s, Coherent(s)
    PROVE  /\ [ss EXCEPT ![p] = s] \in [Peers -> Session]
           /\ \A q \in Peers : Coherent([ss EXCEPT ![p] = s][q])
BY DEF Coherent

THEOREM InitTypeOK == Init => TypeOK
<1> SUFFICES ASSUME Init PROVE TypeOK
  OBVIOUS
<1>1. NoSession \in Session /\ Coherent(NoSession)
  BY NoSessionCoherent DEF Coherent
<1>2. \A p \in Peers : Coherent(sessions[p])
  BY <1>1 DEF Init
<1>3. sessions \in [Peers -> Session]
  BY <1>1 DEF Init
<1>4. plan \in Plans /\ policy \in [Peers -> SUBSET ControlActions]
  BY ManagerAssumption DEF Init
<1>5. queue \in Seq(Ticket) /\ hits \in [Peers -> Seq(0..RATE_WINDOW)]
  BY SMTT(30) DEF Init
<1> QED
  BY <1>2, <1>3, <1>4, <1>5, TypeOKIsCoherent

\* Every call keeps the types.
THEOREM NextTypeOK == TypeOK /\ [Next]_managerVars => TypeOK'
<1> SUFFICES ASSUME TypeOK, [Next]_managerVars PROVE TypeOK'
  OBVIOUS
<1> DEFINE SessionsOK == /\ sessions' \in [Peers -> Session]
                         /\ \A p \in Peers : Coherent(sessions'[p])
           RestOK == /\ plan' \in Plans
                     /\ policy' \in [Peers -> SUBSET ControlActions]
                     /\ queue' \in Seq(Ticket)
                     /\ hits' \in [Peers -> Seq(0..RATE_WINDOW)]
<1>a. /\ plan \in Plans
      /\ policy \in [Peers -> SUBSET ControlActions]
      /\ queue \in Seq(Ticket)
      /\ hits \in [Peers -> Seq(0..RATE_WINDOW)]
      /\ sessions \in [Peers -> Session]
      /\ \A p \in Peers : Coherent(sessions[p])
  BY TypeOKIsCoherent
<1>b. SUFFICES SessionsOK /\ RestOK
  BY DEF TypeOK, Coherent, Exists
<1>1. CASE UNCHANGED managerVars
  BY <1>1, <1>a DEF managerVars
<1>2. ASSUME NEW pl \in Plans, SetPlan(pl)
      PROVE  SessionsOK /\ RestOK
  BY <1>2, <1>a DEF SetPlan
<1>3. ASSUME NEW pol \in [Peers -> SUBSET ControlActions], SetControlPolicy(pol)
      PROVE  SessionsOK /\ RestOK
  BY <1>3, <1>a DEF SetControlPolicy
<1>4. ASSUME NEW p \in Peers, NEW role \in Roles, NEW kind \in SessionKinds,
             RequestConsentFor(p, role, kind)
      PROVE  SessionsOK /\ RestOK
  <2>1. check_at(hits[p]) \in Seq(0..RATE_WINDOW)
    BY <1>a, CheckLemma
  <2>2. hits' \in [Peers -> Seq(0..RATE_WINDOW)]
    BY <1>4, <1>a, <2>1 DEF RequestConsentFor
  <2>3. queue' \in Seq(Ticket)
    BY <1>4, <1>a, PushLemma DEF RequestConsentFor
  <2> QED
    BY <1>4, <1>a, <2>2, <2>3 DEF RequestConsentFor
<1>5. ASSUME NEW p \in Peers, ForgetConsentRate(p)
      PROVE  SessionsOK /\ RestOK
  BY <1>5, <1>a DEF ForgetConsentRate
<1>6. ASSUME NEW p \in Peers, NEW role \in Roles, NEW kind \in SessionKinds,
             GrantAs(p, role, kind)
      PROVE  SessionsOK /\ RestOK
  <2>1. sessions' = [sessions EXCEPT ![p] = granted(sessions, p, role, kind)]
    BY <1>6 DEF GrantAs, grant_as
  <2>2. SessionsOK
    BY ZenonT(30), <1>a, <2>1, GrantedCoherent, ReplaceLemma
  <2>3. queue' \in Seq(Ticket)
    BY <1>6, <1>a, RemoveLemma DEF GrantAs
  <2> QED
    BY <1>6, <1>a, <2>2, <2>3 DEF GrantAs
<1>7. ASSUME NEW p \in Peers, Revoke(p)
      PROVE  SessionsOK /\ RestOK
  <2>1. SessionsOK
    BY ZenonT(30), <1>7, <1>a, NoSessionCoherent, ReplaceLemma DEF Revoke, revoke
  <2>2. queue' \in Seq(Ticket)
    BY <1>7, <1>a, RemoveLemma DEF Revoke
  <2> QED
    BY <1>7, <1>a, <2>1, <2>2 DEF Revoke
<1>8. ASSUME NEW p \in Peers, NEW which \in Toggles, NEW allowed \in BOOLEAN,
             SetGrant(p, which, allowed)
      PROVE  SessionsOK /\ RestOK
  <2> DEFINE s == [sessions[p] EXCEPT !.grants = set(@, which, allowed)]
  <2>1. set(sessions[p].grants, which, allowed) \subseteq Grants
    BY <1>a, ManagerAssumption DEF set, Coherent, Session, Grants
  <2>2. Coherent(s)
    BY ZenonT(30), <1>8, <1>a, <2>1 DEF SetGrant, Active, Coherent, Session, Exists
  <2>3. sessions' = [sessions EXCEPT ![p] = s]
    BY <1>8, <1>a DEF SetGrant, set_grant
  <2> HIDE DEF s
  <2>4. SessionsOK
    BY SMTT(30), <1>a, <2>2, <2>3, ReplaceLemma
  <2> QED
    BY <1>8, <1>a, <2>4 DEF SetGrant
<1>9. ASSUME NEW p \in Peers, OnDisconnect(p)
      PROVE  SessionsOK /\ RestOK
  <2> DEFINE s == [sessions[p] EXCEPT !.state = "Reconnecting",
                                      !.disconnected_at = 0]
  <2>1. Coherent(s)
    <3>a. 0 \in None..(RECONNECT_WINDOW + 1) /\ sessions[p] \in Session
      BY <1>a, ManagerAssumption DEF None
    <3>1. s \in Session
      BY ZenonT(30), <3>a DEF Session
    <3>2. s.state = "Reconnecting" /\ s.disconnected_at = 0
      BY <1>a DEF Session
    <3> QED
      BY <3>1, <3>2 DEF Coherent, Exists, None
  <2>2. sessions' = [sessions EXCEPT ![p] = s]
    BY ZenonT(30), <1>9, <1>a DEF OnDisconnect, on_disconnect
  <2> HIDE DEF s
  <2>3. SessionsOK
    BY SMTT(30), <1>a, <2>1, <2>2, ReplaceLemma
  <2> QED
    BY <1>9, <1>a, <2>3 DEF OnDisconnect
<1>10. ASSUME NEW p \in Peers, OnReconnect(p)
       PROVE  SessionsOK /\ RestOK
  <2> DEFINE s == [sessions[p] EXCEPT !.state = "Active",
                                      !.disconnected_at = None]
  <2>1. Coherent(s)
    <3>a. None \in None..(RECONNECT_WINDOW + 1) /\ sessions[p] \in Session
      BY <1>a, ManagerAssumption DEF None
    <3>1. s \in Session
      BY ZenonT(30), <3>a DEF Session
    <3>2. s.state = "Active" /\ s.disconnected_at = None
      BY <1>a DEF Session
    <3> QED
      BY <3>1, <3>2 DEF Coherent, Exists, None
  <2>2. \/ sessions' = [sessions EXCEPT ![p] = s]
        \/ sessions' = [sessions EXCEPT ![p] = NoSession]
    BY ZenonT(30), <1>10, <1>a DEF OnReconnect, on_reconnect
  <2> HIDE DEF s
  <2>3. SessionsOK
    <3>1. CASE sessions' = [sessions EXCEPT ![p] = s]
      BY <1>a, <2>1, <3>1, ReplaceLemma
    <3>2. CASE sessions' = [sessions EXCEPT ![p] = NoSession]
      BY SMTT(30), <1>a, <3>2, NoSessionCoherent, ReplaceLemma
    <3> QED
      BY <2>2, <3>1, <3>2
  <2> QED
    BY <1>10, <1>a, <2>3 DEF OnReconnect
<1>11. ASSUME NEW p \in Peers, NEW target \in TunnelTargets,
              AllowTunnelTarget(p, target)
       PROVE  SessionsOK /\ RestOK
  <2> DEFINE s == [sessions[p] EXCEPT !.allowed_targets = @ \cup {target}]
  <2>1. Coherent(s)
    BY ZenonT(30), <1>11, <1>a DEF AllowTunnelTarget, Active, Coherent, Session, Exists
  <2>2. sessions' = [sessions EXCEPT ![p] = s]
    BY <1>11, <1>a DEF AllowTunnelTarget
  <2> HIDE DEF s
  <2>3. SessionsOK
    BY <1>a, <2>1, <2>2, ReplaceLemma
  <2> QED
    BY ZenonT(30), <1>11, <1>a, <2>3 DEF AllowTunnelTarget
<1>12. ASSUME NEW p \in Peers, NEW target \in TunnelTargets,
              DenyTunnelTarget(p, target)
       PROVE  SessionsOK /\ RestOK
  <2> DEFINE s == [sessions[p] EXCEPT !.allowed_targets = @ \ {target}]
  <2>1. Coherent(s)
    <3>1. CASE Exists(sessions[p])
      BY ZenonT(30), <1>a, <3>1 DEF Coherent, Session, Exists
    <3>2. CASE ~Exists(sessions[p])
      <4>1. sessions[p] = NoSession
        BY <1>a, <3>2 DEF Coherent
      <4>2. s = NoSession
        BY <4>1 DEF NoSession
      <4> QED
        BY <4>2, NoSessionCoherent
    <3> QED
      BY <3>1, <3>2
  <2>2. sessions' = [sessions EXCEPT ![p] = s]
    BY SMTT(30), <1>12, <1>a DEF DenyTunnelTarget
  <2> HIDE DEF s
  <2>3. SessionsOK
    BY <1>a, <2>1, <2>2, ReplaceLemma
  <2> QED
    BY ZenonT(30), <1>12, <1>a, <2>3 DEF DenyTunnelTarget
<1>13. CASE EndAll
  BY <1>13, <1>a, NoSessionCoherent DEF EndAll, Coherent
<1>14. CASE Tick
  <2>1. \A p \in Peers : AgeHits(hits[p]) \in Seq(0..RATE_WINDOW)
    BY <1>a, AgeLemma
  <2>2. hits' \in [Peers -> Seq(0..RATE_WINDOW)]
    BY <1>14, <2>1 DEF Tick
  <2>3. ASSUME NEW p \in Peers
        PROVE  Coherent(sessions'[p])
    <3>1. CASE sessions[p].disconnected_at \in 0..RECONNECT_WINDOW
      <4>1. sessions'[p] = [sessions[p] EXCEPT
                               !.disconnected_at = sessions[p].disconnected_at + 1]
        BY <1>14, <3>1 DEF Tick, AgeSessions
      <4>2. sessions[p].disconnected_at + 1 \in 0..(RECONNECT_WINDOW + 1)
        BY <3>1, ManagerAssumption
      <4>3. sessions[p].disconnected_at # None
        BY <3>1, ManagerAssumption DEF None
      <4>4. sessions[p] \in Session /\ sessions[p].state = "Reconnecting"
        BY <1>a, <4>3 DEF Coherent
      <4>5. sessions'[p] \in Session
        BY <4>1, <4>2, <4>4 DEF Session, None
      <4>6. /\ sessions'[p].state = "Reconnecting"
            /\ sessions'[p].disconnected_at # None
        BY <4>1, <4>2, <4>4 DEF Session, None
      <4> QED
        BY SMTT(30), <4>5, <4>6 DEF Coherent, Exists
    <3>2. CASE sessions[p].disconnected_at \notin 0..RECONNECT_WINDOW
      BY <1>14, <1>a, <3>2 DEF Tick, AgeSessions
    <3> QED
      BY <3>1, <3>2
  <2>4. SessionsOK
    BY <1>14, <2>3 DEF Tick, AgeSessions, Coherent
  <2> QED
    BY <1>14, <1>a, <2>2, <2>4 DEF Tick
<1> QED
  BY SMTT(30), <1>1, <1>2, <1>3, <1>4, <1>5, <1>6, <1>7, <1>8, <1>9, <1>10, <1>11,
     <1>12, <1>13, <1>14 DEF Next, PeerNext

\* In every state of every behaviour the manager's state has its types, and a
\* session is Reconnecting exactly while `disconnected_at` is set.
THEOREM TypeCorrect == Spec => []TypeOK
<1>1. Init => TypeOK
  BY InitTypeOK
<1>2. TypeOK /\ [Next]_managerVars => TypeOK'
  BY NextTypeOK
<1> QED
  BY <1>1, <1>2, PTL DEF Spec
=============================================================================
