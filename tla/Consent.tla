------------------------------- MODULE Consent -------------------------------
(***************************************************************************)
(* The authorization vocabulary of crates/core/src/consent.rs: roles, the  *)
(* grants each role starts with, the queue of unanswered consent requests, *)
(* the per-peer rate limiter and the admission decision of a host.         *)
(*                                                                         *)
(* Grants (13 booleans in the code) are the set of the flags that are on.  *)
(* Instants are ages: the limiter and the reconnect window only ever ask   *)
(* how long ago something happened, so an Instant is the number of ticks   *)
(* since, capped one past the last value the code can tell apart.          *)
(***************************************************************************)
EXTENDS Integers, Sequences, FiniteSets

CONSTANTS
    Peers,                    \* NodeIds
    MAX_PENDING_CONSENTS,     \* capacity of the consent queue
    CONSENT_RATE_PER_MINUTE,  \* requests one peer may make per RATE_WINDOW
    RATE_WINDOW               \* the limiter's minute, in ticks

ASSUME ConsentAssumption ==
    /\ IsFiniteSet(Peers)
    /\ MAX_PENDING_CONSENTS \in Nat
    /\ CONSENT_RATE_PER_MINUTE \in Nat
    /\ RATE_WINDOW \in Nat \ {0}

Roles == {"ViewOnly", "FullControl", "ControlLimited"}

is_controller(role) == role \in {"FullControl", "ControlLimited"}

SessionKinds == {"Screen", "Terminal"}

IndependentGrants ==
    {"clipboard_read", "clipboard_write", "file_transfer", "file_browse",
     "recording", "display_mode", "secure_desktop", "secure_desktop_input",
     "tunnel", "terminal", "reboot"}

Grants == IndependentGrants \cup {"view", "input"}

from_role(role) ==
    IF role = "FullControl" THEN Grants ELSE {"view", "secure_desktop"}

for_terminal(role) == from_role(role) \cap {"terminal"}

set(grants, which, allowed) ==
    IF allowed THEN grants \cup {which} ELSE grants \ {which}

-----------------------------------------------------------------------------
(* ConsentQueue.  requested_at is written and never read by a decision, so *)
(* a ticket does not carry it.                                             *)

Ticket == [peer : Peers, requested_role : Roles, kind : SessionKinds,
           queue_position : Nat]

push_as(q, peer, role, kind) ==
    Append(q, [peer |-> peer, requested_role |-> role, kind |-> kind,
               queue_position |-> Len(q)])

queue_full(q) == Len(q) >= MAX_PENDING_CONSENTS

contains(q, peer) == \E i \in 1..Len(q) : q[i].peer = peer

\* The oldest request of peer.
position(q, peer) ==
    CHOOSE i \in 1..Len(q) :
        /\ q[i].peer = peer
        /\ \A j \in 1..(i - 1) : q[j].peer # peer

\* The code takes the request out and then renumbers every one that is left.
remove(q, peer) ==
    IF contains(q, peer)
      THEN LET at == position(q, peer) IN
           [i \in 1..(Len(q) - 1) |->
               [q[IF i < at THEN i ELSE i + 1] EXCEPT !.queue_position = i - 1]]
      ELSE q

-----------------------------------------------------------------------------
(* ConsentRateLimiter.  The hits of a peer are the ages of its accepted    *)
(* requests, oldest first; `retain` therefore drops a prefix.              *)

expired(h) == {i \in 1..Len(h) : h[i] >= RATE_WINDOW}

retain(h) == SubSeq(h, Cardinality(expired(h)) + 1, Len(h))

rate_limited(h) == Len(retain(h)) >= CONSENT_RATE_PER_MINUTE

check_at(h) == IF rate_limited(h) THEN retain(h) ELSE Append(retain(h), 0)

OldestFirst(h) == \A i, j \in 1..Len(h) : i <= j => h[i] >= h[j]

AgeHits(h) ==
    [i \in 1..Len(h) |-> IF h[i] < RATE_WINDOW THEN h[i] + 1 ELSE h[i]]

-----------------------------------------------------------------------------
(* Admission: what a host offers a peer that has just handshaked.          *)

HostAttendance == {"Attended", "Unattended"}

decide(attendance, may_try) ==
    [ask_the_person |-> attendance = "Attended", offer_credentials |-> may_try]

refuses(admission) ==
    ~admission.ask_the_person /\ ~admission.offer_credentials
=============================================================================
