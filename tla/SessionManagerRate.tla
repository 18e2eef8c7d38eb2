------------------------- MODULE SessionManagerRate -------------------------
(***************************************************************************)
(* What ConsentRateLimiter promises of a whole run: its own history cannot *)
(* show it, since `retain` prunes it.  `accepted` records what it leaves   *)
(* out: the age of every request check_at let through since the peer was   *)
(* last forgotten, never pruned and never capped.  The record only         *)
(* observes: every step below is a step of SessionManager.                 *)
(***************************************************************************)
EXTENDS SessionManagerTypes

VARIABLE accepted   \* per peer, ages of the accepted requests, oldest first

rateVars == <<managerVars, accepted>>

RateInit == Init /\ accepted = [p \in Peers |-> << >>]

RecordedRequest(p, role, kind) ==
    /\ RequestConsentFor(p, role, kind)
    /\ accepted' = IF rate_limited(hits[p]) THEN accepted
                   ELSE [accepted EXCEPT ![p] = Append(@, 0)]

RecordedForget(p) ==
    /\ ForgetConsentRate(p)
    /\ accepted' = [accepted EXCEPT ![p] = << >>]

Aged(a) == [i \in 1..Len(a) |-> a[i] + 1]

RecordedTick ==
    /\ Tick
    /\ accepted' = [p \in Peers |-> Aged(accepted[p])]

\* Any other operation leaves the limiter alone.
RecordedOther == Next /\ UNCHANGED <<hits, accepted>>

RateNext ==
    \/ \E p \in Peers :
           \/ \E role \in Roles, kind \in SessionKinds :
                  RecordedRequest(p, role, kind)
           \/ RecordedForget(p)
    \/ RecordedTick
    \/ RecordedOther

RateSpec == RateInit /\ [][RateNext]_rateVars

\* Of any CONSENT_RATE_PER_MINUTE + 1 requests of one peer accepted in a row,
\* the last came a whole window after the first, unless the peer was forgotten
\* in between: no window, wherever it starts, holds more accepted requests
\* than the rate, although check_at only sees what `retain` left of them and
\* a refused request goes unrecorded.
RateLimited ==
    \A p \in Peers : \A i \in 1..Len(accepted[p]) :
        i + CONSENT_RATE_PER_MINUTE <= Len(accepted[p]) =>
            accepted[p][i] >= accepted[p][i + CONSENT_RATE_PER_MINUTE] + RATE_WINDOW

-----------------------------------------------------------------------------
(* The inductive invariant: the limiter's history is the capped tail of    *)
(* the record, and whatever it lacks has left the window.                  *)

Capped(age) == IF age < RATE_WINDOW THEN age ELSE RATE_WINDOW

TailOf(h, a) ==
    /\ Len(h) <= Len(a)
    /\ \A i \in 1..Len(h) : h[i] = Capped(a[i + (Len(a) - Len(h))])
    /\ \A i \in 1..(Len(a) - Len(h)) : a[i] >= RATE_WINDOW

SpacedIn(a) ==
    \A i \in 1..Len(a) :
        i + CONSENT_RATE_PER_MINUTE <= Len(a) =>
            a[i] >= a[i + CONSENT_RATE_PER_MINUTE] + RATE_WINDOW

RecordOK(h, a) ==
    /\ h \in Seq(0..RATE_WINDOW)
    /\ a \in Seq(Nat)
    /\ OldestFirst(a)
    /\ TailOf(h, a)
    /\ SpacedIn(a)

RateInv ==
    /\ hits \in [Peers -> Seq(0..RATE_WINDOW)]
    /\ accepted \in [Peers -> Seq(Nat)]
    /\ \A p \in Peers : RecordOK(hits[p], accepted[p])

\* retain forgets only what has left the window.
LEMMA PrunedRecord ==
    ASSUME NEW h, NEW a, RecordOK(h, a)
    PROVE  RecordOK(retain(h), a)
<1> DEFINE r == retain(h)
           d == Len(a) - Len(h)
           e == Len(h) - Len(r)
<1>1. /\ h \in Seq(0..RATE_WINDOW) /\ a \in Seq(Nat)
      /\ Len(h) \in Nat /\ Len(a) \in Nat /\ Len(h) <= Len(a)
  BY DEF RecordOK, TailOf
<1>2. \A i \in 1..Len(a) : a[i] \in Nat
  BY ZenonT(30), <1>1, ElementOfSeq
<1>3. /\ \A i \in 1..Len(h) : h[i] = Capped(a[i + d])
      /\ \A i \in 1..d : a[i] >= RATE_WINDOW
  BY DEF RecordOK, TailOf
<1>4. OldestFirst(h)
  <2> SUFFICES ASSUME NEW i \in 1..Len(h), NEW j \in 1..Len(h), i <= j
               PROVE  h[i] >= h[j]
    BY DEF OldestFirst
  <2>1. i + d \in 1..Len(a) /\ j + d \in 1..Len(a) /\ i + d <= j + d
    BY <1>1
  <2>2. a[i + d] >= a[j + d] /\ a[i + d] \in Nat /\ a[j + d] \in Nat
    BY <1>2, <2>1 DEF RecordOK, OldestFirst
  <2>3. h[i] = Capped(a[i + d]) /\ h[j] = Capped(a[j + d])
    BY <1>3
  <2> QED
    BY <2>2, <2>3, ConsentAssumption DEF Capped
<1>5. /\ r \in Seq(0..RATE_WINDOW) /\ Len(r) \in Nat /\ Len(r) <= Len(h)
      /\ \A i \in 1..Len(r) : r[i] = h[i + e]
      /\ \A i \in 1..e : h[i] >= RATE_WINDOW
  BY <1>1, <1>4, RetainLemma
<1> HIDE DEF r
<1>6. ASSUME NEW i \in 1..Len(r)
      PROVE  r[i] = Capped(a[i + (Len(a) - Len(r))])
  <2>1. i + e \in 1..Len(h) /\ (i + e) + d = i + (Len(a) - Len(r))
    BY <1>1, <1>5
  <2>2. h[i + e] = Capped(a[(i + e) + d])
    BY <1>3, <2>1
  <2> QED
    BY <1>5, <2>1, <2>2
<1>7. ASSUME NEW i \in 1..(Len(a) - Len(r))
      PROVE  a[i] >= RATE_WINDOW
  <2>1. CASE i \in 1..d
    BY <1>3, <2>1
  <2>2. CASE i \notin 1..d
    <3> DEFINE k == i - d
    <3>1. k \in 1..e /\ k \in 1..Len(h) /\ k + d = i /\ i \in 1..Len(a)
      BY <1>1, <1>5, <2>2
    <3> HIDE DEF k
    <3>2. h[k] >= RATE_WINDOW /\ h[k] = Capped(a[i]) /\ a[i] \in Nat
      BY <1>2, <1>3, <1>5, <3>1
    <3> QED
      BY <3>2, ConsentAssumption DEF Capped
  <2> QED
    BY <2>1, <2>2
<1>8. Len(r) <= Len(a)
  BY <1>1, <1>5
<1>9. TailOf(r, a)
  BY ZenonT(30), <1>6, <1>7, <1>8 DEF TailOf
<1> QED
  BY ZenonT(30), <1>5, <1>9 DEF RecordOK, r

\* An accepted request comes a window after the one CONSENT_RATE_PER_MINUTE
\* before it: with fewer hits than the rate left, that one has been pruned.
LEMMA AcceptedRecord ==
    ASSUME NEW r, NEW a, RecordOK(r, a), Len(r) < CONSENT_RATE_PER_MINUTE
    PROVE  RecordOK(Append(r, 0), Append(a, 0))
<1> DEFINE b == Append(a, 0)
           g == Append(r, 0)
           rate == CONSENT_RATE_PER_MINUTE
<1>1. /\ r \in Seq(0..RATE_WINDOW) /\ a \in Seq(Nat)
      /\ Len(r) \in Nat /\ Len(a) \in Nat /\ Len(r) <= Len(a)
  BY DEF RecordOK, TailOf
<1>2. \A i \in 1..Len(a) : a[i] \in Nat
  BY ZenonT(30), <1>1, ElementOfSeq
<1>3. /\ b \in Seq(Nat) /\ Len(b) = Len(a) + 1 /\ b[Len(a) + 1] = 0
      /\ \A i \in 1..Len(a) : b[i] = a[i]
  BY <1>1, AppendProperties
<1>4. /\ g \in Seq(0..RATE_WINDOW) /\ Len(g) = Len(r) + 1 /\ g[Len(r) + 1] = 0
      /\ \A i \in 1..Len(r) : g[i] = r[i]
  BY <1>1, ConsentAssumption, AppendProperties
<1> HIDE DEF b, g
<1>5. /\ Len(a) \in Nat /\ Len(r) \in Nat /\ Len(r) <= Len(a)
      /\ Len(b) = Len(a) + 1 /\ Len(g) = Len(r) + 1
      /\ Len(b) - Len(g) = Len(a) - Len(r)
      /\ rate \in Nat /\ Len(r) < rate /\ rate > 0
  BY <1>1, <1>3, <1>4, ConsentAssumption
<1> HIDE DEF rate
<1>6. OldestFirst(b)
  <2> SUFFICES ASSUME NEW i \in 1..Len(b), NEW j \in 1..Len(b), i <= j
               PROVE  b[i] >= b[j]
    BY DEF OldestFirst
  <2>1. CASE j = Len(a) + 1
    <3>1. b[i] \in Nat
      BY ZenonT(30), <1>3, ElementOfSeq
    <3> QED
      BY <1>3, <2>1, <3>1
  <2>2. CASE j # Len(a) + 1
    <3>1. i \in 1..Len(a) /\ j \in 1..Len(a)
      BY <1>5, <2>2
    <3> QED
      BY ZenonT(30), <1>3, <3>1 DEF RecordOK, OldestFirst
  <2> QED
    BY <2>1, <2>2
<1>7. TailOf(g, b)
  <2>1. ASSUME NEW i \in 1..Len(g)
        PROVE  g[i] = Capped(b[i + (Len(b) - Len(g))])
    <3>1. CASE i = Len(r) + 1
      <4>1. i + (Len(b) - Len(g)) = Len(a) + 1
        BY <1>5, <3>1
      <4> QED
        BY <1>3, <1>4, <3>1, <4>1, ConsentAssumption DEF Capped
    <3>2. CASE i # Len(r) + 1
      <4> DEFINE n == i + (Len(a) - Len(r))
      <4>1. i \in 1..Len(r) /\ n \in 1..Len(a) /\ i + (Len(b) - Len(g)) = n
        BY <1>5, <3>2
      <4>2. r[i] = Capped(a[n])
        BY <4>1 DEF RecordOK, TailOf
      <4> HIDE DEF n
      <4> QED
        BY <1>3, <1>4, <4>1, <4>2
    <3> QED
      BY <3>1, <3>2
  <2>2. ASSUME NEW i \in 1..(Len(b) - Len(g))
        PROVE  b[i] >= RATE_WINDOW
    <3>1. i \in 1..(Len(a) - Len(r)) /\ i \in 1..Len(a)
      BY <1>5
    <3> QED
      BY ZenonT(30), <1>3, <3>1 DEF RecordOK, TailOf
  <2>3. Len(g) <= Len(b)
    BY <1>5
  <2> QED
    BY ZenonT(30), <2>1, <2>2, <2>3 DEF TailOf
<1>8. SpacedIn(b)
  <2> SUFFICES ASSUME NEW i \in 1..Len(b), i + rate <= Len(b)
               PROVE  b[i] >= b[i + rate] + RATE_WINDOW
    BY DEF SpacedIn, rate
  <2>1. i \in 1..Len(a)
    BY <1>5
  <2>2. CASE i + rate = Len(a) + 1
    <3>1. i \in 1..(Len(a) - Len(r))
      BY <1>5, <2>2
    <3>2. a[i] >= RATE_WINDOW
      BY <3>1 DEF RecordOK, TailOf
    <3>3. b[i] = a[i] /\ b[i + rate] = 0
      BY <1>3, <2>1, <2>2
    <3> QED
      BY <3>2, <3>3, ConsentAssumption
  <2>3. CASE i + rate # Len(a) + 1
    <3>1. i + rate \in 1..Len(a) /\ i + rate <= Len(a)
      BY <1>5, <2>1, <2>3
    <3>2. a[i] >= a[i + rate] + RATE_WINDOW
      BY ZenonT(30), <2>1, <3>1 DEF RecordOK, SpacedIn, rate
    <3>3. b[i] = a[i] /\ b[i + rate] = a[i + rate]
      BY ZenonT(30), <1>3, <2>1, <3>1
    <3> QED
      BY <3>2, <3>3
  <2> QED
    BY <2>2, <2>3
<1> QED
  BY ZenonT(30), <1>3, <1>4, <1>6, <1>7, <1>8 DEF RecordOK, b, g

\* A tick ages the limiter's history and the record alike.
LEMMA AgedRecord ==
    ASSUME NEW h, NEW a, RecordOK(h, a)
    PROVE  RecordOK(AgeHits(h), Aged(a))
<1> DEFINE b == Aged(a)
           g == AgeHits(h)
           rate == CONSENT_RATE_PER_MINUTE
           d == Len(a) - Len(h)
<1>1. /\ h \in Seq(0..RATE_WINDOW) /\ a \in Seq(Nat)
      /\ Len(h) \in Nat /\ Len(a) \in Nat /\ Len(h) <= Len(a)
  BY DEF RecordOK, TailOf
<1>2. \A i \in 1..Len(a) : a[i] \in Nat
  BY ZenonT(30), <1>1, ElementOfSeq
<1>3. /\ g \in Seq(0..RATE_WINDOW) /\ Len(g) = Len(h)
      /\ \A i \in 1..Len(h) :
             g[i] = IF h[i] < RATE_WINDOW THEN h[i] + 1 ELSE h[i]
  BY <1>1, AgeLemma DEF AgeHits
<1>4. \A i \in 1..Len(a) : b[i] = a[i] + 1 /\ b[i] \in Nat
  BY <1>2 DEF Aged
<1>5. b \in Seq(Nat) /\ Len(b) = Len(a)
  BY <1>1, <1>4, IsASeq, LenProperties DEF Aged
<1> HIDE DEF b, g
<1>6. OldestFirst(b)
  <2> SUFFICES ASSUME NEW i \in 1..Len(a), NEW j \in 1..Len(a), i <= j
               PROVE  b[i] >= b[j]
    BY <1>5 DEF OldestFirst
  <2>1. a[i] >= a[j]
    BY DEF RecordOK, OldestFirst
  <2> QED
    BY <1>2, <1>4, <2>1
<1>7. TailOf(g, b)
  <2>1. ASSUME NEW i \in 1..Len(h)
        PROVE  g[i] = Capped(b[i + d])
    <3>1. i + d \in 1..Len(a)
      BY <1>1
    <3>2. h[i] = Capped(a[i + d])
      BY DEF RecordOK, TailOf
    <3>3. b[i + d] = a[i + d] + 1 /\ a[i + d] \in Nat
      BY <1>2, <1>4, <3>1
    <3> QED
      BY <1>3, <3>2, <3>3, ConsentAssumption DEF Capped
  <2>2. ASSUME NEW i \in 1..d
        PROVE  b[i] >= RATE_WINDOW
    <3>1. i \in 1..Len(a)
      BY <1>1
    <3>2. a[i] >= RATE_WINDOW
      BY DEF RecordOK, TailOf
    <3> QED
      BY <1>2, <1>4, <3>1, <3>2, ConsentAssumption
  <2> QED
    BY ZenonT(30), <1>1, <1>3, <1>5, <2>1, <2>2 DEF TailOf
<1>8. SpacedIn(b)
  <2> SUFFICES ASSUME NEW i \in 1..Len(a), i + rate <= Len(a)
               PROVE  b[i] >= b[i + rate] + RATE_WINDOW
    BY <1>5 DEF SpacedIn
  <2>1. rate \in Nat /\ i + rate \in 1..Len(a)
    BY <1>1, ConsentAssumption
  <2>2. a[i] >= a[i + rate] + RATE_WINDOW
    BY DEF RecordOK, SpacedIn
  <2>3. /\ b[i] = a[i] + 1 /\ b[i + rate] = a[i + rate] + 1
        /\ a[i] \in Nat /\ a[i + rate] \in Nat
    BY ZenonT(30), <1>2, <1>4, <2>1
  <2> QED
    BY <2>2, <2>3, ConsentAssumption
<1> QED
  BY ZenonT(30), <1>3, <1>5, <1>6, <1>7, <1>8 DEF RecordOK, b, g

LEMMA EmptyRecord == RecordOK(<< >>, << >>)
  BY DEF RecordOK, OldestFirst, TailOf, SpacedIn

-----------------------------------------------------------------------------
(* The rate.                                                               *)

LEMMA NextRateInv == RateInv /\ [RateNext]_rateVars => RateInv'
<1> SUFFICES ASSUME RateInv, [RateNext]_rateVars
             PROVE  RateInv'
  OBVIOUS
<1>a. /\ hits \in [Peers -> Seq(0..RATE_WINDOW)]
      /\ accepted \in [Peers -> Seq(Nat)]
      /\ \A p \in Peers : RecordOK(hits[p], accepted[p])
  BY DEF RateInv
<1>b. ASSUME DOMAIN hits' = Peers, hits' = [p \in Peers |-> hits'[p]],
             accepted' = [p \in Peers |-> accepted'[p]],
             \A p \in Peers : RecordOK(hits'[p], accepted'[p])
      PROVE  RateInv'
  BY <1>b DEF RateInv, RecordOK
<1>1. ASSUME NEW p \in Peers, NEW role \in Roles, NEW kind \in SessionKinds,
             RecordedRequest(p, role, kind)
      PROVE  RateInv'
  <2>1. hits' = [hits EXCEPT ![p] = check_at(hits[p])]
    BY <1>1 DEF RecordedRequest, RequestConsentFor
  <2>2. RecordOK(retain(hits[p]), accepted[p])
    BY <1>a, PrunedRecord
  <2>3. RecordOK(check_at(hits[p]), accepted'[p])
    <3>1. CASE rate_limited(hits[p])
      BY <1>1, <2>2, <3>1 DEF RecordedRequest, check_at
    <3>2. CASE ~rate_limited(hits[p])
      <4>1. Len(retain(hits[p])) < CONSENT_RATE_PER_MINUTE
        <5>1. Len(retain(hits[p])) \in Nat
          BY <2>2 DEF RecordOK
        <5> QED
          BY <3>2, <5>1, ConsentAssumption DEF rate_limited
      <4>2. RecordOK(Append(retain(hits[p]), 0), Append(accepted[p], 0))
        BY <2>2, <4>1, AcceptedRecord
      <4>3. accepted'[p] = Append(accepted[p], 0)
        BY ZenonT(30), <1>1, <1>a, <3>2 DEF RecordedRequest
      <4> QED
        BY ZenonT(30), <3>2, <4>2, <4>3 DEF check_at
    <3> QED
      BY <3>1, <3>2
  <2>4. \A q \in Peers : q # p => hits'[q] = hits[q] /\ accepted'[q] = accepted[q]
    BY ZenonT(30), <1>1, <1>a, <2>1 DEF RecordedRequest
  <2>5. \A q \in Peers : RecordOK(hits'[q], accepted'[q])
    BY ZenonT(30), <1>a, <2>1, <2>3, <2>4
  <2>6. /\ DOMAIN hits' = Peers /\ hits' = [q \in Peers |-> hits'[q]]
        /\ accepted' = [q \in Peers |-> accepted'[q]]
    BY <1>1, <1>a, <2>1 DEF RecordedRequest
  <2> QED
    BY ZenonT(30), <1>b, <2>5, <2>6
<1>2. ASSUME NEW p \in Peers, RecordedForget(p)
      PROVE  RateInv'
  <2>1. hits' = [hits EXCEPT ![p] = << >>] /\ accepted' = [accepted EXCEPT ![p] = << >>]
    BY <1>2 DEF RecordedForget, ForgetConsentRate
  <2>2. \A q \in Peers : RecordOK(hits'[q], accepted'[q])
    BY ZenonT(30), <1>a, <2>1, EmptyRecord
  <2>3. /\ DOMAIN hits' = Peers /\ hits' = [q \in Peers |-> hits'[q]]
        /\ accepted' = [q \in Peers |-> accepted'[q]]
    BY <1>a, <2>1
  <2> QED
    BY ZenonT(30), <1>b, <2>2, <2>3
<1>3. CASE RecordedTick
  <2>1. /\ hits' = [p \in Peers |-> AgeHits(hits[p])]
        /\ accepted' = [p \in Peers |-> Aged(accepted[p])]
    BY ZenonT(30), <1>3 DEF RecordedTick, Tick
  <2>2. \A q \in Peers : RecordOK(hits'[q], accepted'[q])
    BY ZenonT(30), <1>a, <2>1, AgedRecord
  <2>3. /\ DOMAIN hits' = Peers /\ hits' = [q \in Peers |-> hits'[q]]
        /\ accepted' = [q \in Peers |-> accepted'[q]]
    BY <2>1
  <2> QED
    BY ZenonT(30), <1>b, <2>2, <2>3
<1>4. CASE UNCHANGED <<hits, accepted>>
  BY ZenonT(30), <1>4 DEF RateInv
<1> QED
  BY ZenonT(30), <1>1, <1>2, <1>3, <1>4
     DEF RateNext, RecordedOther, rateVars, managerVars

\* The record only observes: every behaviour with it is one of the manager.
THEOREM RecordObserves == RateSpec => Spec
<1>1. RateInit => Init
  BY DEF RateInit
<1>2. [RateNext]_rateVars => [Next]_managerVars
  BY ZenonT(30) DEF RateNext, RecordedRequest, RecordedForget, RecordedTick,
                    RecordedOther, rateVars, Next, PeerNext
<1> QED
  BY <1>1, <1>2, PTL DEF RateSpec, Spec

\* No window, wherever it starts, holds more accepted requests of one peer
\* than CONSENT_RATE_PER_MINUTE, unless the peer was forgotten inside it.
THEOREM RateLimitedHolds == RateSpec => []RateLimited
<1>1. RateInit => RateInv
  <2> SUFFICES ASSUME RateInit
               PROVE  RateInv
    OBVIOUS
  <2>1. hits = [p \in Peers |-> << >>] /\ accepted = [p \in Peers |-> << >>]
    BY DEF RateInit, Init
  <2>2. << >> \in Seq(0..RATE_WINDOW) /\ << >> \in Seq(Nat)
    OBVIOUS
  <2> QED
    BY ZenonT(30), <2>1, <2>2, EmptyRecord DEF RateInv
<1>2. RateInv => RateLimited
  BY ZenonT(30) DEF RateInv, RecordOK, SpacedIn, RateLimited
<1> QED
  BY <1>1, <1>2, NextRateInv, PTL DEF RateSpec
=============================================================================
