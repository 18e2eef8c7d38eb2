------------------------ MODULE SessionManagerLemmas ------------------------
(***************************************************************************)
(* What the operators of SessionManager return: the consent queue and the  *)
(* sliding window of the limiter.                                          *)
(***************************************************************************)
EXTENDS SessionManager, FiniteSetTheorems, SequenceTheorems, TLAPS

-----------------------------------------------------------------------------
(* The operators the manager is built from.                                *)

\* ConsentQueue::remove shortens the queue by at most one request, keeps it a
\* queue of tickets, and leaves a numbered queue numbered.
LEMMA RemoveLemma ==
    ASSUME NEW q \in Seq(Ticket), NEW peer \in Peers
    PROVE  /\ remove(q, peer) \in Seq(Ticket)
           /\ Len(remove(q, peer)) <= Len(q)
           /\ (\A i \in 1..Len(q) : q[i].queue_position = i - 1) =>
                 \A i \in 1..Len(remove(q, peer)) :
                     remove(q, peer)[i].queue_position = i - 1
<1>1. CASE ~contains(q, peer)
  BY <1>1 DEF remove
<1>2. CASE contains(q, peer)
  <2> DEFINE at == position(q, peer)
             r == [i \in 1..(Len(q) - 1) |->
                     [q[IF i < at THEN i ELSE i + 1]
                         EXCEPT !.queue_position = i - 1]]
  <2> HIDE DEF at
  <2>1. Len(q) \in Nat \ {0}
    BY <1>2 DEF contains
  <2>2. \A i \in 1..(Len(q) - 1) :
            /\ r[i] \in Ticket
            /\ r[i].queue_position = i - 1
    <3> SUFFICES ASSUME NEW i \in 1..(Len(q) - 1)
                 PROVE  r[i] \in Ticket /\ r[i].queue_position = i - 1
      OBVIOUS
    <3> DEFINE j == IF i < at THEN i ELSE i + 1
    <3>1. j \in 1..Len(q)
      BY <2>1
    <3>2. q[j] \in Ticket
      BY <3>1
    <3>3. i - 1 \in Nat
      BY <2>1
    <3>4. r[i] = [q[j] EXCEPT !.queue_position = i - 1]
      OBVIOUS
    <3> QED
      BY SMTT(30), <3>2, <3>3, <3>4 DEF Ticket
  <2>3. r \in Seq(Ticket) /\ Len(r) = Len(q) - 1
    BY <2>1, <2>2, IsASeq
  <2>4. remove(q, peer) = r
    BY <1>2 DEF remove, at
  <2> QED
    BY <2>1, <2>2, <2>3, <2>4
<1> QED
  BY <1>1, <1>2

\* push_as keeps a queue of tickets and numbers the newcomer by its place.
LEMMA PushLemma ==
    ASSUME NEW q \in Seq(Ticket), NEW peer \in Peers, NEW role \in Roles,
           NEW kind \in SessionKinds
    PROVE  /\ push_as(q, peer, role, kind) \in Seq(Ticket)
           /\ Len(push_as(q, peer, role, kind)) = Len(q) + 1
           /\ (\A i \in 1..Len(q) : q[i].queue_position = i - 1) =>
                 \A i \in 1..(Len(q) + 1) :
                     push_as(q, peer, role, kind)[i].queue_position = i - 1
<1> DEFINE t == [peer |-> peer, requested_role |-> role, kind |-> kind,
                 queue_position |-> Len(q)]
<1>1. t \in Ticket /\ t.queue_position = Len(q) /\ Len(q) \in Nat
  BY DEF Ticket
<1> HIDE DEF t
<1>2. push_as(q, peer, role, kind) = Append(q, t)
  BY DEF push_as, t
<1> QED
  BY <1>1, <1>2, AppendProperties

\* Of a history with the oldest first, retain keeps the youngest hits and drops
\* only hits that have left the window.
LEMMA RetainLemma ==
    ASSUME NEW h \in Seq(0..RATE_WINDOW)
    PROVE  /\ retain(h) \in Seq(0..RATE_WINDOW)
           /\ Len(retain(h)) <= Len(h)
           /\ \A i \in 1..Len(retain(h)) :
                  retain(h)[i] = h[i + (Len(h) - Len(retain(h)))]
           /\ OldestFirst(h) =>
                  \A i \in 1..(Len(h) - Len(retain(h))) : h[i] >= RATE_WINDOW
<1> DEFINE c == Cardinality(expired(h))
<1>1. Len(h) \in Nat
  OBVIOUS
<1>2. /\ IsFiniteSet(1..Len(h))
      /\ Cardinality(1..Len(h)) = Len(h)
  BY <1>1, FS_Interval
<1>3. expired(h) \subseteq 1..Len(h)
  BY DEF expired
<1>4. IsFiniteSet(expired(h)) /\ c \in Nat /\ c <= Len(h)
  BY <1>2, <1>3, FS_Subset, FS_CardinalityType
<1>5. ASSUME OldestFirst(h), NEW i \in 1..c
      PROVE  h[i] >= RATE_WINDOW
  <2>1. i \in 1..Len(h)
    BY <1>1, <1>4
  <2> SUFFICES ASSUME ~(h[i] >= RATE_WINDOW)
               PROVE  FALSE
    OBVIOUS
  <2>2. \A j \in 1..Len(h) : h[j] \in 0..RATE_WINDOW
    BY ZenonT(30), ElementOfSeq
  <2>3. ASSUME NEW j \in expired(h)
        PROVE  j \in 1..(i - 1)
    <3>1. j \in 1..Len(h) /\ h[j] >= RATE_WINDOW
      BY DEF expired
    <3>2. i <= j => h[i] >= h[j]
      BY <1>5, <2>1, <3>1 DEF OldestFirst
    <3>3. h[i] \in Int /\ h[j] \in Int /\ RATE_WINDOW \in Int
      BY <2>1, <2>2, <3>1, ConsentAssumption
    <3> QED
      BY <2>1, <3>1, <3>2, <3>3
  <2>4. /\ IsFiniteSet(1..(i - 1))
        /\ Cardinality(1..(i - 1)) = i - 1
    <3>1. i \in Int /\ 1 <= i
      BY <2>1
    <3>2. 1 \in Int /\ i - 1 \in Int /\ (1 > i - 1 => i - 1 = 0) /\ i - 1 - 1 + 1 = i - 1
      BY <3>1
    <3> QED
      BY <3>2, FS_Interval
  <2>5. c <= i - 1
    BY <2>3, <2>4, FS_Subset
  <2> QED
    BY <1>4, <2>5
<1> HIDE DEF c
<1>6. \A i \in (c + 1)..Len(h) : h[i] \in 0..RATE_WINDOW
  <2>1. (c + 1)..Len(h) \subseteq 1..Len(h)
    BY <1>1, <1>4
  <2> QED
    BY ZenonT(30), <2>1, ElementOfSeq
<1>7. retain(h) = SubSeq(h, c + 1, Len(h))
  BY DEF retain, c
<1>8. /\ retain(h) \in Seq(0..RATE_WINDOW)
      /\ Len(retain(h)) = IF c + 1 <= Len(h) THEN Len(h) - (c + 1) + 1 ELSE 0
      /\ \A i \in 1..(Len(h) - (c + 1) + 1) : retain(h)[i] = h[(c + 1) + i - 1]
  BY <1>1, <1>4, <1>6, <1>7, SubSeqProperties
<1>9. Len(retain(h)) = Len(h) - c
  BY <1>1, <1>4, <1>8
<1>10. Len(h) - Len(retain(h)) = c /\ Len(retain(h)) <= Len(h)
  BY <1>1, <1>4, <1>9
<1>11. \A i \in 1..Len(retain(h)) : retain(h)[i] = h[i + c]
  BY <1>1, <1>4, <1>8, <1>9
<1> QED
  BY ZenonT(30), <1>5, <1>8, <1>10, <1>11

\* check_at keeps a history of ages.
LEMMA CheckLemma ==
    ASSUME NEW h \in Seq(0..RATE_WINDOW)
    PROVE  check_at(h) \in Seq(0..RATE_WINDOW)
<1>1. retain(h) \in Seq(0..RATE_WINDOW) /\ 0 \in 0..RATE_WINDOW
  BY RetainLemma, ConsentAssumption
<1> QED
  BY <1>1, AppendProperties DEF check_at

\* A tick keeps a history's length and its types.
LEMMA AgeLemma ==
    ASSUME NEW h \in Seq(0..RATE_WINDOW)
    PROVE  AgeHits(h) \in Seq(0..RATE_WINDOW) /\ Len(AgeHits(h)) = Len(h)
<1> DEFINE a == [i \in 1..Len(h) |-> IF h[i] < RATE_WINDOW THEN h[i] + 1 ELSE h[i]]
<1>1. \A i \in 1..Len(h) : h[i] \in 0..RATE_WINDOW
  BY ZenonT(30), ElementOfSeq
<1>2. \A i \in 1..Len(h) : a[i] \in 0..RATE_WINDOW
  BY <1>1, ConsentAssumption
<1>3. a \in Seq(0..RATE_WINDOW) /\ Len(a) = Len(h)
  BY <1>2, IsASeq, LenProperties
<1> QED
  BY <1>3 DEF AgeHits
=============================================================================
