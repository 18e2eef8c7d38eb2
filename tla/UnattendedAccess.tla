-------------------------- MODULE UnattendedAccess --------------------------
(***************************************************************************)
(* The gate of unattended access on a host: the credentials in memory with *)
(* their lockout and spent codes (crates/core/src/unattended.rs), the      *)
(* keystore slots behind them (crates/runtime/src/unattended_store.rs) and *)
(* the settings handlers that change both (network.rs).  The keystore may  *)
(* refuse a write or fail to read, the process may restart, another        *)
(* process may edit the policy, and the wall clock may be set at will; the *)
(* lockout runs on the monotonic clock.                                    *)
(*                                                                         *)
(* A password is a number that stands for its hash, 0 for none; so is a    *)
(* second factor's secret.  The code of a step stands for itself, so two   *)
(* steps never share one.                                                  *)
(***************************************************************************)
EXTENDS Integers

CONSTANTS
    MaxFailedAttempts,  \* UNATTENDED_MAX_FAILED_ATTEMPTS
    LockoutDuration,    \* UNATTENDED_LOCKOUT_DURATION_SECS
    LockoutMax,         \* UNATTENDED_LOCKOUT_MAX_SECS
    LastStep            \* bound on the wall clock, in steps of the codes

ASSUME GateAssumption ==
    /\ MaxFailedAttempts \in Nat \ {0}
    /\ LockoutDuration \in Nat \ {0}
    /\ LockoutMax \in Nat /\ LockoutDuration <= LockoutMax
    /\ LastStep \in Nat

VARIABLES
    access,     \* UnattendedAccess: password_hash, totp_secret,
                \* failed_attempts, lockouts, last_code_step
    left,       \* time left until locked_until, 0 if it is not ahead
    store,      \* the keystore's password and second-factor slots
    wall,       \* the step the wall clock is in
    verdict,    \* history: whether this step judged credentials, and how
    since,      \* history: time since the last judged failure
    failures,   \* history: judged failures since an admission, a restart or the
                \* host's own decision to turn the gate off or set it up
    unread,     \* history: a reload that could not read the keystore has
                \* cleared the counters since then
    used,       \* history: steps whose codes let somebody in, of this secret
    two,        \* history: the host last asked for a second factor
    forgot,     \* history: a restart or the keystore cost the secret in force
    foreign     \* history: another process wrote since the last read

vars == <<access, left, store, wall, verdict, since, failures, unread, used,
          two, forgot, foreign>>

\* lockout_secs(): each lockout doubles the one before, up to the maximum.
lockout_secs(nth) ==
    LET doubled == LockoutDuration * 2 ^ (IF nth = 0 THEN 0 ELSE nth - 1)
    IN  IF doubled < LockoutMax THEN doubled ELSE LockoutMax

\* The count of lockouts matters only until they are as long as they get, and
\* the failed attempts only until they are at their maximum.
MaxLockouts ==
    CHOOSE n \in 1 .. LockoutMax + 1 :
        /\ lockout_secs(n) = LockoutMax
        /\ \A m \in 1 .. n - 1 : lockout_secs(m) < LockoutMax
Capped(n, cap) == IF n < cap THEN n ELSE cap

None == -1
Steps == 0 .. LastStep
Codes == Steps \cup {None}
Passwords == 0 .. 2
Secrets == 0 .. 3

Fresh == [password |-> 0, totp |-> 0, failed |-> 0, lockouts |-> 0,
          last_step |-> None]

\* Type invariant: the counters and the lockout keep within their limits, and
\* the spent step is one the clock can show.
TypeOK ==
    /\ access \in [password : Passwords, totp : Secrets,
                   failed : 0 .. MaxFailedAttempts, lockouts : 0 .. MaxLockouts,
                   last_step : Steps \cup {None}]
    /\ left \in 0 .. LockoutMax
    /\ store \in [password : Passwords, totp : Secrets]
    /\ wall \in Steps
    /\ verdict \in {"none", "refused", "admitted"}
    /\ since \in 0 .. LockoutMax
    /\ failures \in 0 .. MaxFailedAttempts + MaxLockouts
    /\ used \in SUBSET Steps
    /\ {unread, two, forgot, foreign} \subseteq BOOLEAN

\* A first start, with empty slots.
Init ==
    /\ access = Fresh /\ left = 0
    /\ store = [password |-> 0, totp |-> 0]
    /\ wall \in Steps
    /\ verdict = "none" /\ since = 0 /\ failures = 0 /\ unread = FALSE /\ used = {}
    /\ two = FALSE /\ forgot = FALSE /\ foreign = FALSE

\* A password other than `old`, and a secret that neither memory nor the
\* keystore holds.
NewPassword(old) == IF old = 1 THEN 2 ELSE 1
NewSecret == CHOOSE s \in Secrets \ {0} : s \notin {access.totp, store.totp}

-----------------------------------------------------------------------------
(* Operations of UnattendedAccess, on a value `a` of access.               *)

enabled(a) == a.password # 0

disable(a) == Fresh

set_totp_secret(a, secret) == [a EXCEPT !.totp = secret, !.last_step = None]

clear_totp_secret(a) == [a EXCEPT !.totp = 0]

\* Slip: the code last spent is good once more.
code_accepted_again(a, code) ==
    /\ code \in {s \in Steps : wall - 1 <= s /\ s <= wall + 1}
    /\ a.last_step = None \/ code >= a.last_step

\* matching_step() and the comparison with last_code_step in conclude(): the
\* wall clock's step or a neighbour, later than the last one spent.
code_accepted(a, code) ==
    /\ code \in {s \in Steps : wall - 1 <= s /\ s <= wall + 1}
    /\ a.last_step = None \/ code > a.last_step

code_ok(a, code) == a.totp = 0 \/ code_accepted(a, code)

\* Slip: the step after the one that was spent is recorded.
admitted_ahead(a, code) ==
    [a EXCEPT !.failed = 0, !.lockouts = 0,
              !.last_step = IF a.totp = 0 THEN @ ELSE code + 1]

\* conclude() after a success.
admitted(a, code) ==
    [a EXCEPT !.failed = 0, !.lockouts = 0,
              !.last_step = IF a.totp = 0 THEN @ ELSE code]

\* conclude() after a failure: at the limit every further one locks.
failed(a) ==
    LET n == Capped(a.failed + 1, MaxFailedAttempts)
    IN  [a EXCEPT !.failed = n,
                  !.lockouts = IF n < MaxFailedAttempts THEN @
                               ELSE Capped(@ + 1, MaxLockouts)]

-----------------------------------------------------------------------------
(* admit() and admit_proof(): check_open(), the two verdicts, conclude().  *)

Refuse ==
    /\ ~enabled(access) \/ left > 0
    /\ verdict' = "none"
    /\ UNCHANGED <<access, left, store, wall, since, failures, unread, used,
                   two, forgot, foreign>>

Admit(code) ==
    /\ enabled(access) /\ left = 0
    /\ code_ok(access, code)
    /\ access' = admitted(access, code)
    /\ verdict' = "admitted"
    /\ since' = 0 /\ failures' = 0 /\ unread' = FALSE
    /\ used' = IF access.totp = 0 THEN used ELSE used \cup {code}
    /\ UNCHANGED <<left, store, wall, two, forgot, foreign>>

\* A wrong password, or the right one with a wrong code.
Reject(password_ok) ==
    /\ enabled(access) /\ left = 0
    /\ password_ok => \E code \in Codes : ~code_ok(access, code)
    /\ access' = failed(access)
    /\ left' = IF access'.failed < MaxFailedAttempts THEN 0
               ELSE lockout_secs(access'.lockouts)
    /\ verdict' = "refused"
    /\ since' = 0
    /\ failures' = Capped(failures + 1, MaxFailedAttempts + MaxLockouts)
    /\ UNCHANGED <<store, wall, unread, used, two, forgot, foreign>>

-----------------------------------------------------------------------------
(* The host's settings.  A handler writes memory, then the keystore.       *)

\* A new value of access, with its lockout and its history; decided says that
\* the host turned the gate off or set it up, which starts the count afresh.
Remember(a, decided) ==
    /\ access' = a
    /\ verdict' = "none"
    /\ used' = IF a.totp = access.totp THEN used ELSE {}
    /\ left' = IF enabled(a) THEN left ELSE 0
    /\ IF decided THEN since' = 0 /\ failures' = 0 /\ unread' = FALSE
       ELSE /\ UNCHANGED <<since, failures>>
            /\ unread' = (unread \/ (enabled(access) /\ ~enabled(a)))
    /\ UNCHANGED wall

\* on_unattended_set_password(): a refused write restores the old hash, or
\* turns access off if there was none.
SetPassword(saved) ==
    /\ Remember(IF saved THEN [access EXCEPT !.password = NewPassword(@)]
                ELSE IF enabled(access) THEN access ELSE disable(access),
                saved /\ ~enabled(access))
    /\ store' = IF saved THEN [store EXCEPT !.password = access'.password] ELSE store
    /\ UNCHANGED <<two, forgot, foreign>>

\* Slip: the new secret stays in force though it was not stored.
TotpOnKept(saved) ==
    /\ enabled(access)
    /\ Remember(set_totp_secret(access, NewSecret), FALSE)
    /\ store' = IF saved THEN [store EXCEPT !.totp = NewSecret] ELSE store
    /\ two' = (two \/ saved)
    /\ forgot' = (forgot \/ ~saved)
    /\ UNCHANGED foreign

\* on_unattended_set_totp(true): a refused write puts the old secret back,
\* which forgets the step it had last spent.
TotpOn(saved) ==
    LET back == IF access.totp = 0 THEN clear_totp_secret(access)
                ELSE set_totp_secret(access, access.totp)
    IN  /\ enabled(access)
        /\ Remember(IF saved THEN set_totp_secret(access, NewSecret) ELSE back, FALSE)
        /\ store' = IF saved THEN [store EXCEPT !.totp = NewSecret] ELSE store
        /\ two' = (two \/ saved)
        /\ forgot' = (forgot \/ ~saved)
        /\ UNCHANGED foreign

\* on_unattended_set_totp(false): off in memory even if the keystore refuses.
TotpOff(saved) ==
    /\ Remember(clear_totp_secret(access), FALSE)
    /\ store' = IF saved THEN [store EXCEPT !.totp = 0] ELSE store
    /\ two' = FALSE
    /\ forgot' = (forgot \/ ~saved)
    /\ UNCHANGED foreign

\* on_unattended_disable(): UnattendedStore::clear() deletes the second factor,
\* the role and the password, in this order, until one is refused.
Disable(deleted) ==
    /\ Remember(disable(access), TRUE)
    /\ store' = [password |-> IF deleted = 3 THEN 0 ELSE store.password,
                 totp |-> IF deleted = 0 THEN store.totp ELSE 0]
    /\ two' = FALSE
    /\ forgot' = (forgot \/ deleted < 3)
    /\ UNCHANGED foreign

-----------------------------------------------------------------------------
(* Reading the keystore.                                                   *)

\* Slip: a second factor that cannot be read counts as none.
restore_password(password_read, totp_read) ==
    IF ~password_read \/ store.password = 0
    THEN Fresh
    ELSE [Fresh EXCEPT !.password = store.password,
                       !.totp = IF totp_read THEN store.totp ELSE 0]

\* UnattendedStore::restore() into a new UnattendedAccess: whatever cannot be
\* read turns the gate off.
restore(password_read, totp_read) ==
    IF ~password_read \/ store.password = 0 \/ ~totp_read
    THEN Fresh
    ELSE [Fresh EXCEPT !.password = store.password, !.totp = store.totp]

\* Slip: what was read replaces everything, the counters included.
reload_all(a, stored) == stored

\* UnattendedStore::reload(): the counters and the lockout stay, unless the
\* gate is off now.
reload(a, stored) ==
    LET kept == [a EXCEPT !.password = stored.password]
    IN  IF ~enabled(stored) THEN disable(a)
        ELSE IF stored.totp = 0 THEN clear_totp_secret(kept)
        ELSE IF stored.totp = a.totp THEN kept
        ELSE set_totp_secret(kept, stored.totp)

\* on_reload_policy(): a store that was read and holds no password is the
\* host's decision, one that could not be read is not.
ReloadPolicy(password_read, totp_read) ==
    /\ Remember(reload(access, restore(password_read, totp_read)),
                password_read /\ store.password = 0)
    /\ foreign' = FALSE
    /\ forgot' = (forgot \/ ~password_read \/ ~totp_read)
    /\ UNCHANGED <<store, two>>

\* The process starts again: the counters, the lockout and the spent steps
\* were in memory only.
Restart(password_read, totp_read) ==
    /\ access' = restore(password_read, totp_read)
    /\ left' = 0 /\ since' = 0 /\ failures' = 0 /\ unread' = FALSE /\ used' = {}
    /\ verdict' = "none"
    /\ foreign' = FALSE
    /\ forgot' = FALSE
    /\ UNCHANGED <<store, wall, two>>

\* The elevated settings window writes the policy from a process of its own.
OtherProcess ==
    /\ \/ /\ store' = [store EXCEPT !.password = NewPassword(@)]
          /\ UNCHANGED two
       \/ /\ store.password # 0
          /\ store' = [store EXCEPT !.totp = NewSecret]
          /\ two' = TRUE
       \/ /\ store' \in {[store EXCEPT !.totp = 0], [password |-> 0, totp |-> 0]}
          /\ two' = FALSE
    /\ verdict' = "none"
    /\ foreign' = TRUE
    /\ UNCHANGED <<access, left, wall, since, failures, unread, used, forgot>>

-----------------------------------------------------------------------------
(* The clocks.                                                             *)

Tick ==
    /\ left' = IF left = 0 THEN 0 ELSE left - 1
    /\ since' = Capped(since + 1, LockoutMax)
    /\ verdict' = "none"
    /\ UNCHANGED <<access, store, wall, failures, unread, used, two, forgot,
                   foreign>>

\* The wall clock goes on, or is set.
SetClock ==
    /\ wall' \in Steps
    /\ verdict' = "none"
    /\ UNCHANGED <<access, left, store, since, failures, unread, used, two,
                   forgot, foreign>>

Next ==
    \/ Refuse
    \/ \E code \in Codes : Admit(code)
    \/ \E password_ok \in BOOLEAN : Reject(password_ok)
    \/ \E saved \in BOOLEAN : SetPassword(saved) \/ TotpOn(saved) \/ TotpOff(saved)
    \/ \E deleted \in 0 .. 3 : Disable(deleted)
    \/ \E p, t \in BOOLEAN : ReloadPolicy(p, t) \/ Restart(p, t)
    \/ OtherProcess
    \/ Tick
    \/ SetClock

Spec == Init /\ [][Next]_vars

-----------------------------------------------------------------------------
(* Properties.                                                             *)

\* Once the limit is reached no credentials are judged before the lockout that
\* the last failure earned is over, each twice as long as the one before: not
\* after a password is set, the second factor changed, or the policy read
\* again ("re-reading the policy must never be a way to get more guesses").
\* The one way out the code leaves is in the antecedent: a reload that cannot
\* read the keystore turns the gate off and its counters go with it, and the
\* next one that can read it brings the gate back without them.
GuessesAreSpaced ==
    [][verdict' # "none" /\ failures >= MaxFailedAttempts /\ ~unread =>
          since >= lockout_secs(failures - MaxFailedAttempts + 1)]_vars

\* An admission under a second factor spends a code that had not been used,
\* however the clock was set in between, as long as the process runs and the
\* keystore has not made it drop and take up the secret again.
CodeSpentOnce ==
    [][verdict' = "admitted" /\ access.totp # 0 /\ ~forgot => used' # used]_vars

\* Reading the keystore, at a start or for a changed policy, never makes a gate
\* with a password alone of one the host set up with two factors, whatever
\* cannot be read ("exactly the silent downgrade §18 forbids").
FactorNotDropped ==
    [][/\ two /\ enabled(access')
       /\ \E p, t \in BOOLEAN : ReloadPolicy(p, t) \/ Restart(p, t)
       => access'.totp # 0]_vars

\* What is in force is what a restart would bring back: a handler whose write
\* is refused leaves no credential that only this process knows.
InForceIsStored ==
    /\ TypeOK
    /\ ~foreign => /\ enabled(access) => access.password = store.password
                   /\ access.totp # 0 => access.totp = store.totp
=============================================================================
