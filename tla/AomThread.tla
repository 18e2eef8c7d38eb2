------------------------------ MODULE AomThread ------------------------------
(***************************************************************************)
(* One AVxWorker of libaom: the owner's calls of the worker interface and  *)
(* the thread they drive, over one mutex and one condition variable that   *)
(* both sides wait on (aom_util/aom_thread.c).  A step is what one side    *)
(* does between two points where the other can run.                        *)
(***************************************************************************)
EXTENDS Naturals, FiniteSets

CONSTANT MaxJobs    \* bound on the jobs an owner launches or executes

ASSUME JobsAssumption == MaxJobs \in Nat

VARIABLES
    status,     \* worker->status_
    impl,       \* worker->impl_ is not NULL
    mutex,      \* who holds impl_->mutex_
    asleep,     \* who is blocked in pthread_cond_wait on impl_->condition_
    had_error,  \* worker->had_error
    owner,      \* where the owner is in a call
    want,       \* new_status of the change_state() the owner is in
    thread,     \* where the thread is in thread_loop()
    synced,     \* the owner has waited for what it last launched
    launched, ran, \* jobs handed over, and calls of the hook that returned
    outcome     \* what the last sync() returned

vars == <<status, impl, mutex, asleep, had_error, owner, want, thread,
          synced, launched, ran, outcome>>

Sides == {"owner", "thread"}
Statuses == {"NOT_OK", "OK", "WORKING"}

\* Type invariant: whoever looks at status_ holds the mutex, and whoever waits
\* on the condition variable has given it up.
TypeOK ==
    /\ status \in Statuses /\ want \in Statuses
    /\ impl \in BOOLEAN /\ had_error \in BOOLEAN
    /\ synced \in BOOLEAN /\ outcome \in BOOLEAN
    /\ mutex \in Sides \cup {"free"}
    /\ asleep \in SUBSET Sides
    /\ owner \in {"idle", "lock", "test", "sleep", "return", "join"}
    /\ thread \in {"none", "lock", "test", "sleep", "run", "relock", "gone"}
    /\ launched \in 0 .. MaxJobs /\ ran \in 0 .. MaxJobs
    /\ mutex = "owner" <=> owner = "test"
    /\ mutex = "thread" <=> thread = "test"
    /\ "owner" \in asleep <=> owner = "sleep"
    /\ "thread" \in asleep <=> thread = "sleep"

\* init()
Init ==
    /\ status = "NOT_OK" /\ impl = FALSE /\ had_error = FALSE
    /\ mutex = "free" /\ asleep = {}
    /\ owner = "idle" /\ want = "OK" /\ thread = "none"
    /\ synced = TRUE /\ launched = 0 /\ ran = 0 /\ outcome = TRUE

-----------------------------------------------------------------------------
(* pthread_cond_wait gives the mutex up and sleeps; a woken side has to    *)
(* take the mutex again before it looks at status_.                        *)

\* Slip: the side that is woken goes on without the mutex.
SignalledUnlocked(o, t) ==
    IF asleep = {}
    THEN owner' = o /\ thread' = t /\ UNCHANGED asleep
    ELSE \E s \in asleep :
            /\ asleep' = asleep \ {s}
            /\ owner' = IF s = "owner" THEN "test" ELSE o
            /\ thread' = IF s = "thread" THEN "test" ELSE t

\* pthread_cond_signal: one sleeper, if there is one, goes back for the mutex.
Signalled(o, t) ==
    IF asleep = {}
    THEN owner' = o /\ thread' = t /\ UNCHANGED asleep
    ELSE \E s \in asleep :
            /\ asleep' = asleep \ {s}
            /\ owner' = IF s = "owner" THEN "lock" ELSE o
            /\ thread' = IF s = "thread" THEN "lock" ELSE t

\* A sleeper may also wake unasked.
SpuriousWakeup ==
    /\ \E s \in asleep :
          /\ asleep' = asleep \ {s}
          /\ owner' = IF s = "owner" THEN "lock" ELSE owner
          /\ thread' = IF s = "thread" THEN "lock" ELSE thread
    /\ UNCHANGED <<status, impl, mutex, had_error, want, synced, launched,
                   ran, outcome>>

-----------------------------------------------------------------------------
(* The owner.  libaom launches and executes only a worker that it has      *)
(* synchronised with; it may reset(), sync() or end() at any time.         *)

\* change_state(): a no-op on a worker that has no thread.
change_state(new) ==
    /\ owner' = IF impl THEN "lock" ELSE "return"
    /\ want' = new

\* reset() of a worker that is not up: the thread starts, or an allocation or
\* pthread call fails and impl_ is NULL again.  Of a worker that is up, it
\* clears had_error; of a busy one, it is a sync() as well.
Reset(created) ==
    /\ owner = "idle"
    /\ had_error' = FALSE
    /\ IF status = "NOT_OK" /\ created
       THEN impl' = TRUE /\ status' = "OK" /\ thread' = "lock"
       ELSE UNCHANGED <<impl, status, thread>>
    /\ IF status = "WORKING" THEN change_state("OK") ELSE UNCHANGED <<owner, want>>
    /\ UNCHANGED <<mutex, asleep, synced, launched, ran, outcome>>

Sync ==
    /\ owner = "idle"
    /\ change_state("OK")
    /\ UNCHANGED <<status, impl, mutex, asleep, had_error, thread, synced,
                   launched, ran, outcome>>

\* The owner clears had_error, sets the hook and launches.
Launch ==
    /\ owner = "idle" /\ synced /\ impl
    /\ launched < MaxJobs
    /\ had_error' = FALSE
    /\ synced' = FALSE
    /\ launched' = launched + 1
    /\ change_state("WORKING")
    /\ UNCHANGED <<status, impl, mutex, asleep, thread, ran, outcome>>

\* Slip: the last hook alone decides had_error.
ExecuteForgets(ok) ==
    /\ owner = "idle" /\ ~impl
    /\ launched < MaxJobs
    /\ launched' = launched + 1
    /\ ran' = ran + 1
    /\ had_error' = ~ok
    /\ UNCHANGED <<status, impl, mutex, asleep, owner, want, thread, synced,
                   outcome>>

\* execute() runs the hook on the owner's own thread (worker 0).
Execute(ok) ==
    /\ owner = "idle" /\ ~impl
    /\ launched < MaxJobs
    /\ launched' = launched + 1
    /\ ran' = ran + 1
    /\ had_error' = (had_error \/ ~ok)
    /\ UNCHANGED <<status, impl, mutex, asleep, owner, want, thread, synced,
                   outcome>>

End ==
    /\ owner = "idle" /\ impl
    /\ change_state("NOT_OK")
    /\ UNCHANGED <<status, impl, mutex, asleep, had_error, thread, synced,
                   launched, ran, outcome>>

OwnerLock ==
    /\ owner = "lock" /\ mutex = "free"
    /\ mutex' = "owner" /\ owner' = "test"
    /\ UNCHANGED <<status, impl, asleep, had_error, want, thread, synced,
                   launched, ran, outcome>>

\* Slip: the new status is assigned and nobody is told.
OwnerTestSilent ==
    /\ owner = "test"
    /\ mutex' = "free"
    /\ \/ /\ status = "WORKING"
          /\ asleep' = asleep \cup {"owner"}
          /\ owner' = "sleep"
          /\ UNCHANGED status
       \/ /\ status # "WORKING"
          /\ owner' = "return"
          /\ status' = IF status = "OK" THEN want ELSE status
          /\ UNCHANGED asleep
    /\ UNCHANGED <<impl, had_error, want, thread, synced, launched, ran, outcome>>

\* The loop of change_state(): wait while the worker is busy, then assign the
\* new status, signal and unlock.
OwnerTest ==
    /\ owner = "test"
    /\ mutex' = "free"
    /\ \/ /\ status = "WORKING"
          /\ asleep' = asleep \cup {"owner"}
          /\ owner' = "sleep"
          /\ UNCHANGED <<status, thread>>
       \/ /\ status = "OK" /\ want # "OK"
          /\ status' = want
          /\ Signalled("return", thread)
       \/ /\ status = "NOT_OK" \/ (status = "OK" /\ want = "OK")
          /\ owner' = "return"
          /\ UNCHANGED <<status, thread, asleep>>
    /\ UNCHANGED <<impl, had_error, want, synced, launched, ran, outcome>>

\* sync() reads had_error after change_state(); end() joins the thread.
OwnerReturn ==
    /\ owner = "return"
    /\ owner' = IF want = "NOT_OK" THEN "join" ELSE "idle"
    /\ IF want = "OK"
       THEN outcome' = ~had_error /\ synced' = TRUE
       ELSE UNCHANGED <<outcome, synced>>
    /\ UNCHANGED <<status, impl, mutex, asleep, had_error, want, thread,
                   launched, ran>>

\* Slip: end() frees impl_ and does not wait for the thread.
JoinNot ==
    /\ owner = "join"
    /\ impl' = FALSE
    /\ owner' = "idle" /\ synced' = TRUE
    /\ UNCHANGED <<status, mutex, asleep, had_error, want, thread, launched,
                   ran, outcome>>

\* pthread_join() returns, and impl_ is freed.
Join ==
    /\ owner = "join" /\ thread = "gone"
    /\ impl' = FALSE /\ thread' = "none"
    /\ owner' = "idle" /\ synced' = TRUE
    /\ UNCHANGED <<status, mutex, asleep, had_error, want, launched, ran,
                   outcome>>

-----------------------------------------------------------------------------
(* thread_loop()                                                           *)

ThreadLock ==
    /\ thread = "lock" /\ mutex = "free"
    /\ mutex' = "thread" /\ thread' = "test"
    /\ UNCHANGED <<status, impl, asleep, had_error, owner, want, synced,
                   launched, ran, outcome>>

\* Slip: the loop is not left when the worker is to finish.
ThreadTestForever ==
    /\ thread = "test"
    /\ mutex' = "free"
    /\ \/ /\ status = "OK"
          /\ thread' = "sleep" /\ asleep' = asleep \cup {"thread"}
       \/ /\ status = "WORKING"
          /\ thread' = "run" /\ UNCHANGED asleep
       \/ /\ status = "NOT_OK"
          /\ thread' = "lock" /\ UNCHANGED asleep
    /\ UNCHANGED <<status, impl, had_error, owner, want, synced, launched,
                   ran, outcome>>

ThreadTest ==
    /\ thread = "test"
    /\ mutex' = "free"
    /\ \/ /\ status = "OK"
          /\ thread' = "sleep" /\ asleep' = asleep \cup {"thread"}
       \/ /\ status = "WORKING"
          /\ thread' = "run" /\ UNCHANGED asleep
       \/ /\ status = "NOT_OK"
          /\ thread' = "gone" /\ UNCHANGED asleep
    /\ UNCHANGED <<status, impl, had_error, owner, want, synced, launched,
                   ran, outcome>>

\* execute() without the mutex: the hook runs and may fail.
ThreadRun(ok) ==
    /\ thread = "run"
    /\ ran' = ran + 1
    /\ had_error' = (had_error \/ ~ok)
    /\ thread' = "relock"
    /\ UNCHANGED <<status, impl, mutex, asleep, owner, want, synced, launched,
                   outcome>>

\* Slip: the status is left at WORKING.
ThreadDoneBusy ==
    /\ thread = "relock" /\ mutex = "free"
    /\ mutex' = "thread"
    /\ Signalled(owner, "test")
    /\ UNCHANGED <<status, impl, had_error, want, synced, launched, ran, outcome>>

\* The thread takes the mutex back, reports OK, signals and looks again.
ThreadDone ==
    /\ thread = "relock" /\ mutex = "free"
    /\ mutex' = "thread"
    /\ status' = "OK"
    /\ Signalled(owner, "test")
    /\ UNCHANGED <<impl, had_error, want, synced, launched, ran, outcome>>
-----------------------------------------------------------------------------

OwnerCalls ==
    \/ Sync \/ Launch \/ End
    \/ \E created \in BOOLEAN : Reset(created)
    \/ \E ok \in BOOLEAN : Execute(ok)

OwnerSteps == OwnerLock \/ OwnerTest \/ OwnerReturn \/ Join

ThreadSteps ==
    ThreadLock \/ ThreadTest \/ ThreadDone \/ \E ok \in BOOLEAN : ThreadRun(ok)

Next == OwnerCalls \/ OwnerSteps \/ ThreadSteps \/ SpuriousWakeup

\* Both threads are scheduled; a mutex that is free again and again is taken
\* in the end.  Nothing is assumed of the calls the owner makes, nor that a
\* sleeper wakes unasked.
Fairness ==
    /\ SF_vars(OwnerLock) /\ WF_vars(OwnerTest) /\ WF_vars(OwnerReturn)
    /\ WF_vars(Join)
    /\ SF_vars(ThreadLock) /\ WF_vars(ThreadTest) /\ SF_vars(ThreadDone)
    /\ WF_vars(\E ok \in BOOLEAN : ThreadRun(ok))

Spec == Init /\ [][Next]_vars /\ Fairness

-----------------------------------------------------------------------------
(* Properties                                                              *)

\* One condition variable serves both directions, and it is signalled, never
\* broadcast: a signal would be lost if it could reach the side it is not
\* meant for.  It cannot, because owner and thread are never asleep together:
\* the thread sleeps only while status_ is OK and the owner only while it is
\* WORKING, and whoever changes it wakes the other.
NoCrossedWait ==
    /\ TypeOK
    /\ Cardinality(asleep) <= 1
    /\ "thread" \in asleep => status = "OK"
    /\ "owner" \in asleep => status = "WORKING"

\* What a return means.  Each launch runs the hook once: after sync() or end()
\* nothing launched is outstanding, and nothing ever runs that was not
\* launched.  And once end() has freed impl_ there is no thread left that could
\* still use the mutex or the condition variable.
ReturnMeansDone ==
    /\ ran <= launched
    /\ owner = "idle" /\ synced => ran = launched
    /\ ~impl => thread = "none" /\ mutex = "free" /\ asleep = {}

\* Every call of sync(), launch() and end() returns, whatever the order in
\* which the two sides reach the mutex.
CallsReturn == owner # "idle" ~> owner = "idle"

\* The thread, the mutex and the condition variable implement the contract
\* the users of the worker interface rely on.
Contract == INSTANCE WorkerContract WITH
    up <- impl /\ owner # "join",
    pending <- status = "WORKING" /\ thread # "relock",
    err <- had_error

ContractSpec == Contract!Spec
=============================================================================
