--------------------------- MODULE WorkerContract ---------------------------
(***************************************************************************)
(* What aom_util/aom_thread.h promises of an AVxWorker to the code that    *)
(* owns it: a job that was launched runs once, before the next sync() or   *)
(* end() returns, and sync() reports whether a job failed since the owner  *)
(* last cleared had_error.  Neither the mutex, the condition variable nor  *)
(* the thread of the implementation appears here.  AomThread implements    *)
(* this module; DecRowMt and EncRowMt use workers as it describes them.    *)
(***************************************************************************)
EXTENDS Naturals

VARIABLES
    up,        \* reset() succeeded and end() has not been called
    pending,   \* a launched job has not run yet
    err,       \* had_error
    outcome,   \* what the last sync() returned
    ran        \* how many jobs have run

vars == <<up, pending, err, outcome, ran>>

Init ==
    /\ up = FALSE /\ pending = FALSE /\ err = FALSE
    /\ outcome = TRUE /\ ran = 0

\* reset(): brings the worker up, or finds it up; either way had_error is 0.
\* A busy worker is then waited for, as by sync().
Reset ==
    /\ up' \in {up, TRUE}
    /\ err' = FALSE
    /\ UNCHANGED <<pending, outcome, ran>>

\* The owner writes had_error = 0 before it launches.
Clear ==
    /\ ~pending
    /\ err' = FALSE
    /\ UNCHANGED <<up, pending, outcome, ran>>

\* launch()
Launch ==
    /\ up /\ ~pending
    /\ pending' = TRUE
    /\ UNCHANGED <<up, err, outcome, ran>>

\* The hook of a launched job, or of execute(), returns ok.
Run(ok) ==
    /\ pending \/ ~up
    /\ pending' = FALSE
    /\ err' = (err \/ ~ok)
    /\ ran' = ran + 1
    /\ UNCHANGED <<up, outcome>>

\* sync() returns: no job is left, and the owner learns of every failure.
Sync ==
    /\ ~pending
    /\ outcome' = ~err
    /\ UNCHANGED <<up, pending, err, ran>>

\* end() returns: the last job has run.
End ==
    /\ ~pending
    /\ up' = FALSE
    /\ UNCHANGED <<pending, err, outcome, ran>>

Next ==
    \/ Reset \/ Clear \/ Launch \/ Sync \/ End
    \/ \E ok \in BOOLEAN : Run(ok)

\* A launched job runs without another call of the owner.
Spec == Init /\ [][Next]_vars /\ WF_vars(pending /\ \E ok \in BOOLEAN : Run(ok))
=============================================================================
