----------------------------- MODULE MCAomThread -----------------------------
(* Three jobs are enough for a job to be launched after one that failed,    *)
(* and after the worker was ended and reset.                                *)
EXTENDS AomThread
=============================================================================
