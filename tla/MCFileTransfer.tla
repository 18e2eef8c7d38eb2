--------------------------- MODULE MCFileTransfer ---------------------------
(* One or two uploads over at most two file connections, for TLC.          *)
EXTENDS FileTransfer

\* With one file in play two things may go wrong, with two files one.
MCMishaps == mishaps <= IF guest.offered > 1 THEN 1 ELSE 2
=============================================================================
