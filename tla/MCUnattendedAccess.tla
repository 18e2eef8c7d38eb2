------------------------- MODULE MCUnattendedAccess -------------------------
(* Two failures lock; the lockouts last 1, 2 and again 2 ticks, so the       *)
(* doubling and its cap are both met.  Three steps of codes are enough for   *)
(* one before, one at and one after the wall clock's.                        *)
EXTENDS UnattendedAccess
=============================================================================
