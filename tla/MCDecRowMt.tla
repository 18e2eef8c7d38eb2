----------------------------- MODULE MCDecRowMt -----------------------------
(* Two tiles, of two rows and of one row, on three threads: a tile shared   *)
(* by two workers, a tile that only one may work on, and a worker without   *)
(* work.  With a delay of two superblocks a row waits for the whole row     *)
(* above it, with none for the two superblocks above and to the right.      *)
EXTENDS DecRowMt

MCSbRows == <<2, 1>>
MCSbCols == <<3, 1>>
=============================================================================
