----------------------------- MODULE MCEncRowMt -----------------------------
(***************************************************************************)
(* Frames for TLC: one tile wide enough for two workers, with the late     *)
(* wait for the top-right superblock; such a tile above a lower one,       *)
(* which is done before it and frees a third worker, with intra block      *)
(* copy; three rows in two tile columns with pipelined deblocking by two   *)
(* workers, nsync 1 or 2; and three tiles above each other deblocked by    *)
(* three workers, so that the horizontal edges of a row are taken up       *)
(* while the vertical ones of the row above are not over.                  *)
(***************************************************************************)
EXTENDS EncRowMt

Unfiltered(h, w, wt, d) ==
    [heights |-> h, widths |-> w, wait |-> wt, delay |-> d, lpf |-> FALSE,
     planes |-> <<>>, filter_cols |-> 1, nsync |-> 1]
Filtered(h, w, ps, cs, n) ==
    [heights |-> h, widths |-> w, wait |-> 1, delay |-> 0, lpf |-> TRUE,
     planes |-> ps, filter_cols |-> cs, nsync |-> n]

FramesDef ==
    {Unfiltered(<<2>>, <<3>>, 1, 0), Unfiltered(<<2, 1>>, <<3>>, 0, 2),
     Filtered(<<3>>, <<1, 1>>, <<0>>, 2, 1), Filtered(<<3>>, <<1, 1>>, <<0>>, 2, 2),
     Filtered(<<1, 1, 1>>, <<1>>, <<0>>, 1, 1)}
=============================================================================
