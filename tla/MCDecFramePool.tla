--------------------------- MODULE MCDecFramePool ---------------------------
(* Two reference slots, as many as it takes for one frame to be in several   *)
(* slots, in one and in the output, or in the output only; and the fewest    *)
(* buffers that leave one for a new frame: a leak shows at once.             *)
EXTENDS DecFramePool
=============================================================================
