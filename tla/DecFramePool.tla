---------------------------- MODULE DecFramePool ----------------------------
(***************************************************************************)
(* The frame buffers of the AV1 decoder of a guest, across the temporal    *)
(* units it is given (libaom: av1/av1_dx_iface.c, av1/decoder/decoder.c,   *)
(* obu.c and decodeframe.c; the shim decodes serially and outputs one      *)
(* layer).  A buffer is shared by counting: the frame being decoded, every *)
(* reference slot and the output hold it.  A unit may be cut short or      *)
(* damaged anywhere, so every stage may fail, by aom_internal_error() and  *)
(* longjmp or by an error code; what a stage has changed by then stays.    *)
(*                                                                         *)
(* Left to chance: what the bits of a unit say, and what a buffer that is  *)
(* made grey keeps of the frame it held long before.  Which tiles of a     *)
(* frame are decoded by whom is in DecRowMt.                               *)
(***************************************************************************)
EXTENDS Naturals, FiniteSets, FiniteSetsExt

CONSTANTS
    RefFrames,      \* REF_FRAMES
    FrameBuffers    \* pool->num_frame_bufs

ASSUME PoolAssumption ==
    /\ RefFrames \in Nat \ {0}
    /\ FrameBuffers \in Nat /\ FrameBuffers >= RefFrames + 2

VARIABLES
    pc,             \* how far the call of aom_shim_dec_decode() has come
    bufs,           \* pool->frame_bufs
    ref_frame_map,  \* cm->ref_frame_map, NULL where empty
    cur_frame,      \* cm->cur_frame
    output,         \* pbi->output_frames[0], NULL if num_output_frames is 0
    picture,        \* the buffer of the picture the shim has handed out
    need_resync,    \* pbi->need_resync
    ctx_resync,     \* ctx->need_resync
    si,             \* ctx->si.h is set
    sequence,       \* sequence_header_ready and sequence_header_changed
    hdr,            \* what the header of the frame being decoded says
    slot,           \* the next reference slot whose order hint is read
    intact          \* history: an intra frame was decoded since the last failure

vars == <<pc, bufs, ref_frame_map, cur_frame, output, picture, need_resync,
          ctx_resync, si, sequence, hdr, slot, intact>>

NULL == 0
Slots == 1 .. RefFrames
Buffers == 1 .. FrameBuffers
FrameTypes == {"KEY", "INTRA_ONLY", "INTER"}
Headers ==
    [type : FrameTypes, existing : BOOLEAN, show : BOOLEAN,
     refresh : SUBSET Slots]
NoHeader ==
    [type |-> "KEY", existing |-> FALSE, show |-> FALSE, refresh |-> {}]

\* `raw`: raw_frame_buffer.data is set, and `pixels` is what that memory holds.
RefCntBuffer ==
    [ref_count : 0 .. RefFrames + 2, raw : BOOLEAN,
     pixels : {"none", "partial", "whole"},
     key : BOOLEAN, showable_frame : BOOLEAN]
Unused ==
    [ref_count |-> 0, raw |-> FALSE, pixels |-> "none", key |-> FALSE,
     showable_frame |-> FALSE]

\* Type invariant: no count exceeds the number of possible holders.
TypeOK ==
    /\ pc \in {"idle", "decode_one", "obus", "slots", "setup", "tiles",
               "update", "next"}
    /\ bufs \in [Buffers -> RefCntBuffer]
    /\ ref_frame_map \in [Slots -> Buffers \cup {NULL}]
    /\ {cur_frame, output, picture} \subseteq Buffers \cup {NULL}
    /\ {need_resync, ctx_resync, si, intact} \subseteq BOOLEAN
    /\ sequence \in {"none", "ready", "changed"}
    /\ hdr \in Headers
    /\ slot \in Slots

\* decoder_init(), and av1_decoder_create() on the first unit.
Init ==
    /\ pc = "idle"
    /\ bufs = [i \in Buffers |-> Unused]
    /\ ref_frame_map = [s \in Slots |-> NULL]
    /\ cur_frame = NULL /\ output = NULL /\ picture = NULL
    /\ need_resync = TRUE /\ ctx_resync = TRUE
    /\ si = FALSE /\ sequence = "none"
    /\ hdr = NoHeader /\ slot = 1
    /\ intact = FALSE

-----------------------------------------------------------------------------
(* Counting.  `b` and `map` stand for values of bufs and ref_frame_map.    *)

\* Slip: the memory is kept when the last reference goes.
ReleasedKept(buf, n) == [buf EXCEPT !.ref_count = @ - n]

\* `n` calls of decrease_ref_count(): the last one gives the memory back.
Released(buf, n) ==
    IF n > 0 /\ buf.ref_count = n
    THEN Unused
    ELSE [buf EXCEPT !.ref_count = @ - n]

decrease_ref_count(b, i) ==
    IF i = NULL THEN b ELSE [b EXCEPT ![i] = Released(@, 1)]

\* Drop the references of the slots `S`.
Emptied(b, map, S) ==
    [i \in Buffers |-> Released(b[i], Cardinality({s \in S : map[s] = i}))]

\* Slip: the last buffer of the pool is never looked at.
FreeBuffersButLast(b) == {i \in Buffers : i < FrameBuffers /\ b[i].ref_count = 0}

FreeBuffers(b) == {i \in Buffers : b[i].ref_count = 0}

\* get_free_fb(), where there is one.
get_free_fb(b) == Min(FreeBuffers(b))

Taken(b) == [b EXCEPT ![get_free_fb(b)].ref_count = 1]

\* assign_frame_buffer_p(): the old count is lowered directly.
assign_frame_buffer_p(b, old, new) ==
    [b EXCEPT ![old].ref_count = @ - 1, ![new].ref_count = @ + 1]

-----------------------------------------------------------------------------
(* A call: decoder_decode(), one decode_one() after another.               *)

\* What the last call put out goes, and with it the picture the shim showed.
release_pending_output_frames ==
    /\ bufs' = decrease_ref_count(bufs, output)
    /\ output' = NULL /\ picture' = NULL

\* decoder_decode() releases the output before it looks at the data; a unit
\* without data it refuses, and the shim then asks for no picture.
Decode(empty) ==
    /\ pc = "idle"
    /\ release_pending_output_frames
    /\ pc' = IF empty THEN "idle" ELSE "decode_one"
    /\ UNCHANGED <<ref_frame_map, cur_frame, need_resync, ctx_resync, si,
                   sequence, hdr, slot, intact>>

\* decode_one() before the stream is known: decoder_peek_si_internal() finds
\* an error, or no intra frame, and may know the picture's height by then.
PeekFails ==
    /\ pc = "decode_one" /\ ~si
    /\ si' \in BOOLEAN
    /\ pc' = "idle"
    /\ UNCHANGED <<bufs, ref_frame_map, cur_frame, output, picture,
                   need_resync, ctx_resync, sequence, hdr, slot,
                   intact>>

\* Slip: the next frame is decoded as if nothing had happened.
FailedUnnoticed(b, cur) ==
    /\ bufs' = decrease_ref_count(b, cur)
    /\ cur_frame' = NULL
    /\ need_resync' = need_resync
    /\ intact' = FALSE
    /\ hdr' = NoHeader /\ slot' = 1
    /\ pc' = "idle"
    /\ UNCHANGED <<output, picture, ctx_resync>>

\* av1_receive_compressed_data() fails with cur_frame = `cur`:
\* release_current_frame(), and frame_worker_hook() asks for a new start.  The
\* shim reports the failure and takes no picture.
Failed(b, cur) ==
    /\ bufs' = decrease_ref_count(b, cur)
    /\ cur_frame' = NULL
    /\ need_resync' = TRUE
    /\ intact' = FALSE
    /\ hdr' = NoHeader /\ slot' = 1
    /\ pc' = "idle"
    /\ UNCHANGED <<output, picture, ctx_resync>>

\* decode_one() goes on: assign_cur_frame_new_fb().
Receive ==
    /\ pc = "decode_one"
    /\ IF FreeBuffers(bufs) = {}
       THEN Failed(bufs, NULL)
       ELSE /\ cur_frame' = get_free_fb(bufs)
            /\ bufs' = Taken(bufs)
            /\ pc' = "obus"
            /\ UNCHANGED <<output, picture, need_resync, ctx_resync, hdr, slot,
                           intact>>
    /\ si' \in {TRUE, si}
    /\ UNCHANGED <<ref_frame_map, sequence>>

\* Any stage of a frame may meet damaged data or fail to allocate; a shown
\* frame may still be refused by the OBU that names it.
Fail ==
    /\ \/ pc \in {"obus", "slots", "setup", "tiles"}
       \/ pc = "update" /\ hdr.existing
    /\ Failed(bufs, cur_frame)
    /\ UNCHANGED <<ref_frame_map, si, sequence>>

\* read_sequence_header_obu(): only a header that differs from one read before
\* is a change.  decoder_peek_si_internal() has seen the first one.
ReadSequenceHeader ==
    /\ pc = "obus" /\ si
    /\ sequence' \in IF sequence = "none" THEN {"ready"} ELSE {sequence, "changed"}
    /\ UNCHANGED <<pc, bufs, ref_frame_map, cur_frame, output, picture,
                   need_resync, ctx_resync, si, hdr, slot, intact>>

\* check_resync(), after every decode_one() that succeeds.  Where that read no
\* frame header the type is an earlier frame's; but need_resync is then still
\* what it was between frames, set whenever ctx_resync is.
check_resync ==
    ctx_resync' = (ctx_resync /\ (need_resync \/ hdr.type = "INTER"))

\* The data ends before a frame header: update_frame_buffers(pbi, 0).
NoFrame ==
    /\ pc = "obus"
    /\ bufs' = decrease_ref_count(bufs, cur_frame)
    /\ cur_frame' = NULL
    /\ check_resync
    /\ pc' = "next"
    /\ UNCHANGED <<ref_frame_map, output, picture, need_resync, si, sequence,
                   hdr, slot, intact>>

-----------------------------------------------------------------------------
(* A frame header: read_uncompressed_header().                             *)

\* show_existing_frame = 1: the slot's buffer becomes cur_frame.  A key frame
\* can be shown so once; it refreshes every slot and starts anew.
ShowExisting(s) ==
    LET i == ref_frame_map[s]
        b == assign_frame_buffer_p(bufs, cur_frame, i)
        key == bufs[i].key
        reset == IF key /\ need_resync THEN Slots ELSE {}
    IN  /\ pc = "obus" /\ sequence = "ready" /\ i # NULL
        /\ \/ /\ ~bufs[i].showable_frame
              /\ Failed(b, i)
              /\ UNCHANGED ref_frame_map
           \/ /\ bufs[i].showable_frame
              /\ bufs' = [Emptied(b, ref_frame_map, reset)
                            EXCEPT ![i].showable_frame = ~key]
              /\ ref_frame_map' =
                   [r \in Slots |-> IF r \in reset THEN NULL ELSE ref_frame_map[r]]
              /\ cur_frame' = i
              /\ need_resync' = (need_resync /\ ~key)
              /\ hdr' = [type |-> IF key THEN "KEY" ELSE "INTER",
                         existing |-> TRUE, show |-> TRUE,
                         refresh |-> IF key THEN Slots ELSE {}]
              /\ pc' = "update"
              /\ UNCHANGED <<output, picture, ctx_resync, slot, intact>>
        /\ UNCHANGED <<si, sequence>>

\* What the header of a frame of its own can say; the refresh flags of an
\* inter frame are not read while a start is needed.
WellFormed(h) ==
    /\ ~h.existing
    /\ h.type = "KEY" /\ h.show => h.refresh = Slots
    /\ h.type = "INTRA_ONLY" => h.refresh # Slots
    /\ h.type = "INTER" /\ need_resync => h.refresh = {}

\* The header up to the refresh flags.  A key frame of a new sequence, and any
\* intra frame after a failure, drop all references first.  `resilient`:
\* error_resilient_mode, in a sequence with order hints.
FrameHeader(h, showable, resilient) ==
    LET reset == IF \/ sequence = "changed"
                    \/ need_resync /\ h.type # "INTER"
                 THEN Slots ELSE {}
    IN  /\ pc = "obus" /\ sequence # "none"
        /\ sequence = "changed" => h.type = "KEY"
        /\ WellFormed(h)
        /\ h.show => showable = (h.type # "KEY")
        /\ sequence' = "ready"
        /\ bufs' = [Emptied(bufs, ref_frame_map, reset)
                      EXCEPT ![cur_frame].showable_frame = showable]
        /\ ref_frame_map' =
             [r \in Slots |-> IF r \in reset THEN NULL ELSE ref_frame_map[r]]
        /\ need_resync' = (need_resync /\ h.type = "INTER")
        /\ hdr' = h
        /\ pc' = IF resilient /\ (h.type = "INTER" \/ h.refresh # Slots)
                 THEN "slots" ELSE "setup"
        /\ UNCHANGED <<cur_frame, output, picture, ctx_resync, si, slot, intact>>

\* Slip: one slot too many.
NextSlotPast ==
    /\ slot' = slot + 1
    /\ pc' = IF slot > RefFrames THEN "setup" ELSE "slots"

NextSlot ==
    /\ slot' = IF slot = RefFrames THEN 1 ELSE slot + 1
    /\ pc' = IF slot = RefFrames THEN "setup" ELSE "slots"

\* An order hint of an error-resilient frame.  A slot that has not the frame
\* it names gets a grey one instead; an allocation that fails leaves it empty.
SlotMatches ==
    /\ pc = "slots" /\ ref_frame_map[slot] # NULL
    /\ NextSlot
    /\ UNCHANGED <<bufs, ref_frame_map, cur_frame, output, picture,
                   need_resync, ctx_resync, si, sequence, hdr,
                   intact>>

SlotMissing(allocated) ==
    LET b == decrease_ref_count(bufs, ref_frame_map[slot])
        i == get_free_fb(b)
    IN  /\ pc = "slots"
        /\ IF allocated /\ FreeBuffers(b) # {}
           THEN /\ \E key, showable \in BOOLEAN :
                     bufs' = [b EXCEPT ![i] =
                       [ref_count |-> 1, raw |-> TRUE, pixels |-> "whole",
                        key |-> key, showable_frame |-> showable]]
                /\ ref_frame_map' = [ref_frame_map EXCEPT ![slot] = i]
                /\ NextSlot
                /\ UNCHANGED <<cur_frame, output, picture, need_resync,
                               ctx_resync, hdr, intact>>
           ELSE /\ ref_frame_map' = [ref_frame_map EXCEPT ![slot] = NULL]
                /\ Failed(b, cur_frame)
        /\ UNCHANGED <<si, sequence>>

\* The rest of the header: setup_buffer_pool() gives the frame its memory.  An
\* inter frame needs references, and a start that has not failed since.
SetupFrame ==
    /\ pc = "setup" /\ ~need_resync
    /\ hdr.type = "INTER" => \E s \in Slots : ref_frame_map[s] # NULL
    /\ bufs' = [bufs EXCEPT ![cur_frame].raw = TRUE,
                            ![cur_frame].pixels = "partial",
                            ![cur_frame].key = (hdr.type = "KEY")]
    /\ pc' = "tiles"
    /\ UNCHANGED <<ref_frame_map, cur_frame, output, picture, need_resync,
                   ctx_resync, si, sequence, hdr, slot, intact>>

-----------------------------------------------------------------------------
(* The end of a frame, and of a call.                                      *)

\* Slip: a corrupted tile does not make it fail.
DecodeTilesCorrupt ==
    /\ pc = "tiles"
    /\ \E p \in {"partial", "whole"} : bufs' = [bufs EXCEPT ![cur_frame].pixels = p]
    /\ pc' = "update"
    /\ UNCHANGED <<ref_frame_map, cur_frame, output, picture, need_resync,
                   ctx_resync, si, sequence, hdr, slot, intact>>

\* av1_decode_tg_tiles_and_wrapup() of the last tile group; a corrupted tile
\* makes it fail.
DecodeTiles ==
    /\ pc = "tiles"
    /\ bufs' = [bufs EXCEPT ![cur_frame].pixels = "whole"]
    /\ pc' = "update"
    /\ UNCHANGED <<ref_frame_map, cur_frame, output, picture, need_resync,
                   ctx_resync, si, sequence, hdr, slot, intact>>

\* Slip: the old references of the slots are not released.
RefreshedOnly ==
    [bufs EXCEPT ![cur_frame].ref_count = @ + Cardinality(hdr.refresh)]

\* The loop over refresh_frame_flags: a slot's old reference is released, its
\* new one counted.
Refreshed ==
    [Emptied(bufs, ref_frame_map, hdr.refresh)
       EXCEPT ![cur_frame].ref_count = @ + Cardinality(hdr.refresh)]

\* update_frame_buffers(pbi, 1): cur_frame's own reference goes to the output,
\* in place of an earlier one, or is dropped.
UpdateFrameBuffers ==
    /\ pc = "update"
    /\ ref_frame_map' = [s \in Slots |-> IF s \in hdr.refresh
                                         THEN cur_frame ELSE ref_frame_map[s]]
    /\ bufs' = decrease_ref_count(Refreshed,
                                  IF hdr.show THEN output ELSE cur_frame)
    /\ output' = IF hdr.show THEN cur_frame ELSE output
    /\ cur_frame' = NULL
    /\ check_resync
    /\ intact' = (intact \/ hdr.type # "INTER")
    /\ hdr' = NoHeader
    /\ pc' = "next"
    /\ UNCHANGED <<picture, need_resync, si, sequence, slot>>

\* More data in the unit: the next decode_one().
NextFrame ==
    /\ pc = "next"
    /\ pc' = "decode_one"
    /\ UNCHANGED <<bufs, ref_frame_map, cur_frame, output, picture,
                   need_resync, ctx_resync, si, sequence, hdr,
                   slot, intact>>

\* decoder_get_frame(), called by the shim until it returns NULL: nothing while
\* the stream has not started, nor for a picture the shim cannot use.
GetFrame(usable) ==
    /\ pc = "next"
    /\ picture' = IF ctx_resync \/ ~usable THEN NULL ELSE output
    /\ pc' = "idle"
    /\ UNCHANGED <<bufs, ref_frame_map, cur_frame, output, need_resync,
                   ctx_resync, si, sequence, hdr, slot, intact>>

Next ==
    \/ \E empty \in BOOLEAN : Decode(empty)
    \/ PeekFails
    \/ Receive
    \/ Fail
    \/ ReadSequenceHeader
    \/ NoFrame
    \/ \E s \in Slots : ShowExisting(s)
    \/ \E h \in Headers, showable, resilient \in BOOLEAN :
          FrameHeader(h, showable, resilient)
    \/ SlotMatches
    \/ \E allocated \in BOOLEAN : SlotMissing(allocated)
    \/ SetupFrame
    \/ DecodeTiles
    \/ UpdateFrameBuffers
    \/ NextFrame
    \/ \E usable \in BOOLEAN : GetFrame(usable)

Spec == Init /\ [][Next]_vars

-----------------------------------------------------------------------------
(* Properties.                                                             *)

Holders(i) ==
    Cardinality({s \in Slots : ref_frame_map[s] = i})
    + (IF cur_frame = i THEN 1 ELSE 0)
    + (IF output = i THEN 1 ELSE 0)

\* The comment at struct RefCntBuffer: ref_count is the number of variables
\* that refer to the buffer, through every failure and every way to swap a
\* reference.  Memory belongs to buffers in use, so none is lost by a count that
\* reaches zero without decrease_ref_count(); and the buffer assigned to a frame
\* whose header is being read has none yet, as the assertion at
\* assign_frame_buffer_p() demands.
RefCountsExact ==
    /\ TypeOK
    /\ \A i \in Buffers :
          /\ bufs[i].ref_count = Holders(i)
          /\ bufs[i].raw => bufs[i].ref_count > 0
          /\ pc \in {"obus", "slots", "setup"} /\ i = cur_frame => ~bufs[i].raw

\* get_free_fb() is never called in vain ("We should never run out of free
\* buffers"): neither for a new frame nor for a grey one in a slot that has
\* none.
PoolSuffices ==
    pc \in {"decode_one", "slots"} =>
       \/ FreeBuffers(bufs) # {}
       \/ /\ pc = "slots" /\ ref_frame_map[slot] # NULL
          /\ bufs[ref_frame_map[slot]].ref_count = 1

\* A reference, an output and a handed-out picture are whole: never a frame
\* whose decoding failed or is under way, never memory that was given back.
HeldIsWhole ==
    \A i \in Buffers :
        i = output \/ i = picture \/ (\E s \in Slots : ref_frame_map[s] = i)
           => bufs[i].raw /\ bufs[i].pixels = "whole"

\* After a failure no inter frame is decoded before an intra frame, or a key
\* frame shown from a slot, has been decoded to its end.
InterNeedsIntra ==
    pc = "tiles" /\ hdr.type = "INTER" => intact
=============================================================================
