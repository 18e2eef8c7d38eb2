------------------------------ MODULE DecRowMt ------------------------------
(***************************************************************************)
(* How the AV1 decoder of a guest decodes the tiles of a frame on several  *)
(* threads (libaom, av1/decoder/decodeframe.c, row_mt = 1, the default the *)
(* shim leaves in place).  Every worker first parses tiles, one worker per *)
(* tile, and then reconstructs superblock rows of any tile; a superblock   *)
(* waits for the one above it and to the right.  A worker is launched and  *)
(* synchronised with as WorkerContract says.                               *)
(*                                                                         *)
(* Rows and columns are superblocks.  A worker asleep on a condition       *)
(* variable has a pc of its own; what the code does under one mutex is one *)
(* step.                                                                   *)
(***************************************************************************)
EXTENDS Integers, FiniteSets, FiniteSetsExt, SequencesExt

CONSTANTS
    SbRows, SbCols,  \* for each tile, its superblock rows and columns
    MaxThreads,      \* pbi->max_threads
    Delays           \* possible intrabc_extra_top_right_sb_delay

ASSUME TilesAssumption ==
    /\ \A t \in DOMAIN SbRows : SbRows[t] \in Nat \ {0} /\ SbCols[t] \in Nat \ {0}
    /\ Len(SbRows) = Len(SbCols) /\ Len(SbRows) > 0
    /\ MaxThreads \in Nat \ {0} /\ \A d \in Delays : d \in Nat

Tiles == DOMAIN SbRows
Rows(t) == 0 .. SbRows[t] - 1
Cols(t) == 0 .. SbCols[t] - 1
Superblocks ==
    UNION {{<<t, r, c>> : r \in Rows(t), c \in Cols(t)} : t \in Tiles}

\* At most two workers share a tile, and one works on a tile of one row.
get_max_row_mt_workers_per_tile(t) == IF SbRows[t] = 1 THEN 1 ELSE 2

Workers ==
    0 .. Min({MaxThreads, MapThenSumSet(get_max_row_mt_workers_per_tile, Tiles)}) - 1

VARIABLES
    mt,         \* tile_mt_info, frame_row_mt_info and each dec_row_mt_sync:
                \*   queue: tiles nobody has begun to parse
                \*   parse_done, decode_started, working: of each tile
                \*   cur_sb_col: of each tile and row
                \*   exit: row_mt_exit;  delay: intrabc_extra_top_right_sb_delay
    wk,         \* each worker: pc, the tile, row and column it is at, and
                \* dcb.corrupted
    decoded,    \* superblocks reconstructed in this frame
    frame       \* what decode_tiles_row_mt() makes of the frame

vars == <<mt, wk, decoded, frame>>

Places == {"take", "parse", "endparse", "corrupt", "erring", "jobs", "nojob",
           "read", "blocked", "check", "decode", "skip", "rowdone", "done"}

\* Type invariant: a row is announced at most one column, and the delay of
\* intra block copy, past its end.
TypeOK ==
    /\ ToSet(mt.queue) \subseteq Tiles
    /\ \A t \in Tiles :
          /\ 0 <= mt.decode_started[t] /\ mt.parse_done[t] <= SbRows[t]
          /\ mt.working[t] \in 0 .. 2
          /\ mt.cur_sb_col[t] \in [Rows(t) -> -1 .. SbCols[t] + 1 + Max(Delays)]
    /\ mt.exit \in BOOLEAN /\ mt.delay \in Delays
    /\ \A w \in Workers :
          /\ wk[w].pc \in Places /\ wk[w].tile \in Tiles
          /\ wk[w].row \in 0 .. SbRows[wk[w].tile]
          /\ wk[w].col \in 0 .. SbCols[wk[w].tile]
          /\ wk[w].corrupted \in BOOLEAN
    /\ decoded \subseteq Superblocks
    /\ frame \in {"decoding", "complete", "corrupt"}

\* tile_mt_queue(), row_mt_frame_init(): tiles are parsed in the order of
\* their sizes in bytes, which is any order.
row_mt_frame_init ==
    [queue: SetToSeqs(Tiles),
     parse_done: {[t \in Tiles |-> 0]},
     decode_started: {[t \in Tiles |-> 0]},
     working: {[t \in Tiles |-> 0]},
     cur_sb_col: {[t \in Tiles |-> [r \in Rows(t) |-> -1]]},
     exit: {FALSE},
     delay: Delays]

\* A worker that is in no tile.
Between(p, bad) ==
    [pc |-> p, tile |-> 1, row |-> 0, col |-> 0, corrupted |-> bad]

\* reset_dec_workers() and launch_dec_workers(): every worker enters
\* row_mt_worker_hook(), worker 0 on the caller's thread.
Launched == [w \in Workers |-> Between("take", FALSE)]

Init ==
    /\ mt \in row_mt_frame_init /\ wk = Launched
    /\ decoded = {} /\ frame = "decoding"

-----------------------------------------------------------------------------
(* Condition variables.                                                    *)

At(w, p) == wk[w].pc = p

\* Workers asleep on row_mt_cond_, and on cond_[r] of tile t.
AsleepForJob == {w \in Workers : At(w, "nojob")}
AsleepOn(t, r) ==
    {w \in Workers : At(w, "blocked") /\ wk[w].tile = t /\ wk[w].row = r + 1}

\* The workers ws are woken: each takes its mutex again and tests again.
Woken(f, ws) ==
    [w \in Workers |->
        IF w \notin ws THEN f[w]
        ELSE [f[w] EXCEPT !.pc = IF @ = "nojob" THEN "jobs" ELSE "read"]]

\* pthread_cond_signal wakes one of ws, pthread_cond_broadcast all of them.
OneOf(ws) == IF ws = {} THEN {{}} ELSE {{w} : w \in ws}

-----------------------------------------------------------------------------
(* sync_read() and sync_write(), nsync = get_sync_range() = 1.             *)

get_sync_range == 1

\* Slip: the superblock above is waited for, the one to its right is not.
sync_read_above(t, r, c) ==
    /\ r > 0
    /\ c % get_sync_range = 0
    /\ c > mt.cur_sb_col[t][r - 1] - mt.delay

\* The superblock at column c of row r still has to wait.
sync_read_waits(t, r, c) ==
    /\ r > 0
    /\ c % get_sync_range = 0
    /\ c > mt.cur_sb_col[t][r - 1] - get_sync_range - mt.delay

\* Slip: one column too many after the last.
sync_write_past(t, c) ==
    IF c < SbCols[t] - 1 THEN c ELSE SbCols[t] + get_sync_range + mt.delay + 1

\* What sync_write(r, c) leaves in cur_sb_col[r].
sync_write_col(t, c) ==
    IF c < SbCols[t] - 1 THEN c ELSE SbCols[t] + get_sync_range + mt.delay

sync_write(t, r, c) == [mt EXCEPT !.cur_sb_col[t][r] = sync_write_col(t, c)]

-----------------------------------------------------------------------------
(* Parsing: the first loop of row_mt_worker_hook().                        *)

\* get_dec_job_info(): the next tile, or on to reconstruction.  The worker is
\* counted a moment later, under the other mutex; nobody looks at the count of
\* a tile before one of its rows is parsed.
TakeTile(w) ==
    /\ At(w, "take")
    /\ IF mt.queue = <<>>
       THEN /\ wk' = [wk EXCEPT ![w].pc = "jobs"]
            /\ UNCHANGED mt
       ELSE /\ wk' = [wk EXCEPT ![w] = [@ EXCEPT !.pc = "parse", !.row = 0,
                                          !.tile = Head(mt.queue)]]
            /\ mt' = [mt EXCEPT !.queue = Tail(@),
                                !.working[Head(mt.queue)] = @ + 1]
    /\ UNCHANGED <<decoded, frame>>

\* parse_tile_row_mt() parses a row, which nobody else sees, and announces it
\* with signal_parse_sb_row_done(): one worker without a job is woken.
ParseRow(w) ==
    LET t == wk[w].tile
        last == wk[w].row = SbRows[t] - 1
    IN  /\ At(w, "parse")
        /\ mt' = [mt EXCEPT !.parse_done[t] = @ + 1]
        /\ \E ws \in OneOf(AsleepForJob) :
              wk' = Woken([wk EXCEPT ![w].row = @ + 1,
                                     ![w].pc = IF last THEN "endparse" ELSE @],
                          ws)
        /\ UNCHANGED <<decoded, frame>>

\* The bit reader has overflowed: the rest of the tile is not parsed.
ParseOverflow(w) ==
    /\ At(w, "parse")
    /\ wk' = [wk EXCEPT ![w].pc = "endparse", ![w].corrupted = TRUE]
    /\ UNCHANGED <<mt, decoded, frame>>

\* After parse_tile_row_mt(): the trailing bits may be wrong (bad), and the
\* worker leaves the tile.
EndParse(w, bad) ==
    /\ At(w, "endparse")
    /\ bad => ~wk[w].corrupted
    /\ mt' = [mt EXCEPT !.working[wk[w].tile] = @ - 1]
    /\ wk' = [wk EXCEPT ![w] = IF @.corrupted \/ bad THEN Between("corrupt", TRUE)
                                                     ELSE Between("take", FALSE)]
    /\ UNCHANGED <<decoded, frame>>

\* A worker that found its tile corrupt stops the frame and returns 0.
StopCorrupt(w) ==
    /\ At(w, "corrupt")
    /\ mt' = [mt EXCEPT !.exit = TRUE]
    /\ wk' = Woken([wk EXCEPT ![w].pc = "done"], AsleepForJob)
    /\ UNCHANGED <<decoded, frame>>

\* aom_internal_error() while parsing or reconstructing a superblock jumps
\* back to the hook, which stops the frame ...
InternalError(w) ==
    /\ wk[w].pc \in {"parse", "decode"}
    /\ mt' = [mt EXCEPT !.exit = TRUE]
    /\ wk' = Woken([wk EXCEPT ![w].pc = "erring", ![w].corrupted = TRUE],
                   AsleepForJob)
    /\ UNCHANGED <<decoded, frame>>

\* ... and then lets the row below the erroneous one go on
\* (signal_decoding_done_for_erroneous_row).
ReportRow(w) ==
    LET t == wk[w].tile
        r == wk[w].row
    IN  /\ At(w, "erring")
        /\ mt' = sync_write(t, r, SbCols[t] - 1)
        /\ \E ws \in OneOf(AsleepOn(t, r)) :
              wk' = Woken([wk EXCEPT ![w] = Between("done", TRUE)], ws)
        /\ UNCHANGED <<decoded, frame>>

-----------------------------------------------------------------------------
(* Reconstruction: the second loop of row_mt_worker_hook().                *)

Total(f) == MapThenSumSet(LAMBDA t : f[t], Tiles)
AllStarted == Total(mt.decode_started) = Total(SbRows)

\* Slip: rows count as ready before they are parsed.
ReadyUnparsed == {t \in Tiles : SbRows[t] > mt.decode_started[t]}

\* get_next_job_info(): among the tiles with parsed rows nobody has begun,
\* those with the fewest workers and room for one more, the one with most
\* left to decode, the first of these.
Ready == {t \in Tiles : mt.parse_done[t] > mt.decode_started[t]}

Fewest == {t \in Ready : \A u \in Ready : mt.working[t] <= mt.working[u]}
Open == {t \in Fewest : mt.working[t] < get_max_row_mt_workers_per_tile(t)}
LeftToDecode(t) == (SbRows[t] - mt.decode_started[t]) * SbCols[t]
NextTile ==
    Min({t \in Open : \A u \in Open : LeftToDecode(u) <= LeftToDecode(t)})
end_of_frame == AllStarted \/ mt.exit
get_next_job_info == end_of_frame \/ Open # {}

\* The worker takes the next row of that tile; it wakes everybody when it has
\* begun the last row of the frame.  Without a job it goes to sleep, and at
\* the end of the frame it returns.
TakeRow(w) ==
    /\ At(w, "jobs")
    /\ \/ /\ end_of_frame
          /\ wk' = [wk EXCEPT ![w].pc = "done"]
          /\ UNCHANGED mt
       \/ /\ ~get_next_job_info
          /\ wk' = [wk EXCEPT ![w].pc = "nojob"]
          /\ UNCHANGED mt
       \/ /\ ~end_of_frame /\ Open # {}
          /\ mt' = [mt EXCEPT !.working[NextTile] = @ + 1,
                              !.decode_started[NextTile] = @ + 1]
          /\ wk' = Woken([wk EXCEPT ![w] =
                             [@ EXCEPT !.pc = "read", !.tile = NextTile,
                                       !.row = mt.decode_started[NextTile],
                                       !.col = 0]],
                         IF Total(mt.decode_started) + 1 = Total(SbRows)
                         THEN AsleepForJob ELSE {})
    /\ UNCHANGED <<decoded, frame>>

\* decode_tile_sb_row(): sync_read() ...
ReadAbove(w) ==
    /\ At(w, "read")
    /\ wk' = [wk EXCEPT ![w].pc =
                 IF sync_read_waits(wk[w].tile, wk[w].row, wk[w].col)
                 THEN "blocked" ELSE "check"]
    /\ UNCHANGED <<mt, decoded, frame>>

\* Slip: once the frame is to stop, the worker stays at its superblock.
CheckExitAgain(w) ==
    /\ At(w, "check")
    /\ wk' = [wk EXCEPT ![w].pc = IF mt.exit THEN "read" ELSE "decode"]
    /\ UNCHANGED <<mt, decoded, frame>>

\* ... then row_mt_exit, under its own mutex ...
CheckExit(w) ==
    /\ At(w, "check")
    /\ wk' = [wk EXCEPT ![w].pc = IF mt.exit THEN "skip" ELSE "decode"]
    /\ UNCHANGED <<mt, decoded, frame>>

\* ... then the superblock, unless the frame is to stop, and sync_write().
WriteSuperblock(w) ==
    LET t == wk[w].tile
        r == wk[w].row
        c == wk[w].col
    IN  /\ wk[w].pc \in {"decode", "skip"}
        /\ decoded' = IF At(w, "decode") THEN decoded \cup {<<t, r, c>>} ELSE decoded
        /\ mt' = sync_write(t, r, c)
        /\ \E ws \in OneOf(AsleepOn(t, r)) :
              wk' = Woken([wk EXCEPT ![w].col = @ + 1,
                              ![w].pc = IF c = SbCols[t] - 1 THEN "rowdone"
                                                             ELSE "read"],
                          ws)
        /\ UNCHANGED frame

\* The worker leaves the tile; nobody is woken.
LeaveRow(w) ==
    /\ At(w, "rowdone")
    /\ mt' = [mt EXCEPT !.working[wk[w].tile] = @ - 1]
    /\ wk' = [wk EXCEPT ![w] = Between("jobs", FALSE)]
    /\ UNCHANGED <<decoded, frame>>

\* Slip: only what worker 0 returned is looked at.
SyncWorkersFirst ==
    /\ frame = "decoding"
    /\ \A w \in Workers : At(w, "done")
    /\ frame' = IF wk[0].corrupted THEN "corrupt" ELSE "complete"
    /\ UNCHANGED <<mt, wk, decoded>>

\* sync_dec_workers(): the frame is corrupt if a worker's hook returned 0.
SyncWorkers ==
    /\ frame = "decoding"
    /\ \A w \in Workers : At(w, "done")
    /\ frame' = IF \E w \in Workers : wk[w].corrupted THEN "corrupt"
                                                      ELSE "complete"
    /\ UNCHANGED <<mt, wk, decoded>>

\* The decoder is given another frame.
NextFrame ==
    /\ frame # "decoding"
    /\ frame' = "decoding" /\ decoded' = {}
    /\ mt' \in row_mt_frame_init /\ wk' = Launched

Step(w) ==
    \/ TakeTile(w) \/ ParseRow(w) \/ ParseOverflow(w) \/ StopCorrupt(w)
    \/ \E bad \in BOOLEAN : EndParse(w, bad)
    \/ InternalError(w) \/ ReportRow(w)
    \/ TakeRow(w) \/ ReadAbove(w) \/ CheckExit(w) \/ WriteSuperblock(w)
    \/ LeaveRow(w)

FrameStep == SyncWorkers \/ \E w \in Workers : Step(w)

Next == NextFrame \/ FrameStep

\* Some thread that can move does; a sleeping worker moves only when it is
\* woken.
Spec == Init /\ [][Next]_vars /\ WF_vars(FrameStep)

-----------------------------------------------------------------------------
(* Properties                                                              *)

\* Nothing is reconstructed before its turn.  Rows are taken after they were
\* parsed, each by one worker; and a superblock comes after what it predicts
\* from, every superblock of the row above as far as the one to the right of it
\* (and further with intra block copy).  An erroneous row is announced as
\* finished to let the row below go on, but by then row_mt_exit is set and the
\* row below sees it before it decodes.
DecodedInOrder ==
    /\ TypeOK
    /\ \A t \in Tiles : mt.decode_started[t] <= mt.parse_done[t]
    /\ \A v, w \in Workers :
          v # w /\ {wk[v].pc, wk[w].pc} \subseteq {"read", "blocked", "check",
                                                   "decode", "skip"} =>
              <<wk[v].tile, wk[v].row>> # <<wk[w].tile, wk[w].row>>
    /\ \A w \in Workers :
          At(w, "decode") /\ wk[w].row > 0 =>
              \A c \in Cols(wk[w].tile) :
                  c <= wk[w].col + 1 + mt.delay =>
                      <<wk[w].tile, wk[w].row - 1, c>> \in decoded

\* A frame nobody reports as corrupt is whole: each of its superblocks has
\* been reconstructed, whatever worker took it.
CompleteIsWhole == frame = "complete" => decoded = Superblocks

\* Every frame ends: no worker sleeps for ever on the job condition or on the
\* row above, whichever worker fails, and wherever.
FrameEnds == frame = "decoding" ~> frame # "decoding"
=============================================================================
