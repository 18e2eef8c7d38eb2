------------------------------ MODULE EncRowMt ------------------------------
(***************************************************************************)
(* How the AV1 encoder of a host encodes a frame on several threads        *)
(* (libaom, av1/encoder/ethread.c and encodeframe.c, row_mt = 1 as the     *)
(* shim asks for).  Each worker encodes superblock rows of any tile; a     *)
(* superblock waits for the one above it and, at the latest when its       *)
(* top-right block needs it, for the one above to the right.  A worker     *)
(* that finds no row left goes on, in real-time mode, to deblock the rows  *)
(* whose encoding is over (av1/common/thread_common.[ch]), while others    *)
(* still encode: first the vertical edges of every row, then the           *)
(* horizontal ones.                                                        *)
(*                                                                         *)
(* A worker asleep on a condition variable has a pc of its own; what the   *)
(* code does under one mutex is one step.                                  *)
(***************************************************************************)
EXTENDS Integers, FiniteSets, FiniteSetsExt, SequencesExt

CONSTANTS
    Frames,     \* the frames to encode, records of
                \*   heights, widths: superblocks of each tile row and column
                \*   wait: delay_wait_for_top_right_sb()
                \*   delay: intrabc_extra_top_right_sb_delay
                \*   lpf: lpf_mt_with_enc_enabled()
                \*   planes: the planes with deblocking jobs, a sequence
                \*   filter_cols: columns of deblocking, of MAX_MIB_SIZE each
                \*   nsync: lf_sync->sync_range
    MaxThreads  \* mt_info->num_workers

ASSUME FramesAssumption ==
    /\ MaxThreads \in Nat \ {0}
    /\ \A f \in Frames :
          /\ f.heights # <<>> /\ f.widths # <<>>
          /\ ToSet(f.heights) \cup ToSet(f.widths) \subseteq Nat \ {0}
          /\ f.wait \in 0 .. 1 /\ f.delay \in Nat /\ f.lpf \in BOOLEAN
          /\ f.filter_cols \in Nat \ {0} /\ f.nsync \in {1, 2, 4, 8}
          /\ f.lpf => f.delay = 0  \* lpf_pipeline_mt_init(): no intrabc

-----------------------------------------------------------------------------
(* The shape of a frame.                                                   *)

Tiles(f) == (DOMAIN f.heights) \X (DOMAIN f.widths)
TileIndex(f, t) == (t[1] - 1) * Len(f.widths) + t[2] - 1
TileSeq(f) ==
    SetToSortSeq(Tiles(f), LAMBDA t, u : TileIndex(f, t) < TileIndex(f, u))
Total(hs) == FoldSeq(LAMBDA h, sum : h + sum, 0, hs)

\* compute_num_enc_row_mt_workers().
Limit(f, t) == Min({(f.widths[t[2]] + 1) \div 2, f.heights[t[1]]})
compute_num_enc_row_mt_workers(f) ==
    Min({MaxThreads, MapThenSumSet(LAMBDA t : Limit(f, t), Tiles(f))})

\* enqueue_lf_jobs(): the edges of one direction, row by row and plane by
\* plane; the vertical ones (0) come before the horizontal ones (1).
RowJobs(f, dir, r) ==
    [i \in DOMAIN f.planes |-> [dir |-> dir, row |-> r, plane |-> f.planes[i]]]
DirJobs(f, dir) ==
    FlattenSeq([i \in 1 .. Total(f.heights) |-> RowJobs(f, dir, i - 1)])
enqueue_lf_jobs(f) == DirJobs(f, 0) \o DirJobs(f, 1)

\* The rows of each tile, in the order of set_encoding_done().
TileRows(f) ==
    FlattenSeq([i \in 1 .. Len(TileSeq(f)) |->
        [r \in 1 .. f.heights[TileSeq(f)[i][1]] |-> <<TileSeq(f)[i], r - 1>>]])

\* All of this, once for each frame.
Shape ==
    [f \in Frames |->
        [tiles |-> TileSeq(f),
         index |-> [t \in Tiles(f) |-> TileIndex(f, t)],
         rows |-> 0 .. Total(f.heights) - 1,
         first |-> [t \in Tiles(f) |-> Total(SubSeq(f.heights, 1, t[1] - 1))],
         limit |-> [t \in Tiles(f) |-> Limit(f, t)],
         workers |-> 0 .. compute_num_enc_row_mt_workers(f) - 1,
         jobs |-> enqueue_lf_jobs(f),
         tilerows |-> TileRows(f),
         superblocks |->
             UNION {{<<t, r, c>> : r \in 0 .. f.heights[t[1]] - 1,
                                   c \in 0 .. f.widths[t[2]] - 1} : t \in Tiles(f)}]]

VARIABLES
    fr,         \* the frame being encoded
    enc,        \* enc_row_mt and each tile's row_mt_sync: next_row, working and
                \* finished_cols of each tile, tile_cols_done of each row, exit
    lf,         \* lf_sync: cur_sb_col of each plane and row, dequeued, exit
    wk,         \* each worker: pc, tile, row and column, or the deblocking
                \* job, or how many rows it has reported, and failed
    encoded,    \* superblocks encoded in this frame
    filtered,   \* <<dir, plane, row, column>> deblocked in this frame
    frame       \* what av1_encode_tiles_row_mt() makes of the frame

vars == <<fr, enc, lf, wk, encoded, filtered, frame>>

Height(t) == fr.heights[t[1]]
Width(t) == fr.widths[t[2]]
FrameRows == Shape[fr].rows
FirstRow(t) == Shape[fr].first[t]
Superblocks == Shape[fr].superblocks
Workers == Shape[fr].workers
Jobs == Shape[fr].jobs

\* Type invariant: no row of a tile is handed out that it does not have.
TypeOK ==
    /\ fr \in Frames
    /\ \A t \in Tiles(fr) :
          /\ enc.next_row[t] \in 0 .. Height(t)
          /\ enc.working[t] \in 0 .. MaxThreads
          /\ enc.finished_cols[t] \in
                [0 .. Height(t) - 1 -> -1 .. Width(t) + 1 + fr.delay]
    /\ enc.tile_cols_done \in [FrameRows -> 0 .. Len(fr.widths)]
    /\ lf.cur_sb_col \in [ToSet(fr.planes) -> [FrameRows ->
                             -1 .. fr.filter_cols + fr.nsync]]
    /\ {enc.exit, lf.exit} \subseteq BOOLEAN
    /\ encoded \subseteq Superblocks
    /\ frame \in {"coding", "coded", "failed"}

-----------------------------------------------------------------------------
(* Setting a frame up.                                                     *)

\* av1_encode_tiles_row_mt().
row_mt_init(f) ==
    [next_row |-> [t \in Tiles(f) |-> 0],
     working |-> [t \in Tiles(f) |-> 0],
     finished_cols |-> [t \in Tiles(f) |-> [r \in 0 .. f.heights[t[1]] - 1 |-> -1]],
     tile_cols_done |-> [r \in Shape[f].rows |-> 0],
     exit |-> FALSE]

loop_filter_frame_mt_init(f) ==
    [cur_sb_col |-> [p \in ToSet(f.planes) |-> [r \in Shape[f].rows |-> -1]],
     dequeued |-> 0,
     exit |-> FALSE]

\* assign_tile_to_thread(): round robin.
assign_tile_to_thread(f, w) == Shape[f].tiles[(w % Len(Shape[f].tiles)) + 1]

At(w, p) == wk[w].pc = p
Worker(p, t) ==
    [pc |-> p, tile |-> t, row |-> 0, col |-> 0, job |-> 0, failed |-> FALSE]
Launched(f) ==
    [w \in Shape[f].workers |-> Worker("start", assign_tile_to_thread(f, w))]

Init ==
    \E f \in Frames :
        /\ fr = f /\ enc = row_mt_init(f) /\ lf = loop_filter_frame_mt_init(f)
        /\ wk = Launched(f)
        /\ encoded = {} /\ filtered = {} /\ frame = "coding"

-----------------------------------------------------------------------------
(* Condition variables.                                                    *)

\* The pc of a sleeper, and where it tests again once woken.
Retry == [blocked |-> "read", late |-> "search", norow |-> "await",
          htop |-> "readtop", hright |-> "readright"]

Woken(f, ws) ==
    [w \in Workers |-> IF w \in ws THEN [f[w] EXCEPT !.pc = Retry[@]] ELSE f[w]]
OneOf(ws) == IF ws = {} THEN {{}} ELSE {{w} : w \in ws}

\* Asleep in av1_row_mt_sync_read() on row r of tile t, in
\* launch_loop_filter_rows(), and in the deblocking's sync_read() on row r.
AsleepOn(t, r) ==
    {w \in Workers : /\ wk[w].pc \in {"blocked", "late"}
                     /\ wk[w].tile = t /\ wk[w].row = r + 1}
AsleepForRows == {w \in Workers : At(w, "norow")}
Job(w) == Jobs[wk[w].job]
AsleepInFilter(p, r) ==
    {w \in Workers : \/ At(w, "htop") /\ Job(w).plane = p /\ Job(w).row = r + 1
                     \/ At(w, "hright") /\ Job(w).plane = p /\ Job(w).row = r}

-----------------------------------------------------------------------------
(* av1_row_mt_sync_read() and av1_row_mt_sync_write(), sync_range = 1.     *)

sync_range == 1

\* Slip: the superblock above is waited for, the one to its right is not.
av1_row_mt_sync_read_above(t, r, c) ==
    r > 0 /\ c > enc.finished_cols[t][r - 1] - fr.delay

av1_row_mt_sync_read_waits(t, r, c) ==
    r > 0 /\ c > enc.finished_cols[t][r - 1] - sync_range - fr.delay

av1_row_mt_sync_write(t, r, c) ==
    LET cur == IF c < Width(t) - 1 THEN c ELSE Width(t) + sync_range + fr.delay
    IN  [enc EXCEPT !.finished_cols[t][r] = Max({@, cur})]

-----------------------------------------------------------------------------
(* Encoding: the loop of enc_row_mt_worker_hook() and encode_sb_row().     *)

\* The worker has its pc_tree.
Allocate(w) ==
    /\ At(w, "start")
    /\ wk' = [wk EXCEPT ![w].pc = "job"]
    /\ UNCHANGED <<fr, enc, lf, encoded, filtered, frame>>

\* Slip: whether the tile has rows left is not asked.
get_any_job(w, t) ==
    /\ enc' = [enc EXCEPT !.next_row[t] = @ + 1, !.working[t] = @ + 1]
    /\ wk' = [wk EXCEPT ![w] = [Worker("read", t) EXCEPT !.row = enc.next_row[t]]]

\* get_next_job() takes the next row of tile t.
get_next_job(w, t) ==
    /\ enc.next_row[t] < Height(t)
    /\ enc' = [enc EXCEPT !.next_row[t] = @ + 1, !.working[t] = @ + 1]
    /\ wk' = [wk EXCEPT ![w] = [Worker("read", t) EXCEPT !.row = enc.next_row[t]]]

\* switch_tile_and_get_next_job(): of the tiles with rows left and room for
\* another worker, those with the fewest workers, the one with most rows
\* left, the first of these.
Open == {t \in Tiles(fr) : /\ enc.working[t] < Shape[fr].limit[t]
                           /\ enc.next_row[t] < Height(t)}
Fewest == {t \in Open : \A u \in Open : enc.working[t] <= enc.working[u]}
RowsLeft(t) == Height(t) - enc.next_row[t]
Most == {t \in Fewest : \A u \in Fewest : RowsLeft(u) <= RowsLeft(t)}
NextTile ==
    CHOOSE t \in Most : \A u \in Most : Shape[fr].index[t] <= Shape[fr].index[u]

\* The worker stops when another has failed; otherwise it takes a row of its
\* tile, or of another; when there is none the frame's end is reached, and it
\* goes on to deblocking or returns.
TakeJob(w) ==
    /\ At(w, "job")
    /\ \/ /\ enc.exit
          /\ wk' = [wk EXCEPT ![w].pc = "done"]
          /\ UNCHANGED enc
       \/ ~enc.exit /\ get_next_job(w, wk[w].tile)
       \/ /\ ~enc.exit /\ enc.next_row[wk[w].tile] = Height(wk[w].tile)
          /\ IF Open # {}
             THEN get_next_job(w, NextTile)
             ELSE /\ wk' = [wk EXCEPT ![w].pc = IF fr.lpf THEN "filter" ELSE "done"]
                  /\ UNCHANGED enc
    /\ UNCHANGED <<fr, lf, encoded, filtered, frame>>

\* encode_sb_row(): sync_read for the superblock above or above right ...
ReadAbove(w) ==
    /\ At(w, "read")
    /\ wk' = [wk EXCEPT ![w].pc =
                 IF av1_row_mt_sync_read_waits(wk[w].tile, wk[w].row,
                                               wk[w].col - fr.wait)
                 THEN "blocked" ELSE "check"]
    /\ UNCHANGED <<fr, enc, lf, encoded, filtered, frame>>

\* Slip: once a worker has failed, the others stay at their superblocks.
CheckExitAgain(w) ==
    /\ At(w, "check")
    /\ wk' = [wk EXCEPT ![w].pc = IF enc.exit THEN "read" ELSE "search"]
    /\ UNCHANGED <<fr, enc, lf, encoded, filtered, frame>>

\* ... row_mt_exit, upon which it returns ...
CheckExit(w) ==
    /\ At(w, "check")
    /\ wk' = [wk EXCEPT ![w].pc = IF enc.exit THEN "left" ELSE "search"]
    /\ UNCHANGED <<fr, enc, lf, encoded, filtered, frame>>

\* ... mode search, in which wait_for_top_right_sb() reads again (and
\* row_mt_exit is not looked at again) ...
ReadTopRight(w) ==
    /\ At(w, "search")
    /\ wk' = [wk EXCEPT ![w].pc =
                 IF av1_row_mt_sync_read_waits(wk[w].tile, wk[w].row, wk[w].col)
                 THEN "late" ELSE "encode"]
    /\ UNCHANGED <<fr, enc, lf, encoded, filtered, frame>>

\* ... and sync_write: the worker on the row below is woken.
EncodeSuperblock(w) ==
    LET t == wk[w].tile
        r == wk[w].row
        c == wk[w].col
    IN  /\ At(w, "encode")
        /\ encoded' = encoded \cup {<<t, r, c>>}
        /\ enc' = av1_row_mt_sync_write(t, r, c)
        /\ \E ws \in OneOf(AsleepOn(t, r)) :
              wk' = Woken([wk EXCEPT ![w].col = @ + 1,
                              ![w].pc = IF c = Width(t) - 1 THEN "left" ELSE "read"],
                          ws)
        /\ UNCHANGED <<fr, lf, filtered, frame>>

\* After av1_encode_sb_row(), whether it finished the row or not.
LeaveRow(w) ==
    LET t == wk[w].tile
    IN  /\ At(w, "left")
        /\ enc' = [enc EXCEPT !.working[t] = @ - 1,
                              !.tile_cols_done[FirstRow(t) + wk[w].row] = @ + 1]
        /\ wk' = Woken([wk EXCEPT ![w] = Worker("job", t)], AsleepForRows)
        /\ UNCHANGED <<fr, lf, encoded, filtered, frame>>

-----------------------------------------------------------------------------
(* aom_internal_error() in a worker jumps back to the hook.                *)

InternalError(w) ==
    /\ wk[w].pc \in {"start", "search", "encode"}
    /\ enc' = [enc EXCEPT !.exit = TRUE]
    /\ wk' = Woken([wk EXCEPT ![w] = [Worker("report", @.tile) EXCEPT
                                        !.failed = TRUE, !.job = 1]],
                   AsleepForRows)
    /\ UNCHANGED <<fr, lf, encoded, filtered, frame>>

\* A worker's n-th report of len, after which it goes to pc next.
Reported(w, n, len, next) ==
    IF n < len THEN [wk EXCEPT ![w].job = @ + 1]
               ELSE [wk EXCEPT ![w].pc = next, ![w].job = 1]

\* set_encoding_done(): each row of each tile in turn is announced as
\* finished, so that nobody waits for it.
ReportRow(w) ==
    LET tr == Shape[fr].tilerows[wk[w].job]
    IN  /\ At(w, "report")
        /\ enc' = av1_row_mt_sync_write(tr[1], tr[2], Width(tr[1]) - 1)
        /\ \E ws \in OneOf(AsleepOn(tr[1], tr[2])) :
              wk' = Woken(Reported(w, wk[w].job, Len(Shape[fr].tilerows),
                                   IF fr.lpf THEN "stop" ELSE "done"), ws)
        /\ UNCHANGED <<fr, lf, encoded, filtered, frame>>

\* Then lf_mt_exit ...
StopFilter(w) ==
    /\ At(w, "stop")
    /\ lf' = [lf EXCEPT !.exit = TRUE]
    /\ wk' = [wk EXCEPT ![w].pc = "reportlf"]
    /\ UNCHANGED <<fr, enc, encoded, filtered, frame>>

-----------------------------------------------------------------------------
(* sync_read() and sync_write() of the deblocking.                         *)

\* Slip: the column itself is waited for, those up to the next group are not.
sync_read_near(p, r, c) ==
    /\ r > 0 /\ c % fr.nsync = 0
    /\ c > lf.cur_sb_col[p][r - 1]

sync_read_waits(p, r, c) ==
    /\ r > 0 /\ c % fr.nsync = 0
    /\ c > lf.cur_sb_col[p][r - 1] - fr.nsync

\* sync_write() is silent inside a group of nsync columns.
sync_write(p, r, c) ==
    LET last == c >= fr.filter_cols - 1
        cur == IF last THEN fr.filter_cols + fr.nsync ELSE c
    IN  IF last \/ c % fr.nsync = 0
        THEN [lf EXCEPT !.cur_sb_col[p][r] = Max({@, cur})]
        ELSE lf

\* Those sync_write() wakes.
Awaiting(p, r, c) ==
    IF c >= fr.filter_cols - 1 \/ c % fr.nsync = 0 THEN AsleepInFilter(p, r) ELSE {}

\* ... and av1_set_vert_loop_filter_done(), row by row and plane by plane.  It
\* counts columns in superblocks, which makes cur_sb_col no smaller.
ReportFiltered(w) ==
    LET j == Jobs[wk[w].job]
        c == fr.filter_cols - 1
    IN  /\ At(w, "reportlf")
        /\ lf' = sync_write(j.plane, j.row, c)
        /\ wk' = Woken(Reported(w, wk[w].job, Len(Jobs) \div 2, "done"),
                       Awaiting(j.plane, j.row, c))
        /\ UNCHANGED <<fr, enc, encoded, filtered, frame>>

-----------------------------------------------------------------------------
(* Deblocking: launch_loop_filter_rows() and av1_thread_loop_filter_rows().*)

\* get_lf_job_info().
TakeFilterJob(w) ==
    /\ At(w, "filter")
    /\ IF lf.exit \/ lf.dequeued = Len(Jobs)
       THEN /\ wk' = [wk EXCEPT ![w].pc = "done"]
            /\ UNCHANGED lf
       ELSE /\ wk' = [wk EXCEPT ![w].pc = "await", ![w].job = lf.dequeued + 1,
                                ![w].col = 0]
            /\ lf' = [lf EXCEPT !.dequeued = @ + 1]
    /\ UNCHANGED <<fr, enc, encoded, filtered, frame>>

RowEncoded(r) == enc.tile_cols_done[r] = Len(fr.widths)

\* Slip: the row below may still be encoding.
RowsReadyAbove(r) == RowEncoded(r)

RowsReady(r) == RowEncoded(r) /\ RowEncoded(Min({Max(FrameRows), r + 1}))

\* The row of the job and the next one must be encoded, or a worker failed.
AwaitRows(w) ==
    /\ At(w, "await")
    /\ wk' = [wk EXCEPT ![w].pc =
                 CASE enc.exit -> "done"
                   [] ~enc.exit /\ ~RowsReady(Job(w).row) -> "norow"
                   [] OTHER -> IF Job(w).dir = 0 THEN "vert" ELSE "readtop"]
    /\ UNCHANGED <<fr, enc, lf, encoded, filtered, frame>>

\* The next column of the job, or the next job.
Onward(w, p) ==
    IF wk[w].col < fr.filter_cols - 1
    THEN [wk EXCEPT ![w].pc = p, ![w].col = @ + 1]
    ELSE [wk EXCEPT ![w].pc = "filter", ![w].col = 0]
Unit(w) == <<Job(w).dir, Job(w).plane, Job(w).row, wk[w].col>>

\* Vertical edges of a column, then sync_write().
FilterVert(w) ==
    LET j == Job(w)
    IN  /\ At(w, "vert")
        /\ filtered' = filtered \cup {Unit(w)}
        /\ lf' = sync_write(j.plane, j.row, wk[w].col)
        /\ wk' = Woken(Onward(w, "vert"), Awaiting(j.plane, j.row, wk[w].col))
        /\ UNCHANGED <<fr, enc, encoded, frame>>

\* Slip: the row above is not waited for.
ReadTopNever(w) ==
    /\ At(w, "readtop")
    /\ wk' = [wk EXCEPT ![w].pc = "readright"]
    /\ UNCHANGED <<fr, enc, lf, encoded, filtered, frame>>

\* Horizontal edges: sync_read() for the row above, then for this row, ...
ReadTop(w) ==
    /\ At(w, "readtop")
    /\ wk' = [wk EXCEPT ![w].pc =
                 IF sync_read_waits(Job(w).plane, Job(w).row, wk[w].col)
                 THEN "htop" ELSE "readright"]
    /\ UNCHANGED <<fr, enc, lf, encoded, filtered, frame>>

ReadRight(w) ==
    /\ At(w, "readright")
    /\ wk' = [wk EXCEPT ![w].pc =
                 IF sync_read_waits(Job(w).plane, Job(w).row + 1, wk[w].col)
                 THEN "hright" ELSE "lfcheck"]
    /\ UNCHANGED <<fr, enc, lf, encoded, filtered, frame>>

\* ... lf_mt_exit, upon which the job is left, ...
CheckFilterExit(w) ==
    /\ At(w, "lfcheck")
    /\ wk' = [wk EXCEPT ![w].pc =
                 IF Cardinality(Workers) > 1 /\ lf.exit THEN "filter" ELSE "horz"]
    /\ UNCHANGED <<fr, enc, lf, encoded, filtered, frame>>

\* ... and the edges.
FilterHorz(w) ==
    /\ At(w, "horz")
    /\ filtered' = filtered \cup {Unit(w)}
    /\ wk' = Onward(w, "readtop")
    /\ UNCHANGED <<fr, enc, lf, encoded, frame>>

-----------------------------------------------------------------------------

\* Slip: only what worker 0 returned is looked at.
SyncWorkersFirst ==
    /\ frame = "coding"
    /\ \A w \in Workers : At(w, "done")
    /\ frame' = IF wk[0].failed THEN "failed" ELSE "coded"
    /\ UNCHANGED <<fr, enc, lf, wk, encoded, filtered>>

\* sync_enc_workers(): the frame has failed if a worker's hook returned 0.
SyncWorkers ==
    /\ frame = "coding"
    /\ \A w \in Workers : At(w, "done")
    /\ frame' = IF \E w \in Workers : wk[w].failed THEN "failed" ELSE "coded"
    /\ UNCHANGED <<fr, enc, lf, wk, encoded, filtered>>

NextFrame ==
    /\ frame # "coding"
    /\ \E f \in Frames :
          /\ fr' = f /\ enc' = row_mt_init(f) /\ lf' = loop_filter_frame_mt_init(f)
          /\ wk' = Launched(f)
    /\ encoded' = {} /\ filtered' = {} /\ frame' = "coding"

Step(w) ==
    /\ w \in Workers
    /\ \/ Allocate(w) \/ TakeJob(w) \/ ReadAbove(w) \/ CheckExit(w)
       \/ ReadTopRight(w) \/ EncodeSuperblock(w) \/ LeaveRow(w)
       \/ InternalError(w) \/ ReportRow(w) \/ StopFilter(w) \/ ReportFiltered(w)
       \/ TakeFilterJob(w) \/ AwaitRows(w) \/ FilterVert(w) \/ ReadTop(w)
       \/ ReadRight(w) \/ CheckFilterExit(w) \/ FilterHorz(w)

FrameStep == SyncWorkers \/ \E w \in 0 .. MaxThreads - 1 : Step(w)

Next == NextFrame \/ FrameStep

\* Some thread that can move does; a sleeping worker moves only when it is
\* woken.
Spec == Init /\ [][Next]_vars /\ WF_vars(FrameStep)

-----------------------------------------------------------------------------
(* Properties                                                              *)

\* A superblock is encoded only after what it predicts from: every superblock
\* of the row above as far as the one to the right (and further with intra
\* block copy).  Rows announced as finished by a worker that failed break
\* this, but then row_mt_exit is set and the frame will be reported failed.
AboveRightEncoded ==
    /\ TypeOK
    /\ \A w \in Workers :
          At(w, "encode") /\ wk[w].row > 0 /\ ~enc.exit =>
              \A c \in 0 .. Width(wk[w].tile) - 1 :
                  c <= wk[w].col + 1 + fr.delay =>
                      <<wk[w].tile, wk[w].row - 1, c>> \in encoded

\* Edges are filtered in their order.  Deblocking stays behind encoding: a row
\* is changed only when all of it and all of the row below, which predicts from
\* its unfiltered pixels, has been encoded in every tile column.  And the
\* horizontal edges of a column come after the vertical ones of it and of its
\* right neighbour, in its row and in the row above, whatever the number of
\* columns nsync between two announcements.
FilteredInOrder ==
    \A w \in Workers :
        /\ wk[w].pc \in {"vert", "horz"} =>
              \A s \in Superblocks :
                  FirstRow(s[1]) + s[2] \in {Job(w).row, Job(w).row + 1} => s \in encoded
        /\ At(w, "horz") =>
              \A r \in FrameRows, c \in 0 .. fr.filter_cols - 1 :
                  r \in {Job(w).row - 1, Job(w).row} /\ c <= wk[w].col + 1
                  => <<0, Job(w).plane, r, c>> \in filtered

\* A frame nobody reports as failed is whole: every superblock encoded and,
\* when deblocking was pipelined, every edge of every plane filtered.
CodedIsWhole ==
    frame = "coded" =>
        /\ encoded = Superblocks
        /\ fr.lpf => filtered = (0 .. 1) \X ToSet(fr.planes) \X FrameRows
                                \X (0 .. fr.filter_cols - 1)

\* Every frame ends: no worker sleeps for ever on the row above, on rows still
\* to be encoded or on vertical edges, whichever worker fails, and wherever.
FrameEnds == frame = "coding" ~> frame # "coding"
=============================================================================
