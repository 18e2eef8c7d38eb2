---------------------------- MODULE FileTransfer ----------------------------
(***************************************************************************)
(* Uploads from a guest to a directory of the host: the part of            *)
(* crates/runtime/src/network.rs that offers, starts, queues, resumes,     *)
(* cancels and ends a transfer, and the ReceiveTracker and StagedReceive   *)
(* of crates/net/src/file_transfer.rs that hold what has arrived.          *)
(*                                                                         *)
(* Four kinds of process run at once: the two actors, each taking one      *)
(* event or control message at a time; one task per send; one task per     *)
(* chunk stream on the host; and the short tasks the host's actor spawns   *)
(* to take the inbox lock.  The control channel keeps its order.  The file *)
(* connection is another one: it drops on its own, and nothing orders its  *)
(* chunks against the control messages.  A control message that finds its  *)
(* queue full is lost.                                                     *)
(*                                                                         *)
(* A file is a number of chunks.  A transfer is named by the number of its *)
(* file, since a guest hands an id out once.  Another guest counts its ids *)
(* from zero too, and staging names its files by the id alone: what such a *)
(* guest does to a staging file of this one is an action of its own.       *)
(***************************************************************************)
EXTENDS Integers, Sequences, FiniteSets

CONSTANTS
    FileCount,                     \* bound: files the guest offers
    Names,                         \* the names files are offered under
    Chunks,                        \* chunks of a file
    MAX_CONCURRENT_FILE_TRANSFERS,
    MAX_PENDING_FILE_OFFERS,
    FILE_RESUME_ATTEMPTS,
    MaxLinks,                      \* bound: file connections ever made
    MaxMishaps                     \* bound: failures, drops, cancels and edits

ASSUME FileAssumption ==
    /\ FileCount \in Nat /\ Chunks \in Nat \ {0}
    /\ MAX_CONCURRENT_FILE_TRANSFERS \in Nat \ {0}
    /\ MAX_PENDING_FILE_OFFERS \in Nat /\ FILE_RESUME_ATTEMPTS \in Nat
    /\ MaxLinks \in Nat /\ MaxMishaps \in Nat

Files == 1..FileCount

None == -1
NoRow == [moved |-> 0, state |-> "none"]
NoFile == [len |-> None, good |-> TRUE]
Nothing == [of |-> 0, file |-> NoFile]

\* Where a put may land: the offered name, or a numbered copy beside it.
Places == [name : Names, copy : 0..(FileCount - 1)]
NoPlace == [copy |-> None]
Empty == [len |-> 0, good |-> TRUE]
NotStarted == [received |-> 0, ended |-> "unknown"]

VARIABLES
    guest,     \* the guest's actor, a record (GuestState)
    host,      \* the host's actor, a record (HostState)
    to_host,   \* control messages on their way
    to_guest,
    up,        \* up[l]: whether file connection l is alive
    streams,   \* chunk streams ever opened, each with its two tasks
    inbox,     \* FileInbox, shared by the host's tasks
    jobs,      \* tasks the host's actor spawned and that have not run
    disk,      \* partial and delivered files, and what another guest staged too
    edited,    \* files changed since they were hashed
    mishaps,   \* things that went other than plainly so far
    untold     \* history: files a control message about was lost

vars == <<guest, host, to_host, to_guest, up, streams, inbox, jobs, disk, edited,
          mishaps, untold>>

Row == [moved : 0..Chunks,
        state : {"none", "Running", "Completed", "Cancelled", "Failed"}]

GuestState ==
    [granted : BOOLEAN,                     \* may_transfer_files
     offered : 0..FileCount,
     file_offers_out : Seq(Files),
     rows : [Files -> Row],                 \* file_transfers
     pending : Seq([id : Files, from : 0..Chunks, attempts : Nat]),
     tasks : SUBSET Files,                  \* file_send_tasks
     resumable : [Files -> {None} \cup 0..FILE_RESUME_ATTEMPTS],
     conn : 0..MaxLinks,                    \* file_conns, 0 for none
     dialing : BOOLEAN,
     events : Seq([id : Files, moved : {None} \cup 0..Chunks])]

HostState ==
    [granted : BOOLEAN,
     accepted : Seq(Files),                 \* file_accepted
     place : [Files -> Places \cup {NoPlace}],  \* AcceptedOffer::destination
     rows : [Files -> Row],
     adopted : SUBSET (1..MaxLinks),        \* connections with a reader
     conn : 0..MaxLinks,
     events : Seq([id : Files, moved : {None} \cup 0..Chunks,
                   state : {"Running", "Completed", "Failed"}])]

Init ==
    /\ guest = [granted |-> TRUE, offered |-> 0, file_offers_out |-> << >>,
                rows |-> [f \in Files |-> NoRow], pending |-> << >>,
                tasks |-> {}, resumable |-> [f \in Files |-> None],
                conn |-> 0, dialing |-> FALSE, events |-> << >>]
    /\ host = [granted |-> TRUE, accepted |-> << >>,
               place |-> [f \in Files |-> NoPlace],
               rows |-> [f \in Files |-> NoRow], adopted |-> {}, conn |-> 0,
               events |-> << >>]
    /\ to_host = << >> /\ to_guest = << >>
    /\ up = << >> /\ streams = << >>
    /\ inbox = [tracker |-> [f \in Files |-> NotStarted],
                hashes |-> [f \in Files |-> NoFile],
                staged |-> {}, expected |-> {}]
    /\ jobs = {}
    /\ disk = [part |-> [f \in Files |-> NoFile],
               exported |-> [d \in Places |-> Nothing],
               shared |-> {}]
    /\ edited = {} /\ mishaps = 0 /\ untold = {}

\* Bound: how often anything but the plain course of a transfer may happen.
Mishap(happens) ==
    /\ mishaps' = mishaps + (IF happens THEN 1 ELSE 0)
    /\ mishaps' <= MaxMishaps
    /\ UNCHANGED untold

-----------------------------------------------------------------------------
(* The guest, who sends.                                                   *)

\* A dead connection is found out about, and dropped, at the point of use.
live_file_connection(g, links) ==
    IF g.conn # 0 /\ ~links[g.conn] THEN [g EXCEPT !.conn = 0] ELSE g

\* The jobs start_pending_sends takes off the queue.
Startable(g, links) ==
    LET slots == MAX_CONCURRENT_FILE_TRANSFERS - Cardinality(g.tasks) IN
    IF g.conn = 0 \/ ~links[g.conn] THEN << >>
    ELSE SubSeq(g.pending, 1, IF slots < Len(g.pending) THEN slots ELSE Len(g.pending))

start_pending_sends(g, links) ==
    LET taken == Startable(g, links)
        ids == {taken[i].id : i \in DOMAIN taken}
    IN  [live_file_connection(g, links) EXCEPT
            !.pending = SubSeq(@, Len(taken) + 1, Len(@)),
            !.tasks = @ \cup ids,
            !.resumable = [f \in Files |->
                IF f \in ids
                  THEN taken[CHOOSE i \in DOMAIN taken : taken[i].id = f].attempts
                  ELSE @[f]]]

spawn_send(job, link) ==
    [id |-> job.id, link |-> link, next |-> job.from, sender |-> "open",
     buffer |-> << >>, reader |-> "idle"]

\* The guest goes on as g, sending what its queue and its connection allow.
SendPending(g, links) ==
    /\ guest' = start_pending_sends(g, links)
    /\ streams' = streams \o [i \in DOMAIN Startable(g, links) |->
                                 spawn_send(Startable(g, links)[i], g.conn)]

\* ensure_file_connection, on the side that dialed the session.
EnsureFileConnection(g) ==
    LET e == live_file_connection(g, up) IN
    IF e.conn # 0 THEN SendPending(e, up)
    ELSE guest' = [e EXCEPT !.dialing = TRUE] /\ UNCHANGED streams

\* The streams after the send task of each file of ids was aborted.
Aborted(ids) ==
    [k \in DOMAIN streams |->
        IF streams[k].id \in ids /\ streams[k].sender = "open"
          THEN [streams[k] EXCEPT !.sender = "reset"] ELSE streams[k]]

cancelled(row) ==
    IF row.state = "Running" THEN [row EXCEPT !.state = "Cancelled"] ELSE row

CancelSend(f) ==
    /\ streams' = Aborted({f} \cap guest.tasks)
    /\ guest' = [guest EXCEPT !.tasks = @ \ {f}, !.resumable[f] = None,
                              !.rows[f] = cancelled(@)]

\* on_remote_upload and on_put_prepared; the file is hashed here.
Offer(name) ==
    /\ guest.granted /\ guest.offered < FileCount
    /\ LET f == guest.offered + 1 IN
       /\ guest' = [guest EXCEPT !.offered = f,
                                 !.file_offers_out = Append(@, f)]
       /\ to_host' = Append(to_host, [kind |-> "put", id |-> f, name |-> name])
    /\ UNCHANGED <<host, to_guest, up, streams, inbox, jobs, disk, edited, mishaps, untold>>

OnFileAcceptInbound ==
    LET accepted == Head(to_guest).yes
        f == Head(guest.file_offers_out)
        popped == [guest EXCEPT !.file_offers_out = Tail(@)]
    IN
    /\ IF guest.file_offers_out = << >>
         THEN UNCHANGED <<guest, to_host, streams>>
       ELSE IF ~accepted \/ ~guest.granted
         THEN guest' = popped /\ UNCHANGED <<to_host, streams>>
       ELSE
         /\ to_host' = Append(to_host, [kind |-> "start", id |-> f])
         /\ EnsureFileConnection(
                [popped EXCEPT
                    !.rows[f] = [moved |-> 0, state |-> "Running"],
                    !.pending = Append(@, [id |-> f, from |-> 0, attempts |-> 0])])
    /\ UNCHANGED <<host, up, inbox, jobs, disk, edited, mishaps, untold>>

\* Slip: only a transfer that still runs is completed by its last ack.
on_file_chunk_ack_running(g, f, offset) ==
    IF g.rows[f].state # "Running" THEN g
    ELSE IF offset < Chunks THEN [g EXCEPT !.rows[f].moved = offset]
    ELSE [g EXCEPT !.rows[f] = [moved |-> Chunks, state |-> "Completed"],
                   !.tasks = @ \ {f}]

on_file_chunk_ack(g, f, offset) ==
    IF g.rows[f] = NoRow THEN g
    ELSE IF offset < Chunks THEN [g EXCEPT !.rows[f].moved = offset]
    ELSE [g EXCEPT !.rows[f] = [moved |-> Chunks, state |-> "Completed"],
                   !.tasks = @ \ {f}]

GuestMessage ==
    /\ to_guest # << >>
    /\ to_guest' = Tail(to_guest)
    /\ LET m == Head(to_guest) IN
       \/ m.kind = "accept" /\ OnFileAcceptInbound
       \/ /\ m.kind = "ack"
          /\ guest' = on_file_chunk_ack(guest, m.id, m.offset)
          /\ UNCHANGED <<host, to_host, up, streams, inbox, jobs, disk, edited, mishaps, untold>>
       \/ /\ m.kind = "abort"
          /\ CancelSend(m.id)
          /\ UNCHANGED <<host, to_host, up, inbox, jobs, disk, edited, mishaps, untold>>

\* on_file_abort on the guest.
GuestAborts(f) ==
    /\ guest.rows[f] # NoRow
    /\ Mishap(TRUE)
    /\ to_host' = Append(to_host, [kind |-> "abort", id |-> f])
    /\ CancelSend(f)
    /\ UNCHANGED <<host, to_guest, up, inbox, jobs, disk, edited>>

may_resume(g, f) ==
    /\ g.resumable[f] # None /\ g.resumable[f] < FILE_RESUME_ATTEMPTS
    /\ g.granted /\ g.rows[f].state = "Running"

\* resume_send picks the file up where its row says it is.
resume_send(g, f) ==
    LET attempts == g.resumable[f] + 1 IN
    [g EXCEPT !.tasks = @ \ {f}, !.resumable[f] = attempts,
              !.pending = Append(@, [id |-> f, from |-> g.rows[f].moved,
                                     attempts |-> attempts])]

\* on_file_progress and on_file_finished, for a file that is being sent.
GuestEvent ==
    /\ guest.events # << >>
    /\ LET e == Head(guest.events)
           f == e.id
           g == [guest EXCEPT !.events = Tail(@)]
       IN
       IF e.moved # None
         THEN /\ guest' = IF g.rows[f] = NoRow THEN g
                          ELSE [g EXCEPT !.rows[f].moved = e.moved]
              /\ UNCHANGED streams
       ELSE IF may_resume(g, f) THEN EnsureFileConnection(resume_send(g, f))
       ELSE IF g.rows[f] = NoRow THEN guest' = g /\ UNCHANGED streams
       ELSE SendPending([g EXCEPT !.rows[f].state = "Failed",
                                  !.tasks = @ \ {f}, !.resumable[f] = None], up)
    /\ UNCHANGED <<host, to_host, to_guest, up, inbox, jobs, disk, edited, mishaps, untold>>

\* The view closes: abandon_file_transfers on the guest.
GuestAbandons ==
    /\ guest.granted
    /\ guest' = [guest EXCEPT !.granted = FALSE, !.file_offers_out = << >>,
                     !.rows = [f \in Files |-> NoRow], !.pending = << >>,
                     !.tasks = {}, !.resumable = [f \in Files |-> None],
                     !.conn = 0, !.dialing = FALSE]
    /\ streams' = Aborted(guest.tasks)
    /\ up' = [l \in DOMAIN up |-> up[l] /\ l # guest.conn]
    /\ Mishap(TRUE)
    /\ UNCHANGED <<host, to_host, to_guest, inbox, jobs, disk, edited>>

-----------------------------------------------------------------------------
(* The file connection and the tasks that send on it.                      *)

\* on_file_connected on the guest; a connection it replaces is closed.
Connected ==
    /\ guest.dialing /\ Len(up) < MaxLinks
    /\ LET l == Len(up) + 1
           links == [k \in 1..l |-> k = l \/ (up[k] /\ k # guest.conn)]
       IN
       /\ up' = links
       /\ SendPending([guest EXCEPT !.dialing = FALSE, !.conn = l], links)
    /\ UNCHANGED <<host, to_host, to_guest, inbox, jobs, disk, edited, mishaps, untold>>

ConnectFailed ==
    /\ guest.dialing
    /\ guest' = [guest EXCEPT !.dialing = FALSE, !.pending = << >>]
    /\ Mishap(TRUE)
    /\ UNCHANGED <<host, to_host, to_guest, up, streams, inbox, jobs, disk, edited>>

\* on_file_connected on the host, for the newest connection.
Arrives ==
    LET l == Len(up) IN
    /\ l > 0 /\ l \notin host.adopted /\ up[l]
    /\ IF host.granted
         THEN /\ host' = [host EXCEPT !.adopted = @ \cup {l}, !.conn = l]
              /\ up' = [k \in DOMAIN up |-> up[k] /\ (k = l \/ k # host.conn)]
         ELSE up' = [up EXCEPT ![l] = FALSE] /\ UNCHANGED host
    /\ UNCHANGED <<guest, to_host, to_guest, streams, inbox, jobs, disk, edited, mishaps, untold>>

Drops(l) ==
    /\ up[l]
    /\ up' = [up EXCEPT ![l] = FALSE]
    /\ Mishap(TRUE)
    /\ UNCHANGED <<guest, host, to_host, to_guest, streams, inbox, jobs, disk, edited>>

\* One chunk written by send_open; the progress it reports may be dropped.
Write(k, reported) ==
    LET s == streams[k] IN
    /\ s.sender = "open" /\ up[s.link] /\ s.next < Chunks
    /\ streams' = [streams EXCEPT
                      ![k].next = @ + 1,
                      ![k].buffer = IF s.reader = "done" THEN @
                                    ELSE Append(@, [offset |-> s.next,
                                                    good |-> s.id \notin edited])]
    /\ guest' = IF reported
                  THEN [guest EXCEPT !.events = Append(@, [id |-> s.id, moved |-> s.next + 1])]
                  ELSE guest
    /\ Mishap(~reported)
    /\ UNCHANGED <<host, to_host, to_guest, up, inbox, jobs, disk, edited>>

\* The end of the file: the stream is finished, and nothing is reported.
Finishes(k) ==
    /\ streams[k].sender = "open" /\ streams[k].next = Chunks
    /\ streams' = [streams EXCEPT ![k].sender = "finished"]
    /\ UNCHANGED <<guest, host, to_host, to_guest, up, inbox, jobs, disk, edited, mishaps, untold>>

\* The stream cannot be opened or written, or the file not read.
SendFails(k) ==
    /\ streams[k].sender = "open" /\ streams[k].next < Chunks
    /\ streams' = [streams EXCEPT ![k].sender = "reset"]
    /\ guest' = [guest EXCEPT !.events = Append(@, [id |-> streams[k].id, moved |-> None])]
    /\ Mishap(up[streams[k].link] /\ streams[k].reader # "done")
    /\ UNCHANGED <<host, to_host, to_guest, up, inbox, jobs, disk, edited>>

Edit(f) ==
    /\ f \notin edited /\ f <= guest.offered
    /\ edited' = edited \cup {f}
    /\ Mishap(TRUE)
    /\ UNCHANGED <<guest, host, to_host, to_guest, up, streams, inbox, jobs, disk>>

-----------------------------------------------------------------------------
(* The inbox: ReceiveTracker and the staging files.                        *)

\* A file, or a hash, after one more chunk: its length, and whether its bytes
\* are those the offer was hashed from.
Fed(file, chunk) ==
    [len |-> file.len + 1,
     good |-> file.good /\ chunk.good /\ chunk.offset = file.len]

\* A staging file after StagedReceive::append wrote a chunk where its handle
\* stands; a file that was taken away goes on without its name.
Appended(part, chunk, at) ==
    IF part = NoFile THEN part
    ELSE [len |-> IF part.len > at THEN part.len ELSE at + 1,
          good |-> part.good /\ chunk.good /\ chunk.offset = part.len]

Active == {f \in Files : inbox.tracker[f].ended = "no"}

\* Slip: one more than the limit is let in.
TooManyTransfersLate == Cardinality(Active) > MAX_CONCURRENT_FILE_TRANSFERS

\* What begin_with refuses, and what it does otherwise.
TooManyTransfers == Cardinality(Active) >= MAX_CONCURRENT_FILE_TRANSFERS

begin_with(b, f) ==
    [b EXCEPT !.tracker[f] = [received |-> 0, ended |-> "no"],
              !.hashes[f] = Empty]

apply_chunk_ok(state, offset) ==
    /\ state.ended = "no"
    /\ offset = state.received
    /\ state.received < Chunks

end(b, f, how) ==
    [b EXCEPT !.tracker[f].ended = IF @ = "unknown" THEN @ ELSE how,
              !.hashes[f] = NoFile]

\* Slip: the hash is dropped and the transfer stays live.
cancel_hash(b, f) == [b EXCEPT !.hashes[f] = NoFile]

cancel(b, f) == end(b, f, "Cancelled")

\* Slip: the length is compared and the hash is not.
verified_by_length(b, f) ==
    /\ b.hashes[f].len = Chunks
    /\ b.tracker[f].received = Chunks

verified(b, f) ==
    /\ b.hashes[f].len = Chunks /\ b.hashes[f].good
    /\ b.tracker[f].received = Chunks

finish(b, f) == end(b, f, IF verified(b, f) THEN "Completed" ELSE "Cancelled")

Event(f, moved, state) == [id |-> f, moved |-> moved, state |-> state]

HostTold(e) == host' = [host EXCEPT !.events = Append(@, e)]

-----------------------------------------------------------------------------
(* read_transfer_stream: one task per stream the host has accepted.        *)

\* The reader returns, dropping its end of the stream.
Done(k) == [streams EXCEPT ![k].reader = "done", ![k].buffer = << >>]

\* The stream ended, or broke with what was still on its way.
ReaderEnds(k) ==
    LET s == streams[k] IN
    /\ s.reader = "idle"
    /\ \/ s.buffer = << >> /\ s.sender # "open"
       \/ s.sender = "reset" \/ ~up[s.link]
    /\ streams' = Done(k)
    /\ UNCHANGED <<guest, host, to_host, to_guest, up, inbox, jobs, disk, edited, mishaps, untold>>

\* The next chunk is read and wait_for_start looks for its announcement: it is
\* there, or the wait runs out.  The inbox is locked anew to apply the chunk.
ReadChunk(k) ==
    LET s == streams[k]
        announced == s.id \in inbox.expected
    IN
    /\ s.reader = "idle" /\ s.link \in host.adopted /\ s.buffer # << >>
    /\ streams' = IF announced THEN [streams EXCEPT ![k].reader = "applying"] ELSE Done(k)
    /\ Mishap(~announced)
    /\ UNCHANGED <<guest, host, to_host, to_guest, up, inbox, jobs, disk, edited>>

\* Under one lock: account for the chunk, stage it, hash it.
Apply(k, staged) ==
    LET s == streams[k]
        f == s.id
        chunk == Head(s.buffer)
        counted == [inbox EXCEPT !.tracker[f].received = @ + 1]
        received == counted.tracker[f].received
    IN
    /\ s.reader = "applying"
    /\ Mishap(~staged)
    /\ IF ~apply_chunk_ok(inbox.tracker[f], chunk.offset)
         THEN /\ staged
              /\ streams' = Done(k)
              /\ HostTold(Event(f, None, "Failed"))
              /\ UNCHANGED <<inbox, disk>>
       ELSE IF ~staged
         THEN /\ f \in inbox.staged
              /\ inbox' = cancel(counted, f)
              /\ streams' = Done(k)
              /\ HostTold(Event(f, None, "Failed"))
              /\ UNCHANGED disk
       ELSE
         /\ inbox' = [counted EXCEPT !.hashes[f] = Fed(@, chunk)]
         /\ disk' = IF f \in inbox.staged
                      THEN [disk EXCEPT !.part[f] =
                                Appended(@, chunk, inbox.tracker[f].received)]
                      ELSE disk
         /\ streams' = [streams EXCEPT ![k].reader = IF received = Chunks
                                                       THEN "finishing" ELSE "idle",
                                       ![k].buffer = Tail(@)]
         /\ HostTold(Event(f, received, "Running"))
    /\ UNCHANGED <<guest, to_host, to_guest, up, jobs, edited>>

\* finish_transfer up to the unlock; a cancel that came first took the
\* expectation away.
FinishTransfer(k) ==
    LET f == streams[k].id
        taken == [finish(inbox, f) EXCEPT !.expected = @ \ {f}, !.staged = @ \ {f}]
        exports == verified(inbox, f) /\ f \in inbox.staged
    IN
    /\ streams[k].reader = "finishing"
    /\ IF f \notin inbox.expected
         THEN /\ streams' = Done(k)
              /\ UNCHANGED <<host, inbox, disk>>
         ELSE /\ inbox' = taken
              /\ streams' = [streams EXCEPT ![k].reader = IF exports THEN "exporting"
                                                                     ELSE "done"]
              /\ IF exports THEN UNCHANGED <<host, disk>>
                 ELSE /\ HostTold(Event(f, None, "Failed"))
                      /\ disk' = IF f \in inbox.staged
                                   THEN [disk EXCEPT !.part[f] = NoFile] ELSE disk
    /\ UNCHANGED <<guest, to_host, to_guest, up, jobs, edited, mishaps, untold>>

\* StagedReceive::export, which no lock covers.
Export(k, moved) ==
    LET f == streams[k].id IN
    /\ streams[k].reader = "exporting"
    /\ streams' = Done(k)
    /\ moved => disk.part[f] # NoFile
    /\ IF moved
         THEN /\ disk' = [disk EXCEPT !.exported[host.place[f]] =
                                            [of |-> f, file |-> disk.part[f]],
                                     !.part[f] = NoFile]
              /\ HostTold(Event(f, None, "Completed"))
         ELSE /\ HostTold(Event(f, None, "Failed"))
              /\ UNCHANGED disk
    /\ Mishap(~moved /\ disk.part[f] # NoFile)
    /\ UNCHANGED <<guest, to_host, to_guest, up, inbox, jobs, edited>>

-----------------------------------------------------------------------------
(* The host's actor and the tasks it spawns.                               *)

Reply(m) == to_guest' = Append(to_guest, m)

\* Where a file of that name goes that no file on disk is in the way of.
unique_destination(name) ==
    LET free(copy) == disk.exported[[name |-> name, copy |-> copy]] = Nothing
    IN  [name |-> name,
         copy |-> CHOOSE n \in 0..(FileCount - 1) :
                     free(n) /\ \A m \in 0..(n - 1) : ~free(m)]

\* on_file_put_offer; a put may be declined for its directory or its size.
OnFilePutOffer(f, name, fits) ==
    LET yes == fits /\ host.granted /\ Len(host.accepted) < MAX_PENDING_FILE_OFFERS IN
    /\ host' = IF yes THEN [host EXCEPT !.accepted = Append(@, f),
                                        !.place[f] = unique_destination(name)]
               ELSE host
    /\ Reply([kind |-> "accept", id |-> f, yes |-> yes])
    /\ Mishap(~fits)
    /\ UNCHANGED jobs

OnFileTransferStart(f) ==
    /\ host' = IF ~host.granted \/ host.accepted = << >> THEN host
               ELSE IF Head(host.accepted) # f THEN [host EXCEPT !.accepted = Tail(@)]
               ELSE [host EXCEPT !.accepted = Tail(@),
                                 !.rows[f] = [moved |-> 0, state |-> "Running"]]
    /\ IF host.granted /\ host.accepted # << >> /\ Head(host.accepted) = f
         THEN jobs' = jobs \cup {[kind |-> "begin", id |-> f]} /\ UNCHANGED to_guest
         ELSE Reply([kind |-> "abort", id |-> f]) /\ UNCHANGED jobs

\* cancel_transfer; the channel it cancels in lives as long as the grant.
CancelReceive(f) ==
    /\ host' = [host EXCEPT !.rows[f] = cancelled(@)]
    /\ jobs' = IF host.granted THEN jobs \cup {[kind |-> "cancel", id |-> f]} ELSE jobs

HostMessage ==
    /\ to_host # << >>
    /\ to_host' = Tail(to_host)
    /\ LET m == Head(to_host) IN
       \/ m.kind = "put" /\ \E fits \in BOOLEAN : OnFilePutOffer(m.id, m.name, fits)
       \/ m.kind = "start" /\ OnFileTransferStart(m.id) /\ UNCHANGED <<mishaps, untold>>
       \/ m.kind = "abort" /\ CancelReceive(m.id) /\ UNCHANGED <<to_guest, mishaps, untold>>
    /\ UNCHANGED <<guest, up, streams, inbox, disk, edited>>

\* on_file_abort on the host.
HostAborts(f) ==
    /\ host.rows[f] # NoRow
    /\ Mishap(TRUE)
    /\ Reply([kind |-> "abort", id |-> f])
    /\ CancelReceive(f)
    /\ UNCHANGED <<guest, to_host, up, streams, inbox, disk, edited>>

\* The task on_file_transfer_start spawned; a staging file may not be had.
RunBegin(f, created) ==
    LET begun == begin_with(inbox, f) IN
    /\ jobs' = jobs \ {[kind |-> "begin", id |-> f]}
    /\ Mishap(~created)
    /\ IF TooManyTransfers
         THEN /\ created
              /\ HostTold(Event(f, None, "Failed"))
              /\ UNCHANGED <<inbox, disk>>
       ELSE IF created
         THEN /\ inbox' = [begun EXCEPT !.staged = @ \cup {f}, !.expected = @ \cup {f}]
              /\ disk' = [disk EXCEPT !.part[f] = Empty]
              /\ UNCHANGED host
         ELSE /\ inbox' = cancel(begun, f)
              /\ HostTold(Event(f, None, "Failed"))
              /\ UNCHANGED disk

\* Transfers cancelled, what they staged deleted, and some expected no more.
Discard(ids, unexpected) ==
    /\ inbox' = [tracker |-> [f \in Files |-> IF f \in ids THEN cancel(inbox, f).tracker[f]
                                                         ELSE inbox.tracker[f]],
                 hashes |-> [f \in Files |-> IF f \in ids THEN NoFile
                                                        ELSE inbox.hashes[f]],
                 staged |-> inbox.staged \ ids,
                 expected |-> inbox.expected \ unexpected]
    /\ disk' = [disk EXCEPT !.part = [f \in Files |->
                    IF f \in ids \cap inbox.staged THEN NoFile ELSE @[f]]]

\* The task cancel_transfer spawned.
RunCancel(f) ==
    /\ jobs' = jobs \ {[kind |-> "cancel", id |-> f]}
    /\ Discard({f}, {f})
    /\ UNCHANGED <<host, mishaps, untold>>

\* The task abandon_file_transfers spawned.
RunAbandon ==
    /\ jobs' = jobs \ {[kind |-> "abandon", id |-> 0]}
    /\ Discard(inbox.staged, inbox.expected)
    /\ UNCHANGED <<host, mishaps, untold>>

RunJob ==
    /\ \E j \in jobs :
          \/ j.kind = "begin" /\ \E created \in BOOLEAN : RunBegin(j.id, created)
          \/ j.kind = "cancel" /\ RunCancel(j.id)
          \/ j.kind = "abandon" /\ RunAbandon
    /\ UNCHANGED <<guest, to_host, to_guest, up, streams, edited>>

\* Slip: a row that was cancelled in the meantime stays cancelled.
on_file_finished_running(row, state) ==
    IF row.state # "Running" THEN row
    ELSE [moved |-> IF state = "Completed" THEN Chunks ELSE row.moved, state |-> state]

\* on_file_progress and on_file_finished, for a file that is received.
on_file_finished(row, state) ==
    IF row = NoRow THEN row
    ELSE [moved |-> IF state = "Completed" THEN Chunks ELSE row.moved, state |-> state]

\* Slip: every count is acknowledged, the full size too.
UnansweredRow(row, e) == row = NoRow

\* Neither an ack nor an abort goes out: the row is gone, or the file is whole
\* and not verified yet.
Unanswered(row, e) == row = NoRow \/ (e.state = "Running" /\ e.moved = Chunks)

HostEvent ==
    /\ host.events # << >>
    /\ LET e == Head(host.events)
           row == host.rows[e.id]
           running == e.state = "Running"
       IN
       /\ host' = [host EXCEPT !.events = Tail(@),
                       !.rows[e.id] = IF ~running THEN on_file_finished(row, e.state)
                                      ELSE IF row = NoRow THEN row
                                      ELSE [row EXCEPT !.moved = e.moved]]
       /\ IF Unanswered(row, e) THEN UNCHANGED to_guest
          ELSE Reply(CASE e.state = "Running" ->
                            [kind |-> "ack", id |-> e.id, offset |-> e.moved]
                       [] e.state = "Completed" ->
                            [kind |-> "ack", id |-> e.id, offset |-> Chunks]
                       [] e.state = "Failed" -> [kind |-> "abort", id |-> e.id])
    /\ UNCHANGED <<guest, to_host, up, streams, inbox, jobs, disk, edited, mishaps, untold>>

\* The grant is withdrawn: abandon_file_transfers on the host.
HostAbandons ==
    /\ host.granted
    /\ host' = [host EXCEPT !.granted = FALSE, !.accepted = << >>,
                            !.rows = [f \in Files |-> NoRow], !.conn = 0]
    /\ up' = [l \in DOMAIN up |-> up[l] /\ l # host.conn]
    /\ jobs' = jobs \cup {[kind |-> "abandon", id |-> 0]}
    /\ Mishap(TRUE)
    /\ UNCHANGED <<guest, to_host, to_guest, streams, inbox, disk, edited>>

-----------------------------------------------------------------------------
(* The surroundings.                                                       *)

\* send_to drops a message that finds the connection's queue full; which one
\* was dropped shows when its turn to arrive comes.
QueueFull ==
    /\ mishaps < MaxMishaps /\ mishaps' = mishaps + 1
    /\ \/ /\ to_host # << >> /\ to_host' = Tail(to_host)
          /\ untold' = untold \cup {Head(to_host).id}
          /\ UNCHANGED to_guest
       \/ /\ to_guest # << >> /\ to_guest' = Tail(to_guest)
          /\ untold' = untold \cup {Head(to_guest).id}
          /\ UNCHANGED to_host
    /\ UNCHANGED <<guest, host, up, streams, inbox, jobs, disk, edited>>

\* A transfer of another guest under the same id, into the same directory,
\* creates its staging file over this one's, writes to it or takes it away.
OtherGuest(f) ==
    /\ disk.part[f] # NoFile
    /\ \E n \in None..Chunks :
          disk' = [disk EXCEPT !.part[f] = [len |-> n, good |-> n <= 0],
                               !.shared = @ \cup {f}]
    /\ Mishap(TRUE)
    /\ UNCHANGED <<guest, host, to_host, to_guest, up, streams, inbox, jobs, edited>>

-----------------------------------------------------------------------------
Sends ==
    \E k \in DOMAIN streams :
       \/ \E reported \in BOOLEAN : Write(k, reported)
       \/ Finishes(k) \/ SendFails(k)

Reads ==
    \E k \in DOMAIN streams :
       \/ ReadChunk(k) \/ ReaderEnds(k) \/ FinishTransfer(k)
       \/ \E ok \in BOOLEAN : Apply(k, ok) \/ Export(k, ok)

Next ==
    \/ \E name \in Names : Offer(name)
    \/ GuestMessage \/ GuestEvent \/ GuestAbandons
    \/ Connected \/ ConnectFailed \/ Arrives
    \/ Sends \/ Reads
    \/ HostMessage \/ RunJob \/ HostEvent \/ HostAbandons
    \/ \E f \in Files : GuestAborts(f) \/ HostAborts(f) \/ Edit(f) \/ OtherGuest(f)
    \/ QueueFull
    \/ \E l \in DOMAIN up : Drops(l)

Spec == Init /\ [][Next]_vars

-----------------------------------------------------------------------------
File == [len : {None} \cup 0..Chunks, good : BOOLEAN]

Stream ==
    [id : Files, link : 1..MaxLinks, next : 0..Chunks,
     sender : {"open", "finished", "reset"},
     buffer : Seq([offset : 0..(Chunks - 1), good : BOOLEAN]),
     reader : {"idle", "applying", "finishing", "exporting", "done"}]

\* Type invariant, with the limit begin_with keeps: no more than
\* MAX_CONCURRENT_FILE_TRANSFERS transfers are live in the inbox.
TypeOK ==
    /\ guest \in GuestState /\ host \in HostState
    /\ up \in Seq(BOOLEAN) /\ Len(up) <= MaxLinks
    /\ streams \in Seq(Stream)
    /\ inbox \in [tracker : [Files -> [received : 0..Chunks,
                                       ended : {"unknown", "no", "Completed", "Cancelled"}]],
                  hashes : [Files -> File],
                  staged : SUBSET Files, expected : SUBSET Files]
    /\ disk \in [part : [Files -> File],
                 exported : [Places -> [of : 0..FileCount, file : File]],
                 shared : SUBSET Files]
    /\ jobs \subseteq [kind : {"begin", "cancel", "abandon"}, id : 0..FileCount]
    /\ edited \cup untold \subseteq Files /\ mishaps \in 0..MaxMishaps
    /\ Cardinality(Active) <= MAX_CONCURRENT_FILE_TRANSFERS

\* The file export last put where f was accepted for; 0 if there is none.
there(f) == IF host.place[f] = NoPlace THEN 0 ELSE disk.exported[host.place[f]].of

\* f has arrived, and at most a file accepted for the same place took it over:
\* the place is chosen when a put is accepted, and puts of one name accepted
\* before either has arrived get the same one.
arrived(f) == there(f) # 0 /\ host.place[there(f)] = host.place[f]

\* What export leaves at a place is a file that was accepted for that place,
\* whole and byte for byte as it was offered: whichever streams carried it,
\* however often it was resumed, and even if the sender's copy was edited on
\* the way.  It takes a staging file nobody else writes: not one that another
\* guest staged under the same id, whose bytes the hash has not seen.
ExportedIsTheFile ==
    \A d \in Places : LET e == disk.exported[d] IN
        e # Nothing /\ e.of \notin disk.shared =>
            /\ host.place[e.of] = d
            /\ e.file = [len |-> Chunks, good |-> TRUE]

\* "The sender saw size" and "the file is on disk" cannot come apart
\* (on_file_progress): an acknowledgement of the full size, and a row the guest
\* shows as completed, mean a file that has arrived.
CompletedIsOnDisk ==
    \A f \in Files :
       \/ guest.rows[f].state = "Completed"
       \/ \E i \in DOMAIN to_guest : to_guest[i] = [kind |-> "ack", id |-> f, offset |-> Chunks]
       => arrived(f)

\* While a transfer is live, the staging file, the running hash and the count
\* of apply_chunk agree, though streams of two connections may feed them and
\* any of the steps may fail: an acknowledged offset is safe to resume from,
\* unless another guest staged a file under the same id.
StagedAsCounted ==
    /\ TypeOK
    /\ \A f \in (inbox.staged \cap Active) \ disk.shared :
          /\ disk.part[f].len = inbox.tracker[f].received
          /\ inbox.hashes[f] = disk.part[f]

\* Nothing is under way: every message, event and task has been seen to.
Quiet ==
    /\ to_host = << >> /\ to_guest = << >> /\ jobs = {}
    /\ guest.events = << >> /\ host.events = << >>
    /\ \A k \in DOMAIN streams : streams[k].reader = "done" \/ streams[k].buffer = << >>

\* Once all is quiet the two sides tell the truth about a file, whatever was
\* aborted by either side, dropped or resumed while it was being exported: a
\* row the guest shows as completed has arrived, and one that has arrived is
\* shown as completed unless a full queue lost a message about it; and a file
\* the host's user sees as cancelled has not arrived (cancel_transfer).
OutcomeIsTold ==
    Quiet =>
        /\ host.granted =>
              \A f \in Files : guest.rows[f] # NoRow =>
                  /\ guest.rows[f].state = "Completed" => arrived(f)
                  /\ there(f) = f /\ f \notin untold => guest.rows[f].state = "Completed"
        /\ \A f \in Files : host.rows[f].state = "Cancelled" => there(f) # f

\* SendJob::from is "the last offset the receiver acked": a file picked up
\* again never starts past what the receiver has counted.
ResumesFromAck ==
    \A i \in DOMAIN guest.pending :
       LET job == guest.pending[i] IN
       job.attempts > 0 => job.from <= inbox.tracker[job.id].received
=============================================================================
