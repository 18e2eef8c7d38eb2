# A TLA+ model of Lumepeer

Lumepeer is a remote desktop: a *host* shares its screen, keyboard, shells and
reachable network addresses with *guests* that dial it over QUIC. Nobody is let
in without a decision, either of the person at the host (the consent dialog) or
of a device password set beforehand, and what a guest may do is fixed by the
grants of its session. The screen travels as AV1 video, coded and decoded by a
vendored libaom on several threads. This directory models the code that keeps
those promises: the session manager of `crates/core`; the host side of the
network actor of `crates/runtime`, which drives the manager from events that
arrive in any order and late; the gate of unattended access; the upload of
files; and, of libaom, the threads and the frame buffers.

TLC checks the modules on small instances; TLAPS proves the properties of the
session manager for every instance.

## 1. The system

### Parts, state and operations

| Part | State | Operations | Modelled by |
| --- | --- | --- | --- |
| Consent vocabulary, `core/consent.rs` | none (values) | `SessionGrants` per role and kind, `ConsentQueue::push/remove`, `RateLimiter::check`, `admission_decision` | `Consent`, with the queue and limiter in `SessionManager` |
| Session manager, `core/session.rs` | sessions (kind, role, grants, control allowlist, tunnel targets, state, `disconnected_at`), consent queue, rate limiter, plan, control policy | request, forget the rate, grant, revoke, set a switch, allow/deny an address, disconnect, resume or expire, set plan and policy, end all, authorize | `SessionManager` |
| Host actor: connections, `runtime/network.rs` | connection per peer, readers, parked sessions and their timers, pending challenges, viewers, encode loops | `on_handshaked`, `on_closed`, `on_resume_claim`, `on_resume_window_elapsed`, `on_grant`, `on_revoke`, `on_unattended_answer`, media accept and fault | `HostActor` |
| Host actor: services, `runtime/network.rs` | shells, tunnel streams, channel connections, display mode switch, reboot countdown | open, close, connect done, channel up/down, switch, confirm, revert, request/cancel reboot, window elapsed, teardown on close, revoke and switch | `HostServices` |
| Guest side of the actor | dial, resume claim, wait and retry | connect, retry, give up | environment of `HostActor`; own machine planned |
| Unattended access, `core/unattended.rs`, `runtime/unattended_store.rs` | password, second factor, failure and lockout counters, last code step; two keystore entries | admit, refuse, set password, second factor on and off, disable, reload, restore at start | `UnattendedAccess`; who is challenged in `HostActor` |
| Invites and tickets | the live invite | mint, claim, retire, restore | verdict is an input; planned |
| File transfer, `net/file_transfer.rs`, `runtime/network.rs` | rows and queues of both sides, `ReceiveTracker`, running hash, staging and exported files | offer, accept, start, chunk, ack, finish, cancel, abandon, drop, resume | `FileTransfer` (uploads) |
| libaom worker, `aom_util/aom_thread.c` | status, mutex, condition variable, thread | reset, launch, execute, sync, end, the thread's loop | `AomThread`, implementing `WorkerContract` |
| libaom decoder, rows on threads, `decodeframe.c` | job queue, progress per row, exit flag | parse a tile, take a row, reconstruct, fail, sync | `DecRowMt` |
| libaom encoder, rows on threads, `ethread.c`, `encodeframe.c`, `thread_common.c` | next row per tile, progress per row, deblocking jobs, exit flags | encode a row, deblock, fail, sync | `EncRowMt` |
| libaom decoder, frame buffers, `decoder.c`, `obu.c`, `av1_dx_iface.c`; `shim/aom_shim.c` | pool with counts, reference slots, current frame, output, resync flags | decode a unit stage by stage, fail at each, show, refresh, hand out | `DecFramePool` |
| License guard, client and broker | plan, last check, clock high-water mark; seats | evaluate, heartbeat, webhook | the plan is an input of the manager; planned |
| Adaptive quality, jitter buffer | estimates, buffered frames | feedback, push, pop | planned |
| Transport, framing, codec arithmetic, capture, stores, privileged service, desktop UI | device and operating-system state | I/O | not modelled (section 8) |

`PROJECT.json` lists every part with its source files.

### How they interact

One actor task owns everything on the host. Its loop takes one message at a
time, so a handler is atomic; concurrency is in *what arrives when*:

* a reader task per connection posts `Closed` when its connection ends, which
  may be after the same peer has been adopted on a newer connection;
* `sleep`-then-post tasks stand for timers (the reconnect window, the
  display-mode confirmation, the reboot warning); they are never cancelled,
  only recognised as stale by an id or a generation when they fire;
* connect tasks, shell reader threads and per-channel connections report their
  end by message, possibly after the session they belonged to has ended or has
  been resumed;
* the person at the host and the device password answer the same request
  independently.

The manager is called synchronously from the handlers and never waits.

A file travels on a connection of its own. Its chunks are read by one task per
stream, and the actor's orders about it (begin, cancel, abandon) run in short
tasks that take the inbox lock in any order.

libaom does use threads: a frame is one fork and join over a set of workers,
which wait for each other on condition variables in between and which can each
fail by `longjmp` anywhere.

### What is hard to get right here

The hazards are listed, each at its line, in `PROJECT.json`. By family:

* **late events**: the end of an old connection, the timer of an old drop, of
  an old switch or of a cancelled reboot, reported when a newer one is there;
* **two ways in**: consent and credential race, and a reconnect may overtake
  either;
* **partial teardown**: close, revoke, a switch and an ended stream each have
  to reach every service in every state it may be in;
* **check, then use**: the tunnel grant is read when a connect starts and the
  socket opens later; the reboot grant is read when the warning ends;
* **long sequences**: re-granting a session for another kind, resuming at the
  edge of the window, limits that are counted by kind, a queue whose positions
  are stored in its tickets;
* **letting go**: a guest that never returns must not hold its place for ever;
* **two copies**: a policy in memory and in a keystore that may refuse, a count
  of bytes and the bytes, a row on each side of a transfer;
* **asleep for ever**: one condition variable for two directions, a worker that
  fails while others wait for its row;
* **giving back**: a frame that fails half way holds buffers that every exit has
  to release, once.

## 2. Modules

| Module | Role |
| --- | --- |
| `Consent` | Roles, kinds, grants and the admission decision, as operators. No state. |
| `SessionManager` | The manager as a state machine: one action per method that changes it. |
| `HostActor` | Extends `SessionManager`: connections, parking, resume, admission, media. |
| `HostServices` | Extends `SessionManager`: what a granted session runs, and its teardown. |
| `SessionManagerLemmas`, `SessionManagerTypes`, `SessionManagerProofs`, `SessionManagerRate` | The theorems about `SessionManager`: its operators, its types, its safety properties, and the consent rate over a whole run. |
| `UnattendedAccess` | The gate: credentials, lockout, spent codes, keystore, restarts and reloads. |
| `FileTransfer` | An upload, both sides: actors, sender, chunk readers, inbox and disk. |
| `WorkerContract` | What a libaom worker promises its owner; no threads in it. |
| `AomThread` | The thread behind it, and that it implements the contract. |
| `DecRowMt`, `EncRowMt` | One frame after another on several workers, in the decoder and in the encoder. |
| `DecFramePool` | The decoder's buffers over any sequence of temporal units. |
| `MC...` | Instances for TLC: the small sets and the bounds of the `.cfg` files. |

`HostActor` and `HostServices` are two views of one actor, each with the whole
manager inside. `HostActor` has every way a connection can come and go and none
of the services; `HostServices` has the services and reduces a connection to
"connected or not", with at most one replaced connection whose end is still to
be reported. Together in one module they would be out of TLC's reach,
and the interface between them is narrow: `on_closed`, `on_revoke` and a resume.

### `SessionManager`

`sessions[p]` is the entry of the manager's map, or `NoSession`; `queue` and
`hits` are the consent queue and the limiter's recorded hits; `plan` and the
control policy are inputs the host can change. Clock readings are replaced by
*ages*: a session that is `Reconnecting` has an age instead of
`disconnected_at`, a hit has an age instead of an `Instant`, and `Tick` ages
everything by one unit, saturating just past the largest value a comparison in
the code can tell apart. This keeps the state finite and all of the comparisons
(`<=` against the reconnect window, `<` against the rate window).

Actions are the methods; the pure helpers (`remove`, `push`, `check`, `granted`
and the limits by plan) are operators named as in the source. Each action is
the whole method: `RequestConsentFor` records the hit and then may still refuse
for a full queue, as the code does; a call that returns an error before it has
changed anything is no step.

### `HostActor`

A *link* is one QUIC connection, numbered in the order of dialing; its number
stands for `next_connection_id` and for the session id of its handshake, which
is what a resume claim names. A link is up, left (the guest closed it on
purpose), lost (the network or the guest's process died) or shut (the host
closed it). The host learns of an end only when `Closed(l)` is handled.

A handler is an operator from the actor's state to the next, on the record
`Self`; `Become(s)` makes the result the next state. A handler that calls
another therefore reads as in the code: `on_closed` calls
`end_or_park_session`, which calls `park_session`. Guests are the environment:
they dial with or without a claim, hear the last word sent to them, leave, lose
the link or crash at any time.

`viewers` is the set the capture controller keeps, `media` the running encode
loops. Starting capture for the first viewer may fail (`starts`); the session is
granted all the same and the guest told, as in the code.

### `HostServices`

Shells are numbered by the host. A forwarded connection, a *socket*, has a number
of its own and a stream id, which the guest chooses and may use again: an id is
listed in `tunnel_streams`, with its address, from the moment it is asked for. A
socket goes through `connecting` (the connect task runs), `awaiting` (socket
open, no channel yet) and the two tasks `writing` and `reading`, which end
separately: ending a stream drops the sender of the writing task and leaves the
reading one until the target closes, or speaks with nothing left to carry it.

A *link* is one connection under a service. It is up, replaced (a newer tunnel
took its place and this one was left open, as `on_tunnel_connected` does),
ended, or reported. The report of an end names the peer and not the connection,
as in the code. A control connection may be replaced too; its end is then
ignored while the newer one lives and is one more teardown when that is gone.

The host has several monitors. A switch is made and restored on the one capture
is pointed at by then, and a guest may point it elsewhere in between
(`strayed`). The switch and the reboot countdown keep their generation, and a
timer that fires carries the one it was armed with.

### `UnattendedAccess`

`access` is the Rust struct, `store` the two entries of the keystore. A password
and a secret are numbers, 0 for none; the code of a time step is the step.
`left` is what remains of a lockout on the monotonic clock; `wall` is the wall
clock that codes are judged by, and it can be set to anything. A write or a read
of the keystore may fail, each entry for itself; another process may change the
entries; the process may restart. History variables: `since` and `failures`
(time and failures since the last success), `used` (codes that admitted),
`two` (the host set up two factors), `forgot` (the memory of the last code was
lost, see section 7) and `unread` (a reload that could not read the password has
turned the gate off and dropped its counters). The role a
credential admits with is not in it.

### `FileTransfer`

`guest` and `host` are what the two actors keep of a transfer: rows, the queue
of pending sends, running tasks, events not yet handled. `streams` are the
chunk streams with what is in flight; `inbox` is the locked tracker with its
hashes and staging; `jobs` are the spawned tasks that have not taken the lock
yet; `disk` has staging and exported files. A file is a number of chunks and
whether they are still the offered ones: the sender's copy may be edited on
the way, which is how the hash comes to matter. A file is offered under a name;
the place it will be exported to is chosen when it is accepted. Staging files
are named by the transfer's id alone, so another guest's transfer under the same
id works on the same one (`OtherGuest`). `send_to` drops a message that finds
the queue of its connection full (`QueueFull`). Everything that goes wrong (a
drop, a failed write or read, an edit, a cancel, either of these two) spends one
of a named number of `mishaps`.

### `AomThread` and `WorkerContract`

A step of `AomThread` is what owner or thread does between two points where the
other can run; `pthread_cond_wait` is a step to sleep and a step to get the
mutex back, and may return unasked. `WorkerContract` has one action per call of
`aom_thread.h`, and one for the hook. The refinement mapping takes a job as
pending while `status_` is `WORKING` and the hook has not returned, and the
worker as up until `end()` joins the thread. `reset()` may be called at any
time; of a worker with a job it waits for the job.

### `DecRowMt` and `EncRowMt`

A worker has a `pc`; what the code does under one mutex is one step; a worker
asleep on a condition variable has a `pc` of its own and leaves it only by being
woken. Rows and columns are superblocks; a superblock that was reconstructed,
encoded or filtered is an element of a set, which is what the properties speak
of. Any worker may fail at any superblock. Both use workers as
`WorkerContract` describes them.

### `DecFramePool`

`pc` is how far a call of `aom_shim_dec_decode()` has come. Each stage may fail,
by an error code or by `longjmp`, and what it has changed by then stays. What
the bits of a unit say is left open: the type of a frame, whether it is shown,
the slots it refreshes, whether a new sequence starts, whether a slot it names
has the order hint it expects.

## 3. Runs

All bounds are named constants. Constants of the code that are limits keep
their names and get small values, such that each limit can be reached and
refused.

| Run | What it shows | Bounds, and why they are enough | Distinct states |
| --- | --- | --- | --- |
| `manager` | `OneInjector`, `GuestLimit`, `OnlyTheHostWidens`, `ResumeInsideWindow` | Two interchangeable peers (each property speaks of at most two), two tunnel addresses with a limit of one, one switch. `MCOneSide`: while somebody is queued or counted by the limiter, sessions are kept simple; the queue and the limiter read nothing of them. The proofs carry these properties, and those of the queue and the limiter, to every instance. | 90,482 |
| `host_lifecycle` | `DecidedOnce`, `ParkedIsAwaited`, `EncodedWhileActive`, `LiveSessionUndisturbed`, `UnnoticedDropResumes`, `WindowEndsItsOwnDrop` | One guest over three links: an old link, the one that replaced it, and a third to be hurt by a late report of either. `MCThirdLink`: the third is dialed only where the device password, a shell and a second role play no part; with two links all of them do. | 299,790 |
| `host_fair` | `GoneIsLetGo` (liveness) | One guest, two links: a drop and its resume. | 5,650 |
| `services` | `DisplayReversible`, `NothingOutlivesTheConnection`, `ServicesBounded`, `WarnedInFull`, `SocketsOpenUnderTheGrant`, `SwitchedOffStopsNow` | `MCOneService`: two guests with two monitors and two switches, or with three reboot generations (an old timer and a newer owner); or one guest with shells, or with three forwarded connections against a limit of two, three stream ids and two dials of a channel (one replaces the other, or a late report meets a newer one). The services share nothing but the session and its end. `MCThirdStream`: the third connection is asked for before a channel is there. `MCOneAddress`: the second channel is dialed where one address is forwarded; with one channel there are two. The reconnect window is zero ticks: a resume comes in time or too late, and how much of the window has passed is nothing to the services. | 76,516 |
| `unattended` | `InForceIsStored`, `GuessesAreSpaced`, `CodeSpentOnce`, `FactorNotDropped` | Two failures lock, for 1, 2 and again 2 ticks: the doubling and its cap are met. Three time steps: before, at and after the clock's. | 170,240 |
| `file_transfer` | `ExportedIsTheFile`, `CompletedIsOnDisk`, `StagedAsCounted`, `OutcomeIsTold` | Two files of two chunks, offered under one name so that places collide, one transfer at a time so that one has to queue, two file connections, one resume. `MCMishaps`: two things go wrong with one file in play, one with two. | 603,587 |
| `aom_thread` | `NoCrossedWait`, `ReturnMeansDone`, `CallsReturn` (liveness), `ContractSpec` (refinement, with its fairness) | Three jobs: one after a failed one, one after an end and a reset. | 745 |
| `dec_row_mt` | `DecodedInOrder`, `CompleteIsWhole`, `FrameEnds` (liveness) | Three workers over a tile of 2 x 3 superblocks, which two of them share, and one of a single superblock; intra block copy off and on. | 184,071 |
| `enc_row_mt` | `AboveRightEncoded`, `FilteredInOrder`, `CodedIsWhole`, `FrameEnds` (liveness) | Five frames on two or three workers. Encoded only: one tile that two workers share, with the late wait for the top right; such a tile above a lower one with a worker of its own, with the early wait and intra block copy. Encoded and deblocked: three rows in two tile columns, by two workers, announced after every column or every second one; and three tile rows of one superblock, by three workers, so that the horizontal edges of a row are taken up while the vertical ones of the row above are not over. | 494,383 |
| `dec_frame_pool` | `RefCountsExact`, `PoolSuffices`, `HeldIsWhole`, `InterNeedsIntra` | Two reference slots, enough for a frame to be in several, in one and in the output, or in the output alone; four buffers, the fewest that leave one free: a leak shows at once. Any number of units. | 247,308 |

Each module has one type invariant. It is the first conjunct of `ParkedIsAwaited`,
`ServicesBounded`, `InForceIsStored`, `StagedAsCounted`, `NoCrossedWait`,
`DecodedInOrder`, `AboveRightEncoded` and `RefCountsExact`; that of the manager is
proved.

The runs of `HostActor`, `HostServices` and `FileTransfer` switch deadlock
checking off: once the bounded number of links, shells, switches or files is used
up, or the machine has been rebooted, the system may really stop. The others
check it; in the libaom modules that is half of the point.

Two more runs are expected to fail. Each checks one sentence written in the
source and shows an order of events in which the code does otherwise:

| Run | The sentence | What happens |
| --- | --- | --- |
| `services_revoke` | `close_terminal` and `close_tunnel` are "What a revoke runs" (`network.rs:8815`, `9344`) | `on_revoke` calls neither; shells and streams run until the control connection is reported closed. |
| `file_resume` | `SendJob::from` is "the last offset the receiver acked" (`network.rs:3793`) | `on_file_progress` writes what was merely *sent* into the same row (`15362`), and `resume_send` starts from there (`15477`). A send that breaks with chunks in flight is picked up past what the host has counted; the host refuses the gap and the transfer fails instead of going on. |

### Mutants

Each property of each passing run comes with a mutant: a variant of a mapped
definition, next to it in the module and marked `Slip:`, with the kind of slip a
change to that code could make (a generation that is not compared, a teardown
that forgets one container, a limit off by one). With the variant in place, TLC
finds the property violated. A property that says several things has a mutant
for each.

## 4. Fairness

Four runs need any. `host_fair` assumes weak fairness of

* the clock (`HostTick`),
* `Closed(l)`: a reader task whose connection has ended posts its message, and
  the actor's loop takes it (the task waits for room in the channel of 32 events,
  and the loop always returns to `recv`),
* `ResumeWindowElapsed(l)`: a `tokio` sleep that has elapsed posts its message.

These are the tasks the runtime schedules by itself. Nothing is assumed of the
guests, the network or the person at the host: none of their actions is fair.
QUIC's idle timeout is what makes a lost link end for its reader, and it is
the reason `Closed` of a lost link is fair.

`aom_thread` assumes that both threads are scheduled (weak fairness of their
steps) and that a mutex which is free again and again is taken in the end (strong
fairness of taking it). `dec_row_mt` and `enc_row_mt` need less: as long as some
thread of a frame can move, one does (weak fairness of `FrameStep`), since every
such step is progress. A sleeper that nobody wakes can never move, so a lost
wakeup shows. Nothing is assumed of the owner's calls, nor of spurious wakeups.

## 5. Proofs

`SessionManagerTypes` (the first of these theorems), `SessionManagerRate` (the last
two) and `SessionManagerProofs` (the others) prove, for every set of peers, plan, limit and window that satisfies the
`ASSUME`s of `Consent` and `SessionManager`:

| Theorem | Statement |
| --- | --- |
| `TypeCorrect` | `Spec => []TypeOK`. `TypeOK` includes that a session is Reconnecting exactly while `disconnected_at` is set. |
| `RoleFixesViewAndInputHolds` | View, input and the control allowlist follow the role and kind that were decided. |
| `SingleControllerHolds` | At most one peer has a controller role on the screen. |
| `OneInjectorHolds` | Two peers never pass `authorize_input` in the same state. |
| `QueueNumberedHolds` | The queue is bounded and the tickets carry their own positions. |
| `OnlyTheHostWidensHolds` | Only a grant, a switch or a named address widens a session. |
| `ResumeInsideWindowHolds` | A session wakes only by a grant or inside its window. |
| `GuestLimitHolds` | A call that adds a guest leaves no more of its kind than the limit in force. |
| `RecordObserves` | `RateSpec => Spec`: the manager with a record of accepted requests behaves as the manager. |
| `RateLimitedHolds` | `RateSpec => []RateLimited`. Of any `CONSENT_RATE_PER_MINUTE` + 1 requests of one peer accepted in a row, the last came a whole window after the first, unless the peer was forgotten in between. |

The argument. `TypeOK` is inductive (`InitTypeOK`, `NextTypeOK`); the lemmas of
`SessionManagerLemmas` on `remove`, `push`, `retain` and `check` say what the queue and the limiter
return, so that the actions never need their definitions. `StepShape` then
sums up a step as one session sees it: it is kept with its role, kind, view and
input, or it is gone, or it has just been granted. The other invariants follow from
those three shapes, so the case analysis over the actions is done once.

`SingleController` is inductive relative to `TypeOK` alone: the guard of a grant looks at every
other session, Reconnecting ones included, so a resume can never bring back a
second controller. `OneInjector` is not inductive. It follows in every state
from `SingleController` and `RoleFixesViewAndInput`
(`InjectorIsController`): what passes `authorize_input` has the input grant, the
input grant comes with a controller role, and there is one controller.
`GuestLimit`, `OnlyTheHostWidens` and `ResumeInsideWindow` are properties of
steps and follow from `TypeOK` and the shape of each action. Note that
`GuestLimit` is about steps for a reason: a plan that shrinks leaves the guests
it found.

The rate is a promise about a run, and the limiter's own history, which `retain`
prunes, cannot show it. `SessionManagerRate` therefore adds `accepted`, which has
the age of every accepted request since the peer was last forgotten, unpruned
and uncapped. Forgetting is part of the code (`forget_consent_rate`, when a
granted session loses its connection) and starts the count anew. The inductive invariant `RateInv` says
that the limiter's history is the tail of the record with its ages capped, and
that whatever it lacks has left the window; a request is accepted when fewer
than the rate remain, so the one that many requests earlier is among those that
have left.

Out of the prover's reach, and left to TLC: liveness (`GoneIsLetGo`,
`CallsReturn`, `FrameEnds`) and the fairness half of `ContractSpec`. Not yet
proved, and only model-checked: everything about the other modules.

## 6. Abstractions

* A peer is a model value. Symmetry is used where peers are interchangeable and
  no liveness is checked.
* Pixels, bitstreams and files have no content beyond whole, damaged or changed.
* Time is in ticks; only the order of deadlines within one window matters.
* Messages and texts carry no content beyond what a handler decides on.
* Whether a ticket verifies, whether a credential answer is right, whether a
  platform call (switching or restoring a mode) succeeds, whether a connect
  succeeds: nondeterministic inputs.
* Every guest advertises every feature; a guest that does not is refused earlier
  and does less.
* In `HostServices`, a resumed peer is connected again in the same step as
  its session wakes, as in `on_resume_claim`.

## 7. Observations without a run

Met while modelling. The code keeps no promise here that could be stated as an
invariant, or what it does is noted without judging it.

Sessions and connections:

* The comment at `session.rs:249` says a flooding peer cannot fill the queue.
  The rate (5 a minute) is above the bound of the queue (3), and one peer may
  hold several tickets, so it can.
* A redial queues a second request of the same peer and the end of the
  connection withdraws one; the other stays in the dialog (`network.rs:11438`).
* The late end of a tunnel or terminal connection names the peer only and
  closes the channel opened after it (`network.rs:8299`).
* Taking an address back drops the writing half of its streams; the reading
  half runs until the target closes (`network.rs:8804`).
* A revoke does not cancel a reboot countdown, and the grant that is read when
  the countdown ends may be a newer one (`network.rs:16781`).
* A re-grant for a shell leaves the peer among the viewers (`network.rs:16108`).
  So does a request granted from the queue while its peer's session is parked,
  when the resume is then refused. `EncodedWhileActive` speaks of encode loops.
* A tunnel connection that a newer one replaces is left open and in nobody's map;
  what it carries goes on after `close_tunnel` (`network.rs:8345`).
  `NothingOutlivesTheConnection` and `SwitchedOffStopsNow` except it.
* The bound on streams counts ids. A request under an id that is listed takes
  the entry over, and the earlier socket is no longer reached by ending the
  stream (`network.rs:8576`). `ServicesBounded` excepts it.
* A switched mode is put back on the monitor capture is pointed at by then
  (`network.rs:9647`). `DisplayReversible` excepts a capture that was moved.
* A new session "inherits nothing" (`network.rs:11300`), but only a *parked* one
  is ended. While a drop is unnoticed the old session is Active, and the new
  connection is served under it before anyone decided.
* `end_or_park_session` calls `on_disconnect` before it knows whether there is a
  connection to park under: a session granted to a peer whose connections are
  gone becomes Reconnecting with no timer (`network.rs:11455`).
* `adopt` replaces a connection without forgetting its unanswered challenge, and
  the later `Closed` is ignored as stale (`network.rs:9827`), while the comment
  at `12596` says the challenge dies with its connection.

Unattended access:

* A restart, a refused write when the second factor is turned on (the old secret
  is put back as if new) and an unreadable reload all drop `last_code_step`.
  `CodeSpentOnce` is stated for the time in between.
* A reload that finds the password unreadable turns the gate off and drops the
  failure count and the lockout with it (`unattended_store.rs:155`): the store
  reads the same as one in which access was turned off, which is the case its
  comment describes. `GuessesAreSpaced` excepts it (`unread`).
* A `clear()` that is refused half way can leave the password's entry without
  the second factor's.

File transfer:

* `on_file_chunk_ack` frees a slot and does not start what is queued, although
  the comment at `network.rs:15439` says whatever is queued goes now; it goes with
  the next event.
* A gap or a failed append leaves the tracker's slot and the staging file until
  the session ends. A failed connect (`15297`) drops the pending jobs and leaves
  their rows Running; so does a drop after the last write.
* Begin, cancel and abandon run in tasks without an order between them: a begin
  that runs last leaves a staging file, and an export may end after an abandon.
* A late chunk of an old stream after completion makes the host's row say Failed
  though the file was exported.
* `unique_destination` is asked when a put is accepted: two puts of one name
  accepted before either has arrived get one place, and the later export replaces
  the earlier, although the comment at `network.rs:7704` says "Never overwrites".
* Every guest counts its transfers from zero (`network.rs:19957`) and staging
  files are named by id alone (`file_transfer.rs:424`): two guests that send into one
  directory can write one staging file. `ExportedIsTheFile` and `StagedAsCounted` except a file this
  happened to; `OutcomeIsTold` excepts one about which a message was dropped by a
  full queue.
* Several files accepted at once are announced past the concurrency limit, and
  the host refuses them. The ids of the two directions share one key.

libaom:

* The comment at `get_next_job_info` (`decodeframe.c:3109`) names the variables
  its result depends on. It depends on `num_threads_working` too, and a worker
  that leaves a tile wakes nobody; parallelism is lost, no frame is.
* That a failing encoder worker wakes those waiting to deblock matters with five
  or more workers, beyond the instance.

## 8. Not modelled, and why

* **Device and network I/O**: transport endpoints, relays, capture, the sandboxed
  decoder's process, recording, pseudo-terminals, shared memory of the
  secure desktop. Their edges are inputs of the models.
* **Codec arithmetic**: by far most of libaom is transforms, prediction, motion
  search, entropy coding, rate control, their tables and SIMD variants. It is
  sequential integer arithmetic over pixels. A model of it would repeat it line by
  line, over inputs no model checker can enumerate; upstream checks it by
  bit-exact tests. What is modelled of libaom is what such tests hardly reach: the
  threads and the life of a buffer. By lines that is a small part of it.
* **Rest of libaom's threading**: temporal filter, first pass, CDEF and
  restoration on threads, the last two with row synchronisations of their own;
  the encoder's half of the shim.
* **License guard, client and broker**: the plan is an input of the manager.
* **Of file transfer**: directories, clipboard offers, fetches by the guest, a
  re-grant during a transfer, the sweep of old staging files.
* **Encodings**: framing and the wire protocol. A message is an action.
* **Stores**: files written whole. The trusted set of the address book is state
  of `HostActor`.
* **User interface**: the person's decisions are inputs.
* **In the modelled parts**: the flags for restarting into an update, a full
  outgoing queue of a connection outside `FileTransfer`, and the `session_id` of
  a manager entry, on which no method of the manager decides.

## 9. Plan

In this order; the most important behaviour first.

1. *(done)* `Consent`, `SessionManager` and their proofs.
2. *(done)* `HostActor`: connections, parking, resume, admission.
3. *(done)* `HostServices`: what a session runs and its teardown.
4. *(done)* `UnattendedAccess` and `FileTransfer`.
5. *(done)* libaom: `AomThread` implementing `WorkerContract`, `DecRowMt`,
   `EncRowMt`, `DecFramePool`.
6. Proofs: `NoCrossedWait`, `ReturnMeansDone` and the step simulation of
   `WorkerContract` for `AomThread`; `RefCountsExact` and `HeldIsWhole` of
   `DecFramePool` for any number of slots and buffers; the counters of
   `UnattendedAccess`; `ParkedIsAwaited` and `DecidedOnce` of `HostActor`.
7. The guest: dial, retry with the backoff of `net/reconnect.rs`, wait for
   consent, give up; composed with `HostActor` into the whole resume protocol.
8. License guard: heartbeats, clock rollback, grace; then the broker's seats and
   duplicated webhooks.
9. Invites and tickets; the host role handed over between processes; the staged
   update of the session host.
10. Integer abstractions of the quality controller and the jitter buffer, checked
    against reference definitions.
