# Ketchup: a TLA+ model of its documents

Ketchup is a CAD program written in Rust. A document is edited in a window, by
rule programs and by AI assistants over MCP, often at the same time; exact
geometry is computed in the background by worker processes; the work of a
session survives a crash; and finished documents are released into a local
repository. This project models the parts that make those promises: the store,
the session and the window with their files on disk, the checkpoint a crash is
survived with, the tasks and workers everything slow runs in, the bridge AI
clients work through, and the release repository.

Paths below are relative to the repository (`crates/` is `src/crates/`).

## 1. Inventory

| Part | State it keeps | Operations | What is hard |
|---|---|---|---|
| Document store, `ketchup-model` `document/store.rs` | revisions, cursor, next revision id, mutation epoch, evaluation registry, confirmation policy | apply a batch, program edits, rollback, named checkpoints, undo, redo, prepare/commit proposals, tip replacement, approvals, registering derived results | results and proposals that arrive late; transactions whose finalizer fails; bounded history |
| Editing session, `ketchup-application` `session.rs` | a store, the path, what it last read and wrote on disk, the recovery lock, a pending cleanup | open, edit, undo, redo, save, Save As, checkpoint on request | crashes between two steps, two sessions on a file, failures of one step of several |
| Native files and work recovery, `ketchup-model` `persistence.rs`, `persistence/` | the file, its `.recovery` backup, its `.work-recovery` checkpoint, work set aside, lock files | publish, clear, load, set aside, lock | programs outside change files; removal that stops halfway |
| Work-recovery steps, `persistence/work_recovery_steps.rs` | a base and appended steps; what the session remembers of them | plan a step, append, write whole, assemble | torn steps, appends and truncations that fail, crashes |
| Window save and close guard, `ketchup-app` `app/save_activity.rs`, `app/document.rs`, `close_guard.rs` | the document, settings beside it, a two-stage save, a consent to close | edit, prepare, write, finish, ask, close | edits and clients' saves during a save, a close during a write |
| Background task, `ketchup-scheduler` `background.rs` | a thread, a watchdog, a flag, a channel | spawn, progress, cancel, poll, wait, drop | one flag shared by deadline and cancel, results that race both |
| Exact workers, `ketchup-scheduler` `lib.rs`, `worker_client.rs`, `pair_query.rs`, `ketchup-application` `worker_pool.rs` | a process with its pipes and two threads, a pool | evaluate, query pairs, time out, cancel, restart, give back | lost and late answers, restarts in the middle of a batch, memory limits |
| Live bridge and consent, `ketchup-app` `live_bridge.rs`, `live_bridge/` | a bridge and its credentials, a queue of requests, one job, attach requests | attach, take over, disconnect, request, run a job, revoke | a client that leaves, times out or is taken over at any step of its request |
| Local PDM store, `ketchup-pdm` `local.rs` | objects and manifests on disk | create a release or a child, open, compare, catalog | several processes and no lock, crashes, damaged files |
| Exact evaluation task, `ketchup-application` `evaluation_task.rs` | groups of products on several workers | spread, merge on a snapshot | planned |
| Exact geometry, analysis, manufacturing, exchange formats, viewer, user interface, program interpreter | none that is shared | pure computation or input and output | numerical, not protocol |

How they interact. Every change of a document is a call of the store. A session,
and the window in the same way, wraps each in
`DocumentStore::try_canonical_transaction`, whose finalizer writes the
work-recovery checkpoint: an edit whose checkpoint cannot be written is rolled
back. Evaluations run in a background task on a snapshot of the store, with exact
workers from a pool, and are registered later, when the document may have moved
on. Assistants prepare a proposal on one state of the store and commit it on
another, through the bridge of a window that another client may take over.
Sessions in one process or in several meet only on disk, through file identities
(length and SHA-256), the save lock and the work-recovery lock. Releases are made
from a file on disk and never change.

What makes each part correct:

- store: the history is a bounded linear undo history; a derived result is filed
  only under the content it was computed from; the mutation epoch is a sound
  version number; a proposal commits as it was reviewed; an approval works once;
- session: acknowledged work is on disk; whoever opens a file finds the last
  acknowledged state; unsaved work on a file has one owner; a save never replaces
  what somebody else put there;
- steps: opening gives the acknowledged document, whole, or the one being written;
- window: what looks saved is saved; an edit that is shown is on disk; closing
  loses no edit nobody agreed to lose; a save and a close asked for end;
- background task: one result, told for the right reason, and the job ends;
- exact workers: a request takes its own reply; a batch is answered by one process; a
  request is repeated once, never after a refusal or an answer that could be used;
  every call ends;
- live bridge: what a client was told of its request stays true; a revoked request
  does at most what it had already been let to do; an export leaves no settings behind;
- releases: a release that can be read is whole and opens, and one caller at most is
  told that it made it.

The hazards behind these, each at its line, are in `PROJECT.json`.

## 2. Modules

| Module | Models |
|---|---|
| `DocumentStore` | the store |
| `LinearHistory` | what a user is promised of a history: past, present, future, a limit |
| `MCDocumentStore` | products, batches and bounds for TLC |
| `DocumentStoreProofs` | the store's theorems, and its refinement of `LinearHistory` |
| `DocumentSession`, `DocumentSessionProofs` | sessions, files, checkpoints, locks, crashes; theorems |
| `MCDocumentSession` | scenarios and symmetry for TLC |
| `CheckpointSteps`, `CheckpointStepsProofs` | a checkpoint on disk as a base and steps; theorems |
| `AtomicCheckpoint` | what a checkpoint promises: replaced at once or not at all |
| `WindowSave`, `WindowSaveProofs` | one window's file, background save and close guard; theorems |
| `BackgroundTask`, `BackgroundTaskProofs` | job, watchdog, holder; its theorems |
| `ExactWorker`, `ExactWorkerProofs` | supervisor, client threads, worker process, pool; theorems |
| `LiveBridge`, `MCLiveBridge` | consent broker, connections, UI thread, jobs; symmetry |
| `LiveBridgeProofs` | the theorems of the bridge |
| `ReleaseStore`, `ReleaseStoreProofs` | the release repository; its theorems |
| `MCReleaseStore` | two scenarios and symmetry for TLC |

Definitions keep the names of the functions they model; `PROJECT.json` maps each to
its lines. Operators whose names carry a suffix after a source name and a comment
`Mutant` are deliberate errors: replacing the definition by one makes the property
it belongs to fail.

### DocumentStore

The variables are the fields of `struct DocumentStore`; `cursor` counts from 0 as
in the code. A product is a function from items to values and stands for its own
digest. The evidence of an exact face is stored in the product but is not part of
its digest, so it is a field of the revision. A batch of commands writes one item,
with a given value or with what another item holds, and names what it reads
(`deps`): the dependencies `authoritative_dependencies` computes are an input of the
model, and that each of the commands names all it reads is not checked.
`ValidProducts` are the products the validators let through, `BareProducts` those
without a definition.

Each public operation that changes the store is one action with the source's name.
Those of the canonical path end in `try_canonical_transaction(s)`: either `s` is
installed or, when the finalizer failed, everything is put back except the epoch.
`bind_rule_program` runs only inside the transaction of a program edit and is a
parameter of `apply_batch`. The errors that restore the store after a commit that
does not reproduce its own dry run cannot occur in a deterministic `apply_batch`
and have no action. `fork_for_planning`, previews and comparisons only read.

`proposals` and `observed` stand for the callers: what a client holds between
preparing and committing, and what an evaluation or an MCP client captured. `grants`
and `replayed` are history variables of approvals that took effect.

### DocumentSession

A document is a trail of revisions and a place in it. A file holds the current
revision, a checkpoint the whole trail, which is what
`save_document_store_current_snapshot` and `publish_work_recovery` write. Every
edit makes a new revision, so equality of revisions is equality of file identities.

What happens under the save lock of a path is one step: publishing (including
keeping the backup, after which it may stop), writing a checkpoint, clearing one.
`save` publishes; `save_settle` is the rest of the same call, so that a crash,
another session or another program can come between. The cleanup that `save` and
`write_work_recovery_checkpoint` begin with is the action
`retry_pending_work_recovery_cleanup`: a save goes on only when nothing is pending,
a checkpoint on request also when the retry failed. `mutate_with_work_recovery`
takes the lock, mutates and checkpoints; when any of it fails the store's
transaction puts the document back, so a failed call is no step.

`ChangedOutside` is any other program. It cannot come between the comparison and
the rename of one publication: the code does not defend against that and the
operating system offers no way to. `unsaved` and `latest` are history variables:
the work acknowledged and not saved, and the content a user was last told is at a
path. `latest` is forgotten when something outside changes the file, when the work
is saved under another name and when a removal stops halfway; `unsaved` never is.
`scenario` says which sessions, paths and faults a behaviour has.

### CheckpointSteps and AtomicCheckpoint

`DocumentSession` replaces a checkpoint in one step. The code writes the whole
document at the first edit and appends a step for each later one. `CheckpointSteps`
models the plan of a step (`plan_step`: what the session believes is on disk), the
append that may stop anywhere and leave a torn step, the truncation that takes a
failed append back and may fail too, and `assemble_checkpoint`, which reads base and
steps until one does not apply. Lengths count steps: `StepRoom` steps weigh as much as
the base, after which a checkpoint is written whole, and `Budget` bounds what one open
assembles. What a file opens as, and what a plan reads of it, are recursive functions
over its steps. `AtomicCheckpoint` has three variables, what opening gives, what was
acknowledged and what is being written; the refinement maps them to `opens`,
`document` and `pending`.

### WindowSave

A frame runs on the UI thread in three steps, `finish_file_activity_frame`,
`show_close_guard` and `refresh_work_recovery_checkpoint`. Edits, a client's
requests (`live_save`, `start_export`, `end_export`) and the user's come between
frames. A save has two stages: bytes are prepared on one thread from a captured
source, dropped when the document changed meanwhile, and written on another that is
handed the lock of the target. Work is a history and the settings beside it; bytes
are the work they are made of. `agreed` is a history variable, the work the user was
asked about. `scenario` selects what fails or interferes: a failed write, one that
fails after publishing, a thread that panics, a checkpoint that cannot be removed,
other programs, a file system without locks, saving elsewhere, exports, settings.

### BackgroundTask

Three threads share the cancellation flag and the channel. The clock is one bit.
Reading the clock, reading the flag and sending the result are separate steps of the
job's thread. A job may return at any time, or only once it sees the flag, or panic.

### ExactWorker

A holder makes calls of a supervisor it checks out of the pool: a body (evaluate, then
mesh) or a batch of pairs (begin, load, queries, end). The client's writer and reader
threads, its channels and the pipes of the process are queues of `client`; the worker
answers what it reads, dies, or runs into its memory limit. A reply remembers its
request and the process that made it, which is what the properties compare. A mesh
comes as a file the reply names: when it cannot be read, or its size or digest is not
the reply's, the reply is of no use (`Unusable`), which the code reports as a
transport error although the worker lives. A writer that ended with its worker is
noticed where the client waits for it (`WriterIsGone`). The platform is chosen once:
only Windows lets a terminated process run on for a while, only macOS and Linux differ
in how a memory limit shows.

### LiveBridge

The consent broker hands attach requests to the window, which grants one by starting a
bridge, or by taking the bridge over from the client that has it. A connection queues
one request at a time and waits for the reply, a timeout, its client leaving or the
end of the bridge; `cancelled` is the set of requests whose flag is set. The UI thread
runs a frame: the broker (`poll_live_consent`), the job (`poll_jobs`), then requests
from the queue. A takeover is two steps, the record (`Supersede`) and the drop
(`supersede_live_bridge`), because connections run between them. For the same reason
every check of a request's authority is a step and what it allows another:
`begin_edit` and `execute_edit`, `MayPublish` and `publish` for a program and the
files of a set, `start_project_drawings_export` and `start_export` for its settings.
The flag is set without a lock, so a request may be revoked between the two. A request
is what it leaves behind: an edit or a program a new epoch, an export of the set
settings in the document, an export of a sheet a file a thread writes through a
`PublishGate`. `told` remembers what a client was told; `lost` the job of a bridge
dropped because its client closed (see the observations).

### ReleaseStore

A release is its payload, which holds its parent, so an id needs no hashing; an
object is its content. `create_release` runs step by step: check the parent and the
document, write each object if it is not there, write the manifest without
replacing. Temporary files count only in `releases/`, where the catalog reads them.
`LocalPdmWorkflow::create` may refuse before (`create_refused`), and asks for a
cancellation once more when the release is there, so renaming the manifest and telling
the caller are two steps (`persist_manifest`, `return_manifest`) with a cancellation or
a crash between them; `created` is the history of the releases that were reported. The
window and the server pass a flag that nothing sets today
(`crates/ketchup-app/src/app/document.rs:1724`,
`crates/ketchup-headless/src/protocol.rs:1168`); the function's own promise
covers other callers. A read of the directory may show a temporary file that is there
when it starts or ends; one that is created and removed while it goes on is not shown,
which only adds catalogs that fail. `Damage` changes or removes a file; a crash leaves
what was written. Opening, comparing and the lineage are operators on the files.

## 3. Runs

| Run | Instance | Checks |
|---|---|---|
| `store_history` | 2 items, 2 values, one program, name and reader, undo limit 2, 4 revision ids, epoch up to 5 | `TypeOK`, `HistorySound`, `DerivedCurrent`, `EpochIsVersion`, `ImplementsLinearHistory` |
| `store_proposals` | one client, two policy epochs, 3 revision ids, epoch up to 4 | `ApprovedOnce`, `CommitsAsReviewed` |
| `session_recovery` | 2 sessions, 2 paths, 2 revisions, changes from outside; and 1 session, 1 path, 3 revisions, outside changes and failing removals | `TypeOK`, `NoWorkLost`, `OneOwner`, `NoLostUpdate` |
| `session_cleanup_race` | 2 sessions, 2 paths, 2 revisions, failing removals | `ExclusiveBranch`, violated |
| `steps_crash` | 4 revision ids, undo limit 2, one program, one name, two blobs, whole after 3 steps | `NoStepAfterUnreadable`, `ImplementsAtomicCheckpoint` |
| `window_saves` | 3 histories, 2 settings, 2 paths, 7 scenarios | `TypeOK`, `CleanMeansSaved`, `EditsOnDisk`, `OwnsRecoveryBranch`, `ClosingLosesNoEdit`, `SaveEnds`, `DeferredCloseAnswered` |
| `window_consent` | 2 histories, 2 settings | `ConsentCoversVisibleWork`, violated |
| `task_races` | one task, two progress events | `TypeOK`, `OneResult`, `ToldWhy`, `NoValueAfterCancel`, `TaskEnds` |
| `exact_calls` | 2 calls of either kind, one death, three platforms | `ReplyIsOwn`, `BatchIsWhole`, `IdleIsClean`, `RepeatedOnce`, `CallEnds` |
| `exact_repeat` | one body, no death, one platform | `RepeatsOnlyLost`, violated |
| `live_takeover` | 2 clients, 2 connections, 2 requests, queue of 2, 9 scenarios | `ToldTruth`, `SettingsPutBack`, `AttachedIsReal`, `RevokedStaysRevoked` |
| `release_store` | 2 writers, a catalog, 2 documents, one dependency, 3 releases of one revision, one crash, one late cancellation; and 1 writer, every forest of 4 releases of 3 revisions, one damage | `TypeOK`, `ReleaseIsWhole`, `OneCreator`, `QuietCatalogReads`, `CreatedOpens`, `ComparisonAgrees` |

Why the bounds are enough. With an undo limit of 2 the fourth revision is the first
that drops the oldest one, so four ids reach a full history, one that lost a revision,
and one in which a rolled-back transaction gives an id out again. Two items suffice
for a dependency that is not the target. In the session run with every fault three
revisions are the empty file, an edit and an edit over it, so that a checkpoint can be
one step behind or ahead of a save whose cleanup failed; two sessions are enough
because all rules compare a session with the disk, and two revisions, because one
acknowledged edit of each session is what they can lose. In `steps_crash` a checkpoint
of three steps is written whole again, drops the oldest revision and has a torn step
at every position. In `window_saves` two histories besides the first are an edit
before and one during a save. In `exact_calls` a checkout starts one worker and
restarts start the others, so the second call meets a replaced process. In
`live_takeover` the second request finds a job running, the queue holds a request and
a closing message, and the second client takes over from the first; scenarios keep the
kinds of request apart, because jobs exclude each other anyway, and combine each with
slow or leaving clients, the user or another document. Three releases are a root and
two children that race, one of which may be cancelled and one die after its rename;
four are two branches with a common ancestor that is not the root. `MCReleaseStore`
gives the two instances as scenarios of one run: with everything at once the files, the
forest and the interleavings multiply. A cancellation changes no file, so no behaviour
of the run has both one and a catalog.

Sessions, paths, clients, connections, processes, documents and their revisions are
symmetric in the runs without liveness that have them as model values.
Deadlock is checked except where the system may stop: a task ends, a window closes,
and the writers, calls and requests of the others are bounded.

Fairness. `BackgroundTask`: time passes, threads that can run do, a job that sees
its flag returns (jobs poll it between steps, which the code asks of them), and a
holder that keeps its task keeps reading it, as the window does every frame; nothing
is assumed of a job that was not told to stop, of cancel, wait's timeout or drop.
`WindowSave`: frames are drawn and the two save threads run; the user and clients
owe nothing. `ExactWorker`: only the holder's own thread runs and time passes at its
deadlines; the client's threads and the process may stop for ever, so `CallEnds`
rests on the deadlines alone.

### Findings

`session_cleanup_race` shows a disagreement with a comment of the code. A session
saves under a new name while removing the old checkpoint fails. It gives up the old
path's lock and remembers the cleanup. Another session opens the old path, is handed
the leftover checkpoint and holds the lock. The retry of the first session compares
the identity, which still matches, takes no lock and removes the checkpoint the
other relies on. `WorkRecoveryLock` is described as "Exclusive ownership of a live
session's recovery branch"; the retry is the one place that does not go through it.
`OneOwner` states what does hold: nobody else's checkpoint takes its place.

`window_consent` shows another. `CloseIdentity` names the document and its history,
while `is_dirty` also counts settings. Settings a client stores between the consent
to close without saving and the close it causes are lost, although "Consent is
single-use and only covers the work visible when it was granted".
`ClosingLosesNoEdit` states what does hold, for edits.

`exact_repeat` shows a third. Of `permits_restart` the code says "Whether a fresh worker
may repeat the request: only when the worker was lost" (`lib.rs:503`). A mesh whose file
cannot be read, or has another size or digest than its reply says, is a
`WorkerError::Transport` too (`worker_client.rs:569`), so a request that a living worker
answered is asked again of a new one. `RepeatedOnce` states what does hold: a request is
asked again once, of another process, never after a refusal, and after an answer
only where that answer was a mesh for it.

### Observations

Cases met while modelling that the properties leave out, each visible by the change
named:

- An export of drawings that is undone after a save puts back settings and a flag it
  read before the save (`live_bridge/drawings.rs:445`): the window looks clean and
  its file has other settings. Drop the `"drawings"` conjunct of `CleanMeansSaved`.
- Save As to a path where no lock can be taken is handed the window's own lock
  (`app/document.rs:848`), dropped when the window does not move there. Drop the
  exception of `OwnsRecoveryBranch`; `Lockless = {q}`, scenario
  `{"write", "nolocks", "elsewhere"}`. A writer thread that panics loses the lock too.
- An edit of the own file during a write is refused, because the thread holds the
  lock; settings changed after a checkpoint of the same history are in no checkpoint.
- Steps are appended without asking the budget an open has
  (`work_recovery_steps.rs:202`, `:393`): with `Budget = 2`, `StepRoom = 4`, no names
  or programs and one blob, `NoStepAfterUnreadable` is violated.
- A failed append whose truncation fails too leaves every later edit refused until a
  save.
- On Windows a request after a timeout can take the late reply of the one before
  (`worker_client.rs:906`); the call then fails on the mismatch. `ReplyIsOwn` without
  its exception shows it. On macOS a memory-limit error can be reported for a later
  body (`worker_client.rs:1029`).
- A bridge that goes because its connection closed or its client disconnected is
  dropped without `abandon_jobs` (`live_bridge.rs:1854`), unlike one that is taken
  over or disabled: the settings an export kept stay in the document. Drop `lost`
  from `SettingsPutBack`.
- A grant that failed to be delivered is reported as a bare `false`
  (`live_bridge/consent.rs:675`, `:695`): reported late, it ends the bridge of the
  client let in since. A closing message that meets a full queue is lost and the
  window goes on showing its client; and the bridge of a client that launched the
  window stays, with its credentials, for the next one that attaches.
- What a dead process left in `releases/` makes every later catalog fail
  (`local.rs:569`), and so does reading while a manifest is being written
  (`local.rs:567`); `QuietCatalogReads` states when the catalog does read. The depth
  and number of releases are checked only when a catalog is read (`local.rs:604`;
  `MaxDepth = 2`). A document longer than an object may be when read is released and
  does not open (`local.rs:449`; `Large = {"r1"}`).

## 4. Proofs

TLC checks small instances. The theorems below hold for all constants that satisfy
the modules' assumptions: any number of clients, sessions, paths, calls or requests,
any bound, any set of faults among those modelled. Every step is checked by TLAPS.
Each module of proofs has an inductive invariant from which its theorems about states
follow; where a theorem needs more, a second invariant is put on top of the first
(`DocumentStoreProofs`, `DocumentSessionProofs`, `ReleaseStoreProofs`). TLC checked
the invariants it can evaluate on an instance before they were proved.

The assumptions on constants name bounds as numbers and say that placeholders
(`None`, `Absent`, `Foreign`, ...) are no real values; the others are that the empty
product is valid and a batch names its target and its input among its dependencies,
that the undo limit and the queue of a bridge are positive, that the window's own
path is a path, and that scenarios use the faults the module defines. TLC evaluates
them in every run.

| Theorem | States | For |
|---|---|---|
| `DocumentStoreProofs!TypeCorrect` | `TypeOK` | |
| `HistoryStaysSound` | `HistorySound` | any undo limit |
| `DerivedStaysCurrent` | `DerivedCurrent` | results that arrive at any time |
| `EpochSound` | `EpochIsVersion` | |
| `ApprovalsSingleUse` | `ApprovedOnce` | |
| `StoreIsLinear` | `ImplementsLinearHistory` | the refinement |
| `ReviewedIsCommitted` | `CommitsAsReviewed` | |
| `DocumentSessionProofs!TypeCorrect` | `TypeOK` | |
| `SingleOwner` | `OneOwner` | every fault |
| `NoUpdateLost` | `NoLostUpdate` | every fault |
| `NoWorkEverLost` | `NoWorkLost` | under `Alone`, see below |
| `WindowSaveProofs!TypeCorrect` | `TypeOK` | |
| `EditsReachDisk` | `EditsOnDisk` | every set of faults |
| `CleanIsSaved` | `CleanMeansSaved` | every set of faults |
| `BranchIsOwned` | `OwnsRecoveryBranch` | every set of faults |
| `ClosingIsSafe` | `ClosingLosesNoEdit` | every set of faults |
| `CheckpointStepsProofs!StepsAreRead` | `NoStepAfterUnreadable` | `UndoLimit < Budget` |
| `StepsAreAtomic` | `ImplementsAtomicCheckpoint` | the refinement; `UndoLimit < Budget` |
| `BackgroundTaskProofs!TypeCorrect` | `TypeOK` | |
| `ResultOnce`, `ReasonIsTrue`, `CancelIsFinal` | `OneResult`, `ToldWhy`, `NoValueAfterCancel` | |
| `ExactWorkerProofs!OwnReply` | `ReplyIsOwn` | any number of calls and deaths |
| `WholeBatch`, `CleanIdle` | `BatchIsWhole`, `IdleIsClean` | |
| `RepeatedRequests` | `RepeatedOnce` | |
| `LiveBridgeProofs!ToldTheTruth` | `ToldTruth` | any number of clients and requests |
| `SettingsAreUndone`, `AttachedClient` | `SettingsPutBack`, `AttachedIsReal` | |
| `RevokedForGood` | `RevokedStaysRevoked` | |
| `ReleaseStoreProofs!TypeCorrect` | `TypeOK` | |
| `ReleasesWhole`, `CreatedOnce` | `ReleaseIsWhole`, `OneCreator` | any number of writers and crashes |
| `CreatedReleasesOpen` | `CreatedOpens` | documents within the read limit |
| `ComparisonsAgree` | `ComparisonAgrees` | lineages of any length, any damage |
| `QuietCatalogs` | `QuietCatalogReads` | a repository within the catalog's limits |

**The store** (`DocumentStoreProofs`). `push_revision` is the only way a history
grows: lemmas say what it returns, that it keeps ids ascending and that it never
exceeds the limit. All other canonical operations move the cursor or change one field
in place. The properties are not inductive by themselves. A registered result names a
revision id, and an id is given out again after a rolled-back transaction, so the
invariant also says that every result is filed under an id below the next one: a
revision that is pushed meets no result, and a rollback of the transaction must put
the registry back together with the id. For the epoch the invariant adds that no
observation carries an epoch above the current one, so a fresh epoch matches nobody.
For approvals, every grant of the policy in force is consumed and no grant belongs to
a later policy, so a policy with a higher epoch starts from nothing.

The refinement maps the revisions before, at and after the cursor to past, present
and future, and goes action by action: a push is a new edit (`PushMaps`,
`ApplyBatchMaps`), which may drop the oldest revisions, undo and redo are moves
(`CursorMaps`), a correction replaces the present (`TipMaps`), a checkpoint name or a
result leaves or notes it (`NoteMaps`), and `TransactionMaps` shows that a transaction
whose finalizer fails is a stutter. It rests on the history being sound: an edit gets
an id that no revision of past or future has. For `CommitsAsReviewed` a second
invariant, `PreparedOnCurrent`, keeps with every held proposal that its result was
computed on the product it names, and `CommitLeaves` follows the verification of a
candidate to the revision that is pushed.

**Sessions** (`DocumentSessionProofs`). `OwnerInv`: a session that relies on a
checkpoint holds the lock of its file; a lock is held only for that or for a save in
progress; the checkpoint at the place a session relies on is the one it wrote
(`CheckpointIsOwn`); and what a session knows of path, file and saved state agrees
(`Coherent`). It is inductive with every fault, and `OneOwner` and `NoLostUpdate`
follow. `WorkInv` adds, of each path, what opening it finds (`PathOK`), that the file
a checkpoint was made from is still there while it counts (`Based`), what holds
between publishing and settling (`SavingOK`), and that a checkpoint whose removal is
pending holds nothing that is needed (`PendingOK`). It is inductive under `Alone`:
where removing a checkpoint may fail there is one session. With two the statement is
false, which is what the run `session_cleanup_race` shows, so `Alone` is needed, and
every scenario of `session_recovery` satisfies it. Work that is set aside is found
beside the file and not in it: `NoWorkLost` does not count a file that happens to hold
the same content.

**Checkpoint steps** (`CheckpointStepsProofs`). What opening assembles of a file is
defined by recursion over its steps. `AssemblyExists` and `AssembliesAgree` show that
the recursion has one solution, so that a file with one more step opens as one
application of `Take` to what the file without it gives (`AssembledNext`); `HeldNext`
says the same of what a plan reads. A step planned from what is held of one document
makes the next one (`PlannedStep`, `TakeOK`). The plan compares ids, snapshots and
names but not programs; that this is enough follows from ids, of which a history has
no two alike and the next document takes none that was given out (`Kin`). Named
checkpoints matter for the same reason: a revision a step added has a name the plan
does not know, and is written again rather than kept. The invariant says that every
file is clean, which is to say it opens as the document it stands for and every step
of it reads, or clean but for a last step cut short (`Sane`); that a plan in memory
belongs to a clean file the session knows (`ObservedOK`); and that a step being
written was planned from such a file (`PendingOK`). A whole checkpoint takes the place
of a file that is not clean, so no step follows one that does not read, and opening
gives the old document or the new one. Both theorems assume `UndoLimit < Budget`: an
open has room for a history of the greatest length, so it gives nothing up. With less
room the first is false, see the observations of section 3; in the code the budget is
counted in bytes (`HISTORY_BUDGET.snapshots`), so the theorems speak of documents whose
histories fit it.

**The window** (`WindowSaveProofs`). The checkpoint the window answers for is on disk
and holds the history shown; without one, and where locks can be taken, the window
shows the history of its file (`Held`). A thread that writes the window's own file
was handed its lock (`OwnWrite`), so no edit is made until its answer is polled, and
what it publishes is the history the window shows (`Writes`, `OnDisk`). `Branch` says
who holds the lock of a checkpoint, `Kept` that settings which differ from the file's
are marked unsaved, and `Consent` that a close nothing cancels was decided in the
guard's step of the frame, on a clean window or on a consent for the history shown,
with no write running.

**Background tasks** (`BackgroundTaskProofs`). The invariant says where the job's
thread is when the watchdog may still act: the watchdog is joined before the clock is
read, so a flag seen after that was set by the holder or by a deadline the clock
shows; and a result leaves the channel only together with the answer.

**Exact workers** (`ExactWorkerProofs`). A worker that was not given up has at most one
thing of its holder in its queue, pipes and channel: the request being made or the
reply to it, and nothing between two requests (`PipesOK`). A worker that was given up
is dead, except on Windows, where it may still answer. So requests are ordered
(`AgesOK`: what a client still holds is older than the request being made), a reply
taken is the request's own or the call has failed (`TakenOK`), and a request is sent
again only on a second attempt (`SentOK`), which follows an error a restart is
permitted for and asks a process that has answered nothing.

**The bridge** (`LiveBridgeProofs`). Whatever may still take effect, a request in the
queue, the job or the request being executed, belongs to the bridge that stands, and
when that bridge goes its queue and job go in the same step (`Work`). A queued request
has left nothing anywhere, and its flag is clear while its client waits. A job knows
which settings and which file are its own, so undoing it leaves nothing. So a client
is told that nothing happened only of a request that is dead (issued, no longer
active, without effect), and dead requests stay dead (`Answers`). `Control` follows the
broker and the window separately: who was granted, which bridge is named, and who will
notice that it is gone. The actions fall into a few kinds of step; each kind is shown
once to keep the invariant, and each action to be of one kind. For `RevokedForGood` the
same kinds say what a step does in the name of a request (`Acts`): it is the request the
UI thread has just checked (`Checked`), or the sheet its thread is publishing, and no
step makes a revoked request one that was checked.

**Releases** (`ReleaseStoreProofs`). The invariant follows a writer: what it has
written so far is among the objects, its parent is a release, and a writer that has
renamed its manifest and not returned holds a release no other such writer holds and
nobody has reported, because the rename replaces nothing (`ReportedOK`). The last two
theorems speak of lineages, which the code follows by a loop and the model by a
recursive function. `LineExists` shows that the function exists for the line of every
release, `LineageIs` what it computes, by induction along the line. The library's
induction theorems take an operator as a parameter, so the induction is stated for
sets (`SetInduction`, `LeastElement`). For comparisons, `SameLine` and `SameFirst`
show that two lines which meet are the same from there on, so the first common release
of one line is that of the other. For catalogs a second invariant, `LineInv`, says
that a parent was created before its children (`RankOK`), so that a line never returns
to itself and is no longer than the number of creations, and that an undisturbed
listing holds the parents of what it lists (`ListedOK`). With more releases than the
catalog's depth or entries the statement is false (see the observations of section 3),
so `QuietCatalogs` assumes `MaxReleases <= MaxDepth` and `MaxReleases <= MaxEntries`,
as in the run.

Each leaf is small enough to be proved in a few seconds. Records with many fields are
the expensive part: lemmas give their fields once (`WindowParts`, `FileParts`,
`TypeFacts`, `RevisionIs`), and the larger steps cite those instead of the definition. A
leaf that names a prover (`Zenon`, `SMTT(20)`, `ZenonT(30)`) is one that the default
order of provers reaches late, most often because the step is first-order reasoning over
a large definition that SMT takes long to encode.

Only checked with TLC:

- liveness (`TaskEnds`, `CallEnds`, `SaveEnds`, `DeferredCloseAnswered`): fairness and
  `ENABLED` are outside what the prover handles;
- the three properties that are violated.

## 5. Not modelled

`PROJECT.json` lists every part with its reason. Most of the repository's lines are
geometry, drawings, formats, a program interpreter, rendering and the user
interface: sequential computation over real numbers, text and an external kernel,
in which nothing is shared, lost or reordered and whose correctness is a matter of
numbers and bytes. Tests reach it and a finite model would not say anything about
it, so the share of lines modelled stays small.

Of the modelled parts: validators, encodings and digests are data; which items a
command reads (`proposal_analysis.rs`) is an input; review-only files never become a
session; a session's registries of exact results, the viewer export and opening
another document in the window are left out; a history that fits no whole checkpoint
is not written as steps; the program worker, exchange requests and the executable's
identity are no part of `ExactWorker`; of the bridge, the authentication of
connections, other kinds of job, an export that waits for the exact evaluation,
images, staged proposals and batch jobs.

## 6. Plan

1. `DocumentStore`, `LinearHistory`, `DocumentSession`, `BackgroundTask`: done.
2. The window's save and close, checkpoint steps and their refinement, exact
   workers, releases, the live bridge: done.
3. Next: the exact evaluation task over several workers, published into a store that
   has moved on; staged proposals and batch jobs of the bridge.
4. Proofs of every safety invariant and action property the passing runs check, and of
   the refinements of `LinearHistory` and `AtomicCheckpoint`: done.
5. Left to prove: what item 3 adds. Checkpoint steps without room for the longest
   history (`UndoLimit >= Budget`) need a weaker statement, in which an open may give up
   the oldest revisions and a step may be left out.
