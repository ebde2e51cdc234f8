----------------------------- MODULE WindowSave -----------------------------
(***************************************************************************)
(* The window's own file (ketchup-app): edits that are checkpointed as     *)
(* they are made, saves prepared and written on worker threads, and the    *)
(* close guard that asks before unsaved work is lost.                      *)
(*                                                                         *)
(* One window holds one document.  Its work is a history (history_digest:  *)
(* an edit, undo or redo moves between histories) and the settings kept    *)
(* beside it (container_data: drawing sheets, viewer sharing).  A frame    *)
(* runs on the UI thread in three steps, finish_file_activity_frame,       *)
(* show_close_guard and refresh_work_recovery_checkpoint; edits, a         *)
(* client's requests and the user's come between frames.  The bytes a save *)
(* writes are the work, so a FileIdentity is the work it was made of.      *)
(***************************************************************************)
EXTENDS Integers

CONSTANTS
    MaxHistory,     \* histories are 0..MaxHistory, 0 the first
    MaxSettings,    \* settings are 0..MaxSettings
    Paths,          \* where the document can be saved
    Home,           \* the only one unless it is saved elsewhere
    Lockless,       \* paths that may be without locks
    Scenarios,      \* what happens around the window: a behaviour meets one
    Absent, Foreign, None

Histories == 0..MaxHistory
Settings == 0..MaxSettings
Work == [history : Histories, settings : Settings]
First == [history |-> 0, settings |-> 0]

VARIABLES
    work,           \* document and container_data
    unsaved,        \* drawings.unsaved or viewer_prep.unsaved
    file,           \* what the window knows of its file
    disk,           \* the file at each path
    checkpoint,     \* the .work-recovery at each path
    save,           \* the running SaveTask
    guard,          \* CloseGuard
    drawings,       \* a client's export of drawings, with the settings it kept
    close,          \* the close event of the frame and the commands it sent
    ui,             \* where the UI thread is
    agreed,         \* history: the work a consent in force was given for
    scenario        \* "write": a save fails; "published": it fails after it
                    \* was published; "panic": its thread dies; "clear": a
                    \* checkpoint cannot be removed; "outside": other programs
                    \* write files; "drawings": a client exports drawings;
                    \* "nolocks": no lock can be taken at the Lockless paths;
                    \* "elsewhere": the document is saved to other paths;
                    \* "settings": the settings beside it are changed

vars == <<work, unsaved, file, disk, checkpoint, save, guard, drawings, close,
          ui, agreed, scenario>>

NoLocks == IF "nolocks" \in scenario THEN Lockless ELSE {}

Checkpoint == [base : Work, work : Work]

File ==
    [path : Paths \cup {None},
     requested : Paths \cup {None},         \* recovery_open.requested_path
     base : Work \cup {None},               \* recovery_open.work_recovery_base
     identity : Work \cup {None},
     saved : Histories,                     \* saved_digest
     lock : Paths \cup {None},              \* work_recovery_lock
     off : BOOLEAN,                         \* work_recovery_off
     ckptId : Checkpoint \cup {None},       \* work_recovery_identity
     ckptDigest : Histories \cup {None},    \* work_recovery_digest
     cleanup : [path : Paths, id : Checkpoint] \cup {None}]

Source == [work : Work, path : Paths \cup {None}]

SaveTask ==
    [stage : {"Preparing", "Writing"},
     path : Paths,
     source : Source,
     expected : Work \cup {Absent, Foreign},    \* the file it may replace
     result : {"none", "ok", "failed", "published", "panic"},
     lock : Paths \cup {None},                  \* target_lock
     close : BOOLEAN]                           \* close_requested

CloseGuard ==
    [pending : BOOLEAN, approved : Histories \cup {None}, saving : BOOLEAN,
     save_succeeded : BOOLEAN]

ASSUME ConstantAssumption ==
    /\ MaxHistory \in Nat \ {0} /\ MaxSettings \in Nat
    /\ Home \in Paths /\ Lockless \subseteq Paths
    /\ Work \cap {Absent, Foreign} = {}
    /\ None \notin Paths \cup Histories \cup Work \cup Checkpoint \cup SaveTask
                     \cup [path : Paths, base : Work] \cup [path : Paths, id : Checkpoint]
    /\ UNION Scenarios \subseteq {"write", "published", "panic", "clear", "outside",
                                  "drawings", "nolocks", "elsewhere", "settings"}

NoGuard ==
    [pending |-> FALSE, approved |-> None, saving |-> FALSE,
     save_succeeded |-> FALSE]

NoClose == [event |-> FALSE, sent |-> FALSE, cancelled |-> FALSE]

-----------------------------------------------------------------------------
(* What the window knows *)

IsDirty(w, f, u) == f.requested # None \/ w.history # f.saved \/ u

is_dirty == IsDirty(work, file, unsaved)

native_save_is_writing == save # None /\ save.stage = "Writing"

\* The path the window's checkpoint belongs to.
Own(f) == IF f.path # None THEN f.path ELSE f.requested

checkpoint_target(f) ==
    IF f.off THEN None
    ELSE IF f.path # None /\ f.identity # None
    THEN [path |-> f.path, base |-> f.identity]
    ELSE IF f.requested # None /\ f.base # None
    THEN [path |-> f.requested, base |-> f.base] ELSE None

\* Source::capture and Source::current.
capture == [work |-> work, path |-> file.path]

\* Mutant: an edit made since the save began is not noticed.
current_path_only(source) == source.path = file.path

current(source) == source = capture

\* clear_work_recovery: the checkpoint goes only if it is the expected one.
Cleared(c, p, id) == IF id # None /\ c[p] = id THEN [c EXCEPT ![p] = None] ELSE c

\* retry_pending_work_recovery_cleanup, when it succeeds.
Retried(c) ==
    IF file.cleanup = None THEN c ELSE Cleared(c, file.cleanup.path, file.cleanup.id)

\* acquire_work_recovery_lock: refused while the save's thread has the lock;
\* where no lock can be taken the window goes on without checkpoints.
Lockable(f) ==
    f.lock = None /\ checkpoint_target(f) # None /\ save # None =>
        save.lock # checkpoint_target(f).path

\* Mutant: the target itself is kept as its lock.
Locked_target(f) ==
    IF f.lock # None \/ checkpoint_target(f) = None THEN f
    ELSE [f EXCEPT !.lock = checkpoint_target(f)]

Locked(f) ==
    IF f.lock # None \/ checkpoint_target(f) = None THEN f
    ELSE IF checkpoint_target(f).path \in NoLocks THEN [f EXCEPT !.off = TRUE]
    ELSE [f EXCEPT !.lock = checkpoint_target(f).path]

\* publish_work_recovery replaces only the checkpoint this window wrote, made
\* from the file as it is.
Publishable(f, t) == disk[t.path] = t.base /\ checkpoint[t.path] = f.ckptId

-----------------------------------------------------------------------------
(* Between frames *)

\* Mutant: the checkpoint is left to the end of the frame.
edit_unchecked(h) ==
    /\ ui = "idle" /\ h # work.history /\ Lockable(file)
    /\ work' = [work EXCEPT !.history = h]
    /\ file' = Locked(file)
    /\ UNCHANGED <<unsaved, disk, checkpoint, save, guard, drawings, close, ui, agreed>>

\* mutate_document_with_work_recovery, for an edit that makes the history h:
\* it is made only once its checkpoint is on disk, or, back at the saved
\* history, once the checkpoint is gone.
edit(h) ==
    LET f == Locked(file)
        t == checkpoint_target(f)
        dirty == f.requested # None \/ h # f.saved
        digest == IF (dirty \/ unsaved) /\ t # None THEN h ELSE None
        after == [work EXCEPT !.history = h]
        id == [base |-> t.base, work |-> after]
    IN  /\ ui = "idle" /\ h # work.history /\ Lockable(file)
        /\ \/ /\ ~dirty
              /\ work' = after
              /\ checkpoint' = IF f.path # None /\ ~f.off
                               THEN Cleared(checkpoint, f.path, f.ckptId) ELSE checkpoint
              /\ file' = [f EXCEPT !.ckptId = None, !.ckptDigest = digest, !.lock = None]
           \/ /\ dirty
              /\ \/ t = None
                 \/ t # None /\ f.ckptId # None /\ f.ckptDigest = h
              /\ work' = after
              /\ file' = [f EXCEPT !.ckptDigest = digest,
                                   !.lock = IF f.ckptId = None THEN None ELSE @]
              /\ UNCHANGED checkpoint
           \/ /\ dirty /\ t # None
              /\ f.ckptId = None \/ f.ckptDigest # h
              /\ IF Publishable(f, t)
                 THEN /\ work' = after
                      /\ checkpoint' = [checkpoint EXCEPT ![t.path] = id]
                      /\ file' = [f EXCEPT !.ckptId = id, !.ckptDigest = digest]
                 ELSE /\ file' = [f EXCEPT !.lock = IF f.ckptId = None THEN None ELSE @]
                      /\ UNCHANGED <<work, checkpoint>>
        /\ UNCHANGED <<unsaved, disk, save, guard, drawings, close, ui, agreed>>

\* store_sheet_settings and store_viewer_settings, by the user or a client.
store_settings(s) ==
    /\ "settings" \in scenario
    /\ ui = "idle" /\ s # work.settings
    /\ work' = [work EXCEPT !.settings = s]
    /\ unsaved' = TRUE
    /\ UNCHANGED <<file, disk, checkpoint, save, guard, drawings, close, ui, agreed>>

\* start_export: a client's drawings are exported with settings it gives,
\* which the document keeps.
start_export(s) ==
    /\ "drawings" \in scenario
    /\ ui = "idle" /\ drawings = None /\ s # work.settings
    /\ drawings' = [previous |-> work.settings, previously_unsaved |-> unsaved, kept |-> s]
    /\ work' = [work EXCEPT !.settings = s]
    /\ unsaved' = TRUE
    /\ UNCHANGED <<file, disk, checkpoint, save, guard, close, ui, agreed>>

\* StartedDrawings::undo after a failed or cancelled export; settings changed
\* since stay.  A successful one leaves them too.
end_export ==
    /\ ui = "idle" /\ drawings # None
    /\ drawings' = None
    /\ \/ /\ work.settings = drawings.kept
          /\ work' = [work EXCEPT !.settings = drawings.previous]
          /\ unsaved' = drawings.previously_unsaved
       \/ UNCHANGED <<work, unsaved>>
    /\ UNCHANGED <<file, disk, checkpoint, save, guard, close, ui, agreed>>

\* The user closes the window.
request_close ==
    /\ ui = "idle" /\ ~close.event
    /\ close' = [close EXCEPT !.event = TRUE]
    /\ UNCHANGED <<work, unsaved, file, disk, checkpoint, save, guard, drawings, ui, agreed>>

\* Another program writes a file.
outside(p) ==
    /\ "outside" \in scenario /\ ui # "closed"
    /\ disk[p] # Foreign
    /\ disk' = [disk EXCEPT ![p] = Foreign]
    /\ UNCHANGED <<work, unsaved, file, checkpoint, save, guard, drawings, close, ui, agreed>>

-----------------------------------------------------------------------------
(* Saving *)

\* The paths a save may be asked for.
Targets == IF "elsewhere" \in scenario THEN Paths ELSE {Home}

Preparing(p) ==
    [stage |-> "Preparing", path |-> p, source |-> capture, expected |-> Absent,
     result |-> "none", lock |-> None, close |-> FALSE]

\* Every check of save_document_prepared_while between the prepared bytes and
\* the write: the checkpoint at the target is the window's own or there is
\* none, and its own file is as it was read.  c are the checkpoints after a
\* pending removal.
MayPublish(p, c) ==
    LET active == p \in {file.path, file.requested}
    IN  /\ c[p] = IF active THEN file.ckptId ELSE None
        /\ file.path = p /\ file.identity # None => disk[p] = file.identity

\* The lock taken for the target, None where the window has it already.
TargetLock(p) ==
    IF p \in NoLocks \/ (p \in {file.path, file.requested} /\ file.lock # None)
    THEN None ELSE p

\* finish_document_save of a published document: the window moves to the file
\* and gives up its checkpoint, whose removal may fail; off is what the caller
\* sets last, when it published without a lock.
Settled(f, p) ==
    [f EXCEPT !.path = p, !.requested = None, !.base = None, !.identity = work,
              !.lock = None, !.ckptId = None, !.ckptDigest = None,
              !.saved = work.history]

finish_document_save(p, f, c, off) ==
    /\ unsaved' = FALSE
    /\ \/ /\ checkpoint' = IF Own(f) = None THEN c ELSE Cleared(c, Own(f), f.ckptId)
          /\ file' = [Settled(f, p) EXCEPT !.off = off]
       \/ /\ "clear" \in scenario /\ Own(f) # None /\ f.ckptId # None
          /\ checkpoint' = c
          /\ file' = [Settled(f, p) EXCEPT
                        !.off = off, !.cleanup = [path |-> Own(f), id |-> f.ckptId]]

\* A client's save, done at once on the UI thread (save_document_to_while).
live_save(p) ==
    LET f == [file EXCEPT !.cleanup = None]
        unlocked == TargetLock(p) = None /\ file.lock = None
    IN  /\ ui = "idle" /\ p \in Targets /\ ~native_save_is_writing /\ drawings = None
        /\ MayPublish(p, Retried(checkpoint))
        /\ disk' = [disk EXCEPT ![p] = work]
        /\ finish_document_save(p, f, Retried(checkpoint), unlocked)
        /\ UNCHANGED <<work, save, guard, drawings, close, ui, agreed>>

\* Mutant: the thread answers only while the work is as it took it.
prepare_save_of_current ==
    /\ save # None /\ save.stage = "Preparing" /\ save.result = "none"
    /\ save.source = capture
    /\ save' = [save EXCEPT !.result = "ok"]
    /\ UNCHANGED <<work, unsaved, file, disk, checkpoint, guard, drawings, close, ui, agreed>>

\* The thread that prepares the bytes of a save.
prepare_save ==
    /\ save # None /\ save.stage = "Preparing" /\ save.result = "none"
    /\ \E r \in {"ok"} \cup (IF "write" \in scenario THEN {"failed"} ELSE {}) :
           save' = [save EXCEPT !.result = r]
    /\ UNCHANGED <<work, unsaved, file, disk, checkpoint, guard, drawings, close, ui, agreed>>

\* The thread that writes them, over the file the save expects only.
publish_document ==
    /\ native_save_is_writing /\ save.result = "none"
    /\ \/ /\ disk[save.path] = save.expected
          /\ disk' = [disk EXCEPT ![save.path] = save.source.work]
          /\ \E r \in {"ok"} \cup (scenario \cap {"published"}) :
                 save' = [save EXCEPT !.result = r]
       \/ /\ disk[save.path] # save.expected \/ "write" \in scenario
          /\ save' = [save EXCEPT !.result = "failed"]
          /\ UNCHANGED disk
       \/ /\ "panic" \in scenario
          /\ save' = [save EXCEPT !.result = "panic", !.lock = None]
          /\ UNCHANGED disk
    /\ UNCHANGED <<work, unsaved, file, checkpoint, guard, drawings, close, ui, agreed>>

-----------------------------------------------------------------------------
(* A frame: finish_file_activity_frame *)

\* Nothing to do, or a worker that has not answered; a close asked for during
\* a write waits for it.
wait_for_worker ==
    /\ save # None => save.result = "none"
    /\ ~(close.event /\ save # None /\ save.stage = "Preparing")
    /\ save' = IF save = None THEN None ELSE [save EXCEPT !.close = @ \/ close.event]
    /\ close' = [close EXCEPT !.cancelled = close.event /\ save # None]
    /\ UNCHANGED <<unsaved, file, checkpoint, guard>>

\* A preparation is given up by a close or by the user.
cancel_save_preparation ==
    /\ save # None /\ save.stage = "Preparing"
    /\ save' = None
    /\ UNCHANGED <<unsaved, file, checkpoint, guard, close>>

\* The user's Save or Save As.
start_background_save ==
    /\ save = None /\ ~close.event /\ ~guard.pending
    /\ \E p \in Targets : save' = Preparing(p)
    /\ UNCHANGED <<unsaved, file, checkpoint, guard, close>>

\* The prepared bytes are of work that is no longer current, or are refused.
drop_prepared ==
    /\ save # None /\ save.stage = "Preparing" /\ save.result # "none" /\ ~close.event
    /\ save' = None
    /\ \/ UNCHANGED <<file, checkpoint>>
       \/ /\ current(save.source)
          /\ file' = [file EXCEPT !.cleanup = None]
          /\ checkpoint' = Retried(checkpoint)
    /\ UNCHANGED <<unsaved, guard, close>>

\* start_prepared_write: the thread gets the target's lock, or the window's
\* own when none was taken.
start_prepared_write ==
    LET p == save.path
        c == Retried(checkpoint)
        taken == TargetLock(p)
    IN  /\ save # None /\ save.stage = "Preparing" /\ save.result = "ok" /\ ~close.event
        /\ current(save.source)
        /\ MayPublish(p, c)
        /\ checkpoint' = c
        /\ file' = [file EXCEPT !.cleanup = None,
                                !.lock = IF taken = None THEN None ELSE @]
        /\ save' = [save EXCEPT !.stage = "Writing", !.source = capture,
                                !.expected = disk[p], !.result = "none",
                                !.lock = IF taken = None THEN file.lock ELSE taken]
        /\ UNCHANGED <<unsaved, guard, close>>

\* Mutant: the lock the thread had is dropped.
Adopted_never(f, u) ==
    IF save.result = "ok" /\ save.lock = None /\ f.path = save.path
    THEN [f EXCEPT !.off = TRUE] ELSE f

\* The last part of poll_native_save: a window still dirty on the saved path
\* keeps the lock its thread had.
Adopted(f, u) ==
    LET kept == IF IsDirty(work, f, u) /\ Own(f) = save.path /\ f.lock = None
                THEN [f EXCEPT !.lock = save.lock] ELSE f
    IN  IF save.result = "ok" /\ save.lock = None /\ f.path = save.path
        THEN [kept EXCEPT !.off = TRUE] ELSE kept

\* The window's own file was written while the work changed: what was written
\* is saved, the change is not.
SavedMeanwhile(f) ==
    [f EXCEPT !.off = FALSE, !.identity = save.source.work,
              !.saved = save.source.work.history]

\* Mutant: a close asked for during the write is forgotten.
Resent_never(written) == FALSE

\* A close asked for during a write that succeeded is sent again.
Resent(written) == written /\ (save.close \/ close.event)

\* poll_native_save of a finished write.
finish_write ==
    LET published == save.result \in {"ok", "published"}
        written == save.result = "ok"
        now == current(save.source)
    IN  /\ native_save_is_writing /\ save.result # "none"
        /\ guard' = IF guard.saving
                    THEN [guard EXCEPT !.save_succeeded = written /\ now] ELSE guard
        /\ \/ /\ now /\ published
              /\ finish_document_save(save.path, file, checkpoint, written /\ save.lock = None)
           \/ /\ ~(now /\ published)
              /\ file' = Adopted(IF ~now /\ published /\ save.source.path = file.path
                                    /\ save.source.path = save.path
                                 THEN SavedMeanwhile(file) ELSE file, unsaved)
              /\ UNCHANGED <<unsaved, checkpoint>>
        /\ save' = None
        /\ close' = [close EXCEPT !.cancelled = close.event, !.sent = Resent(written)]

finish_file_activity_frame ==
    /\ ui = "idle" /\ ui' = "guard"
    /\ \/ wait_for_worker \/ cancel_save_preparation \/ start_background_save
       \/ drop_prepared \/ start_prepared_write \/ finish_write
    /\ UNCHANGED <<work, disk, drawings, agreed>>

-----------------------------------------------------------------------------
(* A frame: show_close_guard *)

\* close_identity; the document is the window's only one.
close_identity == work.history

Approved == guard.approved = close_identity

\* The question, and what the user answers to it if anything; a question that
\* was not yet on the screen is not answered.
ask(g) ==
    \/ /\ guard' = g
       /\ agreed' = IF close.event THEN None ELSE agreed
       /\ UNCHANGED save
    \/ /\ guard.pending                        \* Cancel
       /\ guard' = NoGuard
       /\ agreed' = None
       /\ UNCHANGED save
    \/ /\ guard.pending                        \* Save
       /\ \E p \in IF file.path # None THEN {file.path} ELSE Targets :
              save' = Preparing(p)
       /\ guard' = [g EXCEPT !.saving = TRUE, !.save_succeeded = FALSE]
       /\ agreed' = None

\* Close without saving.
discard(g) ==
    /\ guard.pending
    /\ guard' = [g EXCEPT !.pending = FALSE, !.approved = close_identity]
    /\ agreed' = work
    /\ UNCHANGED save

\* Mutant: a consent is kept until it is used.
Taken_kept(g) == g

\* approved.take()
Taken(g) == [g EXCEPT !.approved = None]

\* The save the question asked for is over.
after_save(g, c) ==
    IF g.save_succeeded /\ ~is_dirty
    THEN /\ guard' = [g EXCEPT !.saving = FALSE, !.pending = FALSE,
                              !.approved = close_identity]
         /\ close' = [c EXCEPT !.sent = TRUE]
         /\ agreed' = work
         /\ UNCHANGED save
    ELSE \/ ask([g EXCEPT !.saving = FALSE]) /\ close' = c
         \/ discard([g EXCEPT !.saving = FALSE]) /\ close' = [c EXCEPT !.sent = TRUE]

show_close_guard ==
    LET g == IF close.event THEN [Taken(guard) EXCEPT !.pending = TRUE] ELSE guard
        c == [close EXCEPT !.cancelled = @ \/ close.event]
    IN  /\ ui = "guard" /\ ui' = "refresh"
        /\ \/ /\ native_save_is_writing
              /\ UNCHANGED <<guard, save, close, agreed>>
           \/ /\ ~native_save_is_writing /\ close.event /\ (~is_dirty \/ Approved)
              /\ guard' = NoGuard
              /\ UNCHANGED <<save, close, agreed>>
           \/ /\ ~native_save_is_writing /\ ~(close.event /\ (~is_dirty \/ Approved))
              /\ \/ g.saving /\ save # None /\ guard' = g /\ close' = c
                    /\ UNCHANGED <<save, agreed>>
                 \/ g.saving /\ save = None /\ after_save(g, c)
                 \/ ~g.saving /\ ask(g) /\ close' = c
                 \/ ~g.saving /\ discard(g) /\ close' = [c EXCEPT !.sent = TRUE]
        /\ UNCHANGED <<work, unsaved, file, disk, checkpoint, drawings>>

-----------------------------------------------------------------------------
(* A frame: refresh_work_recovery_checkpoint *)

\* Nothing is refreshed during a save, when a pending removal fails again, or
\* when the checkpoint holds this history already.
refresh_nothing ==
    /\ \/ save # None
       \/ file.cleanup # None /\ "clear" \in scenario
       \/ file.cleanup = None /\ is_dirty /\ file.ckptDigest = work.history
       \/ file.cleanup = None /\ ~is_dirty /\ "clear" \in scenario
    /\ UNCHANGED <<file, checkpoint>>

\* A clean window has no checkpoint and no lock.
refresh_clean ==
    LET c == Retried(checkpoint)
    IN  /\ save = None /\ ~is_dirty
        /\ checkpoint' = IF file.path # None /\ ~file.off
                         THEN Cleared(c, file.path, file.ckptId) ELSE c
        /\ file' = [file EXCEPT !.cleanup = None, !.lock = None, !.ckptId = None,
                                !.ckptDigest = None]

\* A dirty one gets one, if it can be locked and written.
refresh_dirty ==
    LET f == Locked([file EXCEPT !.cleanup = None])
        c == Retried(checkpoint)
        t == checkpoint_target(f)
        id == [base |-> t.base, work |-> work]
        unlocked == [f EXCEPT !.lock = IF f.ckptId = None THEN None ELSE @]
    IN  /\ save = None /\ is_dirty
        /\ \/ /\ f.ckptDigest = work.history /\ file.cleanup # None
              /\ file' = [file EXCEPT !.cleanup = None] /\ checkpoint' = c
           \/ /\ f.ckptDigest # work.history /\ t = None
              /\ file' = f /\ checkpoint' = c
           \/ /\ f.ckptDigest # work.history /\ t # None
              /\ disk[t.path] = t.base /\ c[t.path] = f.ckptId
              /\ checkpoint' = [c EXCEPT ![t.path] = id]
              /\ file' = [f EXCEPT !.ckptId = id, !.ckptDigest = work.history]
           \/ /\ f.ckptDigest # work.history /\ t # None
              /\ ~(disk[t.path] = t.base /\ c[t.path] = f.ckptId)
              /\ file' = unlocked /\ checkpoint' = c

\* The end of the frame: a close event nothing cancelled ends the window, and
\* a Close command of this frame is the next one's event.
refresh_work_recovery_checkpoint ==
    /\ ui = "refresh"
    /\ refresh_nothing \/ refresh_clean \/ refresh_dirty
    /\ ui' = IF close.event /\ ~close.cancelled THEN "closed" ELSE "idle"
    /\ close' = [NoClose EXCEPT !.event = close.sent]
    /\ UNCHANGED <<work, unsaved, disk, save, guard, drawings, agreed>>

-----------------------------------------------------------------------------
(* The specification *)

NewFile ==
    [path |-> None, requested |-> None, base |-> None, identity |-> None,
     saved |-> 0, lock |-> None, off |-> FALSE, ckptId |-> None,
     ckptDigest |-> None, cleanup |-> None]

\* new_document
InitNew ==
    /\ work = First
    /\ file = NewFile
    /\ disk = [p \in Paths |-> Absent]
    /\ checkpoint = [p \in Paths |-> None]

\* install_loaded_document of the file itself.
InitOpened(p) ==
    /\ work = First
    /\ file = [NewFile EXCEPT !.path = p, !.identity = First, !.off = p \in NoLocks]
    /\ disk = [q \in Paths |-> IF q = p THEN First ELSE Absent]
    /\ checkpoint = [q \in Paths |-> None]

\* install_loaded_document of the checkpoint a crash left beside the file.
InitRecovered(p) ==
    LET id == [base |-> First, work |-> [First EXCEPT !.history = 1]]
    IN  /\ p \notin NoLocks
        /\ work = id.work
        /\ file = [NewFile EXCEPT !.requested = p, !.base = First, !.saved = 1,
                                  !.lock = p, !.ckptId = id]
        /\ disk = [q \in Paths |-> IF q = p THEN First ELSE Absent]
        /\ checkpoint = [q \in Paths |-> IF q = p THEN id ELSE None]

Init ==
    /\ scenario \in Scenarios
    /\ InitNew \/ \E p \in Targets : InitOpened(p) \/ InitRecovered(p)
    /\ unsaved = FALSE /\ save = None /\ guard = NoGuard /\ drawings = None
    /\ close = NoClose /\ ui = "idle" /\ agreed = None

Next ==
    /\ \/ \E h \in Histories : edit(h)
       \/ \E s \in Settings : store_settings(s) \/ start_export(s)
       \/ end_export
       \/ request_close
       \/ \E p \in Paths : outside(p) \/ live_save(p)
       \/ prepare_save \/ publish_document
       \/ finish_file_activity_frame \/ show_close_guard
       \/ refresh_work_recovery_checkpoint
    /\ UNCHANGED scenario

\* Frames keep coming (the spinner and the workers ask for them) and the
\* workers' threads run.
Fairness ==
    /\ WF_vars(prepare_save /\ UNCHANGED scenario)
    /\ WF_vars(publish_document /\ UNCHANGED scenario)
    /\ WF_vars(finish_file_activity_frame /\ UNCHANGED scenario)
    /\ WF_vars(show_close_guard /\ UNCHANGED scenario)
    /\ WF_vars(refresh_work_recovery_checkpoint /\ UNCHANGED scenario)

Spec == Init /\ [][Next]_vars /\ Fairness

-----------------------------------------------------------------------------
(* Properties *)

\* Type invariant: every part of the window holds values the code gives it.
TypeOK ==
    /\ work \in Work /\ unsaved \in BOOLEAN /\ file \in File
    /\ disk \in [Paths -> Work \cup {Absent, Foreign}]
    /\ checkpoint \in [Paths -> Checkpoint \cup {None}]
    /\ save \in SaveTask \cup {None}
    /\ guard \in CloseGuard
    /\ drawings \in [previous : Settings, previously_unsaved : BOOLEAN, kept : Settings]
                      \cup {None}
    /\ close \in [event : BOOLEAN, sent : BOOLEAN, cancelled : BOOLEAN]
    /\ ui \in {"idle", "guard", "refresh", "closed"}
    /\ agreed \in Work \cup {None} /\ scenario \in Scenarios

\* A window that shows no unsaved changes has its whole work, settings
\* included, in its file, however edits and saves overlapped
\* (poll_native_save keeps what was edited during a write unsaved).  Only
\* another program can have changed the file, or a write not yet polled.  A
\* client's export of drawings is left out: undone after a save, it puts back
\* settings the file no longer has.
CleanMeansSaved ==
    /\ "drawings" \notin scenario
    /\ file.path # None /\ ~is_dirty
    /\ ~(native_save_is_writing /\ save.path = file.path)
    => disk[file.path] \in {work, Foreign}

\* An edit the window shows is on disk before anything else happens: in its
\* file, or in a checkpoint of it, whatever was being saved meanwhile
\* (mutate_document_with_work_recovery).  Where no lock can be taken there are
\* no checkpoints.
EditsOnDisk ==
    LET t == checkpoint_target(file)
    IN  t # None /\ t.path \notin NoLocks /\ disk[t.path] # Foreign =>
            \/ checkpoint[t.path] # None /\ checkpoint[t.path].work.history = work.history
            \/ disk[t.path] # Absent /\ disk[t.path].history = work.history

\* As long as the window answers for a checkpoint, it or the thread it saves
\* with holds the lock of that checkpoint ("Live sessions must also hold a
\* WorkRecoveryLock", persistence/pipeline.rs).  Three cases are left out: a
\* thread that panics takes the lock it was handed with it; a save to another
\* path where no lock can be taken is handed the window's own lock, which is
\* dropped when the window does not move there; and an export of drawings
\* undone during a write makes the window clean at its end, which drops it.
OwnsRecoveryBranch ==
    scenario \cap {"panic", "nolocks", "drawings"} = {} /\ file.ckptId # None =>
        \/ file.lock = Own(file)
        \/ save # None /\ save.lock = Own(file)

\* A window that was closed lost no edit: its history is in its file or
\* nothing was ever made of it, or the user was asked about this very history
\* and let it go, discarded or just saved (show_close_guard).
ClosingLosesNoEdit ==
    ui = "closed" =>
        \/ file.path # None /\ disk[file.path] = Foreign
        \/ file.path # None /\ disk[file.path].history = work.history
        \/ file.path = None /\ file.requested = None /\ work.history = 0
        \/ agreed # None /\ agreed.history = work.history

\* "Consent is single-use and only covers the work visible when it was
\* granted" (close_guard.rs): a window closed with unsaved work closes with
\* exactly the work, settings included, the user was asked about.
ConsentCoversVisibleWork ==
    ui = "closed" /\ is_dirty => agreed = work

\* A save that was started comes to an end: written, refused or given up.
SaveEnds == save # None ~> save = None

\* A close asked for while a save is being written is not forgotten once the
\* write succeeds: the window closes, or asks about what is still unsaved.
DeferredCloseAnswered ==
    (native_save_is_writing /\ save.close /\ save.result = "ok")
        ~> (ui = "closed" \/ guard.pending)

=============================================================================
