-------------------------- MODULE DocumentSession --------------------------
(***************************************************************************)
(* Editing sessions over files on disk (ketchup-application session.rs     *)
(* with ketchup-model persistence): opening a file or its work-recovery    *)
(* checkpoint, edits that are acknowledged only once they are              *)
(* checkpointed, saves that publish and then clear the checkpoint, and     *)
(* sessions that stop at any moment.                                       *)
(*                                                                         *)
(* A document in memory is its trail of revisions and the place in it; the *)
(* revisions up to there are its history_digest.  A saved file holds the   *)
(* current revision only, a checkpoint the whole trail.  Every edit makes  *)
(* a revision with bytes of its own, so a file's FileIdentity is its       *)
(* revision and a checkpoint's is the checkpoint.  What runs under the     *)
(* save lock of a path (lock_saves) is one step: publishing, writing a     *)
(* checkpoint, clearing one.                                               *)
(***************************************************************************)
EXTENDS Integers, Sequences

CONSTANTS
    Sessions,       \* live sessions, in one process or in several
    Paths,          \* the files they work on
    MaxRevision,    \* bound on the revisions ever made
    Scenarios,      \* which sessions and paths, how many revisions, what fails
    Absent, Damaged, None

Revisions == 1..MaxRevision

\* The revision of a new document, the same bytes in every session.
Empty == 1

Doc == [trail : Seq(Revisions), at : Revisions]

Checkpoint == [base : Revisions, work : Doc]

Session ==
    [doc : Doc,                             \* document
     path : Paths \cup {None},
     requested : Paths \cup {None},         \* recovery.requested_path
     base : Revisions \cup {None},          \* recovery.work_recovery_base
     fileId : Revisions \cup {None},        \* file_identity
     checkpointId : Checkpoint \cup {None}, \* work_recovery_identity
     pending : [path : Paths, id : Checkpoint] \cup {None},
     saved : Seq(Revisions) \cup {None}]    \* saved_digest

ASSUME ConstantAssumption ==
    /\ MaxRevision \in Nat \ {0}
    /\ \A x \in Scenarios :
           /\ x.sessions \subseteq Sessions /\ x.paths \subseteq Paths
           /\ x.revisions \in Revisions /\ x.faults \subseteq {"outside", "clear"}
    /\ Revisions \cap {Absent, Damaged, None} = {}
    /\ Absent # Damaged
    /\ None \notin Sessions \cup Paths \cup Seq(Revisions)
    /\ None \notin Session \cup Checkpoint \cup [path : Paths, id : Checkpoint]
                       \cup [path : Paths, base : Revisions]

VARIABLES
    file,           \* the file at each path
    backup,         \* its .recovery
    checkpoint,     \* its .work-recovery
    aside,          \* work kept beside it: .stale files, unfinished removals
    lock,           \* who holds its work-recovery lock
    session,        \* each live session
    saving,         \* the path a session has published and not yet settled
    made,           \* how many revisions were ever made
    unsaved,        \* history: acknowledged work that no save has taken over
    latest,         \* history: the content last acknowledged at each path, until
                    \* something outside changes the file, the work is saved
                    \* elsewhere or a removal of its checkpoint stops halfway
    scenario        \* the sessions, paths and faults of this behaviour; "outside":
                    \* other programs change files, "clear": removing a checkpoint fails

vars == <<file, backup, checkpoint, aside, lock, session, saving, made, unsaved, latest,
          scenario>>

-----------------------------------------------------------------------------

Live == {s \in Sessions : session[s] # None}

Idle == {s \in Live : saving[s] = None}

FromFile(revision) == [trail |-> <<revision>>, at |-> 1]

Current(doc) == doc.trail[doc.at]

history_digest(doc) == SubSeq(doc.trail, 1, doc.at)

\* The session's WorkRecoveryLock is held while it has a checkpoint; a save
\* holds that of its target as well.
Holds(s) == \E p \in Paths : lock[p] = s

Released(s) == [p \in Paths |-> IF lock[p] = s THEN None ELSE lock[p]]

\* Where a session checkpoints its work and the file that is made from.
checkpoint_target(x) ==
    IF x.path # None /\ x.fileId # None THEN [path |-> x.path, base |-> x.fileId]
    ELSE IF x.requested # None /\ x.base # None
         THEN [path |-> x.requested, base |-> x.base]
         ELSE None

\* The file a session works on, opened or recovered.
Owned(x) == IF x.path # None THEN x.path ELSE x.requested

\* clear_work_recovery: removes the checkpoint only if it is the expected one.
clear_work_recovery(p, expected) ==
    /\ checkpoint' = IF expected # None /\ checkpoint[p] = expected
                     THEN [checkpoint EXCEPT ![p] = None] ELSE checkpoint
    /\ UNCHANGED aside

\* Its failures: nothing happened, or the file was claimed under another name
\* and could not be removed there.
clear_work_recovery_fails(p, expected) ==
    /\ "clear" \in scenario.faults
    /\ \/ UNCHANGED <<checkpoint, aside>>
       \/ /\ expected # None /\ checkpoint[p] = expected
          /\ checkpoint' = [checkpoint EXCEPT ![p] = None]
          /\ aside' = [aside EXCEPT ![p] = @ \cup {Current(expected.work)}]

-----------------------------------------------------------------------------
(* Opening *)

Usable(p) == checkpoint[p] # None /\ checkpoint[p].base = file[p]

Fresh(doc) ==
    [doc |-> doc, path |-> None, requested |-> None, base |-> None,
     fileId |-> None, checkpointId |-> None, pending |-> None,
     saved |-> history_digest(doc)]

\* What load_file_with_source opens.
Loads(p) == IF file[p] \notin Revisions THEN backup[p]
            ELSE IF Usable(p) THEN Current(checkpoint[p].work) ELSE file[p]

Start(s, x) ==
    /\ session[s] = None
    /\ session' = [session EXCEPT ![s] = x]
    /\ UNCHANGED <<file, backup, saving, unsaved, latest>>

\* DocumentSession::new: the empty document, saved nowhere.
new(s) ==
    /\ Start(s, [Fresh(FromFile(Empty)) EXCEPT !.saved = None])
    /\ UNCHANGED <<checkpoint, aside, lock, made>>

\* Mutant: the lock taken for the open is dropped.
open_checkpoint_unlocked(s, p) ==
    /\ lock[p] = None
    /\ file[p] \in Revisions /\ Usable(p)
    /\ Start(s, [Fresh(checkpoint[p].work) EXCEPT
                    !.requested = p, !.base = file[p],
                    !.checkpointId = checkpoint[p]])
    /\ UNCHANGED <<checkpoint, aside, lock, made>>

\* A checkpoint made from this very file is opened in its place and the lock
\* stays with the session.
open_checkpoint(s, p) ==
    /\ lock[p] = None
    /\ file[p] \in Revisions /\ Usable(p)
    /\ Start(s, [Fresh(checkpoint[p].work) EXCEPT
                    !.requested = p, !.base = file[p],
                    !.checkpointId = checkpoint[p]])
    /\ lock' = [lock EXCEPT ![p] = s]
    /\ UNCHANGED <<checkpoint, aside, made>>

\* Mutant: a checkpoint the file cannot use is thrown away.
open_file_discarding(s, p) ==
    /\ lock[p] = None
    /\ file[p] \in Revisions /\ ~Usable(p)
    /\ Start(s, [Fresh(FromFile(file[p])) EXCEPT !.path = p, !.fileId = file[p]])
    /\ checkpoint' = [checkpoint EXCEPT ![p] = None]
    /\ UNCHANGED <<aside, lock, made>>

\* The file itself; a checkpoint it cannot use is set aside, if that works.
open_file(s, p) ==
    /\ lock[p] = None
    /\ file[p] \in Revisions /\ ~Usable(p)
    /\ Start(s, [Fresh(FromFile(file[p])) EXCEPT !.path = p, !.fileId = file[p]])
    /\ \/ /\ checkpoint[p] # None
          /\ checkpoint' = [checkpoint EXCEPT ![p] = None]
          /\ aside' = [aside EXCEPT ![p] = @ \cup {Current(checkpoint[p].work)}]
       \/ UNCHANGED <<checkpoint, aside>>
    /\ UNCHANGED <<lock, made>>

open_backup(s, p) ==
    /\ lock[p] = None
    /\ file[p] \notin Revisions
    /\ backup[p] \in Revisions
    /\ Start(s, [Fresh(FromFile(backup[p])) EXCEPT !.requested = p])
    /\ UNCHANGED <<checkpoint, aside, lock, made>>

open(s, p) == open_checkpoint(s, p) \/ open_file(s, p) \/ open_backup(s, p)

-----------------------------------------------------------------------------
(* Editing *)

\* The unsaved work a session itself was acknowledged.
OwnWork(x) == IF x.checkpointId = None THEN {} ELSE {Current(x.doc)}

Update(s, x) == session' = [session EXCEPT ![s] = x]

\* The saved state only counts for a session that works on its own file: one
\* opened from a checkpoint keeps it.
MatchesSaved(x, doc) == x.requested = None /\ x.saved = history_digest(doc)

\* write_work_recovery: over the file and the checkpoint the session knows.
write_work_recovery(s, x, target, doc) ==
    LET written == [base |-> target.base, work |-> doc]
    IN  /\ file[target.path] = target.base
        /\ checkpoint[target.path] = x.checkpointId
        /\ checkpoint' = [checkpoint EXCEPT ![target.path] = written]
        /\ lock' = [lock EXCEPT ![target.path] = s]
        /\ Update(s, [x EXCEPT !.doc = doc, !.checkpointId = written])
        /\ unsaved' = [unsaved EXCEPT ![target.path] =
                           (@ \ OwnWork(x)) \cup {Current(doc)}]
        /\ latest' = [latest EXCEPT ![target.path] = Current(doc)]
        /\ UNCHANGED aside

\* Back at the saved state: the checkpoint and the lock are given up.
clear_at_saved(s, x, target, doc) ==
    /\ clear_work_recovery(target.path, x.checkpointId)
    /\ lock' = Released(s)
    /\ Update(s, [x EXCEPT !.doc = doc, !.checkpointId = None])
    /\ unsaved' = [unsaved EXCEPT ![target.path] = @ \ OwnWork(x)]
    /\ latest' = IF x.checkpointId = None \/ latest[target.path] = None THEN latest
                 ELSE [latest EXCEPT ![target.path] = Current(doc)]

\* An edit, undo, redo or publication of results that makes `doc` the
\* document.  It is acknowledged only when its checkpoint is on disk; one
\* that fails leaves the document as it was.
mutate_with_work_recovery(s, doc) ==
    LET x == session[s]
        target == checkpoint_target(x)
    IN  /\ IF target = None
           THEN /\ Update(s, [x EXCEPT !.doc = doc])
                /\ UNCHANGED <<checkpoint, aside, lock, unsaved, latest>>
           ELSE /\ Holds(s) \/ lock[target.path] = None
                /\ IF MatchesSaved(x, doc)
                   THEN \/ clear_at_saved(s, x, target, doc)
                        \/ /\ clear_work_recovery_fails(target.path, x.checkpointId)
                           /\ latest' = IF checkpoint' = checkpoint THEN latest
                                        ELSE [latest EXCEPT ![target.path] = None]
                           /\ UNCHANGED <<lock, session, unsaved>>
                   ELSE write_work_recovery(s, x, target, doc)
        /\ UNCHANGED <<file, backup, saving>>

edit(s) ==
    LET doc == session[s].doc
    IN  /\ made < scenario.revisions
        /\ made' = made + 1
        /\ mutate_with_work_recovery(s,
               [trail |-> Append(history_digest(doc), made'), at |-> doc.at + 1])

undo(s) ==
    /\ session[s].doc.at > 1
    /\ mutate_with_work_recovery(s, [session[s].doc EXCEPT !.at = @ - 1])
    /\ UNCHANGED made

\* Mutant: one step too far forward.
redo_past_the_end(s) ==
    /\ session[s].doc.at <= Len(session[s].doc.trail)
    /\ mutate_with_work_recovery(s, [session[s].doc EXCEPT !.at = @ + 1])
    /\ UNCHANGED made

redo(s) ==
    /\ session[s].doc.at < Len(session[s].doc.trail)
    /\ mutate_with_work_recovery(s, [session[s].doc EXCEPT !.at = @ + 1])
    /\ UNCHANGED made

\* A checkpoint on request, or results published on the same revision.
write_work_recovery_checkpoint(s) ==
    /\ mutate_with_work_recovery(s, session[s].doc)
    /\ UNCHANGED made

\* What a save, or a checkpoint on request, starts with.
retry_pending_work_recovery_cleanup(s) ==
    LET x == session[s]
    IN  /\ x.pending # None
        /\ \/ /\ clear_work_recovery(x.pending.path, x.pending.id)
              /\ Update(s, [x EXCEPT !.pending = None])
           \/ /\ clear_work_recovery_fails(x.pending.path, x.pending.id)
              /\ UNCHANGED session
        /\ UNCHANGED <<file, backup, lock, saving, made, unsaved, latest>>

-----------------------------------------------------------------------------
(* Saving *)

\* Mutant: the file is not compared with the one the session knows.
MayPublish_any(x, p, overwrite) == overwrite \/ file[p] = Absent

\* publish_bytes: IfAbsent, IfUnchanged or Replace.
MayPublish(x, p, overwrite) ==
    IF ~overwrite THEN file[p] = Absent
    ELSE x.path = p /\ x.fileId # None => file[p] = x.fileId

\* save, up to the moment the file is published.  The write can stop after
\* the replaced file was kept as the backup.
save(s, p, overwrite) ==
    LET x == session[s]
        active == p \in {x.path, x.requested}
    IN  /\ x.pending = None
        /\ (active /\ Holds(s)) \/ lock[p] = None
        /\ checkpoint[p] = IF active THEN x.checkpointId ELSE None
        /\ MayPublish(x, p, overwrite)
        /\ backup' = IF file[p] \in Revisions THEN [backup EXCEPT ![p] = file[p]]
                     ELSE backup
        /\ \/ /\ file' = [file EXCEPT ![p] = Current(x.doc)]
              /\ lock' = [lock EXCEPT ![p] = s]
              /\ saving' = [saving EXCEPT ![s] = p]
              /\ unsaved' = [o \in Paths |-> IF o = Owned(x)
                                            THEN unsaved[o] \ OwnWork(x)
                                            ELSE unsaved[o]]
              /\ latest' = [o \in Paths |-> IF o = p THEN Current(x.doc)
                                           ELSE IF o = Owned(x) THEN None
                                           ELSE latest[o]]
           \/ UNCHANGED <<file, lock, saving, unsaved, latest>>
        /\ UNCHANGED <<checkpoint, aside, session, made>>

\* The rest of save: the checkpoint of the work is cleared, or its cleanup
\* stays pending, and the session continues on the file it published.
save_settle(s) ==
    LET x == session[s]
        settled == [Fresh(x.doc) EXCEPT !.path = saving[s], !.fileId = Current(x.doc)]
    IN  /\ \/ /\ x.checkpointId = None
              /\ Update(s, settled)
              /\ UNCHANGED <<checkpoint, aside>>
           \/ /\ x.checkpointId # None
              /\ clear_work_recovery(Owned(x), x.checkpointId)
              /\ Update(s, settled)
           \/ /\ x.checkpointId # None
              /\ clear_work_recovery_fails(Owned(x), x.checkpointId)
              /\ Update(s, [settled EXCEPT !.pending =
                               [path |-> Owned(x), id |-> x.checkpointId]])
        /\ lock' = Released(s)
        /\ saving' = [saving EXCEPT ![s] = None]
        /\ UNCHANGED <<file, backup, made, unsaved, latest>>

-----------------------------------------------------------------------------

\* The session is dropped or its process stops, at any moment.
stop(s) ==
    /\ session' = [session EXCEPT ![s] = None]
    /\ saving' = [saving EXCEPT ![s] = None]
    /\ lock' = Released(s)
    /\ UNCHANGED <<file, backup, checkpoint, aside, made, unsaved, latest>>

\* Another program replaces, damages or removes the file.
ChangedOutside(p, found) ==
    /\ "outside" \in scenario.faults
    /\ file' = [file EXCEPT ![p] = found]
    /\ latest' = [latest EXCEPT ![p] = None]
    /\ UNCHANGED <<backup, checkpoint, aside, lock, session, saving, made, unsaved>>

Init ==
    /\ scenario \in Scenarios
    /\ file \in [Paths -> {Empty, Absent}]
    /\ backup = [p \in Paths |-> Absent]
    /\ checkpoint = [p \in Paths |-> None]
    /\ aside = [p \in Paths |-> {}]
    /\ lock = [p \in Paths |-> None]
    /\ session = [s \in Sessions |-> None]
    /\ saving = [s \in Sessions |-> None]
    /\ made = Empty
    /\ unsaved = [p \in Paths |-> {}]
    /\ latest = [p \in Paths |-> IF file[p] \in Revisions THEN file[p] ELSE None]

Next ==
    /\ \/ \E s \in scenario.sessions : new(s)
       \/ \E s \in scenario.sessions, p \in scenario.paths : open(s, p)
       \/ \E s \in Idle : edit(s)
       \/ \E s \in Idle : undo(s)
       \/ \E s \in Idle : redo(s)
       \/ \E s \in Idle : write_work_recovery_checkpoint(s)
       \/ \E s \in Idle : retry_pending_work_recovery_cleanup(s)
       \/ \E s \in Idle, p \in scenario.paths, overwrite \in BOOLEAN :
              save(s, p, overwrite)
       \/ \E s \in Live \ Idle : save_settle(s)
       \/ \E s \in Live : stop(s)
       \/ \E p \in scenario.paths, found \in 1..made \cup {Absent, Damaged} :
              ChangedOutside(p, found)
    /\ UNCHANGED scenario

Spec == Init /\ [][Next]_vars

-----------------------------------------------------------------------------
(* Properties *)

\* Files, checkpoints and sessions hold what the code's types admit, and the
\* place of a document is inside its trail.
TypeOK ==
    /\ file \in [Paths -> Revisions \cup {Absent, Damaged}]
    /\ backup \in [Paths -> Revisions \cup {Absent}]
    /\ checkpoint \in [Paths -> Checkpoint \cup {None}]
    /\ aside \in [Paths -> SUBSET Revisions]
    /\ lock \in [Paths -> Sessions \cup {None}]
    /\ session \in [Sessions -> Session \cup {None}]
    /\ \A s \in Live : session[s].doc.at <= Len(session[s].doc.trail)
    /\ saving \in [Sessions -> Paths \cup {None}]
    /\ made \in Revisions
    /\ unsaved \in [Paths -> SUBSET Revisions]
    /\ latest \in [Paths -> Revisions \cup {None}]

\* Whoever opens a file finds the last revision that was acknowledged for it,
\* whatever session stopped between whichever two steps of an edit or a save,
\* unless something outside changed the file or the work was saved elsewhere.
OpensLatest ==
    \A p \in Paths : latest[p] # None => Loads(p) = latest[p]

\* Acknowledged work that no save took over is on disk beside its file, also
\* when something outside changed the file.
WorkStaysOnDisk ==
    \A p \in Paths : \A r \in unsaved[p] :
        \/ checkpoint[p] # None /\ Current(checkpoint[p].work) = r
        \/ r \in aside[p]

\* Acknowledged work is found again and never leaves the disk.
NoWorkLost == OpensLatest /\ WorkStaysOnDisk

Modified(x) == x.requested # None \/ x.saved # history_digest(x.doc)

\* Two sessions never both hold unsaved work on one file.
OneWriter ==
    \A s, t \in Live :
        LET x == session[s]
            y == session[t]
        IN  /\ checkpoint_target(x) # None /\ checkpoint_target(y) # None
            /\ Modified(x) /\ Modified(y)
            /\ checkpoint_target(x).path = checkpoint_target(y).path
            => s = t

\* The checkpoint at a session's path is the one it wrote or opened: nobody
\* else's takes its place, and it holds the lock as long as it relies on it.
CheckpointIsOwn ==
    \A s \in Live :
        LET x == session[s]
        IN  x.checkpointId # None
            => /\ lock[Owned(x)] = s
               /\ checkpoint[Owned(x)] \in {x.checkpointId, None}

\* A file's unsaved work and its checkpoint have one owner, also when sessions
\* open, save over and save beside each other's files.
OneOwner == OneWriter /\ CheckpointIsOwn

\* A session that saves to the file it works on replaces what it last read or
\* wrote there, never what another session or program put there since.
NoLostUpdate ==
    [][\A s \in Live, p \in Paths :
          /\ saving[s] = None /\ saving'[s] = p
          /\ session[s].path = p
          => file[p] \in {session[s].fileId, Absent}]_vars

\* What work_recovery.rs says of WorkRecoveryLock, "exclusive ownership of a
\* live session's recovery branch": the checkpoint a live session relies on is
\* there, unless its own removal of it stopped halfway.
ExclusiveBranch ==
    \A s \in Live :
        LET x == session[s]
        IN  x.checkpointId # None
            => \/ checkpoint[Owned(x)] = x.checkpointId
               \/ Current(x.checkpointId.work) \in aside[Owned(x)]

=============================================================================
