-------------------------- MODULE WindowSaveProofs --------------------------
(***************************************************************************)
(* What WindowSave promises for any number of histories, settings and      *)
(* paths and any set of faults.                                            *)
(*                                                                         *)
(* The argument: the checkpoint the window answers for is on disk and      *)
(* holds the history it shows; without one, and where locks can be taken,  *)
(* the window shows the history of its file.  A thread that writes the     *)
(* window's own file has its lock, so no edit is made before its answer is *)
(* polled: what it publishes is the history the window shows.  A close     *)
(* nothing cancels is decided in the frame's guard step, on a clean window *)
(* or on a consent for the very history it shows, with no write running.   *)
(***************************************************************************)
EXTENDS WindowSave, TLAPS

------------------------------------------------------------------------------
(* The inductive invariant *)

\* The parts of what the window knows of its file agree.
Shape(f) ==
    /\ f.path # None => /\ f.requested = None /\ f.identity # None
                        /\ f.saved = f.identity.history
    /\ f.requested # None => /\ f.base # None /\ f.ckptId # None
                             /\ f.requested \notin NoLocks
    /\ Own(f) = None => f.saved = 0 /\ f.ckptId = None
    /\ f.off => f.path # None /\ f.path \in NoLocks
    /\ f.lock # None => f.lock = Own(f) /\ f.lock \notin NoLocks

\* The checkpoint it answers for is there and holds the history h; where it has none it shows
\* the history of its file; one whose removal is pending is still there and not answered for.
Held(f, h, c) ==
    /\ f.ckptId # None => /\ Own(f) \in Paths \ NoLocks /\ c[Own(f)] = f.ckptId
                          /\ f.ckptId.work.history = h /\ f.ckptDigest \in {None, h}
    /\ f.path # None /\ f.path \notin NoLocks /\ f.ckptId = None => h = f.saved
    /\ f.cleanup # None => /\ c[f.cleanup.path] = f.cleanup.id
                           /\ f.cleanup.path = Own(f) => f.ckptId = None

Published == native_save_is_writing /\ save.result \in {"ok", "published"}

\* The thread that writes the window's own file has its lock, so the history stays.
OwnWrite ==
    native_save_is_writing /\ save.path = Own(file) =>
        /\ save.lock # None => save.lock = save.path /\ save.path \notin NoLocks
        /\ save.path \notin NoLocks /\ save.result # "panic" =>
              /\ file.lock = None /\ save.lock = save.path
              /\ save.source.work.history = work.history

Writes ==
    /\ save # None /\ save.stage = "Preparing" => save.lock = None
    /\ native_save_is_writing =>
          /\ save.source.path = file.path
          /\ save.path \notin NoLocks /\ save.result # "panic" => save.lock = save.path
    /\ Published => disk[save.path] \in {save.source.work, Foreign}

\* The file is the one the window knows, but for a write not yet polled.
OnDisk ==
    file.path # None =>
        \/ disk[file.path] \in {file.identity, Foreign}
        \/ Published /\ save.path = file.path

\* Whoever answers for a checkpoint has its lock, and something unsaved.
Branch ==
    scenario \cap {"panic", "nolocks", "drawings"} = {} =>
        /\ file.ckptId # None =>
              /\ is_dirty
              /\ \/ file.lock = Own(file)
                 \/ native_save_is_writing /\ save.lock = Own(file)
        /\ native_save_is_writing => save.lock = save.path

\* Settings that differ from the file's, or from those being written, are unsaved.
Kept ==
    /\ drawings # None => "drawings" \in scenario
    /\ "drawings" \notin scenario /\ ~unsaved =>
          /\ file.path # None => file.identity.settings = work.settings
          /\ native_save_is_writing => save.source.work.settings = work.settings

\* A close is let through on a clean window or a consent for the history it shows.
Consent ==
    /\ guard.approved # None => agreed # None /\ agreed.history = guard.approved
    /\ guard.pending => guard.approved = None
    /\ ui = "guard" /\ native_save_is_writing /\ close.event => close.cancelled
    /\ ui = "closed" \/ (ui = "refresh" /\ close.event /\ ~close.cancelled) =>
          /\ ~native_save_is_writing
          /\ ~is_dirty \/ (agreed # None /\ agreed.history = work.history)

Inv == /\ TypeOK /\ Shape(file) /\ Held(file, work.history, checkpoint)
       /\ OwnWrite /\ Writes /\ OnDisk /\ Branch /\ Kept /\ Consent

------------------------------------------------------------------------------
(* The parts of the state *)

\* The parts of the type invariant.
LEMMA TypeFacts ==
    ASSUME TypeOK
    PROVE  /\ work \in Work /\ work.history \in Histories /\ work.settings \in Settings
           /\ unsaved \in BOOLEAN /\ file \in File
           /\ disk \in [Paths -> Work \cup {Absent, Foreign}]
           /\ checkpoint \in [Paths -> Checkpoint \cup {None}]
           /\ save \in SaveTask \cup {None} /\ guard \in CloseGuard
           /\ close \in [event : BOOLEAN, sent : BOOLEAN, cancelled : BOOLEAN]
           /\ agreed \in Work \cup {None} /\ scenario \in Scenarios
           /\ NoLocks \subseteq Paths /\ Targets \subseteq Paths
BY ConstantAssumption DEF TypeOK, Work, NoLocks, Targets

\* Work is its history and its settings.
LEMMA WorkFacts ==
    ASSUME NEW w \in Work
    PROVE  /\ w # None /\ w # Absent /\ w # Foreign
           /\ w.history \in Histories /\ w.settings \in Settings
           /\ \A v \in Work : v.history = w.history /\ v.settings = w.settings => v = w
BY ConstantAssumption DEF Work

\* The fields of the window's record of its file.
LEMMA FileFacts ==
    ASSUME NEW f \in File
    PROVE  /\ f.path \in Paths \cup {None} /\ f.requested \in Paths \cup {None}
           /\ f.base \in Work \cup {None} /\ f.identity \in Work \cup {None}
           /\ f.saved \in Histories /\ f.lock \in Paths \cup {None} /\ f.off \in BOOLEAN
           /\ f.ckptId \in Checkpoint \cup {None}
           /\ f.cleanup \in [path : Paths, id : Checkpoint] \cup {None}
           /\ Own(f) \in Paths \cup {None} /\ None \notin Paths
BY ConstantAssumption DEF File, Own

\* A view of the file with another value of a field is one.
LEMMA FileParts ==
    ASSUME NEW f \in File
    PROVE  /\ \A x \in Paths \cup {None} : [f EXCEPT !.path = x] \in File
           /\ \A x \in Paths \cup {None} : [f EXCEPT !.requested = x] \in File
           /\ \A x \in Work \cup {None} : [f EXCEPT !.base = x] \in File
           /\ \A x \in Work \cup {None} : [f EXCEPT !.identity = x] \in File
           /\ \A x \in Histories : [f EXCEPT !.saved = x] \in File
           /\ \A x \in Paths \cup {None} : [f EXCEPT !.lock = x] \in File
           /\ \A x \in BOOLEAN : [f EXCEPT !.off = x] \in File
           /\ \A x \in Checkpoint \cup {None} : [f EXCEPT !.ckptId = x] \in File
           /\ \A x \in Histories \cup {None} : [f EXCEPT !.ckptDigest = x] \in File
<1>1. \A x \in Paths \cup {None} : [f EXCEPT !.path = x] \in File
  BY DEF File
<1>2. \A x \in Paths \cup {None} : [f EXCEPT !.requested = x] \in File
  BY DEF File
<1>3. \A x \in Work \cup {None} : [f EXCEPT !.base = x] \in File
  BY DEF File
<1>4. \A x \in Work \cup {None} : [f EXCEPT !.identity = x] \in File
  BY DEF File
<1>5. \A x \in Histories : [f EXCEPT !.saved = x] \in File
  BY DEF File
<1>6. \A x \in Paths \cup {None} : [f EXCEPT !.lock = x] \in File
  BY DEF File
<1>7. \A x \in BOOLEAN : [f EXCEPT !.off = x] \in File
  BY DEF File
<1>8. \A x \in Checkpoint \cup {None} : [f EXCEPT !.ckptId = x] \in File
  BY DEF File
<1>9. \A x \in Histories \cup {None} : [f EXCEPT !.ckptDigest = x] \in File
  BY DEF File
<1> QED
  BY <1>1, <1>2, <1>3, <1>4, <1>5, <1>6, <1>7, <1>8, <1>9, Zenon

\* A checkpoint is what it was made from and the work it holds.
LEMMA CheckpointFacts ==
    ASSUME NEW b \in Work, NEW w \in Work, NEW id, id = [base |-> b, work |-> w]
    PROVE  id \in Checkpoint /\ id # None /\ id.work = w
BY ConstantAssumption DEF Checkpoint

\* The fields of a save under way.
LEMMA SaveFacts ==
    ASSUME NEW s \in SaveTask
    PROVE  /\ s # None /\ s.path \in Paths /\ s.source \in Source /\ s.source.work \in Work
           /\ s.lock \in Paths \cup {None}
           /\ s.stage \in {"Preparing", "Writing"}
BY ConstantAssumption DEF SaveTask, Source

\* Where a checkpoint would go.
LEMMA TargetFacts ==
    ASSUME NEW f \in File, Shape(f), NEW t, t = checkpoint_target(f)
    PROVE  /\ t # None => /\ ~f.off /\ Own(f) # None /\ t.path = Own(f) /\ t.path \in Paths
                          /\ t.base \in Work
           /\ t = None => f.off \/ Own(f) = None
<1>1. /\ f.path \in Paths \cup {None} /\ f.requested \in Paths \cup {None}
      /\ f.base \in Work \cup {None} /\ f.identity \in Work \cup {None}
      /\ f.off \in BOOLEAN /\ None \notin Paths
  BY FileFacts
<1>2. \A p \in Paths, b \in Work : [path |-> p, base |-> b] # None
  BY ConstantAssumption
<1>3. f.path # None => f.identity # None
  BY DEF Shape
<1>4. f.requested # None => f.base # None
  BY DEF Shape
<1>5. CASE f.off
  BY <1>5 DEF checkpoint_target
<1>6. CASE ~f.off /\ f.path # None
  <2>1. t = [path |-> f.path, base |-> f.identity]
    BY <1>3, <1>6 DEF checkpoint_target
  <2> QED
    BY <1>1, <1>2, <1>3, <1>6, <2>1 DEF Own
<1>7. CASE ~f.off /\ f.path = None /\ f.requested # None
  <2>1. t = [path |-> f.requested, base |-> f.base]
    BY <1>4, <1>7 DEF checkpoint_target
  <2> QED
    BY <1>1, <1>2, <1>4, <1>7, <2>1 DEF Own
<1>8. CASE ~f.off /\ f.path = None /\ f.requested = None
  BY <1>8 DEF checkpoint_target, Own
<1> QED
  BY <1>5, <1>6, <1>7, <1>8

\* Two views of the file that differ in locks, checkpoints and removals only.
Alike(f, g) ==
    /\ f.path = g.path /\ f.requested = g.requested /\ f.base = g.base
    /\ f.identity = g.identity /\ f.saved = g.saved

\* Records that agree on their paths own the same checkpoint path.
LEMMA AlikeFacts ==
    ASSUME NEW f, NEW g, Alike(f, g)
    PROVE  Own(f) = Own(g)
BY DEF Alike, Own

\* acquire_work_recovery_lock: what can be checkpointed is locked.
LEMMA LockedFacts ==
    ASSUME TypeOK, NEW g \in File, Shape(g), NEW f, f = Locked(g)
    PROVE  /\ f \in File /\ Shape(f) /\ Alike(f, g)
           /\ f.ckptId = g.ckptId /\ f.ckptDigest = g.ckptDigest /\ f.cleanup = g.cleanup
           /\ checkpoint_target(f) # None => /\ f.lock = Own(f) /\ f.lock \in Paths \ NoLocks
                                             /\ ~f.off /\ ~g.off
           /\ f.lock \in {g.lock, Own(g)}
           /\ g.lock # None => f.lock = g.lock
<1>1. PICK t : t = checkpoint_target(g)
  OBVIOUS
<1>2. /\ t # None => /\ ~g.off /\ Own(g) # None /\ t.path = Own(g) /\ t.path \in Paths
      /\ t = None => g.off \/ Own(g) = None
  BY <1>1, TargetFacts
<1>3. Alike(g, g)
  BY DEF Alike
<1>4. CASE t = None
  <2>1. f = g
    BY <1>1, <1>4 DEF Locked
  <2> QED
    BY <1>1, <1>3, <1>4, <2>1
<1>5. CASE t # None /\ g.lock # None
  <2>1. f = g
    BY <1>5 DEF Locked
  <2>2. g.lock = Own(g) /\ g.lock \notin NoLocks
    BY <1>5 DEF Shape
  <2> QED
    BY <1>2, <1>3, <1>5, <2>1, <2>2
<1>6. CASE t # None /\ g.lock = None /\ t.path \in NoLocks
  <2>1. f = [g EXCEPT !.off = TRUE]
    BY <1>1, <1>6 DEF Locked
  <2>0. f \in File
    BY <2>1, FileParts
  <2>2. /\ f \in File /\ f.off /\ Alike(f, g) /\ f.lock = g.lock
        /\ f.ckptId = g.ckptId /\ f.ckptDigest = g.ckptDigest /\ f.cleanup = g.cleanup
    BY <2>0, <2>1 DEF File, Alike
  <2>3. g.path # None /\ g.path \in NoLocks
    BY <1>2, <1>6 DEF Shape, Own
  <2>4. Own(f) = Own(g)
    BY <2>2, AlikeFacts
  <2>5. Shape(f)
    BY <1>6, <2>2, <2>3, <2>4 DEF Shape, Alike
  <2>6. checkpoint_target(f) = None
    BY <2>2 DEF checkpoint_target
  <2> QED
    BY <1>6, <2>2, <2>5, <2>6
<1>7. CASE t # None /\ g.lock = None /\ t.path \notin NoLocks
  <2>1. f = [g EXCEPT !.lock = t.path]
    BY <1>1, <1>7 DEF Locked
  <2>0. f \in File
    <3>1. t.path \in Paths \cup {None}
      BY <1>2, <1>7
    <3> QED
      BY <2>1, <3>1, FileParts
  <2>2. /\ f \in File /\ f.lock = t.path /\ Alike(f, g) /\ f.off = g.off
        /\ f.ckptId = g.ckptId /\ f.ckptDigest = g.ckptDigest /\ f.cleanup = g.cleanup
    BY <2>0, <2>1 DEF File, Alike
  <2>4. Own(f) = Own(g)
    BY <2>2, AlikeFacts
  <2>5. Shape(f)
    BY <1>2, <1>7, <2>2, <2>4 DEF Shape, Alike
  <2> QED
    BY <1>2, <1>7, <2>2, <2>4, <2>5
<1> QED
  BY <1>4, <1>5, <1>6, <1>7

------------------------------------------------------------------------------
(* Checkpoints *)

\* Clearing one checkpoint leaves the others.
LEMMA ClearedFacts ==
    ASSUME NEW c \in [Paths -> Checkpoint \cup {None}], NEW p \in Paths, NEW id, NEW d,
           d = Cleared(c, p, id)
    PROVE  /\ d \in [Paths -> Checkpoint \cup {None}]
           /\ \A q \in Paths : q # p => d[q] = c[q]
           /\ id = None => d = c
BY DEF Cleared

WithoutCleanup(f) == [f EXCEPT !.cleanup = None]

\* A record whose cleanup is done is otherwise as it was.
LEMMA WithoutCleanupFacts ==
    ASSUME NEW f \in File, NEW g, g = WithoutCleanup(f)
    PROVE  /\ g \in File /\ Alike(g, f) /\ g.lock = f.lock /\ g.off = f.off
           /\ g.ckptId = f.ckptId /\ g.ckptDigest = f.ckptDigest /\ g.cleanup = None
           /\ Shape(f) => Shape(g)
           /\ Own(g) = Own(f)
<1>1. /\ g \in File /\ Alike(g, f) /\ g.lock = f.lock /\ g.off = f.off
      /\ g.ckptId = f.ckptId /\ g.ckptDigest = f.ckptDigest /\ g.cleanup = None
  BY DEF WithoutCleanup, File, Alike
<1>2. Own(g) = Own(f)
  BY <1>1, AlikeFacts
<1>3. Shape(f) => Shape(g)
  BY <1>1, <1>2 DEF Shape, Alike
<1> QED
  BY <1>1, <1>2, <1>3

\* A pending removal that succeeds takes away nothing the window answers for.
LEMMA RetriedFacts ==
    ASSUME TypeOK, Held(file, work.history, checkpoint), NEW c, c = Retried(checkpoint),
           NEW g, g = WithoutCleanup(file)
    PROVE  /\ c \in [Paths -> Checkpoint \cup {None}] /\ Held(g, work.history, c)
           /\ file.cleanup = None => c = checkpoint
<1>1. /\ file \in File /\ checkpoint \in [Paths -> Checkpoint \cup {None}]
      /\ file.cleanup \in [path : Paths, id : Checkpoint] \cup {None}
  BY TypeFacts, FileFacts
<1>2. CASE file.cleanup = None
  <2>1. c = checkpoint
    BY <1>2 DEF Retried
  <2>2. g = file
    BY <1>1, <1>2 DEF WithoutCleanup, File
  <2> QED
    BY <1>1, <2>1, <2>2
<1>3. CASE file.cleanup # None
  <2>1. PICK p, id : p = file.cleanup.path /\ id = file.cleanup.id
    OBVIOUS
  <2>2. p \in Paths /\ c = Cleared(checkpoint, p, id)
    BY <1>1, <1>3, <2>1 DEF Retried
  <2>3. /\ c \in [Paths -> Checkpoint \cup {None}]
        /\ \A q \in Paths : q # p => c[q] = checkpoint[q]
    BY <1>1, <2>2, ClearedFacts
  <2>4. Own(file) = p => file.ckptId = None
    BY <1>3, <2>1 DEF Held
  <2>5. /\ Alike(g, file) /\ g.ckptId = file.ckptId /\ g.ckptDigest = file.ckptDigest
        /\ g.cleanup = None /\ Own(g) = Own(file)
    BY <1>1, WithoutCleanupFacts
  <2>6. Held(g, work.history, c)
    BY <2>3, <2>4, <2>5 DEF Held, Alike
  <2> QED
    BY <1>3, <2>3, <2>6
<1> QED
  BY <1>2, <1>3

Checkpointed(f, id, digest) == [f EXCEPT !.ckptId = id, !.ckptDigest = digest]
Made(t, w) == [base |-> t.base, work |-> w]
Put(c, p, id) == [c EXCEPT ![p] = id]

\* publish_work_recovery over the checkpoint the window wrote.
LEMMA WriteHeld ==
    ASSUME TypeOK, NEW f \in File, Shape(f), NEW t, t = checkpoint_target(f), t # None,
           Own(f) \notin NoLocks,
           NEW c \in [Paths -> Checkpoint \cup {None}], NEW h, Held(f, h, c),
           c[t.path] = f.ckptId,
           NEW w \in Work, NEW id, id = Made(t, w),
           NEW g, g = Checkpointed(f, id, w.history),
           NEW d, d = Put(c, t.path, id)
    PROVE  /\ g \in File /\ Shape(g) /\ Held(g, w.history, d) /\ Alike(g, f)
           /\ g.lock = f.lock /\ g.off = f.off /\ g.cleanup = f.cleanup
           /\ g.ckptId = id /\ id # None
           /\ d \in [Paths -> Checkpoint \cup {None}]
<1>1. /\ Own(f) # None /\ t.path = Own(f) /\ t.path \in Paths /\ t.base \in Work /\ ~f.off
  BY TargetFacts
<1>2. id \in Checkpoint /\ id # None /\ id.work = w
  BY <1>1, CheckpointFacts DEF Made
<1>3. /\ g \in File /\ Alike(g, f) /\ g.lock = f.lock /\ g.off = f.off
      /\ g.cleanup = f.cleanup /\ g.ckptId = id /\ g.ckptDigest = w.history
  <2>1. w.history \in Histories \cup {None} /\ id \in Checkpoint \cup {None}
    BY <1>2, WorkFacts
  <2>2. PICK a \in File : a = [f EXCEPT !.ckptId = id]
    BY <2>1, FileParts
  <2>3. PICK b \in File : b = [a EXCEPT !.ckptDigest = w.history]
    BY <2>1, <2>2, FileParts
  <2>4. Checkpointed(f, id, w.history) = b
    BY <2>2, <2>3 DEF Checkpointed
  <2>5. g = b
    BY <2>4
  <2>6. a.ckptId = id /\ Alike(a, f) /\ a.lock = f.lock /\ a.off = f.off /\ a.cleanup = f.cleanup
    BY <2>2 DEF File, Alike
  <2>7. /\ b.ckptId = a.ckptId /\ b.ckptDigest = w.history /\ Alike(b, a) /\ b.lock = a.lock
        /\ b.off = a.off /\ b.cleanup = a.cleanup
    BY <2>3 DEF File, Alike
  <2>8. Alike(b, f)
    BY <2>6, <2>7 DEF Alike
  <2> QED
    BY <2>5, <2>6, <2>7, <2>8
<1>4. Own(g) = Own(f)
  BY <1>3, AlikeFacts
<1>5. /\ d \in [Paths -> Checkpoint \cup {None}] /\ d[Own(g)] = id
      /\ \A q \in Paths : q # Own(f) => d[q] = c[q]
  BY <1>1, <1>2, <1>4 DEF Put
<1>6. Shape(g)
  BY <1>1, <1>2, <1>3, <1>4 DEF Shape, Alike
<1>7. f.cleanup # None => /\ f.cleanup.path \in Paths /\ f.cleanup.id \in Checkpoint
                          /\ f.cleanup.id # None
  BY ConstantAssumption, FileFacts
<1>8. f.cleanup # None => f.cleanup.path # Own(f)
  BY <1>1, <1>7 DEF Held
<1>9. Held(g, w.history, d)
  <2>1. /\ Own(g) \in Paths \ NoLocks /\ d[Own(g)] = g.ckptId
        /\ g.ckptId.work.history = w.history /\ g.ckptDigest = w.history
    BY <1>1, <1>2, <1>3, <1>4, <1>5
  <2>2. ASSUME f.cleanup # None
        PROVE  d[f.cleanup.path] = f.cleanup.id /\ f.cleanup.path # Own(g)
    <3>1. f.cleanup.path \in Paths /\ f.cleanup.path # Own(f)
      BY <1>7, <1>8, <2>2
    <3>2. c[f.cleanup.path] = f.cleanup.id
      BY <2>2 DEF Held
    <3> QED
      BY <1>4, <1>5, <3>1, <3>2
  <2> QED
    BY <1>2, <1>3, <2>1, <2>2 DEF Held
<1> QED
  BY <1>2, <1>3, <1>5, <1>6, <1>9

------------------------------------------------------------------------------
(* The end of a save *)

\* The record after a save settled: the new path, its content, no checkpoint and no lock.
LEMMA SettledFacts ==
    ASSUME TypeOK, NEW f \in File, NEW p \in Paths, NEW g, g = Settled(f, p)
    PROVE  /\ g \in File /\ g.path = p /\ g.requested = None /\ g.identity = work
           /\ g.saved = work.history /\ g.lock = None /\ g.ckptId = None
           /\ g.cleanup = f.cleanup
<1>1. work \in Work /\ work.history \in Histories
  BY TypeFacts
<1>2. /\ g.path = p /\ g.requested = None /\ g.identity = work
      /\ g.saved = work.history /\ g.lock = None /\ g.ckptId = None
      /\ g.cleanup = f.cleanup
  BY DEF Settled, File
<1>3. PICK a1 \in File : a1 = [f EXCEPT !.path = p]
  BY FileParts
<1>4. PICK a2 \in File : a2 = [a1 EXCEPT !.requested = None]
  BY FileParts
<1>5. PICK a3 \in File : a3 = [a2 EXCEPT !.base = None]
  BY FileParts
<1>6. PICK a4 \in File : a4 = [a3 EXCEPT !.identity = work]
  BY <1>1, FileParts
<1>7. PICK a5 \in File : a5 = [a4 EXCEPT !.lock = None]
  BY FileParts
<1>8. PICK a6 \in File : a6 = [a5 EXCEPT !.ckptId = None]
  BY FileParts
<1>9. PICK a7 \in File : a7 = [a6 EXCEPT !.ckptDigest = None]
  BY FileParts
<1>10. PICK a8 \in File : a8 = [a7 EXCEPT !.saved = work.history]
  BY <1>1, FileParts
<1>11. Settled(f, p) = a8
  BY <1>3, <1>4, <1>5, <1>6, <1>7, <1>8, <1>9, <1>10 DEF Settled
<1> QED
  BY <1>2, <1>11

\* finish_document_save: the window is on the file it saved, its checkpoint removed or its
\* removal pending.
LEMMA FinishFacts ==
    ASSUME TypeOK, NEW f \in File, NEW p \in Paths, NEW off \in BOOLEAN,
           NEW c \in [Paths -> Checkpoint \cup {None}], Held(f, work.history, c),
           off => p \in NoLocks, finish_document_save(p, f, c, off), UNCHANGED <<work, scenario>>
    PROVE  /\ file' \in File /\ checkpoint' \in [Paths -> Checkpoint \cup {None}]
           /\ unsaved' = FALSE
           /\ file'.path = p /\ file'.requested = None /\ file'.identity = work
           /\ file'.saved = work.history /\ file'.lock = None /\ file'.ckptId = None
           /\ Own(file') = p
           /\ Shape(file)' /\ Held(file, work.history, checkpoint)'
<1>1. PICK g : g = Settled(f, p)
  OBVIOUS
<1>2. /\ g \in File /\ g.path = p /\ g.requested = None /\ g.identity = work
      /\ g.saved = work.history /\ g.lock = None /\ g.ckptId = None
      /\ g.cleanup = f.cleanup
  BY <1>1, SettledFacts
<1>3. /\ Own(f) \in Paths \cup {None} /\ f.ckptId \in Checkpoint \cup {None} /\ p # None
      /\ f.cleanup # None => f.cleanup.path \in Paths
  BY FileFacts
<1>4. \/ /\ checkpoint' = IF Own(f) = None THEN c ELSE Cleared(c, Own(f), f.ckptId)
         /\ file' = [g EXCEPT !.off = off]
      \/ /\ Own(f) # None /\ f.ckptId # None /\ checkpoint' = c
         /\ file' = [g EXCEPT !.off = off, !.cleanup = [path |-> Own(f), id |-> f.ckptId]]
  BY <1>1 DEF finish_document_save
<1>5. /\ file' \in File /\ file'.path = p /\ file'.requested = None /\ file'.identity = work
      /\ file'.saved = work.history /\ file'.lock = None /\ file'.ckptId = None
      /\ file'.off = off
  <2>1. PICK k : k = [g EXCEPT !.off = off]
    OBVIOUS
  <2>2. /\ k \in File /\ k.path = p /\ k.requested = None /\ k.identity = work
        /\ k.saved = work.history /\ k.lock = None /\ k.ckptId = None /\ k.off = off
    BY <1>2, <2>1 DEF File
  <2>3. CASE file' = k
    BY <2>2, <2>3
  <2>4. CASE /\ Own(f) # None /\ f.ckptId # None
             /\ file' = [k EXCEPT !.cleanup = [path |-> Own(f), id |-> f.ckptId]]
    <3>1. [path |-> Own(f), id |-> f.ckptId] \in [path : Paths, id : Checkpoint]
      BY <1>3, <2>4
    <3> QED
      BY <2>2, <2>4, <3>1 DEF File
  <2> QED
    BY <1>4, <2>1, <2>3, <2>4
<1>6. Own(file') = p
  BY <1>3, <1>5 DEF Own
<1>7. work \in Work /\ work # None
  BY TypeFacts, WorkFacts
<1>8. NoLocks' = NoLocks
  BY DEF NoLocks
<1>9. Shape(file)'
  <2>1. file'.off => p \in NoLocks
    BY <1>5
  <2> QED
    BY <1>3, <1>5, <1>6, <1>7, <1>8, <2>1 DEF Shape
<1>10. /\ checkpoint' \in [Paths -> Checkpoint \cup {None}]
       /\ file'.cleanup # None => checkpoint'[file'.cleanup.path] = file'.cleanup.id
  <2>1. CASE /\ checkpoint' = IF Own(f) = None THEN c ELSE Cleared(c, Own(f), f.ckptId)
             /\ file' = [g EXCEPT !.off = off]
    <3>1. file'.cleanup = f.cleanup
      BY <1>2, <2>1 DEF File
    <3>2. /\ checkpoint' \in [Paths -> Checkpoint \cup {None}]
          /\ \A q \in Paths : q # Own(f) => checkpoint'[q] = c[q]
          /\ f.ckptId = None => checkpoint' = c
      BY <1>3, <2>1, ClearedFacts
    <3> QED
      BY <1>3, <3>1, <3>2 DEF Held
  <2>2. CASE /\ Own(f) # None /\ f.ckptId # None /\ checkpoint' = c
             /\ file' = [g EXCEPT !.off = off, !.cleanup = [path |-> Own(f), id |-> f.ckptId]]
    <3>1. file'.cleanup = [path |-> Own(f), id |-> f.ckptId]
      BY <1>2, <2>2 DEF File
    <3> QED
      BY <2>2, <3>1 DEF Held
  <2> QED
    BY <1>4, <2>1, <2>2
<1>11. Held(file, work.history, checkpoint)'
  BY <1>5, <1>6, <1>10 DEF Held
<1> QED
  BY <1>5, <1>6, <1>9, <1>10, <1>11 DEF finish_document_save

------------------------------------------------------------------------------
(* Between frames *)

\* Consent still holds of an idle window whose guard is left alone.
LEMMA IdleConsent ==
    ASSUME Consent, ui = "idle", UNCHANGED <<ui, guard, agreed>>
    PROVE  Consent'
BY DEF Consent

\* Whether the scenario has locks does not change.
LEMMA NoLocksSame == ASSUME UNCHANGED scenario PROVE NoLocks' = NoLocks
BY DEF NoLocks

Unlocked(f) == [f EXCEPT !.lock = IF f.ckptId = None THEN None ELSE @]

\* Giving up an unused lock changes nothing else of the record.
LEMMA UnlockedFacts ==
    ASSUME NEW f \in File, Shape(f), NEW g, g = Unlocked(f)
    PROVE  /\ g \in File /\ Alike(g, f) /\ Shape(g) /\ Own(g) = Own(f) /\ g.off = f.off
           /\ g.ckptId = f.ckptId /\ g.ckptDigest = f.ckptDigest /\ g.cleanup = f.cleanup
           /\ f.ckptId # None => g = f
           /\ \A h, c : Held(f, h, c) => Held(g, h, c)
<1>1. /\ g \in File /\ Alike(g, f) /\ g.off = f.off /\ g.lock \in {f.lock, None}
      /\ g.ckptId = f.ckptId /\ g.ckptDigest = f.ckptDigest /\ g.cleanup = f.cleanup
      /\ f.ckptId # None => g = f
  BY DEF Unlocked, File, Alike
<1>2. Own(g) = Own(f)
  BY <1>1, AlikeFacts
<1>3. Shape(g)
  BY <1>1, <1>2 DEF Shape, Alike
<1>4. \A h, c : Held(f, h, c) => Held(g, h, c)
  BY <1>1, <1>2 DEF Held, Alike
<1> QED
  BY <1>1, <1>2, <1>3, <1>4

GivenUp(f, digest) == [f EXCEPT !.ckptId = None, !.ckptDigest = digest, !.lock = None]
Redigested(f, digest) ==
    [f EXCEPT !.ckptDigest = digest, !.lock = IF f.ckptId = None THEN None ELSE @]

\* No edit is made while a thread writes the window's own file.
LEMMA EditBlocked ==
    ASSUME TypeOK, Shape(file), OwnWrite, Lockable(file), native_save_is_writing,
           save.path = Own(file), save.path \notin NoLocks
    PROVE  save.result = "panic"
<1>1. file \in File /\ save \in SaveTask
  BY TypeFacts DEF native_save_is_writing
<1>2. SUFFICES ASSUME save.result # "panic" PROVE FALSE
  OBVIOUS
<1>3. file.lock = None /\ save.lock = save.path
  BY <1>2 DEF OwnWrite
<1>4. PICK t : t = checkpoint_target(file)
  OBVIOUS
<1>5. save.path \in Paths /\ save.path # None /\ save # None
  BY <1>1, SaveFacts, FileFacts
<1>6. ~file.off
  BY <1>5 DEF Shape, Own
<1>7. t # None /\ t.path = Own(file)
  BY <1>1, <1>4, <1>5, <1>6, TargetFacts
<1> QED
  BY <1>3, <1>4, <1>5, <1>7 DEF Lockable

\* What a step between frames that changes the history, the checkpoint and what the window
\* knows of it, and nothing else, has to show.
LEMMA HistoryStep ==
    ASSUME Inv, UNCHANGED scenario,
           UNCHANGED <<unsaved, disk, save, guard, drawings, close, ui, agreed>>,
           ui = "idle", file' \in File, work' \in Work, work'.settings = work.settings,
           checkpoint' \in [Paths -> Checkpoint \cup {None}],
           Alike(file', file), Shape(file)', Held(file, work.history, checkpoint)', Lockable(file),
           scenario \cap {"panic", "nolocks", "drawings"} = {} /\ file'.ckptId # None =>
               \/ is_dirty' /\ file'.lock = Own(file)
               \/ work' = work /\ file.ckptId # None /\ file'.lock \in {file.lock, Own(file)}
    PROVE  Inv'
<1> USE NoLocksSame
<1>1. /\ TypeOK /\ Shape(file) /\ OwnWrite /\ Writes /\ OnDisk /\ Branch /\ Kept /\ Consent
  BY DEF Inv
<1>2. TypeOK'
  BY <1>1 DEF TypeOK
<1>3. Own(file') = Own(file)
  BY AlikeFacts
<1>4. native_save_is_writing' = native_save_is_writing /\ Published' = Published
  BY DEF native_save_is_writing, Published
<1>5. OwnWrite'
  <2>1. native_save_is_writing /\ save.path = Own(file) /\ save.path \notin NoLocks =>
            save.result = "panic"
    BY <1>1, EditBlocked
  <2> QED
    BY <1>1, <1>3, <1>4, <2>1 DEF OwnWrite
<1>6. Writes' /\ OnDisk'
  BY <1>1, <1>4 DEF Writes, OnDisk, Alike
<1>7. Branch'
  <2>1. SUFFICES ASSUME scenario \cap {"panic", "nolocks", "drawings"} = {}, file'.ckptId # None
                 PROVE  /\ is_dirty'
                        /\ \/ file'.lock = Own(file')
                           \/ native_save_is_writing /\ save.lock = Own(file')
    BY <1>1, <1>4 DEF Branch
  <2>2. CASE is_dirty' /\ file'.lock = Own(file)
    BY <1>3, <2>2
  <2>3. CASE work' = work /\ file.ckptId # None /\ file'.lock \in {file.lock, Own(file)}
    <3>1. is_dirty' = is_dirty
      BY <2>3 DEF is_dirty, IsDirty, Alike
    <3>2. is_dirty /\ (file.lock = Own(file) \/ (native_save_is_writing /\ save.lock = Own(file)))
      BY <1>1, <2>1, <2>3 DEF Branch
    <3> QED
      BY <1>3, <2>3, <3>1, <3>2
  <2> QED
    BY <2>1, <2>2, <2>3
<1>8. Kept'
  BY <1>1, <1>4 DEF Kept, Alike
<1>9. Consent'
  BY <1>1, IdleConsent
<1> QED
  BY <1>2, <1>5, <1>6, <1>7, <1>8, <1>9 DEF Inv

\* An edit keeps the invariant.
LEMMA EditOK ==
    ASSUME Inv, UNCHANGED scenario, NEW h \in Histories, edit(h) PROVE Inv'
<1> USE NoLocksSame
<1>1. TypeOK /\ Shape(file) /\ Held(file, work.history, checkpoint)
  BY DEF Inv
<1>2. /\ work \in Work /\ file \in File /\ checkpoint \in [Paths -> Checkpoint \cup {None}]
      /\ NoLocks \subseteq Paths
  BY <1>1, TypeFacts
<1>3. PICK f, t, dirty, digest, after, id :
          /\ f = Locked(file) /\ t = checkpoint_target(f)
          /\ dirty = (f.requested # None \/ h # f.saved)
          /\ digest = (IF (dirty \/ unsaved) /\ t # None THEN h ELSE None)
          /\ after = [work EXCEPT !.history = h] /\ id = [base |-> t.base, work |-> after]
  OBVIOUS
<1>4. /\ UNCHANGED <<unsaved, disk, save, guard, drawings, close, ui, agreed>>
      /\ ui = "idle" /\ Lockable(file) /\ h # work.history
  BY DEF edit
<1>5. /\ f \in File /\ Shape(f) /\ Alike(f, file)
      /\ f.ckptId = file.ckptId /\ f.ckptDigest = file.ckptDigest /\ f.cleanup = file.cleanup
      /\ t # None => /\ f.lock = Own(f) /\ f.lock \in Paths \ NoLocks /\ ~f.off
      /\ f.lock \in {file.lock, Own(file)}
  BY <1>1, <1>2, <1>3, LockedFacts
<1>6. Own(f) = Own(file)
  BY <1>5, AlikeFacts
<1>7. Held(f, work.history, checkpoint)
  BY <1>1, <1>5, <1>6 DEF Held, Alike
<1>8. after \in Work /\ after.history = h /\ after.settings = work.settings
  BY <1>2, <1>3 DEF Work
<1>9. \/ /\ ~dirty /\ work' = after
         /\ checkpoint' = IF f.path # None /\ ~f.off
                          THEN Cleared(checkpoint, f.path, f.ckptId) ELSE checkpoint
         /\ file' = GivenUp(f, digest)
      \/ /\ dirty /\ (t = None \/ (t # None /\ f.ckptId # None /\ f.ckptDigest = h))
         /\ work' = after /\ file' = Redigested(f, digest)
         /\ UNCHANGED checkpoint
      \/ /\ dirty /\ t # None /\ Publishable(f, t) /\ work' = after
         /\ checkpoint' = [checkpoint EXCEPT ![t.path] = id]
         /\ file' = Checkpointed(f, id, digest)
      \/ file' = Unlocked(f) /\ UNCHANGED <<work, checkpoint>>
  BY <1>3 DEF edit, GivenUp, Redigested, Checkpointed, Unlocked
<1>10. CASE /\ ~dirty /\ work' = after
            /\ checkpoint' = IF f.path # None /\ ~f.off
                             THEN Cleared(checkpoint, f.path, f.ckptId) ELSE checkpoint
            /\ file' = GivenUp(f, digest)
  <2>1. f.requested = None /\ h = f.saved
    BY <1>3, <1>10
  <2>2. /\ file' \in File /\ Alike(file', f) /\ file'.ckptId = None /\ file'.lock = None
        /\ file'.cleanup = f.cleanup /\ file'.off = f.off
    <3>1. digest \in Histories \cup {None}
      BY <1>3
    <3> QED
      BY <1>5, <1>10, <3>1 DEF GivenUp, File, Alike
  <2>3. Own(file') = Own(f) /\ Own(f) = f.path
    BY <2>1, <2>2, AlikeFacts DEF Own
  <2>4. /\ f.path \in Paths \cup {None}
        /\ f.cleanup # None => f.cleanup.path \in Paths
    BY <1>5, FileFacts
  <2>5. /\ checkpoint' \in [Paths -> Checkpoint \cup {None}]
        /\ \A q \in Paths : q # Own(f) => checkpoint'[q] = checkpoint[q]
        /\ f.ckptId = None => checkpoint' = checkpoint
    BY <1>2, <1>10, <2>3, <2>4, ClearedFacts
  <2>6. Shape(file)'
    BY <1>5, <2>1, <2>2, <2>3 DEF Shape, Alike
  <2>7. Held(file, work.history, checkpoint)'
    BY <1>7, <1>8, <1>10, <2>1, <2>2, <2>3, <2>4, <2>5 DEF Held, Alike
  <2>8. Alike(file', file)
    BY <1>5, <2>2 DEF Alike
  <2> QED
    BY <1>4, <1>8, <1>10, <2>2, <2>5, <2>6, <2>7, <2>8, HistoryStep
<1>11. CASE /\ dirty /\ (t = None \/ (t # None /\ f.ckptId # None /\ f.ckptDigest = h))
            /\ work' = after /\ file' = Redigested(f, digest)
            /\ UNCHANGED checkpoint
  <2>1. t = None
    <3>1. f.ckptId # None => f.ckptDigest \in {None, work.history}
      BY <1>7 DEF Held
    <3>2. h # None
      BY ConstantAssumption
    <3> QED
      BY <1>4, <1>11, <3>1, <3>2
  <2>2. f.off \/ Own(f) = None
    BY <1>3, <1>5, <2>1, TargetFacts
  <2>3. f.ckptId = None
    <3>1. f.off => f.path \in NoLocks /\ Own(f) = f.path
      BY <1>5 DEF Shape, Own
    <3> QED
      BY <1>5, <1>7, <2>2, <3>1 DEF Held, Shape
  <2>4. /\ file' \in File /\ Alike(file', f) /\ file'.ckptId = None /\ file'.lock = None
        /\ file'.cleanup = f.cleanup /\ file'.off = f.off
    <3>1. digest \in Histories \cup {None}
      BY <1>3
    <3> QED
      <4>1. PICK k : k = [f EXCEPT !.ckptDigest = digest]
        OBVIOUS
      <4>2. /\ k \in File /\ Alike(k, f) /\ k.ckptId = None
            /\ k.cleanup = f.cleanup /\ k.off = f.off
        BY <1>5, <2>3, <3>1, <4>1 DEF File, Alike
      <4>3. file' = [k EXCEPT !.lock = None]
        BY <1>11, <2>3, <4>1 DEF Redigested
      <4> QED
        BY <4>2, <4>3 DEF File, Alike
  <2>5. Own(file') = Own(f)
    BY <2>4, AlikeFacts
  <2>6. Shape(file)'
    BY <1>5, <2>3, <2>4, <2>5 DEF Shape, Alike
  <2>7. f.path = None \/ f.path \in NoLocks
    BY <1>5, <2>2 DEF Shape, Own
  <2>8. Held(file, work.history, checkpoint)'
    BY <1>7, <1>11, <2>4, <2>5, <2>7 DEF Held, Alike
  <2>9. Alike(file', file)
    BY <1>5, <2>4 DEF Alike
  <2> QED
    BY <1>2, <1>4, <1>8, <1>11, <2>4, <2>6, <2>8, <2>9, HistoryStep
<1>12. CASE /\ dirty /\ t # None /\ Publishable(f, t) /\ work' = after
            /\ checkpoint' = [checkpoint EXCEPT ![t.path] = id]
            /\ file' = Checkpointed(f, id, digest)
  <2>1. digest = after.history
    BY <1>3, <1>8, <1>12
  <2>2. Own(f) \notin NoLocks /\ checkpoint[t.path] = f.ckptId
    BY <1>5, <1>12 DEF Publishable
  <2>3. /\ file' \in File /\ Shape(file') /\ Held(file', after.history, checkpoint')
        /\ Alike(file', f) /\ file'.lock = f.lock
        /\ checkpoint' \in [Paths -> Checkpoint \cup {None}]
    <3>1. /\ file' = Checkpointed(f, id, after.history) /\ id = Made(t, after)
          /\ checkpoint' = Put(checkpoint, t.path, id)
          /\ t = checkpoint_target(f) /\ t # None
      BY <1>3, <1>12, <2>1 DEF Made, Put
    <3> QED
      BY <1>1, <1>2, <1>5, <1>7, <1>8, <2>2, <3>1, WriteHeld
  <2>4. Shape(file)' /\ Held(file, work.history, checkpoint)'
    BY <1>8, <1>12, <2>3 DEF Shape, Held
  <2>5. Alike(file', file)
    BY <1>5, <2>3 DEF Alike
  <2>6. is_dirty' /\ file'.lock = Own(file)
    <3>1. f.requested # None \/ h # f.saved
      BY <1>3, <1>12
    <3>2. is_dirty'
      BY <1>8, <1>12, <2>3, <3>1 DEF is_dirty, IsDirty, Alike
    <3> QED
      BY <1>5, <1>6, <1>12, <2>3, <3>2
  <2> QED
    BY <1>4, <1>8, <1>12, <2>3, <2>4, <2>5, <2>6, HistoryStep
<1>13. CASE file' = Unlocked(f) /\ UNCHANGED <<work, checkpoint>>
  <2>1. /\ file' \in File /\ Alike(file', f) /\ Shape(file') /\ file'.ckptId = f.ckptId
        /\ Held(file', work.history, checkpoint)
        /\ f.ckptId # None => file' = f
    BY <1>5, <1>7, <1>13, UnlockedFacts
  <2>2. Shape(file)' /\ Held(file, work.history, checkpoint)'
    BY <1>13, <2>1 DEF Shape, Held
  <2>3. Alike(file', file)
    BY <1>5, <2>1 DEF Alike
  <2>4. file'.ckptId # None => file.ckptId # None /\ file'.lock \in {file.lock, Own(file)}
    BY <1>5, <2>1
  <2> QED
    BY <1>2, <1>4, <1>13, <2>1, <2>2, <2>3, <2>4, HistoryStep
<1> QED
  BY <1>9, <1>10, <1>11, <1>12, <1>13

\* Settings change what is unsaved, never a history or a file.
LEMMA SettingsStep ==
    ASSUME Inv, UNCHANGED scenario, ui = "idle",
           UNCHANGED <<file, disk, checkpoint, save, guard, close, ui, agreed>>,
           work' \in Work, work'.history = work.history, unsaved' \in BOOLEAN,
           drawings' \in [previous : Settings, previously_unsaved : BOOLEAN, kept : Settings]
                           \cup {None},
           drawings' # None => "drawings" \in scenario,
           unsaved' \/ "drawings" \in scenario
    PROVE  Inv'
<1> USE NoLocksSame
<1>1. /\ TypeOK /\ Shape(file) /\ Held(file, work.history, checkpoint) /\ OwnWrite /\ Writes
      /\ OnDisk /\ Branch /\ Kept /\ Consent
  BY DEF Inv
<1>2. TypeOK'
  BY <1>1 DEF TypeOK
<1>3. native_save_is_writing' = native_save_is_writing /\ Published' = Published
  BY DEF native_save_is_writing, Published
<1>4. Shape(file)' /\ Held(file, work.history, checkpoint)'
  BY <1>1 DEF Shape, Held, Own
<1>5. OwnWrite' /\ Writes' /\ OnDisk'
  BY <1>1, <1>3 DEF OwnWrite, Writes, OnDisk, Own
<1>6. Branch'
  <2>1. unsaved' => is_dirty'
    BY DEF is_dirty, IsDirty
  <2> QED
    BY <1>1, <1>3, <2>1 DEF Branch, Own
<1>7. Kept'
  BY DEF Kept
<1>8. Consent'
  BY <1>1, IdleConsent
<1> QED
  BY <1>2, <1>4, <1>5, <1>6, <1>7, <1>8 DEF Inv

\* Settings stored and an export started keep the invariant.
LEMMA StoreOK ==
    ASSUME Inv, UNCHANGED scenario, NEW s \in Settings, store_settings(s) \/ start_export(s)
    PROVE  Inv'
<1>1. TypeOK /\ Kept /\ work \in Work /\ unsaved \in BOOLEAN
  BY TypeFacts DEF Inv
<1>2. /\ UNCHANGED <<file, disk, checkpoint, save, guard, close, ui, agreed>> /\ ui = "idle"
      /\ work' = [work EXCEPT !.settings = s] /\ unsaved' = TRUE
      /\ drawings' # None => drawings' = drawings \/ "drawings" \in scenario
      /\ \/ drawings' = drawings
         \/ drawings' = [previous |-> work.settings, previously_unsaved |-> unsaved, kept |-> s]
  BY DEF store_settings, start_export
<1>3. work' \in Work /\ work'.history = work.history /\ work.settings \in Settings
  BY <1>1, <1>2 DEF Work
<1>4. drawings' \in [previous : Settings, previously_unsaved : BOOLEAN, kept : Settings]
                      \cup {None}
  BY <1>1, <1>2, <1>3 DEF TypeOK
<1>5. drawings' # None => "drawings" \in scenario
  BY <1>1, <1>2 DEF Kept
<1> QED
  BY <1>2, <1>3, <1>4, <1>5, SettingsStep

\* The end of an export keeps the invariant.
LEMMA EndExportOK == ASSUME Inv, UNCHANGED scenario, end_export PROVE Inv'
<1>1. TypeOK /\ Kept /\ work \in Work /\ unsaved \in BOOLEAN
  BY TypeFacts DEF Inv
<1>2. /\ UNCHANGED <<file, disk, checkpoint, save, guard, close, ui, agreed>> /\ ui = "idle"
      /\ drawings # None /\ drawings' = None
      /\ \/ /\ work' = [work EXCEPT !.settings = drawings.previous]
            /\ unsaved' = drawings.previously_unsaved
         \/ UNCHANGED <<work, unsaved>>
  BY DEF end_export
<1>3. "drawings" \in scenario
  BY <1>1, <1>2 DEF Kept
<1>4. drawings.previous \in Settings /\ drawings.previously_unsaved \in BOOLEAN
  BY <1>1, <1>2 DEF TypeOK
<1>5. work' \in Work /\ work'.history = work.history /\ unsaved' \in BOOLEAN
  BY <1>1, <1>2, <1>4 DEF Work
<1> QED
  BY <1>2, <1>3, <1>5, SettingsStep

\* A request to close the window keeps the invariant.
LEMMA RequestCloseOK == ASSUME Inv, UNCHANGED scenario, request_close PROVE Inv'
<1> USE NoLocksSame
<1>1. /\ TypeOK /\ Shape(file) /\ Held(file, work.history, checkpoint) /\ OwnWrite /\ Writes
      /\ OnDisk /\ Branch /\ Kept /\ Consent
  BY DEF Inv
<1>2. /\ close' = [close EXCEPT !.event = TRUE] /\ ui = "idle"
      /\ UNCHANGED <<work, unsaved, file, disk, checkpoint, save, guard, drawings, ui, agreed>>
  BY DEF request_close
<1>3. TypeOK'
  BY <1>1, <1>2 DEF TypeOK
<1>4. Shape(file)' /\ Held(file, work.history, checkpoint)'
  BY <1>1, <1>2 DEF Shape, Held, Own
<1>5. OwnWrite' /\ Writes' /\ OnDisk' /\ Branch' /\ Kept'
  BY <1>1, <1>2 DEF OwnWrite, Writes, OnDisk, Branch, Kept, Own, Published,
                    native_save_is_writing, is_dirty, IsDirty
<1>6. Consent'
  BY <1>1, <1>2, IdleConsent
<1> QED
  BY <1>3, <1>4, <1>5, <1>6 DEF Inv

\* A file changed by another program keeps the invariant.
LEMMA OutsideOK ==
    ASSUME Inv, UNCHANGED scenario, NEW p \in Paths, outside(p) PROVE Inv'
<1> USE NoLocksSame
<1>1. /\ TypeOK /\ Shape(file) /\ Held(file, work.history, checkpoint) /\ OwnWrite /\ Writes
      /\ OnDisk /\ Branch /\ Kept /\ Consent
  BY DEF Inv
<1>2. /\ disk' = [disk EXCEPT ![p] = Foreign]
      /\ UNCHANGED <<work, unsaved, file, checkpoint, save, guard, drawings, close, ui, agreed>>
  BY DEF outside
<1>3. TypeOK' /\ \A q \in Paths : disk'[q] \in {disk[q], Foreign}
  BY <1>1, <1>2 DEF TypeOK
<1>4. Shape(file)' /\ Held(file, work.history, checkpoint)'
  BY <1>1, <1>2 DEF Shape, Held, Own
<1>5. native_save_is_writing' = native_save_is_writing /\ Published' = Published
  BY <1>2 DEF native_save_is_writing, Published
<1>6. Writes'
  <2>1. native_save_is_writing => save.path \in Paths
    BY <1>1, TypeFacts, SaveFacts DEF native_save_is_writing
  <2> QED
    BY <1>1, <1>2, <1>3, <1>5, <2>1 DEF Writes, Published
<1>7. OnDisk'
  <2>1. file.path # None => file.path \in Paths
    BY <1>1, TypeFacts, FileFacts
  <2> QED
    BY <1>1, <1>2, <1>3, <1>5, <2>1 DEF OnDisk
<1>8. OwnWrite' /\ Branch' /\ Kept' /\ Consent'
  BY <1>1, <1>2, <1>5 DEF OwnWrite, Branch, Kept, Consent, Own, is_dirty, IsDirty
<1> QED
  BY <1>3, <1>4, <1>6, <1>7, <1>8 DEF Inv

------------------------------------------------------------------------------
(* Saving *)

\* A save asked through the live bridge keeps the invariant.
LEMMA LiveSaveOK ==
    ASSUME Inv, UNCHANGED scenario, NEW p \in Paths, live_save(p) PROVE Inv'
<1> USE NoLocksSame
<1>1. /\ TypeOK /\ Shape(file) /\ Held(file, work.history, checkpoint) /\ OwnWrite /\ Writes
      /\ OnDisk /\ Branch /\ Kept /\ Consent
  BY DEF Inv
<1>2. PICK f, c, off : /\ f = WithoutCleanup(file) /\ c = Retried(checkpoint)
                       /\ off = (TargetLock(p) = None /\ file.lock = None)
  OBVIOUS
<1>3. /\ finish_document_save(p, f, c, off) /\ disk' = [disk EXCEPT ![p] = work]
      /\ ui = "idle" /\ ~native_save_is_writing
      /\ UNCHANGED <<work, save, guard, drawings, close, ui, agreed>>
  BY <1>2 DEF live_save, WithoutCleanup
<1>4. /\ work \in Work /\ file \in File /\ p # None
      /\ disk \in [Paths -> Work \cup {Absent, Foreign}]
  BY <1>1, TypeFacts, FileFacts
<1>5. f \in File /\ Held(f, work.history, c) /\ c \in [Paths -> Checkpoint \cup {None}]
  BY <1>1, <1>2, <1>4, WithoutCleanupFacts, RetriedFacts
<1>6. off \in BOOLEAN /\ (off => p \in NoLocks)
  BY <1>2, <1>4 DEF TargetLock
<1>7. /\ file' \in File /\ checkpoint' \in [Paths -> Checkpoint \cup {None}]
      /\ unsaved' = FALSE /\ file'.path = p /\ file'.identity = work /\ file'.ckptId = None
      /\ Shape(file)' /\ Held(file, work.history, checkpoint)'
  BY <1>1, <1>3, <1>5, <1>6, FinishFacts
<1>8. disk' \in [Paths -> Work \cup {Absent, Foreign}] /\ disk'[p] = work
  BY <1>3, <1>4
<1>9. TypeOK'
  BY <1>1, <1>3, <1>7, <1>8 DEF TypeOK
<1>10. ~native_save_is_writing'
  BY <1>3 DEF native_save_is_writing
<1>11. OwnWrite' /\ Writes' /\ OnDisk' /\ Branch' /\ Kept'
  BY <1>1, <1>3, <1>7, <1>8, <1>10 DEF OwnWrite, Writes, OnDisk, Branch, Kept, Published
<1>12. Consent'
  BY <1>1, <1>3, IdleConsent
<1> QED
  BY <1>7, <1>9, <1>11, <1>12 DEF Inv

\* The threads of a save change its result, the file it writes and, in a panic, its lock.
LEMMA ThreadOK ==
    ASSUME Inv, UNCHANGED scenario, prepare_save \/ publish_document PROVE Inv'
<1> USE NoLocksSame
<1>1. /\ TypeOK /\ Shape(file) /\ Held(file, work.history, checkpoint) /\ OwnWrite /\ Writes
      /\ OnDisk /\ Branch /\ Kept /\ Consent
  BY DEF Inv
<1>2. /\ save # None /\ save.result = "none"
      /\ UNCHANGED <<work, unsaved, file, checkpoint, guard, drawings, close, ui, agreed>>
      /\ \E r \in {"ok", "failed", "published", "panic"} :
            \/ save' = [save EXCEPT !.result = r] /\ (r = "panic" => FALSE)
            \/ /\ r = "panic" /\ "panic" \in scenario
               /\ save' = [save EXCEPT !.result = r, !.lock = None]
  BY DEF prepare_save, publish_document, native_save_is_writing
<1>3. /\ save \in SaveTask /\ save.path \in Paths /\ save.source.work \in Work
  BY <1>1, <1>2, TypeFacts, SaveFacts
<1>4. /\ save' \in SaveTask /\ save'.stage = save.stage /\ save'.path = save.path
      /\ save'.source = save.source
      /\ \/ save'.lock = save.lock /\ save'.result # "panic"
         \/ save'.lock = None /\ save'.result = "panic" /\ "panic" \in scenario
  BY <1>2, <1>3, ZenonT(30) DEF SaveTask
<1>5. save' # None
  BY <1>4, SaveFacts
<1>6. native_save_is_writing' = native_save_is_writing
  BY <1>2, <1>4, <1>5 DEF native_save_is_writing
<1>7. /\ disk' \in [Paths -> Work \cup {Absent, Foreign}]
      /\ Published' => disk'[save.path] = save.source.work
      /\ UNCHANGED disk \/ (native_save_is_writing /\ Published' /\
             \A q \in Paths : q # save.path => disk'[q] = disk[q])
  <2>1. CASE prepare_save
    BY <1>1, <1>6, <2>1, TypeFacts DEF prepare_save, Published, native_save_is_writing
  <2>2. CASE publish_document
    <3>1. \/ /\ disk' = [disk EXCEPT ![save.path] = save.source.work]
             /\ save'.result \in {"ok", "published"}
          \/ UNCHANGED disk /\ save'.result \in {"failed", "panic"}
      BY <1>3, <2>2 DEF publish_document, SaveTask
    <3> QED
      BY <1>1, <1>3, <1>6, <2>2, <3>1, TypeFacts DEF Published, publish_document
  <2> QED
    BY <2>1, <2>2
<1>8. TypeOK'
  BY <1>1, <1>2, <1>4, <1>7 DEF TypeOK
<1>9. Shape(file)' /\ Held(file, work.history, checkpoint)'
  BY <1>1, <1>2 DEF Shape, Held, Own
<1>10. OwnWrite'
  BY <1>1, <1>2, <1>4, <1>6 DEF OwnWrite, Own
<1>11. Writes'
  BY <1>1, <1>2, <1>4, <1>6, <1>7 DEF Writes
<1>12. OnDisk'
  <2>1. file.path # None => file.path \in Paths
    BY <1>1, TypeFacts, FileFacts
  <2>2. ~Published
    BY <1>2 DEF Published
  <2> QED
    BY <1>1, <1>2, <1>4, <1>7, <2>1, <2>2 DEF OnDisk
<1>13. Branch' /\ Kept'
  BY <1>1, <1>2, <1>4, <1>6 DEF Branch, Kept, Own, is_dirty, IsDirty
<1>14. Consent'
  BY <1>1, <1>2, <1>6 DEF Consent, is_dirty, IsDirty
<1> QED
  BY <1>8, <1>9, <1>10, <1>11, <1>12, <1>13, <1>14 DEF Inv

------------------------------------------------------------------------------
(* A frame: finish_file_activity_frame *)

\* A step that starts and ends without a write running and leaves the window's file alone.
LEMMA QuietStep ==
    ASSUME Inv, UNCHANGED <<scenario, work, unsaved, disk, drawings>>,
           ~native_save_is_writing, ~native_save_is_writing',
           save' # None /\ save'.stage = "Preparing" => save'.lock = None,
           Alike(file', file), file'.lock = file.lock, file'.ckptId = file.ckptId
    PROVE  OwnWrite' /\ Writes' /\ OnDisk' /\ Branch' /\ Kept'
<1>1. Own(file') = Own(file)
  BY AlikeFacts
<1>2. OwnWrite' /\ Writes'
  BY DEF OwnWrite, Writes, Published
<1>3. OnDisk'
  BY DEF Inv, OnDisk, Published, Alike
<1>4. is_dirty' = is_dirty
  BY DEF is_dirty, IsDirty, Alike
<1>5. Branch'
  BY <1>1, <1>4 DEF Inv, Branch
<1>6. Kept'
  BY DEF Inv, Kept, Alike
<1> QED
  BY <1>2, <1>3, <1>5, <1>6

\* A save begun is preparing and holds no lock.
LEMMA PreparingFacts ==
    ASSUME TypeOK, NEW p \in Paths, NEW s, s = Preparing(p)
    PROVE  s \in SaveTask /\ s # None /\ s.stage = "Preparing" /\ s.lock = None
<1>1. file.path \in Paths \cup {None} /\ work \in Work
  BY TypeFacts, FileFacts
<1>2. s \in SaveTask /\ s.stage = "Preparing" /\ s.lock = None
  BY <1>1 DEF Preparing, SaveTask, Source, capture
<1> QED
  BY <1>2, SaveFacts

\* Nothing but the save, what the guard waits for and a pending removal changes.
LEMMA PreparingFrameOK ==
    ASSUME Inv, UNCHANGED scenario, ui = "idle", ui' = "guard",
           UNCHANGED <<work, disk, drawings, agreed>>,
           cancel_save_preparation \/ start_background_save \/ drop_prepared
    PROVE  Inv'
<1> USE NoLocksSame
<1>1. /\ TypeOK /\ Shape(file) /\ Held(file, work.history, checkpoint) /\ OwnWrite /\ Writes
      /\ OnDisk /\ Branch /\ Kept /\ Consent
  BY DEF Inv
<1>2. /\ ~native_save_is_writing /\ UNCHANGED <<unsaved, guard, close>>
      /\ save' = None \/ \E p \in Targets : save' = Preparing(p)
  BY DEF cancel_save_preparation, start_background_save, drop_prepared, native_save_is_writing
<1>3. /\ save' \in SaveTask \cup {None}
      /\ save' # None => save'.stage = "Preparing" /\ save'.lock = None
  <2>1. ASSUME NEW p \in Targets, save' = Preparing(p)
        PROVE  save' \in SaveTask /\ save'.stage = "Preparing" /\ save'.lock = None
    <3>1. p \in Paths
      BY <1>1, TypeFacts
    <3> QED
      BY <1>1, <2>1, <3>1, PreparingFacts
  <2> QED
    BY <1>2, <2>1
<1>4. ~native_save_is_writing'
  BY <1>3 DEF native_save_is_writing
<1>5. \/ UNCHANGED <<file, checkpoint>>
      \/ file' = WithoutCleanup(file) /\ checkpoint' = Retried(checkpoint)
  BY DEF cancel_save_preparation, start_background_save, drop_prepared, WithoutCleanup
<1>6. /\ file' \in File /\ checkpoint' \in [Paths -> Checkpoint \cup {None}]
      /\ Alike(file', file) /\ file'.lock = file.lock /\ file'.ckptId = file.ckptId
      /\ Shape(file') /\ Held(file', work.history, checkpoint')
  <2>1. CASE UNCHANGED <<file, checkpoint>>
    BY <1>1, <2>1, TypeFacts DEF Alike
  <2>2. CASE file' = WithoutCleanup(file) /\ checkpoint' = Retried(checkpoint)
    BY <1>1, <2>2, TypeFacts, WithoutCleanupFacts, RetriedFacts
  <2> QED
    BY <1>5, <2>1, <2>2
<1>7. Shape(file)' /\ Held(file, work.history, checkpoint)'
  BY <1>6 DEF Shape, Held
<1>8. TypeOK'
  BY <1>1, <1>2, <1>3, <1>6 DEF TypeOK
<1>9. OwnWrite' /\ Writes' /\ OnDisk' /\ Branch' /\ Kept'
  BY <1>2, <1>3, <1>4, <1>6, QuietStep
<1>10. Consent'
  BY <1>1, <1>2, <1>4 DEF Consent
<1> QED
  BY <1>7, <1>8, <1>9, <1>10 DEF Inv

\* A frame that goes on waiting for the worker of a save keeps the invariant.
LEMMA WaitOK ==
    ASSUME Inv, UNCHANGED scenario, ui = "idle", ui' = "guard",
           UNCHANGED <<work, disk, drawings, agreed>>, wait_for_worker
    PROVE  Inv'
<1> USE NoLocksSame
<1>1. /\ TypeOK /\ Shape(file) /\ Held(file, work.history, checkpoint) /\ OwnWrite /\ Writes
      /\ OnDisk /\ Branch /\ Kept /\ Consent
  BY DEF Inv
<1>2. /\ UNCHANGED <<unsaved, file, checkpoint, guard>>
      /\ close' = [close EXCEPT !.cancelled = close.event /\ save # None]
      /\ save' = IF save = None THEN None ELSE [save EXCEPT !.close = @ \/ close.event]
  BY DEF wait_for_worker
<1>3. /\ close' \in [event : BOOLEAN, sent : BOOLEAN, cancelled : BOOLEAN]
      /\ save # None /\ close'.event => close'.cancelled
  BY <1>1, <1>2, TypeFacts
<1>4. \/ save = None /\ save' = None
      \/ /\ save # None /\ save' \in SaveTask /\ save' # None
         /\ save'.stage = save.stage /\ save'.path = save.path /\ save'.source = save.source
         /\ save'.lock = save.lock /\ save'.result = save.result
  <2>1. CASE save # None
    <3>1. save \in SaveTask
      BY <1>1, <2>1, TypeFacts
    <3>2. (save.close \/ close.event) \in BOOLEAN
      OBVIOUS
    <3>3. /\ save' \in SaveTask
          /\ save'.stage = save.stage /\ save'.path = save.path /\ save'.source = save.source
          /\ save'.lock = save.lock /\ save'.result = save.result
      BY <1>2, <2>1, <3>1, <3>2 DEF SaveTask
    <3> QED
      BY <2>1, <3>3, SaveFacts
  <2> QED
    BY <1>2, <2>1
<1>5. native_save_is_writing' = native_save_is_writing /\ Published' = Published
  BY <1>4 DEF native_save_is_writing, Published
<1>6. TypeOK'
  BY <1>1, <1>2, <1>3, <1>4 DEF TypeOK
<1>7. Shape(file)' /\ Held(file, work.history, checkpoint)'
  BY <1>1, <1>2 DEF Shape, Held, Own
<1>8. native_save_is_writing => save # None
  BY DEF native_save_is_writing
<1>9. OwnWrite'
  BY <1>1, <1>2, <1>4, <1>5, <1>8 DEF OwnWrite, Own
<1>10. Writes'
  BY <1>1, <1>2, <1>4, <1>5, <1>8 DEF Writes, Published
<1>11. OnDisk' /\ Branch' /\ Kept'
  BY <1>1, <1>2, <1>4, <1>5, <1>8 DEF OnDisk, Branch, Kept, Own, is_dirty, IsDirty, Published
<1>12. Consent'
  BY <1>1, <1>2, <1>3, <1>5, <1>8 DEF Consent
<1> QED
  BY <1>6, <1>7, <1>9, <1>10, <1>11, <1>12 DEF Inv

HandedOver(f, taken) ==
    [f EXCEPT !.cleanup = None, !.lock = IF taken = None THEN None ELSE @]

Writing(s, taken, expected) ==
    [s EXCEPT !.stage = "Writing", !.source = capture, !.expected = expected, !.result = "none",
              !.lock = IF taken = None THEN file.lock ELSE taken]

\* start_prepared_write: the thread has the lock of the path it writes.
LEMMA StartWriteOK ==
    ASSUME Inv, UNCHANGED scenario, ui = "idle", ui' = "guard",
           UNCHANGED <<work, disk, drawings, agreed>>, start_prepared_write
    PROVE  Inv'
<1> USE NoLocksSame
<1>1. /\ TypeOK /\ Shape(file) /\ Held(file, work.history, checkpoint) /\ OwnWrite /\ Writes
      /\ OnDisk /\ Branch /\ Kept /\ Consent
  BY DEF Inv
<1>2. PICK p, taken : p = save.path /\ taken = TargetLock(p)
  OBVIOUS
<1>3. /\ save # None /\ save.stage = "Preparing" /\ ~close.event
      /\ checkpoint' = Retried(checkpoint) /\ file' = HandedOver(file, taken)
      /\ save' = Writing(save, taken, disk[p]) /\ UNCHANGED <<unsaved, guard, close>>
  BY <1>2 DEF start_prepared_write, HandedOver, Writing
<1>4. /\ save \in SaveTask /\ p \in Paths /\ file \in File /\ p # None /\ work \in Work
      /\ file.lock \in Paths \cup {None} /\ file.path \in Paths \cup {None}
      /\ disk[p] \in Work \cup {Absent, Foreign} /\ ~native_save_is_writing
  BY <1>1, <1>2, <1>3, TypeFacts, FileFacts, SaveFacts DEF native_save_is_writing
<1>5. /\ taken \in {None, p} /\ (taken = p => p \notin NoLocks)
      /\ taken = None => p \in NoLocks \/ (p \in {file.path, file.requested} /\ file.lock # None)
      /\ taken = p /\ p \in {file.path, file.requested} => file.lock = None
  BY <1>2, <1>4 DEF TargetLock
<1>6. p \in {file.path, file.requested} <=> p = Own(file)
  BY <1>1, <1>4 DEF Shape, Own
<1>7. PICK g : g = WithoutCleanup(file)
  OBVIOUS
<1>8. /\ g \in File /\ Alike(g, file) /\ g.lock = file.lock /\ g.off = file.off /\ Shape(g)
      /\ g.ckptId = file.ckptId /\ g.ckptDigest = file.ckptDigest /\ g.cleanup = None
      /\ Held(g, work.history, checkpoint') /\ checkpoint' \in [Paths -> Checkpoint \cup {None}]
  BY <1>1, <1>3, <1>4, <1>7, WithoutCleanupFacts, RetriedFacts
<1>9. /\ file' \in File /\ Alike(file', g) /\ file'.off = g.off
      /\ file'.lock = (IF taken = None THEN None ELSE file.lock)
      /\ file'.ckptId = g.ckptId /\ file'.ckptDigest = g.ckptDigest /\ file'.cleanup = None
  <2>1. file' = [g EXCEPT !.lock = IF taken = None THEN None ELSE @]
    BY <1>3, <1>4, <1>7 DEF HandedOver, WithoutCleanup, File
  <2> QED
    BY <1>8, <2>1 DEF File, Alike
<1>10. Alike(file', file) /\ Own(file') = Own(file) /\ Own(g) = Own(file)
  <2>1. Alike(file', file)
    BY <1>8, <1>9 DEF Alike
  <2> QED
    BY <1>8, <2>1, AlikeFacts
<1>11. Shape(file)' /\ Held(file, work.history, checkpoint)'
  BY <1>8, <1>9, <1>10 DEF Shape, Held, Alike
<1>12. /\ save' \in SaveTask /\ save'.stage = "Writing" /\ save'.path = p
       /\ save'.source.work = work /\ save'.source.path = file.path
       /\ save'.result = "none" /\ save'.lock = (IF taken = None THEN file.lock ELSE taken)
  <2>1. capture \in Source /\ capture.work = work /\ capture.path = file.path
    BY <1>4 DEF capture, Source
  <2>2. PICK l \in Paths \cup {None} : l = (IF taken = None THEN file.lock ELSE taken)
    BY <1>4, <1>5
  <2>3. PICK a \in SaveTask : a = [save EXCEPT !.stage = "Writing"]
    BY <1>4 DEF SaveTask
  <2>4. PICK b \in SaveTask : b = [a EXCEPT !.source = capture]
    BY <2>1 DEF SaveTask
  <2>5. PICK d \in SaveTask : d = [b EXCEPT !.expected = disk[p]]
    BY <1>4 DEF SaveTask
  <2>6. PICK e \in SaveTask : e = [d EXCEPT !.result = "none"]
    BY DEF SaveTask
  <2>7. PICK k \in SaveTask : k = [e EXCEPT !.lock = l]
    BY DEF SaveTask
  <2>8. save' = k
    BY <1>3, <2>2, <2>3, <2>4, <2>5, <2>6, <2>7 DEF Writing
  <2>9. b.stage = "Writing" /\ b.path = p /\ b.source = capture
    BY <1>2, <2>3, <2>4 DEF SaveTask
  <2>10. /\ k.stage = b.stage /\ k.path = b.path /\ k.source = b.source
         /\ k.result = "none" /\ k.lock = l
    BY <2>5, <2>6, <2>7 DEF SaveTask
  <2> QED
    BY <2>1, <2>2, <2>8, <2>9, <2>10
<1>13. native_save_is_writing' /\ ~Published' /\ save' # None
  BY <1>12, SaveFacts DEF native_save_is_writing, Published
<1>14. TypeOK'
  BY <1>1, <1>3, <1>8, <1>9, <1>12 DEF TypeOK
<1>15. file.lock # None => file.lock = Own(file) /\ file.lock \notin NoLocks
  BY <1>1 DEF Shape
<1>16. p \notin NoLocks => save'.lock = p
  BY <1>4, <1>5, <1>6, <1>12, <1>15
<1>17. OwnWrite'
  <2>1. SUFFICES ASSUME p = Own(file)
                 PROVE  /\ save'.lock # None => save'.lock = p /\ p \notin NoLocks
                        /\ p \notin NoLocks => file'.lock = None
    BY <1>10, <1>12, <1>16 DEF OwnWrite
  <2> QED
    BY <1>4, <1>5, <1>6, <1>9, <1>12, <1>15, <2>1
<1>18. Writes'
  BY <1>9, <1>10, <1>12, <1>13, <1>16 DEF Writes, Alike
<1>19. OnDisk'
  BY <1>1, <1>4, <1>10 DEF OnDisk, Published, Alike
<1>20. Branch'
  <2>1. SUFFICES ASSUME scenario \cap {"panic", "nolocks", "drawings"} = {}
                 PROVE  /\ file'.ckptId # None =>
                              /\ is_dirty'
                              /\ file'.lock = Own(file') \/ save'.lock = Own(file')
                        /\ save'.lock = save'.path
    BY <1>13 DEF Branch
  <2>2. NoLocks = {}
    BY <2>1 DEF NoLocks
  <2>3. is_dirty' = is_dirty
    BY <1>3, <1>10 DEF is_dirty, IsDirty, Alike
  <2>4. file.ckptId # None => is_dirty /\ file.lock = Own(file)
    BY <1>1, <1>4, <2>1 DEF Branch
  <2> QED
    BY <1>8, <1>9, <1>10, <1>12, <1>16, <2>2, <2>3, <2>4
<1>21. Kept'
  BY <1>1, <1>3, <1>10, <1>12 DEF Kept, Alike
<1>22. Consent'
  BY <1>1, <1>3 DEF Consent
<1> QED
  BY <1>11, <1>14, <1>17, <1>18, <1>19, <1>20, <1>21, <1>22 DEF Inv

WithLock(f, l) == [f EXCEPT !.lock = l]
WithoutLocks(f) == [f EXCEPT !.off = TRUE]

\* The record once the lock of a save was taken over: otherwise as it was.
LEMMA AdoptedFacts ==
    ASSUME TypeOK, OwnWrite, Writes, native_save_is_writing,
           NEW k \in File, Shape(k), Own(k) = Own(file), NEW g, g = Adopted(k, unsaved)
    PROVE  /\ g \in File /\ Shape(g) /\ Alike(g, k) /\ Own(g) = Own(k)
           /\ g.ckptId = k.ckptId /\ g.ckptDigest = k.ckptDigest /\ g.cleanup = k.cleanup
           /\ k.lock # None => g.lock = k.lock
           /\ IsDirty(work, k, unsaved) /\ Own(k) = save.path /\ k.lock = None =>
                  g.lock = save.lock
<1>1. /\ save \in SaveTask /\ save.path \in Paths /\ save.lock \in Paths \cup {None}
      /\ k.lock \in Paths \cup {None} /\ None \notin Paths
  BY TypeFacts, SaveFacts, FileFacts DEF native_save_is_writing
<1>2. PICK adopt : adopt = (IsDirty(work, k, unsaved) /\ Own(k) = save.path /\ k.lock = None)
  OBVIOUS
<1>3. PICK h : h = IF adopt THEN WithLock(k, save.lock) ELSE k
  OBVIOUS
<1>4. /\ h \in File /\ Alike(h, k) /\ h.off = k.off
      /\ h.ckptId = k.ckptId /\ h.ckptDigest = k.ckptDigest /\ h.cleanup = k.cleanup
      /\ adopt => h.lock = save.lock
      /\ ~adopt => h.lock = k.lock
  <2>1. CASE adopt
    BY <1>1, <1>3, <2>1 DEF WithLock, File, Alike
  <2>2. CASE ~adopt
    BY <1>3, <2>2 DEF Alike
  <2> QED
    BY <2>1, <2>2
<1>5. Own(h) = Own(k)
  BY <1>4, AlikeFacts
<1>6. Shape(h)
  <2>1. h.lock # None => h.lock = Own(h) /\ h.lock \notin NoLocks
    BY <1>2, <1>4, <1>5 DEF OwnWrite, Shape
  <2> QED
    BY <1>4, <1>5, <2>1 DEF Shape, Alike
<1>7. g = IF save.result = "ok" /\ save.lock = None /\ k.path = save.path
          THEN WithoutLocks(h) ELSE h
  BY <1>2, <1>3 DEF Adopted, WithLock, WithoutLocks
<1>8. CASE g = h
  BY <1>2, <1>4, <1>5, <1>6, <1>8
<1>9. CASE save.result = "ok" /\ save.lock = None /\ k.path = save.path /\ g = WithoutLocks(h)
  <2>1. /\ g \in File /\ Alike(g, h) /\ g.off /\ g.lock = h.lock
        /\ g.ckptId = h.ckptId /\ g.ckptDigest = h.ckptDigest /\ g.cleanup = h.cleanup
    BY <1>4, <1>9, ZenonT(30) DEF WithoutLocks, File, Alike
  <2>2. Own(g) = Own(h)
    BY <2>1, AlikeFacts
  <2>3. g.path # None /\ g.path \in NoLocks
    BY <1>1, <1>4, <1>9, <2>1 DEF Writes, Alike
  <2>4. Shape(g)
    BY <1>6, <2>1, <2>2, <2>3 DEF Shape, Alike
  <2>5. Alike(g, k)
    BY <1>4, <2>1 DEF Alike
  <2> QED
    BY <1>2, <1>4, <1>5, <2>1, <2>2, <2>4, <2>5
<1> QED
  BY <1>7, <1>8, <1>9

\* The record after the work was saved and edited meanwhile: what was published is its content.
LEMMA SavedMeanwhileFacts ==
    ASSUME TypeOK, Shape(file), Held(file, work.history, checkpoint), OwnWrite, Published,
           save.path = file.path, NEW k, k = SavedMeanwhile(file)
    PROVE  /\ k \in File /\ Shape(k) /\ Held(k, work.history, checkpoint) /\ Own(k) = Own(file)
           /\ k.path = file.path /\ k.identity = save.source.work /\ k.lock = file.lock
           /\ k.ckptId = file.ckptId /\ k.requested = file.requested
           /\ k.saved = save.source.work.history
<1>1. /\ file \in File /\ save \in SaveTask /\ save.path \in Paths /\ save.source.work \in Work
      /\ save.source.work # None /\ save.source.work.history \in Histories /\ save.path # None
  BY TypeFacts, SaveFacts, FileFacts, WorkFacts DEF Published, native_save_is_writing
<1>2. /\ k \in File /\ k.path = file.path /\ k.requested = file.requested /\ k.base = file.base
      /\ k.identity = save.source.work /\ k.saved = save.source.work.history
      /\ k.lock = file.lock /\ k.off = FALSE /\ k.ckptId = file.ckptId
      /\ k.ckptDigest = file.ckptDigest /\ k.cleanup = file.cleanup
  BY <1>1 DEF SavedMeanwhile, File
<1>3. Own(k) = Own(file) /\ Own(file) = file.path
  BY <1>1, <1>2 DEF Own
<1>4. Shape(k)
  BY <1>1, <1>2, <1>3 DEF Shape
<1>5. file.path \notin NoLocks => work.history = save.source.work.history
  BY <1>3 DEF OwnWrite, Published
<1>6. Held(k, work.history, checkpoint)
  BY <1>2, <1>3, <1>5 DEF Held
<1> QED
  BY <1>2, <1>3, <1>4, <1>6

\* poll_native_save of a finished write: the window moves to what was written, or learns that
\* its own file was written while the settings changed, or stays.
LEMMA FinishWriteOK ==
    ASSUME Inv, UNCHANGED scenario, ui = "idle", ui' = "guard",
           UNCHANGED <<work, disk, drawings, agreed>>, finish_write
    PROVE  Inv'
<1> USE NoLocksSame
<1>1. /\ TypeOK /\ Shape(file) /\ Held(file, work.history, checkpoint) /\ OwnWrite /\ Writes
      /\ OnDisk /\ Branch /\ Kept /\ Consent
  BY DEF Inv
<1>2. PICK now, off, success, sent :
          /\ now = current(save.source) /\ off = (save.result = "ok" /\ save.lock = None)
          /\ success = (save.result = "ok" /\ now) /\ sent = Resent(save.result = "ok")
  OBVIOUS
<1>3. /\ native_save_is_writing
      /\ save' = None
      /\ guard' = IF guard.saving THEN [guard EXCEPT !.save_succeeded = success] ELSE guard
      /\ close' = [close EXCEPT !.cancelled = close.event, !.sent = sent]
      /\ \/ now /\ Published /\ finish_document_save(save.path, file, checkpoint, off)
         \/ /\ ~(now /\ Published)
            /\ file' = Adopted(IF ~now /\ Published /\ save.source.path = file.path
                                  /\ save.source.path = save.path
                               THEN SavedMeanwhile(file) ELSE file, unsaved)
            /\ UNCHANGED <<unsaved, checkpoint>>
  BY <1>2 DEF finish_write, Published
<1>4. /\ file \in File /\ save \in SaveTask /\ save.path \in Paths /\ save.path # None
      /\ save.source \in Source /\ save.source.work \in Work /\ work \in Work
      /\ checkpoint \in [Paths -> Checkpoint \cup {None}]
      /\ save.source.path = file.path
  BY <1>1, <1>3, TypeFacts, SaveFacts, FileFacts DEF native_save_is_writing, Writes
<1>5. now <=> save.source.work = work
  <2>1. save.source = [work |-> save.source.work, path |-> save.source.path]
    BY <1>4 DEF Source
  <2>2. current(save.source) <=> save.source.work = work
    BY <1>4, <2>1 DEF current, capture
  <2> QED
    BY <1>2, <2>2
<1>6. off \in BOOLEAN /\ success \in BOOLEAN /\ sent \in BOOLEAN
  BY <1>2 DEF Resent
<1>7. ~native_save_is_writing' /\ ~Published'
  BY <1>3 DEF native_save_is_writing, Published
<1>8. OwnWrite' /\ Writes'
  BY <1>3, <1>7 DEF OwnWrite, Writes
<1>9. /\ guard' \in CloseGuard /\ guard'.approved = guard.approved
      /\ guard'.pending = guard.pending
      /\ close' \in [event : BOOLEAN, sent : BOOLEAN, cancelled : BOOLEAN]
  BY <1>1, <1>3, <1>6, TypeFacts DEF CloseGuard
<1>10. Consent'
  BY <1>1, <1>7, <1>9 DEF Consent
<1>11. CASE now /\ Published /\ finish_document_save(save.path, file, checkpoint, off)
  <2>1. off => save.path \in NoLocks
    BY <1>1, <1>2, <1>3, <1>4 DEF Writes
  <2>2. /\ file' \in File /\ checkpoint' \in [Paths -> Checkpoint \cup {None}]
        /\ unsaved' = FALSE /\ file'.path = save.path /\ file'.identity = work
        /\ file'.ckptId = None
        /\ Shape(file)' /\ Held(file, work.history, checkpoint)'
    BY <1>1, <1>4, <1>6, <1>11, <2>1, FinishFacts
  <2>3. TypeOK'
    BY <1>1, <1>3, <1>9, <2>2 DEF TypeOK
  <2>4. OnDisk'
    BY <1>1, <1>5, <1>11, <2>2 DEF OnDisk, Writes
  <2>5. Branch' /\ Kept'
    BY <1>1, <1>7, <2>2 DEF Branch, Kept
  <2> QED
    BY <1>8, <1>10, <2>2, <2>3, <2>4, <2>5 DEF Inv
<1>12. CASE /\ ~(now /\ Published)
            /\ file' = Adopted(IF ~now /\ Published /\ save.source.path = file.path
                                  /\ save.source.path = save.path
                               THEN SavedMeanwhile(file) ELSE file, unsaved)
            /\ UNCHANGED <<unsaved, checkpoint>>
  <2>1. PICK mean : mean = (~now /\ Published /\ save.path = file.path)
    OBVIOUS
  <2>2. PICK k : k = IF mean THEN SavedMeanwhile(file) ELSE file
    OBVIOUS
  <2>3. file' = Adopted(k, unsaved)
    BY <1>4, <1>12, <2>1, <2>2
  <2>4. /\ k \in File /\ Shape(k) /\ Held(k, work.history, checkpoint) /\ Own(k) = Own(file)
        /\ k.path = file.path /\ k.lock = file.lock /\ k.ckptId = file.ckptId
        /\ k.requested = file.requested
        /\ mean => k.identity = save.source.work /\ k.saved = save.source.work.history
        /\ ~mean => k = file
    <3>1. CASE mean
      BY <1>1, <2>1, <2>2, <3>1, SavedMeanwhileFacts
    <3>2. CASE ~mean
      BY <1>1, <1>4, <2>2, <3>2
    <3> QED
      BY <3>1, <3>2
  <2>5. /\ file' \in File /\ Shape(file') /\ Alike(file', k) /\ Own(file') = Own(k)
        /\ file'.ckptId = k.ckptId /\ file'.ckptDigest = k.ckptDigest
        /\ file'.cleanup = k.cleanup
        /\ k.lock # None => file'.lock = k.lock
        /\ IsDirty(work, k, unsaved) /\ Own(k) = save.path /\ k.lock = None =>
               file'.lock = save.lock
    BY <1>1, <1>3, <2>3, <2>4, AdoptedFacts
  <2>6. Held(file', work.history, checkpoint)
    BY <2>4, <2>5 DEF Held, Alike
  <2>7. Shape(file)' /\ Held(file, work.history, checkpoint)'
    BY <1>12, <2>5, <2>6, Zenon DEF Shape, Held
  <2>8. TypeOK'
    BY <1>1, <1>3, <1>9, <1>12, <2>5 DEF TypeOK
  <2>9. OnDisk'
    <3>1. SUFFICES ASSUME file.path # None PROVE disk[file.path] \in {k.identity, Foreign}
      BY <2>4, <2>5 DEF OnDisk, Alike
    <3>2. CASE mean
      BY <1>1, <2>1, <2>4, <3>2 DEF Writes
    <3>3. CASE ~mean
      BY <1>1, <1>12, <2>1, <2>4, <3>1, <3>3 DEF OnDisk
    <3> QED
      BY <3>2, <3>3
  <2>10. Branch'
    <3>1. SUFFICES ASSUME scenario \cap {"panic", "nolocks", "drawings"} = {},
                          file.ckptId # None
                   PROVE  is_dirty' /\ file'.lock = Own(file')
      BY <1>7, <2>4, <2>5 DEF Branch
    <3>2. /\ is_dirty /\ save.lock = save.path
          /\ file.lock = Own(file) \/ save.lock = Own(file)
      BY <1>1, <1>3, <3>1 DEF Branch
    <3>3. IsDirty(work, k, unsaved)
      <4>1. CASE mean
        <5>1. save.source.work.history = work.history => unsaved
          BY <1>1, <1>3, <1>4, <1>5, <2>1, <3>1, <4>1, WorkFacts DEF Kept
        <5> QED
          BY <2>4, <4>1, <5>1 DEF IsDirty
      <4>2. CASE ~mean
        BY <2>4, <3>2, <4>2 DEF is_dirty
      <4> QED
        BY <4>1, <4>2
    <3>4. is_dirty'
      BY <1>12, <2>5, <3>3 DEF is_dirty, IsDirty, Alike
    <3>5. Own(file) # None /\ (file.lock # None => file.lock = Own(file))
      BY <1>1, <3>1 DEF Shape
    <3> QED
      BY <2>4, <2>5, <3>2, <3>3, <3>4, <3>5
  <2>11. Kept'
    BY <1>1, <1>3, <1>7, <1>12, <2>4, <2>5 DEF Kept, Alike
  <2> QED
    BY <1>8, <1>10, <2>7, <2>8, <2>9, <2>10, <2>11 DEF Inv
<1> QED
  BY <1>3, <1>11, <1>12

\* The file activity of a frame keeps the invariant (finish_file_activity_frame).
LEMMA ActivityOK ==
    ASSUME Inv, UNCHANGED scenario, finish_file_activity_frame PROVE Inv'
BY PreparingFrameOK, WaitOK, StartWriteOK, FinishWriteOK DEF finish_file_activity_frame

------------------------------------------------------------------------------
(* A frame: show_close_guard *)

\* A guard on its way through the step: a consent taken by a close event is gone from it.
Carried(g) ==
    /\ g \in CloseGuard
    /\ g.approved \in {guard.approved, None}
    /\ close.event \/ g.pending => g.approved = None

\* What the question leaves behind, answered or not.
Asked ==
    /\ guard' \in CloseGuard /\ agreed' \in Work \cup {None}
    /\ guard'.approved # None => agreed' # None /\ agreed'.history = guard'.approved
    /\ guard'.pending => guard'.approved = None
    /\ save' \in SaveTask \cup {None} /\ ~native_save_is_writing'
    /\ save' # None /\ save'.stage = "Preparing" => save'.lock = None

\* A save that is not writing is still not writing when it is left alone.
LEMMA SameSave ==
    ASSUME TypeOK, Writes, ~native_save_is_writing, UNCHANGED save
    PROVE  /\ save' \in SaveTask \cup {None} /\ ~native_save_is_writing'
           /\ save' # None /\ save'.stage = "Preparing" => save'.lock = None
BY TypeFacts DEF Writes, native_save_is_writing

\* No guard has approved anything, and none is pending.
LEMMA NoGuardFacts == NoGuard \in CloseGuard /\ NoGuard.approved = None /\ ~NoGuard.pending
BY DEF NoGuard, CloseGuard

SavingGuard(g) == [g EXCEPT !.saving = TRUE, !.save_succeeded = FALSE]
ConsentedGuard(g) == [g EXCEPT !.pending = FALSE, !.approved = work.history]

\* A guard that asks or discards is left as Asked says.
LEMMA AskFacts ==
    ASSUME TypeOK, Writes, Consent, ~native_save_is_writing, NEW g, Carried(g),
           ask(g) \/ discard(g)
    PROVE  Asked
<1>1. /\ g \in CloseGuard /\ g.approved \in {guard.approved, None}
      /\ close.event \/ g.pending => g.approved = None
  BY DEF Carried
<1>2. /\ work \in Work /\ work.history \in Histories /\ agreed \in Work \cup {None}
      /\ work # None
  BY TypeFacts, WorkFacts
<1>3. CASE guard' = g /\ agreed' = (IF close.event THEN None ELSE agreed) /\ UNCHANGED save
  BY <1>1, <1>2, <1>3, SameSave DEF Asked, Consent
<1>4. CASE guard' = NoGuard /\ agreed' = None /\ UNCHANGED save
  BY <1>4, SameSave, NoGuardFacts DEF Asked
<1>5. CASE /\ guard.pending /\ guard' = SavingGuard(g) /\ agreed' = None
           /\ \E p \in IF file.path # None THEN {file.path} ELSE Targets : save' = Preparing(p)
  <2>1. guard' \in CloseGuard /\ guard'.approved = g.approved /\ guard'.pending = g.pending
    BY <1>1, <1>5 DEF SavingGuard, CloseGuard
  <2>2. g.approved = None
    BY <1>1, <1>5 DEF Consent
  <2>3. PICK p \in Paths : save' = Preparing(p)
    BY <1>5, TypeFacts, FileFacts
  <2>4. save' \in SaveTask /\ save'.stage = "Preparing" /\ save'.lock = None
    BY <2>3, PreparingFacts
  <2>5. ~native_save_is_writing'
    BY <2>4 DEF native_save_is_writing
  <2> QED
    BY <1>5, <2>1, <2>2, <2>4, <2>5 DEF Asked
<1>6. CASE guard' = ConsentedGuard(g) /\ agreed' = work /\ UNCHANGED save
  <2>1. guard' \in CloseGuard /\ guard'.approved = work.history /\ ~guard'.pending
    BY <1>1, <1>2, <1>6 DEF ConsentedGuard, CloseGuard
  <2> QED
    BY <1>2, <1>6, <2>1, SameSave DEF Asked
<1> QED
  BY <1>3, <1>4, <1>5, <1>6 DEF ask, discard, SavingGuard, ConsentedGuard, close_identity

NotSaving(g) == [g EXCEPT !.saving = FALSE]

\* A guard after its save is left as Asked says, and the close is sent or as it was.
LEMMA AfterSaveFacts ==
    ASSUME TypeOK, Writes, Consent, ~native_save_is_writing, NEW g, Carried(g), NEW c,
           after_save(g, c)
    PROVE  Asked /\ close' \in {c, [c EXCEPT !.sent = TRUE]}
<1>1. /\ g \in CloseGuard /\ g.approved \in {guard.approved, None}
      /\ close.event \/ g.pending => g.approved = None
  BY DEF Carried
<1>2. /\ work \in Work /\ work.history \in Histories /\ work # None
  BY TypeFacts, WorkFacts
<1>3. CASE g.save_succeeded /\ ~is_dirty
  <2>1. /\ guard' = [g EXCEPT !.saving = FALSE, !.pending = FALSE, !.approved = work.history]
        /\ close' = [c EXCEPT !.sent = TRUE] /\ agreed' = work /\ UNCHANGED save
    BY <1>3 DEF after_save, close_identity
  <2>2. guard' \in CloseGuard /\ guard'.approved = work.history /\ ~guard'.pending
    BY <1>1, <1>2, <2>1 DEF CloseGuard
  <2> QED
    BY <1>2, <2>1, <2>2, SameSave DEF Asked
<1>4. CASE ~(g.save_succeeded /\ ~is_dirty)
  <2>1. PICK k : k = NotSaving(g)
    OBVIOUS
  <2>2. /\ ask(k) \/ discard(k)
        /\ close' \in {c, [c EXCEPT !.sent = TRUE]}
    BY <1>4, <2>1 DEF after_save, NotSaving
  <2>3. k \in CloseGuard /\ k.approved = g.approved /\ k.pending = g.pending
    BY <1>1, <2>1 DEF NotSaving, CloseGuard
  <2>4. Carried(k)
    BY <1>1, <2>3 DEF Carried
  <2> QED
    BY <2>2, <2>4, AskFacts
<1> QED
  BY <1>3, <1>4

\* A close goes through on a clean window or a consent for its history; otherwise it is
\* cancelled and the question asked.
LEMMA GuardOK == ASSUME Inv, UNCHANGED scenario, show_close_guard PROVE Inv'
<1> USE NoLocksSame
<1>1. /\ TypeOK /\ Shape(file) /\ Held(file, work.history, checkpoint) /\ OwnWrite /\ Writes
      /\ OnDisk /\ Branch /\ Kept /\ Consent
  BY DEF Inv
<1>2. /\ ui = "guard" /\ ui' = "refresh"
      /\ UNCHANGED <<work, unsaved, file, disk, checkpoint, drawings>>
  BY DEF show_close_guard
<1>3. Shape(file)' /\ Held(file, work.history, checkpoint)' /\ is_dirty' = is_dirty
  BY <1>1, <1>2 DEF Shape, Held, Own, is_dirty, IsDirty
<1>4. PICK g, c :
          /\ g = IF close.event THEN [Taken(guard) EXCEPT !.pending = TRUE] ELSE guard
          /\ c = [close EXCEPT !.cancelled = @ \/ close.event]
  OBVIOUS
<1>5. CASE native_save_is_writing /\ UNCHANGED <<guard, save, close, agreed>>
  <2>1. TypeOK'
    BY <1>1, <1>2, <1>5 DEF TypeOK
  <2>2. native_save_is_writing'
    BY <1>5 DEF native_save_is_writing
  <2>3. OwnWrite' /\ Writes' /\ OnDisk' /\ Branch' /\ Kept'
    BY <1>1, <1>2, <1>3, <1>5, <2>2 DEF OwnWrite, Writes, OnDisk, Branch, Kept, Own, Published
  <2>4. Consent'
    BY <1>1, <1>2, <1>5 DEF Consent
  <2> QED
    BY <1>3, <2>1, <2>3, <2>4 DEF Inv
<1>6. ASSUME ~native_save_is_writing, Asked,
             close' \in [event : BOOLEAN, sent : BOOLEAN, cancelled : BOOLEAN],
             close'.event /\ ~close'.cancelled =>
                 ~is_dirty \/ (agreed' # None /\ agreed'.history = work.history)
      PROVE  Inv'
  <2>1. TypeOK'
    BY <1>1, <1>2, <1>6 DEF TypeOK, Asked
  <2>2. Alike(file', file) /\ file'.lock = file.lock /\ file'.ckptId = file.ckptId
    BY <1>2 DEF Alike
  <2>3. OwnWrite' /\ Writes' /\ OnDisk' /\ Branch' /\ Kept'
    BY <1>2, <1>6, <2>2, QuietStep DEF Asked
  <2>4. Consent'
    BY <1>1, <1>2, <1>3, <1>6 DEF Consent, Asked
  <2> QED
    BY <1>3, <2>1, <2>3, <2>4 DEF Inv
<1>7. CASE /\ ~native_save_is_writing /\ close.event /\ (~is_dirty \/ Approved)
           /\ guard' = NoGuard /\ UNCHANGED <<save, close, agreed>>
  <2>1. Asked
    BY <1>1, <1>7, SameSave, NoGuardFacts, TypeFacts DEF Asked
  <2>2. Approved => agreed # None /\ agreed.history = work.history
    <3>1. work.history # None
      BY <1>1, TypeFacts, ConstantAssumption
    <3> QED
      BY <1>1, <3>1 DEF Approved, close_identity, Consent
  <2> QED
    BY <1>1, <1>6, <1>7, <2>1, <2>2, TypeFacts
<1>8. CASE /\ ~native_save_is_writing
           /\ \/ g.saving /\ save # None /\ guard' = g /\ close' = c /\ UNCHANGED <<save, agreed>>
              \/ g.saving /\ save = None /\ after_save(g, c)
              \/ ~g.saving /\ ask(g) /\ close' = c
              \/ ~g.saving /\ discard(g) /\ close' = [c EXCEPT !.sent = TRUE]
  <2>1. /\ g \in CloseGuard /\ g.approved = (IF close.event THEN None ELSE guard.approved)
        /\ g.pending = (IF close.event THEN TRUE ELSE guard.pending)
    <3>1. guard \in CloseGuard
      BY <1>1, TypeFacts
    <3>2. /\ Taken(guard) \in CloseGuard /\ Taken(guard).approved = None
      BY <3>1 DEF Taken, CloseGuard
    <3> QED
      BY <1>4, <3>1, <3>2 DEF CloseGuard
  <2>2. Carried(g)
    BY <1>1, <2>1 DEF Carried, Consent
  <2>3. /\ c \in [event : BOOLEAN, sent : BOOLEAN, cancelled : BOOLEAN]
        /\ c.event => c.cancelled
    BY <1>1, <1>4, TypeFacts
  <2>4. Asked /\ close' \in {c, [c EXCEPT !.sent = TRUE]}
    <3>1. CASE guard' = g /\ close' = c /\ UNCHANGED <<save, agreed>>
      <4>1. guard'.approved # None => agreed' # None /\ agreed'.history = guard'.approved
        BY <1>1, <2>1, <3>1 DEF Consent
      <4>2. guard'.pending => guard'.approved = None
        BY <2>2, <3>1 DEF Carried
      <4> QED
        BY <1>1, <1>8, <2>1, <3>1, <4>1, <4>2, SameSave, TypeFacts DEF Asked
    <3>2. CASE after_save(g, c)
      BY <1>1, <1>8, <2>2, <3>2, AfterSaveFacts
    <3>3. CASE (ask(g) \/ discard(g)) /\ close' \in {c, [c EXCEPT !.sent = TRUE]}
      BY <1>1, <1>8, <2>2, <3>3, AskFacts
    <3> QED
      BY <1>8, <3>1, <3>2, <3>3
  <2>5. /\ close' \in [event : BOOLEAN, sent : BOOLEAN, cancelled : BOOLEAN]
        /\ close'.event => close'.cancelled
    BY <2>3, <2>4
  <2> QED
    BY <1>6, <1>8, <2>4, <2>5
<1> QED
  BY <1>4, <1>5, <1>7, <1>8 DEF show_close_guard

------------------------------------------------------------------------------
(* A frame: refresh_work_recovery_checkpoint *)

\* What the end of a frame leaves alone, whatever it does to the checkpoint.
LEMMA FrameEnd ==
    ASSUME Inv, UNCHANGED scenario, refresh_work_recovery_checkpoint, Alike(file', file)
    PROVE  /\ Consent' /\ is_dirty' = is_dirty
           /\ UNCHANGED <<work, unsaved, disk, save, guard, drawings, agreed>>
           /\ close' \in [event : BOOLEAN, sent : BOOLEAN, cancelled : BOOLEAN]
           /\ ui' \in {"idle", "closed"}
<1>1. /\ UNCHANGED <<work, unsaved, disk, save, guard, drawings, agreed>> /\ ui = "refresh"
      /\ ui' = IF close.event /\ ~close.cancelled THEN "closed" ELSE "idle"
      /\ close' = [NoClose EXCEPT !.event = close.sent]
  BY DEF refresh_work_recovery_checkpoint
<1>2. is_dirty' = is_dirty /\ native_save_is_writing' = native_save_is_writing
  BY <1>1 DEF is_dirty, IsDirty, Alike, native_save_is_writing
<1>3. Consent'
  BY <1>1, <1>2 DEF Inv, Consent
<1>4. close.sent \in BOOLEAN
  BY TypeFacts DEF Inv
<1> QED
  BY <1>1, <1>2, <1>3, <1>4 DEF NoClose

\* A refresh with no save running.
LEMMA RefreshStep ==
    ASSUME Inv, UNCHANGED scenario, refresh_work_recovery_checkpoint, save = None,
           file' \in File, Alike(file', file), Shape(file'),
           checkpoint' \in [Paths -> Checkpoint \cup {None}],
           Held(file', work.history, checkpoint'),
           scenario \cap {"panic", "nolocks", "drawings"} = {} /\ file'.ckptId # None =>
               \/ is_dirty /\ file'.lock = Own(file)
               \/ file.ckptId # None /\ file'.lock = file.lock
    PROVE  Inv'
<1> USE NoLocksSame
<1>1. /\ TypeOK /\ Shape(file) /\ OnDisk /\ Branch /\ Kept
  BY DEF Inv
<1>2. /\ Consent' /\ is_dirty' = is_dirty
      /\ UNCHANGED <<work, unsaved, disk, save, guard, drawings, agreed>>
      /\ close' \in [event : BOOLEAN, sent : BOOLEAN, cancelled : BOOLEAN]
      /\ ui' \in {"idle", "closed"}
  BY FrameEnd
<1>3. TypeOK'
  BY <1>1, <1>2 DEF TypeOK
<1>4. Shape(file)' /\ Held(file, work.history, checkpoint)'
  BY <1>2 DEF Shape, Held
<1>5. ~native_save_is_writing /\ ~native_save_is_writing'
  BY <1>2 DEF native_save_is_writing
<1>6. OwnWrite' /\ Writes'
  BY <1>2, <1>5 DEF OwnWrite, Writes, Published
<1>7. OnDisk' /\ Kept'
  BY <1>1, <1>2, <1>5 DEF OnDisk, Kept, Published, Alike
<1>8. Branch'
  <2>1. Own(file') = Own(file)
    BY AlikeFacts
  <2> QED
    BY <1>1, <1>2, <1>5, <2>1 DEF Branch
<1> QED
  BY <1>2, <1>3, <1>4, <1>6, <1>7, <1>8 DEF Inv

\* A frame that has nothing to write keeps the invariant.
LEMMA RefreshNothingOK ==
    ASSUME Inv, UNCHANGED scenario, refresh_work_recovery_checkpoint, UNCHANGED <<file, checkpoint>>
    PROVE  Inv'
<1> USE NoLocksSame
<1>1. /\ TypeOK /\ Shape(file) /\ Held(file, work.history, checkpoint) /\ OwnWrite /\ Writes
      /\ OnDisk /\ Branch /\ Kept
  BY DEF Inv
<1>2. /\ Consent' /\ is_dirty' = is_dirty
      /\ UNCHANGED <<work, unsaved, disk, save, guard, drawings, agreed>>
      /\ close' \in [event : BOOLEAN, sent : BOOLEAN, cancelled : BOOLEAN]
      /\ ui' \in {"idle", "closed"}
  BY FrameEnd DEF Alike
<1>3. TypeOK'
  BY <1>1, <1>2 DEF TypeOK
<1>4. Shape(file)' /\ Held(file, work.history, checkpoint)'
  BY <1>1, <1>2 DEF Shape, Held, Own
<1>5. native_save_is_writing' = native_save_is_writing /\ Published' = Published
  BY <1>2 DEF native_save_is_writing, Published
<1>6. OwnWrite' /\ Writes' /\ OnDisk' /\ Branch' /\ Kept'
  BY <1>1, <1>2, <1>5 DEF OwnWrite, Writes, OnDisk, Branch, Kept, Own
<1> QED
  BY <1>2, <1>3, <1>4, <1>6 DEF Inv

Bare(f) ==
    [f EXCEPT !.cleanup = None, !.lock = None, !.ckptId = None, !.ckptDigest = None]

\* A frame of a window that is not dirty keeps the invariant: its checkpoint may go.
LEMMA RefreshCleanOK ==
    ASSUME Inv, UNCHANGED scenario, refresh_work_recovery_checkpoint, refresh_clean
    PROVE  Inv'
<1>1. TypeOK /\ Shape(file) /\ Held(file, work.history, checkpoint)
  BY DEF Inv
<1>2. PICK c : c = Retried(checkpoint)
  OBVIOUS
<1>3. /\ save = None /\ ~is_dirty /\ file' = Bare(file)
      /\ checkpoint' = IF file.path # None /\ ~file.off
                       THEN Cleared(c, file.path, file.ckptId) ELSE c
  BY <1>2 DEF refresh_clean, Bare
<1>4. /\ file \in File /\ file.path \in Paths \cup {None}
      /\ c \in [Paths -> Checkpoint \cup {None}]
  BY <1>1, <1>2, TypeFacts, FileFacts, RetriedFacts
<1>5. checkpoint' \in [Paths -> Checkpoint \cup {None}]
  BY <1>3, <1>4, ClearedFacts
<1>6. /\ file' \in File /\ Alike(file', file) /\ file'.ckptId = None /\ file'.lock = None
      /\ file'.cleanup = None /\ file'.off = file.off
  BY <1>3, <1>4 DEF Bare, File, Alike
<1>7. Own(file') = Own(file)
  BY <1>6, AlikeFacts
<1>8. file.requested = None /\ work.history = file.saved
  BY <1>3 DEF is_dirty, IsDirty
<1>9. Shape(file') /\ Held(file', work.history, checkpoint')
  BY <1>1, <1>6, <1>7, <1>8 DEF Shape, Held, Alike
<1> QED
  BY <1>3, <1>5, <1>6, <1>9, RefreshStep

\* A frame of a dirty window keeps the invariant: its checkpoint is the work on screen.
LEMMA RefreshDirtyOK ==
    ASSUME Inv, UNCHANGED scenario, refresh_work_recovery_checkpoint, refresh_dirty
    PROVE  Inv'
<1>1. TypeOK /\ Shape(file) /\ Held(file, work.history, checkpoint) /\ Branch
  BY DEF Inv
<1>2. PICK k, f, c, t, id :
          /\ k = WithoutCleanup(file) /\ f = Locked(k) /\ c = Retried(checkpoint)
          /\ t = checkpoint_target(f) /\ id = Made(t, work)
  OBVIOUS
<1>3. /\ save = None /\ is_dirty
      /\ \/ file' = k /\ checkpoint' = c
         \/ file' = f /\ checkpoint' = c
         \/ /\ t # None /\ c[t.path] = f.ckptId
            /\ checkpoint' = Put(c, t.path, id) /\ file' = Checkpointed(f, id, work.history)
         \/ file' = Unlocked(f) /\ checkpoint' = c
  BY <1>2 DEF refresh_dirty, WithoutCleanup, Made, Put, Checkpointed, Unlocked
<1>4. /\ k \in File /\ Shape(k) /\ Alike(k, file) /\ k.ckptId = file.ckptId
      /\ k.lock = file.lock /\ work \in Work
      /\ c \in [Paths -> Checkpoint \cup {None}] /\ Held(k, work.history, c)
  BY <1>1, <1>2, TypeFacts, WithoutCleanupFacts, RetriedFacts
<1>5. /\ f \in File /\ Shape(f) /\ Alike(f, k) /\ f.ckptId = k.ckptId
      /\ f.ckptDigest = k.ckptDigest /\ f.cleanup = k.cleanup
      /\ t # None => f.lock = Own(f) /\ f.lock \in Paths \ NoLocks
      /\ k.lock # None => f.lock = k.lock
  BY <1>1, <1>2, <1>4, LockedFacts
<1>6. Alike(f, file)
  BY <1>4, <1>5 DEF Alike
<1>7. Own(f) = Own(k) /\ Own(f) = Own(file)
  BY <1>5, <1>6, AlikeFacts
<1>8. Held(f, work.history, c)
  BY <1>4, <1>5, <1>7 DEF Held, Alike
<1>9. scenario \cap {"panic", "nolocks", "drawings"} = {} /\ file.ckptId # None =>
          file.lock = Own(file) /\ file.lock # None
  BY <1>1, <1>3 DEF Branch, Shape, native_save_is_writing
<1>10. CASE file' = k /\ checkpoint' = c
  BY <1>3, <1>4, <1>10, RefreshStep
<1>11. CASE file' = f /\ checkpoint' = c
  BY <1>3, <1>4, <1>5, <1>6, <1>8, <1>9, <1>11, RefreshStep
<1>12. CASE /\ t # None /\ c[t.path] = f.ckptId
            /\ checkpoint' = Put(c, t.path, id) /\ file' = Checkpointed(f, id, work.history)
  <2>1. Own(f) \notin NoLocks
    BY <1>5, <1>12
  <2>2. /\ file' \in File /\ Shape(file') /\ Held(file', work.history, checkpoint')
        /\ Alike(file', f) /\ file'.lock = f.lock
        /\ checkpoint' \in [Paths -> Checkpoint \cup {None}]
    BY <1>1, <1>2, <1>4, <1>5, <1>8, <1>12, <2>1, WriteHeld
  <2>3. Alike(file', file)
    BY <1>6, <2>2 DEF Alike
  <2> QED
    BY <1>3, <1>5, <1>7, <1>12, <2>2, <2>3, RefreshStep
<1>13. CASE file' = Unlocked(f) /\ checkpoint' = c
  <2>1. /\ file' \in File /\ Alike(file', f) /\ Shape(file') /\ file'.ckptId = f.ckptId
        /\ Held(file', work.history, c)
        /\ f.ckptId # None => file' = f
    BY <1>5, <1>8, <1>13, UnlockedFacts
  <2>2. Alike(file', file)
    BY <1>6, <2>1 DEF Alike
  <2> QED
    BY <1>3, <1>4, <1>5, <1>9, <1>13, <2>1, <2>2, RefreshStep
<1> QED
  BY <1>3, <1>10, <1>11, <1>12, <1>13

\* The end of a frame keeps the invariant (refresh_work_recovery_checkpoint).
LEMMA RefreshOK ==
    ASSUME Inv, UNCHANGED scenario, refresh_work_recovery_checkpoint PROVE Inv'
BY RefreshNothingOK, RefreshCleanOK, RefreshDirtyOK
   DEF refresh_work_recovery_checkpoint, refresh_nothing

------------------------------------------------------------------------------
(* The theorems *)

\* The invariant holds when the window opens.
LEMMA InitOK == ASSUME Init PROVE Inv
<1>1. /\ scenario \in Scenarios /\ unsaved = FALSE /\ save = None /\ guard = NoGuard
      /\ drawings = None /\ close = NoClose /\ ui = "idle" /\ agreed = None
  BY DEF Init
<1>2. PICK second : second = [First EXCEPT !.history = 1]
  OBVIOUS
<1>3. /\ First \in Work /\ First.history = 0 /\ First.settings = 0 /\ First # None
      /\ second \in Work /\ second.history = 1
  BY <1>2, ConstantAssumption DEF First, Work, Histories, Settings
<1>4. /\ 0 \in Histories /\ 1 \in Histories /\ None \notin Paths /\ Targets \subseteq Paths
      /\ NoLocks \subseteq Paths
  BY ConstantAssumption DEF Histories, Targets, NoLocks
<1>5. NewFile \in File
  BY <1>4 DEF NewFile, File
<1>6. ASSUME work \in Work, file \in File, Shape(file), Held(file, work.history, checkpoint),
             disk \in [Paths -> Work \cup {Absent, Foreign}],
             checkpoint \in [Paths -> Checkpoint \cup {None}],
             file.path # None => disk[file.path] = file.identity /\ file.identity = work,
             file.ckptId # None => file.requested # None /\ file.lock = Own(file)
      PROVE  Inv
  <2>1. TypeOK
    BY <1>1, <1>6, NoGuardFacts DEF TypeOK, NoClose
  <2>2. ~native_save_is_writing
    BY <1>1 DEF native_save_is_writing
  <2>3. OwnWrite /\ Writes /\ OnDisk /\ Kept
    BY <1>1, <1>6, <2>2 DEF OwnWrite, Writes, OnDisk, Kept, Published
  <2>4. Branch
    BY <1>6, <2>2 DEF Branch, is_dirty, IsDirty
  <2>5. Consent
    BY <1>1, NoGuardFacts DEF Consent
  <2> QED
    BY <1>6, <2>1, <2>3, <2>4, <2>5 DEF Inv
<1>7. CASE InitNew
  <2>1. /\ work = First /\ file = NewFile /\ disk = [p \in Paths |-> Absent]
        /\ checkpoint = [p \in Paths |-> None]
    BY <1>7 DEF InitNew
  <2>2. Shape(file) /\ Held(file, work.history, checkpoint)
    BY <2>1 DEF Shape, Held, Own, NewFile
  <2> QED
    BY <1>3, <1>5, <1>6, <2>1, <2>2 DEF NewFile
<1>8. ASSUME NEW p \in Targets, InitOpened(p) PROVE Inv
  <2>1. PICK off \in BOOLEAN : off = (p \in NoLocks)
    <3>1. (p \in NoLocks) \in BOOLEAN
      OBVIOUS
    <3> QED
      BY <3>1, Zenon
  <2>2. /\ work = First
        /\ file = [path |-> p, requested |-> None, base |-> None, identity |-> First,
                   saved |-> 0, lock |-> None, off |-> off, ckptId |-> None,
                   ckptDigest |-> None, cleanup |-> None]
        /\ disk = [q \in Paths |-> IF q = p THEN First ELSE Absent]
        /\ checkpoint = [q \in Paths |-> None]
    BY <1>8, <2>1 DEF InitOpened, NewFile
  <2>3. p \in Paths /\ p # None
    BY <1>4
  <2>4. file \in File
    BY <1>3, <1>4, <2>1, <2>2, <2>3 DEF File
  <2>5. Shape(file) /\ Held(file, work.history, checkpoint)
    BY <1>3, <2>1, <2>2, <2>3 DEF Shape, Held, Own
  <2> QED
    BY <1>3, <1>6, <2>2, <2>3, <2>4, <2>5
<1>9. ASSUME NEW p \in Targets, InitRecovered(p) PROVE Inv
  <2>1. PICK id : id = [base |-> First, work |-> second]
    OBVIOUS
  <2>2. id \in Checkpoint /\ id # None /\ id.work = second
    BY <1>3, <2>1, CheckpointFacts
  <2>3. /\ work = second /\ p \notin NoLocks
        /\ file = [path |-> None, requested |-> p, base |-> First, identity |-> None,
                   saved |-> 1, lock |-> p, off |-> FALSE, ckptId |-> id,
                   ckptDigest |-> None, cleanup |-> None]
        /\ disk = [q \in Paths |-> IF q = p THEN First ELSE Absent]
        /\ checkpoint = [q \in Paths |-> IF q = p THEN id ELSE None]
    BY <1>2, <1>9, <2>1, <2>2 DEF InitRecovered, NewFile
  <2>4. p \in Paths /\ p # None
    BY <1>4
  <2>5. file \in File
    BY <1>3, <1>4, <2>2, <2>3, <2>4 DEF File
  <2>6. Shape(file) /\ Held(file, work.history, checkpoint)
    BY <1>3, <2>2, <2>3, <2>4 DEF Shape, Held, Own
  <2> QED
    BY <1>3, <1>6, <2>2, <2>3, <2>4, <2>5, <2>6 DEF Own
<1> QED
  BY <1>7, <1>8, <1>9 DEF Init

\* Every step keeps the invariant.
LEMMA NextOK == ASSUME Inv, [Next]_vars PROVE Inv'
<1>1. CASE UNCHANGED vars
  <2>1. /\ UNCHANGED <<work, unsaved, file, disk, checkpoint, save>>
        /\ UNCHANGED <<guard, drawings, close, ui, agreed, scenario>>
    BY <1>1 DEF vars
  <2>2. Shape(file)' /\ Held(file, work.history, checkpoint)'
    BY <2>1, NoLocksSame DEF Inv, Shape, Held, Own
  <2>3. TypeOK'
    BY <2>1 DEF Inv, TypeOK
  <2>4. /\ native_save_is_writing' = native_save_is_writing /\ Published' = Published
        /\ is_dirty' = is_dirty
    BY <2>1 DEF native_save_is_writing, Published, is_dirty, IsDirty
  <2>5. OwnWrite' /\ Writes' /\ OnDisk'
    BY <2>1, <2>4, NoLocksSame DEF Inv, OwnWrite, Writes, OnDisk, Own
  <2>6. Branch' /\ Kept' /\ Consent'
    BY <2>1, <2>4 DEF Inv, Branch, Kept, Consent, Own
  <2> QED
    BY <2>2, <2>3, <2>5, <2>6 DEF Inv
<1>2. CASE Next
  BY <1>2, EditOK, StoreOK, EndExportOK, RequestCloseOK, OutsideOK, LiveSaveOK, ThreadOK,
     ActivityOK, GuardOK, RefreshOK DEF Next
<1> QED
  BY <1>1, <1>2

\* The invariant always holds.
LEMMA Invariance == Spec => []Inv
<1>1. Init => Inv
  BY InitOK
<1>2. Inv /\ [Next]_vars => Inv'
  BY NextOK
<1> QED
  BY <1>1, <1>2, PTL DEF Spec

\* Every part of the window, its save and its guard keep their types.
THEOREM TypeCorrect == Spec => []TypeOK
<1>1. Inv => TypeOK
  BY DEF Inv
<1> QED
  BY <1>1, Invariance, PTL

\* An edit the window shows is on disk, in its file or in a checkpoint of it, wherever locks
\* can be taken, whatever is being saved, fails or is written from outside meanwhile
\* (mutate_document_with_work_recovery, poll_native_save, refresh_work_recovery_checkpoint).
THEOREM EditsReachDisk == Spec => []EditsOnDisk
<1>1. ASSUME Inv PROVE EditsOnDisk
  <2>1. /\ TypeOK /\ Shape(file) /\ Held(file, work.history, checkpoint) /\ OwnWrite /\ Writes
        /\ OnDisk
    BY <1>1 DEF Inv
  <2>2. PICK t : t = checkpoint_target(file)
    OBVIOUS
  <2>3. SUFFICES ASSUME t # None, t.path \notin NoLocks, disk[t.path] # Foreign
                 PROVE  \/ /\ checkpoint[t.path] # None
                           /\ checkpoint[t.path].work.history = work.history
                        \/ disk[t.path] # Absent /\ disk[t.path].history = work.history
    BY <2>2 DEF EditsOnDisk
  <2>4. file \in File /\ Own(file) # None /\ t.path = Own(file)
    BY <2>1, <2>2, <2>3, TypeFacts, TargetFacts
  <2>5. CASE file.ckptId # None
    BY <2>1, <2>4, <2>5 DEF Held
  <2>6. CASE file.ckptId = None
    <3>1. file.path # None /\ Own(file) = file.path
      BY <2>1, <2>4, <2>6 DEF Shape, Own
    <3>2. work.history = file.saved /\ file.saved = file.identity.history
      BY <2>1, <2>3, <2>4, <2>6, <3>1 DEF Held, Shape
    <3>3. file.identity \in Work /\ file.identity # Absent
      BY <2>1, <2>4, <3>1, FileFacts, WorkFacts DEF Shape
    <3>4. CASE disk[file.path] \in {file.identity, Foreign}
      BY <2>3, <2>4, <3>1, <3>2, <3>3, <3>4
    <3>5. CASE Published /\ save.path = file.path
      <4>1. save.source.work \in Work /\ save.source.work # Absent
        BY <2>1, <3>5, TypeFacts, SaveFacts, WorkFacts DEF Published, native_save_is_writing
      <4>2. save.source.work.history = work.history
        BY <2>1, <2>3, <2>4, <3>1, <3>5 DEF OwnWrite, Published
      <4>3. disk[file.path] = save.source.work
        BY <2>1, <2>3, <2>4, <3>1, <3>5 DEF Writes
      <4> QED
        BY <2>4, <3>1, <4>1, <4>2, <4>3
    <3> QED
      BY <2>1, <3>1, <3>4, <3>5 DEF OnDisk
  <2> QED
    BY <2>5, <2>6
<1> QED
  BY <1>1, Invariance, PTL

\* A window that shows nothing unsaved has its whole work in its file, but for a write not yet
\* polled and for what other programs put there (finish_document_save, poll_native_save).
THEOREM CleanIsSaved == Spec => []CleanMeansSaved
<1>1. ASSUME Inv PROVE CleanMeansSaved
  <2>1. TypeOK /\ Shape(file) /\ OnDisk /\ Kept
    BY <1>1 DEF Inv
  <2>2. SUFFICES ASSUME "drawings" \notin scenario, file.path # None, ~is_dirty,
                        ~(native_save_is_writing /\ save.path = file.path)
                 PROVE  disk[file.path] \in {work, Foreign}
    BY DEF CleanMeansSaved
  <2>3. work.history = file.saved /\ ~unsaved
    BY <2>2 DEF is_dirty, IsDirty
  <2>4. file.identity \in Work /\ work \in Work /\ file.saved = file.identity.history
    BY <2>1, <2>2, TypeFacts, FileFacts DEF Shape
  <2>5. file.identity.settings = work.settings
    BY <2>1, <2>2, <2>3 DEF Kept
  <2>6. file.identity = work
    BY <2>3, <2>4, <2>5, WorkFacts
  <2> QED
    BY <2>1, <2>2, <2>6 DEF OnDisk, Published
<1> QED
  BY <1>1, Invariance, PTL

\* As long as the window answers for a checkpoint, it or the thread that saves for it has the
\* lock of it (acquire_work_recovery_lock, start_prepared_write, poll_native_save).
THEOREM BranchIsOwned == Spec => []OwnsRecoveryBranch
<1>1. ASSUME Inv PROVE OwnsRecoveryBranch
  BY <1>1 DEF Inv, Branch, OwnsRecoveryBranch, native_save_is_writing
<1> QED
  BY <1>1, Invariance, PTL

\* A closed window lost no edit the user was not asked about (show_close_guard).
THEOREM ClosingIsSafe == Spec => []ClosingLosesNoEdit
<1>1. ASSUME Inv PROVE ClosingLosesNoEdit
  <2>1. TypeOK /\ Shape(file) /\ OnDisk /\ Consent
    BY <1>1 DEF Inv
  <2>2. SUFFICES ASSUME ui = "closed", ~(agreed # None /\ agreed.history = work.history)
                 PROVE  \/ file.path # None /\ disk[file.path] = Foreign
                        \/ file.path # None /\ disk[file.path].history = work.history
                        \/ file.path = None /\ file.requested = None /\ work.history = 0
    BY DEF ClosingLosesNoEdit
  <2>3. ~native_save_is_writing /\ file.requested = None /\ work.history = file.saved
    BY <2>1, <2>2 DEF Consent, is_dirty, IsDirty
  <2> QED
    BY <2>1, <2>3 DEF Shape, OnDisk, Published, Own
<1> QED
  BY <1>1, Invariance, PTL

=============================================================================
