----------------------- MODULE DocumentSessionProofs -----------------------
(***************************************************************************)
(* What DocumentSession promises for any number of sessions, files and     *)
(* revisions.                                                              *)
(*                                                                         *)
(* The argument: a session that relies on a checkpoint holds the lock of   *)
(* its file, and a lock is held only for that or for a save, so nobody     *)
(* else writes there.  Its checkpoint holds the document the session shows *)
(* and is made from the file the session knows, so removing it, at the     *)
(* saved state or after a save, removes nothing that opening would miss.   *)
(***************************************************************************)
EXTENDS DocumentSession, SequenceTheorems, TLAPS

------------------------------------------------------------------------------
(* The inductive invariant *)

DocOK(d) == d \in Doc /\ d.at <= Len(d.trail) /\ Len(d.trail) <= made

Types ==
    /\ TypeOK
    /\ scenario \in Scenarios
    /\ \A s \in Live : s \in scenario.sessions /\ DocOK(session[s].doc)
    /\ \A p \in Paths : checkpoint[p] # None => DocOK(checkpoint[p].work)

\* The parts of a session agree.
Coherent(x) ==
    /\ x.path # None => /\ x.requested = None /\ x.fileId # None
                        /\ x.saved # None /\ x.saved # <<>> /\ x.saved[Len(x.saved)] = x.fileId
                        /\ x.checkpointId = None => x.saved = history_digest(x.doc)
    /\ x.requested # None /\ x.base # None => x.checkpointId # None
    /\ x.checkpointId # None =>
          /\ checkpoint_target(x) # None
          /\ x.checkpointId.work = x.doc
          /\ x.checkpointId.base = checkpoint_target(x).base
    /\ x.pending # None =>
          /\ "clear" \in scenario.faults
          /\ x.path # None /\ x.saved = history_digest(x.pending.id.work)

\* What a lock is held for.
LocksOK ==
    /\ \A p \in Paths : lock[p] # None =>
          /\ lock[p] \in Live
          /\ p = saving[lock[p]]
             \/ (session[lock[p]].checkpointId # None /\ p = Owned(session[lock[p]]))
    /\ \A s \in Sessions : saving[s] # None => s \in Live /\ lock[saving[s]] = s

OwnerInv == Types /\ (\A s \in Live : Coherent(session[s])) /\ LocksOK /\ CheckpointIsOwn

\* The file a session's checkpoint was made from is there while it counts.
Based(s) ==
    LET x == session[s] IN
    saving[s] = None /\ x.checkpointId # None /\ latest[Owned(x)] # None =>
        file[Owned(x)] = x.checkpointId.base

\* A session that published and has not settled.
SavingOK(s) ==
    LET x == session[s]
        p == saving[s] IN
    p # None =>
        /\ latest[p] # None => latest[p] = Current(x.doc) /\ file[p] = latest[p]
        /\ x.checkpointId # None =>
              /\ Owned(x) # p => latest[Owned(x)] = None
              /\ Current(x.doc) \notin unsaved[Owned(x)]

\* A checkpoint whose removal is pending is no longer needed.
PendingOK(s) ==
    LET x == session[s]
        p == x.pending.path IN
    x.pending # None /\ checkpoint[p] = x.pending.id =>
        /\ Current(x.pending.id.work) \notin unsaved[p]
        /\ latest[p] # None => latest[p] = file[p]

\* What opening the file at p finds, and where its acknowledged work is.
PathOK(p) ==
    /\ latest[p] # None => /\ file[p] \in Revisions
                           /\ Usable(p) => Current(checkpoint[p].work) = latest[p]
                           /\ ~Usable(p) => file[p] = latest[p]
    /\ \A r \in unsaved[p] : \/ checkpoint[p] # None /\ Current(checkpoint[p].work) = r
                             \/ r \in aside[p]

WorkInv ==
    /\ OwnerInv
    /\ \A p \in Paths : PathOK(p)
    /\ \A s \in Live : Based(s) /\ SavingOK(s) /\ PendingOK(s)
    /\ "clear" \in scenario.faults => \A s, t \in scenario.sessions : s = t

------------------------------------------------------------------------------
(* Documents and sessions *)

\* None and the two marks of a file are no value of any other kind; the empty document is a revision.
LEMMA NoneFacts ==
    /\ None \notin Sessions /\ None \notin Paths /\ None \notin Revisions
    /\ None \notin Session /\ None \notin Checkpoint /\ None \notin Seq(Revisions)
    /\ None \notin [path : Paths, id : Checkpoint]
    /\ None \notin [path : Paths, base : Revisions]
    /\ Absent \notin Revisions /\ Damaged \notin Revisions
    /\ Empty \in Revisions
<1>1. Empty \in Revisions
  BY ConstantAssumption DEF Empty, Revisions
<1> QED
  BY <1>1, ConstantAssumption

\* The digest of a document ends with its current revision.
LEMMA Digest ==
    ASSUME NEW d \in Doc, d.at <= Len(d.trail)
    PROVE  /\ Current(d) \in Revisions
           /\ history_digest(d) \in Seq(Revisions) /\ history_digest(d) # None
           /\ Len(history_digest(d)) = d.at
           /\ history_digest(d) # <<>>
           /\ history_digest(d)[Len(history_digest(d))] = Current(d)
<1>1. d.trail \in Seq(Revisions) /\ d.at \in Nat /\ d.at >= 1 /\ Len(d.trail) \in Nat
  BY DEF Doc, Revisions
<1>2. d.at \in 1..Len(d.trail)
  BY <1>1
<1>3. Current(d) \in Revisions
  BY <1>1, <1>2 DEF Current
<1>4. /\ SubSeq(d.trail, 1, d.at) \in Seq(Revisions)
      /\ Len(SubSeq(d.trail, 1, d.at)) = d.at
      /\ SubSeq(d.trail, 1, d.at)[d.at] = d.trail[d.at]
  BY <1>1, <1>2, SubSeqProperties
<1>5. SubSeq(d.trail, 1, d.at) # <<>>
  BY <1>1, <1>4
<1> QED
  BY <1>3, <1>4, <1>5, NoneFacts DEF history_digest, Current

\* A document read from a file has one revision, and its cursor is on it (from_file).
LEMMA FromFileFacts ==
    ASSUME NEW r \in Revisions
    PROVE  /\ FromFile(r) \in Doc /\ Current(FromFile(r)) = r
           /\ FromFile(r).at = 1 /\ Len(FromFile(r).trail) = 1
           /\ FromFile(r).at <= Len(FromFile(r).trail)
<1>1. 1 \in Revisions
  BY NoneFacts DEF Empty
<1>2. <<r>> \in Seq(Revisions)
  OBVIOUS
<1> QED
  BY <1>1, <1>2 DEF FromFile, Doc, Current

\* A session with another document and another checkpoint.
With(x, d, c) == [x EXCEPT !.doc = d, !.checkpointId = c]

\* A session given another document and checkpoint keeps every other field.
LEMMA WithFacts ==
    ASSUME NEW x \in Session, NEW d \in Doc, NEW c \in Checkpoint \cup {None}, NEW y,
           y = With(x, d, c)
    PROVE  /\ y \in Session /\ y # None
           /\ y.doc = d /\ y.checkpointId = c /\ y.path = x.path /\ y.requested = x.requested
           /\ y.base = x.base /\ y.fileId = x.fileId /\ y.pending = x.pending
           /\ y.saved = x.saved
           /\ Owned(y) = Owned(x) /\ checkpoint_target(y) = checkpoint_target(x)
<1>1. /\ y.doc = d /\ y.checkpointId = c /\ y.path = x.path /\ y.requested = x.requested
      /\ y.base = x.base /\ y.fileId = x.fileId /\ y.pending = x.pending
      /\ y.saved = x.saved
  BY DEF Session, With
<1>2. y \in Session
  BY DEF Session, With
<1>3. Owned(y) = Owned(x) /\ checkpoint_target(y) = checkpoint_target(x)
  BY <1>1 DEF Owned, checkpoint_target
<1> QED
  BY <1>1, <1>2, <1>3, NoneFacts

\* A session that has just opened, and the one a save leaves.
LEMMA FreshFacts ==
    ASSUME NEW d \in Doc, d.at <= Len(d.trail)
    PROVE  LET y == Fresh(d) IN
           /\ y \in Session
           /\ y.doc = d /\ y.path = None /\ y.requested = None /\ y.base = None
           /\ y.fileId = None /\ y.checkpointId = None /\ y.pending = None
           /\ y.saved = history_digest(d)
BY Digest DEF Fresh, Session

\* What a coherent session's checkpoint goes to.
LEMMA TargetFacts ==
    ASSUME NEW x \in Session, Coherent(x), checkpoint_target(x) # None
    PROVE  /\ checkpoint_target(x).path = Owned(x) /\ Owned(x) \in Paths
           /\ checkpoint_target(x).base \in Revisions
           /\ x.path # None => checkpoint_target(x).base = x.fileId
           /\ x.path = None => x.requested # None /\ x.base # None /\ x.checkpointId # None
<1>1. /\ x.path \in Paths \cup {None} /\ x.requested \in Paths \cup {None}
      /\ x.base \in Revisions \cup {None} /\ x.fileId \in Revisions \cup {None}
  BY DEF Session
<1>2. CASE x.path # None
  BY <1>1, <1>2, NoneFacts DEF Coherent, checkpoint_target, Owned
<1>3. CASE x.path = None
  BY <1>1, <1>3, NoneFacts DEF Coherent, checkpoint_target, Owned
<1> QED
  BY <1>2, <1>3

------------------------------------------------------------------------------
(* Ownership *)

\* A step of the session s keeps the invariant when it leaves the files that others have
\* locked alone and what s itself relies on is in order.
LEMMA OwnerStep ==
    ASSUME OwnerInv, Types', NEW s \in Sessions, NEW x, UNCHANGED scenario,
           Update(s, x),
           \A t \in Sessions \ {s} : saving'[t] = saving[t],
           \A p \in Paths : lock'[p] = lock[p] \/ (lock[p] \in {None, s} /\ lock'[p] \in {None, s}),
           \A p \in Paths : checkpoint'[p] \in {checkpoint[p], None} \/ lock[p] \in {None, s},
           x # None => Coherent(x),
           \A p \in Paths : lock'[p] = s =>
               x # None /\ (p = saving'[s] \/ (x.checkpointId # None /\ p = Owned(x))),
           saving'[s] # None => x # None /\ lock'[saving'[s]] = s,
           x # None /\ x.checkpointId # None =>
               lock'[Owned(x)] = s /\ checkpoint'[Owned(x)] \in {x.checkpointId, None}
    PROVE  OwnerInv'
<1>1. /\ session \in [Sessions -> Session \cup {None}] /\ lock \in [Paths -> Sessions \cup {None}]
      /\ saving \in [Sessions -> Paths \cup {None}]
      /\ lock' \in [Paths -> Sessions \cup {None}]
  BY DEF OwnerInv, Types, TypeOK
<1>2. session'[s] = x /\ \A t \in Sessions : t # s => session'[t] = session[t]
  BY <1>1 DEF Update
<1>3. \A t \in Sessions : t # s => (t \in Live' <=> t \in Live)
  BY <1>2 DEF Live
<1>4. s \in Live' <=> x # None
  BY <1>2 DEF Live
<1>5. ASSUME NEW t \in Live' PROVE Coherent(session[t])'
  <2>1. CASE t = s
    BY <1>2, <1>4, <1>5, <2>1 DEF Coherent, checkpoint_target, history_digest
  <2>2. CASE t # s
    <3>1. t \in Live /\ session'[t] = session[t] /\ Coherent(session[t])
      BY <1>2, <1>3, <1>5, <2>2 DEF OwnerInv, Live
    <3> QED
      BY <3>1 DEF Coherent, checkpoint_target, history_digest
  <2> QED BY <2>1, <2>2
<1>6. ASSUME NEW t \in Live, t # s, session[t].checkpointId # None
      PROVE  /\ Owned(session[t]) \in Paths /\ lock[Owned(session[t])] = t
             /\ checkpoint[Owned(session[t])] \in {session[t].checkpointId, None}
  <2>1. session[t] \in Session /\ Coherent(session[t]) /\ checkpoint_target(session[t]) # None
    BY <1>1, <1>6 DEF Live, OwnerInv, Coherent
  <2> QED
    BY <1>6, <2>1, TargetFacts DEF OwnerInv, CheckpointIsOwn
<1>7. LocksOK'
  <2>1. ASSUME NEW p \in Paths, lock'[p] # None
        PROVE  /\ lock'[p] \in Live'
               /\ p = saving'[lock'[p]]
                  \/ (session'[lock'[p]].checkpointId # None /\ p = Owned(session'[lock'[p]]))
    <3>1. CASE lock'[p] = s
      BY <1>2, <1>4, <3>1
    <3>2. CASE lock'[p] # s
      <4>1. lock'[p] = lock[p] /\ lock[p] # None /\ lock[p] \in Sessions
        BY <1>1, <2>1, <3>2
      <4>2. /\ lock[p] \in Live
            /\ p = saving[lock[p]]
               \/ (session[lock[p]].checkpointId # None /\ p = Owned(session[lock[p]]))
        BY <4>1 DEF OwnerInv, LocksOK
      <4> QED
        BY <1>2, <1>3, <3>2, <4>1, <4>2
    <3> QED BY <3>1, <3>2
  <2>2. ASSUME NEW t \in Sessions, saving'[t] # None
        PROVE  t \in Live' /\ lock'[saving'[t]] = t
    <3>1. CASE t = s
      BY <1>4, <2>2, <3>1
    <3>2. CASE t # s
      <4>1. saving'[t] = saving[t] /\ saving[t] \in Paths
        BY <1>1, <2>2, <3>2
      <4>2. t \in Live /\ lock[saving[t]] = t
        BY <2>2, <4>1 DEF OwnerInv, LocksOK
      <4> QED
        BY <1>3, <3>2, <4>1, <4>2, NoneFacts
    <3> QED BY <3>1, <3>2
  <2> QED
    BY <2>1, <2>2 DEF LocksOK, Owned
<1>8. CheckpointIsOwn'
  <2> SUFFICES ASSUME NEW t \in Live', session'[t].checkpointId # None
               PROVE  /\ lock'[Owned(session'[t])] = t
                      /\ checkpoint'[Owned(session'[t])] \in {session'[t].checkpointId, None}
    BY DEF CheckpointIsOwn, Owned
  <2>1. CASE t = s
    BY <1>2, <1>4, <2>1
  <2>2. CASE t # s
    <3>1. t \in Live /\ session'[t] = session[t] /\ t \in Sessions
      BY <1>2, <1>3, <2>2 DEF Live
    <3> QED
      BY <1>6, <2>2, <3>1, NoneFacts
  <2> QED BY <2>1, <2>2
<1> QED
  BY <1>5, <1>7, <1>8 DEF OwnerInv

\* The types after a step of the session s.
LEMMA TypesStep ==
    ASSUME Types, NEW s \in Sessions, NEW x \in Session \cup {None}, UNCHANGED scenario,
           Update(s, x),
           made' \in Revisions, made <= made',
           x # None => /\ s \in scenario.sessions /\ x.doc.at <= Len(x.doc.trail)
                       /\ Len(x.doc.trail) <= made',
           file' \in [Paths -> Revisions \cup {Absent, Damaged}],
           backup' \in [Paths -> Revisions \cup {Absent}],
           checkpoint' \in [Paths -> Checkpoint \cup {None}],
           \A p \in Paths : \/ checkpoint'[p] \in {checkpoint[p], None}
                            \/ /\ checkpoint'[p].work.at <= Len(checkpoint'[p].work.trail)
                               /\ Len(checkpoint'[p].work.trail) <= made',
           aside' \in [Paths -> SUBSET Revisions],
           lock' \in [Paths -> Sessions \cup {None}],
           saving' \in [Sessions -> Paths \cup {None}],
           unsaved' \in [Paths -> SUBSET Revisions],
           latest' \in [Paths -> Revisions \cup {None}]
    PROVE  Types'
<1>1. session \in [Sessions -> Session \cup {None}] /\ made \in Revisions
  BY DEF Types, TypeOK
<1>2. /\ session' \in [Sessions -> Session \cup {None}] /\ session'[s] = x
      /\ \A t \in Sessions : t # s => session'[t] = session[t]
  BY <1>1 DEF Update
<1>3. made \in Int /\ made' \in Int
  BY <1>1 DEF Revisions
<1>4. ASSUME NEW t \in Live'
      PROVE  /\ t \in scenario.sessions /\ session'[t] \in Session
             /\ session'[t].doc \in Doc /\ session'[t].doc.at <= Len(session'[t].doc.trail)
             /\ Len(session'[t].doc.trail) <= made'
  <2>1. session'[t] \in Session /\ session'[t].doc \in Doc /\ t \in Sessions
    BY <1>2, <1>4 DEF Live, Session
  <2>2. CASE t = s
    BY <1>2, <1>4, <2>1, <2>2 DEF Live
  <2>3. CASE t # s
    <3>1. session'[t] = session[t] /\ t \in Live
      BY <1>2, <1>4, <2>1, <2>3 DEF Live
    <3>2. t \in scenario.sessions /\ DocOK(session[t].doc)
      BY <3>1 DEF Types
    <3>3. Len(session[t].doc.trail) \in Int
      BY <2>1, <3>1 DEF Doc
    <3> QED
      BY <1>3, <2>1, <3>1, <3>2, <3>3 DEF DocOK
  <2> QED BY <2>2, <2>3
<1>5. ASSUME NEW p \in Paths, checkpoint'[p] # None
      PROVE  DocOK(checkpoint[p].work)'
  <2>1. checkpoint'[p].work \in Doc
    BY <1>5 DEF Checkpoint
  <2>2. CASE checkpoint'[p] = checkpoint[p]
    <3>1. DocOK(checkpoint[p].work)
      BY <1>5, <2>2 DEF Types
    <3>2. Len(checkpoint[p].work.trail) \in Int
      BY <2>1, <2>2 DEF Doc
    <3> QED
      BY <1>3, <2>1, <2>2, <3>1, <3>2 DEF DocOK
  <2>3. CASE /\ checkpoint'[p].work.at <= Len(checkpoint'[p].work.trail)
             /\ Len(checkpoint'[p].work.trail) <= made'
    BY <2>1, <2>3 DEF DocOK
  <2> QED
    BY <1>5, <2>2, <2>3
<1> QED
  BY <1>2, <1>4, <1>5 DEF Types, TypeOK, DocOK

\* The parts of the type invariant.
LEMMA TypeFacts ==
    ASSUME Types
    PROVE  /\ file \in [Paths -> Revisions \cup {Absent, Damaged}]
           /\ backup \in [Paths -> Revisions \cup {Absent}]
           /\ checkpoint \in [Paths -> Checkpoint \cup {None}]
           /\ aside \in [Paths -> SUBSET Revisions]
           /\ lock \in [Paths -> Sessions \cup {None}]
           /\ session \in [Sessions -> Session \cup {None}]
           /\ saving \in [Sessions -> Paths \cup {None}]
           /\ made \in Revisions /\ made <= made /\ made \in Int
           /\ unsaved \in [Paths -> SUBSET Revisions]
           /\ latest \in [Paths -> Revisions \cup {None}]
           /\ scenario.sessions \subseteq Sessions /\ scenario.paths \subseteq Paths
           /\ scenario.revisions \in Revisions /\ 1 <= made
           /\ \A s \in Live : /\ s \in Sessions /\ session[s] \in Session
                              /\ s \in scenario.sessions /\ session[s].doc \in Doc
                              /\ session[s].doc.at <= Len(session[s].doc.trail)
                              /\ Len(session[s].doc.trail) <= made
           /\ \A p \in Paths : checkpoint[p] # None =>
                 /\ checkpoint[p] \in Checkpoint
                 /\ checkpoint[p].work \in Doc
                 /\ checkpoint[p].work.at <= Len(checkpoint[p].work.trail)
                 /\ Len(checkpoint[p].work.trail) <= made
<1>1. /\ scenario.sessions \subseteq Sessions /\ scenario.paths \subseteq Paths
      /\ scenario.revisions \in Revisions
  BY ConstantAssumption DEF Types
<1>2. made \in Revisions /\ made <= made /\ made \in Int /\ 1 <= made
  BY DEF Types, TypeOK, Revisions
<1> QED
  BY <1>1, <1>2 DEF Types, TypeOK, DocOK, Live

\* A live session is coherent, and the checkpoint it names is in its own path, which it has locked.
LEMMA LiveFacts ==
    ASSUME OwnerInv, NEW s \in Live
    PROVE  /\ s \in Sessions /\ s # None /\ session[s] \in Session /\ session[s] # None
           /\ Coherent(session[s])
           /\ session = [session EXCEPT ![s] = session[s]]
           /\ session[s].checkpointId # None =>
                 /\ Owned(session[s]) \in Paths
                 /\ lock[Owned(session[s])] = s
                 /\ checkpoint[Owned(session[s])] \in {session[s].checkpointId, None}
<1>1. /\ s \in Sessions /\ session[s] \in Session /\ s # None /\ session[s] # None
      /\ session = [session EXCEPT ![s] = session[s]]
  BY TypeFacts, NoneFacts DEF OwnerInv, Live
<1>2. Coherent(session[s])
  BY DEF OwnerInv
<1>3. session[s].checkpointId # None => checkpoint_target(session[s]) # None
  BY <1>2 DEF Coherent
<1> QED
  BY <1>1, <1>2, <1>3, TargetFacts DEF OwnerInv, CheckpointIsOwn

\* A session that is not saving holds at most the lock of its own checkpoint.
LEMMA IdleFacts ==
    ASSUME OwnerInv, NEW s \in Idle
    PROVE  /\ s \in Live /\ saving[s] = None
           /\ \A p \in Paths : lock[p] = s =>
                 session[s].checkpointId # None /\ p = Owned(session[s])
           /\ \A p \in Paths : Holds(s) /\ p = Owned(session[s]) => lock[p] = s
<1>1. s \in Live /\ saving[s] = None /\ s # None
  BY LiveFacts DEF Idle
<1>2. \A p \in Paths : lock[p] = s => session[s].checkpointId # None /\ p = Owned(session[s])
  BY <1>1, NoneFacts DEF OwnerInv, LocksOK
<1> QED
  BY <1>1, <1>2 DEF Holds

\* Releasing the locks of a session clears its own and leaves the others.
LEMMA ReleasedFacts ==
    ASSUME Types, NEW s \in Sessions, lock' = Released(s)
    PROVE  /\ lock' \in [Paths -> Sessions \cup {None}]
           /\ \A p \in Paths : lock'[p] = IF lock[p] = s THEN None ELSE lock[p]
BY TypeFacts DEF Released

\* Removing a checkpoint removes the expected one or nothing.
LEMMA ClearFacts ==
    ASSUME Types, NEW p \in Paths, NEW e \in Checkpoint \cup {None}, clear_work_recovery(p, e)
    PROVE  /\ checkpoint' \in [Paths -> Checkpoint \cup {None}]
           /\ aside' = aside /\ aside' \in [Paths -> SUBSET Revisions]
           /\ \A q \in Paths : q # p => checkpoint'[q] = checkpoint[q]
           /\ checkpoint'[p] = IF e # None /\ checkpoint[p] = e THEN None ELSE checkpoint[p]
BY TypeFacts, NoneFacts DEF clear_work_recovery

\* One that could not be removed is where it was, or aside.
LEMMA ClearFailsFacts ==
    ASSUME Types, NEW p \in Paths, NEW e \in Checkpoint \cup {None},
           clear_work_recovery_fails(p, e)
    PROVE  /\ "clear" \in scenario.faults
           /\ checkpoint' \in [Paths -> Checkpoint \cup {None}]
           /\ aside' \in [Paths -> SUBSET Revisions]
           /\ \A q \in Paths : q # p => checkpoint'[q] = checkpoint[q] /\ aside'[q] = aside[q]
           /\ \/ checkpoint' = checkpoint /\ aside' = aside
              \/ /\ e # None /\ checkpoint[p] = e /\ checkpoint'[p] = None
                 /\ aside'[p] = aside[p] \cup {Current(e.work)}
<1>1. checkpoint \in [Paths -> Checkpoint \cup {None}] /\ aside \in [Paths -> SUBSET Revisions]
  BY TypeFacts
<1>2. CASE UNCHANGED <<checkpoint, aside>>
  BY <1>1, <1>2 DEF clear_work_recovery_fails
<1>3. CASE /\ e # None /\ checkpoint[p] = e
           /\ checkpoint' = [checkpoint EXCEPT ![p] = None]
           /\ aside' = [aside EXCEPT ![p] = @ \cup {Current(e.work)}]
  <2>1. Current(e.work) \in Revisions
    BY <1>3, TypeFacts, Digest
  <2>2. PICK r : r = Current(e.work)
    OBVIOUS
  <2>3. aside' = [aside EXCEPT ![p] = aside[p] \cup {r}] /\ r \in Revisions
    BY <1>3, <2>1, <2>2
  <2>4. /\ aside' \in [Paths -> SUBSET Revisions] /\ aside'[p] = aside[p] \cup {r}
        /\ \A q \in Paths : q # p => aside'[q] = aside[q]
    BY <1>1, <2>3
  <2>5. /\ checkpoint' \in [Paths -> Checkpoint \cup {None}] /\ checkpoint'[p] = None
        /\ \A q \in Paths : q # p => checkpoint'[q] = checkpoint[q]
    BY <1>1, <1>3
  <2> QED
    BY <1>3, <2>2, <2>4, <2>5 DEF clear_work_recovery_fails
<1> QED
  BY <1>2, <1>3 DEF clear_work_recovery_fails

------------------------------------------------------------------------------
(* Opening keeps ownership *)

\* A session opens on a file nobody has locked.
LEMMA StartOK ==
    ASSUME OwnerInv, UNCHANGED scenario, NEW s \in scenario.sessions, NEW x \in Session,
           Start(s, x), Coherent(x), UNCHANGED made,
           x.doc.at <= Len(x.doc.trail), Len(x.doc.trail) <= made,
           checkpoint' \in [Paths -> Checkpoint \cup {None}],
           aside' \in [Paths -> SUBSET Revisions],
           \A p \in Paths : \/ checkpoint'[p] = checkpoint[p]
                            \/ checkpoint'[p] = None /\ lock[p] = None,
           \/ x.checkpointId = None /\ UNCHANGED lock
           \/ /\ lock[Owned(x)] = None /\ Owned(x) \in Paths
              /\ lock' = [lock EXCEPT ![Owned(x)] = s]
              /\ x.checkpointId = checkpoint[Owned(x)] /\ checkpoint' = checkpoint
              /\ x.checkpointId # None
    PROVE  OwnerInv'
<1>1. s \in Sessions /\ session[s] = None /\ Types /\ s # None /\ x # None
  BY TypeFacts, NoneFacts DEF Start, OwnerInv
<1>2. /\ UNCHANGED <<file, backup, saving, unsaved, latest>>
      /\ Update(s, x)
  BY DEF Start, Update
<1>3. \A p \in Paths : lock[p] # s
  BY <1>1 DEF OwnerInv, LocksOK, Live
<1>4. saving[s] = None
  BY <1>1 DEF OwnerInv, LocksOK, Live
<1>5. lock' \in [Paths -> Sessions \cup {None}]
  BY <1>1, TypeFacts
<1>6. Types'
  BY <1>1, <1>2, <1>5, TypeFacts, TypesStep
<1>7. \A p \in Paths : lock'[p] = lock[p] \/ (lock[p] \in {None, s} /\ lock'[p] \in {None, s})
  BY <1>1, TypeFacts
<1>8. \A p \in Paths : lock'[p] = s => x.checkpointId # None /\ p = Owned(x)
  BY <1>1, <1>3, TypeFacts
<1>9. x.checkpointId # None => /\ lock'[Owned(x)] = s
                               /\ checkpoint'[Owned(x)] \in {x.checkpointId, None}
  BY <1>1, TypeFacts
<1> QED
  <2>1. \A t \in Sessions \ {s} : saving'[t] = saving[t]
    BY <1>2
  <2>2. \A p \in Paths : checkpoint'[p] \in {checkpoint[p], None} \/ lock[p] \in {None, s}
    OBVIOUS
  <2>3. \A p \in Paths : lock'[p] = s =>
            x # None /\ (p = saving'[s] \/ (x.checkpointId # None /\ p = Owned(x)))
    BY <1>1, <1>8
  <2>4. saving'[s] # None => x # None /\ lock'[saving'[s]] = s
    BY <1>2, <1>4
  <2> QED
    BY <1>1, <1>2, <1>6, <1>7, <1>9, <2>1, <2>2, <2>3, <2>4, OwnerStep

\* A session opened, from a checkpoint only if that was made from the file.
Opens(s) ==
    \E x \in Session :
        /\ Start(s, x) /\ x.pending = None
        /\ x.checkpointId # None => file[Owned(x)] = x.checkpointId.base

\* A session on a new document keeps the invariant (new).
LEMMA NewOK ==
    ASSUME OwnerInv, UNCHANGED scenario, NEW s \in scenario.sessions, new(s)
    PROVE  OwnerInv' /\ Opens(s)
<1>1. Types
  BY DEF OwnerInv
<1>2. PICK d : d = FromFile(Empty)
  OBVIOUS
<1>3. d \in Doc /\ d.at <= Len(d.trail) /\ Len(d.trail) = 1
  BY <1>2, FromFileFacts, NoneFacts
<1>4. PICK y : y = Fresh(d)
  OBVIOUS
<1>5. /\ y \in Session /\ y.doc = d /\ y.path = None /\ y.requested = None
      /\ y.checkpointId = None /\ y.pending = None
  BY <1>3, <1>4, FreshFacts
<1>6. PICK x : x = [y EXCEPT !.saved = None]
  OBVIOUS
<1>7. /\ x \in Session /\ x.doc = d /\ x.path = None /\ x.requested = None
      /\ x.checkpointId = None /\ x.pending = None
  BY <1>5, <1>6 DEF Session
<1>8. Coherent(x)
  BY <1>7 DEF Coherent
<1>9. Start(s, x) /\ UNCHANGED <<checkpoint, aside, lock, made>>
  BY <1>2, <1>4, <1>6 DEF new
<1>10. Len(d.trail) <= made
  BY <1>1, <1>3, TypeFacts
<1>11. OwnerInv'
  BY <1>1, <1>3, <1>7, <1>8, <1>9, <1>10, TypeFacts, StartOK
<1> QED
  BY <1>11, <1>7, <1>9 DEF Opens

\* Taking work back from a checkpoint keeps the invariant (open with a matching checkpoint).
LEMMA OpenCheckpointOK ==
    ASSUME OwnerInv, UNCHANGED scenario, NEW s \in scenario.sessions, NEW p \in Paths,
           open_checkpoint(s, p)
    PROVE  OwnerInv' /\ Opens(s)
<1>1. Types /\ lock[p] = None /\ file[p] \in Revisions
      /\ checkpoint[p] # None /\ checkpoint[p].base = file[p]
  BY DEF OwnerInv, open_checkpoint, Usable
<1>2. PICK d, c : c = checkpoint[p] /\ d = c.work
  OBVIOUS
<1>3. d \in Doc /\ d.at <= Len(d.trail) /\ Len(d.trail) <= made /\ c \in Checkpoint /\ c # None
  BY <1>1, <1>2, TypeFacts
<1>4. PICK y : y = Fresh(d)
  OBVIOUS
<1>5. /\ y \in Session /\ y.doc = d /\ y.path = None /\ y.pending = None
      /\ y.fileId = None
  BY <1>3, <1>4, FreshFacts
<1>6. PICK x : x = [y EXCEPT !.requested = p, !.base = file[p], !.checkpointId = c]
  OBVIOUS
<1>7. /\ x \in Session /\ x.doc = d /\ x.path = None /\ x.pending = None
      /\ x.requested = p /\ x.base = file[p] /\ x.checkpointId = c
  <2>1. x \in Session
    BY <1>1, <1>3, <1>5, <1>6 DEF Session
  <2> QED
    BY <1>5, <1>6, <2>1 DEF Session
<1>8. checkpoint_target(x) = [path |-> p, base |-> file[p]] /\ Owned(x) = p /\ x.base # None
      /\ checkpoint_target(x) # None
  <2>1. [path |-> p, base |-> file[p]] \in [path : Paths, base : Revisions]
    BY <1>1
  <2>2. x.base # None /\ x.requested # None
    BY <1>1, <1>7, NoneFacts
  <2> QED
    BY <1>7, <2>1, <2>2, NoneFacts DEF checkpoint_target, Owned
<1>9. Coherent(x)
  BY <1>1, <1>2, <1>3, <1>7, <1>8 DEF Coherent
<1>10. /\ Start(s, x) /\ lock' = [lock EXCEPT ![p] = s]
       /\ UNCHANGED <<checkpoint, aside, made>>
  BY <1>2, <1>4, <1>6 DEF open_checkpoint
<1>11. OwnerInv'
  BY <1>1, <1>2, <1>3, <1>7, <1>8, <1>9, <1>10, TypeFacts, StartOK
<1> QED
  BY <1>11, <1>1, <1>2, <1>3, <1>7, <1>8, <1>10 DEF Opens

\* Opening a readable file keeps the invariant, whether or not it leaves a checkpoint aside (open).
LEMMA OpenFileOK ==
    ASSUME OwnerInv, UNCHANGED scenario, NEW s \in scenario.sessions, NEW p \in Paths,
           open_file(s, p)
    PROVE  OwnerInv' /\ Opens(s)
<1>1. Types /\ lock[p] = None /\ file[p] \in Revisions
  BY DEF OwnerInv, open_file
<1>2. PICK d : d = FromFile(file[p])
  OBVIOUS
<1>3. d \in Doc /\ d.at <= Len(d.trail) /\ Len(d.trail) = 1 /\ Current(d) = file[p]
  BY <1>1, <1>2, FromFileFacts
<1>4. PICK y : y = Fresh(d)
  OBVIOUS
<1>5. /\ y \in Session /\ y.doc = d /\ y.requested = None /\ y.checkpointId = None
      /\ y.pending = None /\ y.saved = history_digest(d) /\ y.base = None
  BY <1>3, <1>4, FreshFacts
<1>6. PICK x : x = [y EXCEPT !.path = p, !.fileId = file[p]]
  OBVIOUS
<1>7. /\ x \in Session /\ x.doc = d /\ x.path = p /\ x.pending = None /\ x.fileId = file[p]
      /\ x.requested = None /\ x.checkpointId = None /\ x.saved = history_digest(d)
  <2>1. x \in Session
    BY <1>1, <1>5, <1>6 DEF Session
  <2> QED
    BY <1>5, <1>6, <2>1 DEF Session
<1>8. Coherent(x)
  <2>1. x.saved # None /\ x.saved # <<>> /\ x.saved[Len(x.saved)] = x.fileId
    BY <1>3, <1>7, Digest
  <2>2. x.fileId # None
    BY <1>1, <1>7, NoneFacts
  <2> QED
    BY <1>7, <2>1, <2>2 DEF Coherent
<1>9. Start(s, x) /\ UNCHANGED <<lock, made>>
  BY <1>2, <1>4, <1>6 DEF open_file
<1>10. /\ checkpoint' \in [Paths -> Checkpoint \cup {None}]
       /\ aside' \in [Paths -> SUBSET Revisions]
       /\ \A q \in Paths : \/ checkpoint'[q] = checkpoint[q]
                           \/ checkpoint'[q] = None /\ lock[q] = None
  <2>1. CASE UNCHANGED <<checkpoint, aside>>
    BY <1>1, <2>1, TypeFacts
  <2>2. CASE /\ checkpoint[p] # None
             /\ checkpoint' = [checkpoint EXCEPT ![p] = None]
             /\ aside' = [aside EXCEPT ![p] = @ \cup {Current(checkpoint[p].work)}]
    <3>1. PICK r : r = Current(checkpoint[p].work)
      OBVIOUS
    <3>2. r \in Revisions
      BY <1>1, <2>2, <3>1, TypeFacts, Digest
    <3> QED
      BY <1>1, <2>2, <3>1, <3>2, TypeFacts
  <2> QED
    BY <2>1, <2>2 DEF open_file
<1>11. Len(d.trail) <= made
  BY <1>1, <1>3, TypeFacts
<1>12. OwnerInv'
  BY <1>3, <1>7, <1>8, <1>9, <1>10, <1>11, StartOK
<1> QED
  BY <1>12, <1>7, <1>9 DEF Opens

\* Opening the backup of a damaged file keeps the invariant (open).
LEMMA OpenBackupOK ==
    ASSUME OwnerInv, UNCHANGED scenario, NEW s \in scenario.sessions, NEW p \in Paths,
           open_backup(s, p)
    PROVE  OwnerInv' /\ Opens(s)
<1>1. Types /\ backup[p] \in Revisions
  BY DEF OwnerInv, open_backup
<1>2. PICK d : d = FromFile(backup[p])
  OBVIOUS
<1>3. d \in Doc /\ d.at <= Len(d.trail) /\ Len(d.trail) = 1
  BY <1>1, <1>2, FromFileFacts
<1>4. PICK y : y = Fresh(d)
  OBVIOUS
<1>5. /\ y \in Session /\ y.doc = d /\ y.path = None /\ y.checkpointId = None
      /\ y.pending = None /\ y.base = None
  BY <1>3, <1>4, FreshFacts
<1>6. PICK x : x = [y EXCEPT !.requested = p]
  OBVIOUS
<1>7. /\ x \in Session /\ x.doc = d /\ x.path = None /\ x.checkpointId = None
      /\ x.pending = None /\ x.base = None
  BY <1>5, <1>6 DEF Session
<1>8. Coherent(x)
  BY <1>7 DEF Coherent
<1>9. Start(s, x) /\ UNCHANGED <<checkpoint, aside, lock, made>>
  BY <1>2, <1>4, <1>6 DEF open_backup
<1>10. Len(d.trail) <= made
  BY <1>1, <1>3, TypeFacts
<1>11. OwnerInv'
  BY <1>1, <1>3, <1>7, <1>8, <1>9, <1>10, TypeFacts, StartOK
<1> QED
  BY <1>11, <1>7, <1>9 DEF Opens

------------------------------------------------------------------------------
(* Edits, saves and stops keep ownership *)

\* The checkpoint is written over the one the session knows, under its lock.
Written(x, doc) == [base |-> checkpoint_target(x).base, work |-> doc]

\* What write_work_recovery leaves: the checkpoint of the session's own path, made from the file it read.
LEMMA WriteFacts ==
    ASSUME OwnerInv, NEW s \in Idle, NEW doc \in Doc, NEW x,
           x = session[s], checkpoint_target(x) # None,
           Holds(s) \/ lock[checkpoint_target(x).path] = None,
           write_work_recovery(s, x, checkpoint_target(x), doc)
    PROVE  /\ Owned(x) \in Paths /\ lock[Owned(x)] \in {None, s}
           /\ Written(x, doc) \in Checkpoint /\ Written(x, doc) # None
           /\ Written(x, doc).work = doc /\ Written(x, doc).base = checkpoint_target(x).base
           /\ file[Owned(x)] = checkpoint_target(x).base
           /\ checkpoint[Owned(x)] = x.checkpointId
           /\ checkpoint' = [checkpoint EXCEPT ![Owned(x)] = Written(x, doc)]
           /\ lock' = [lock EXCEPT ![Owned(x)] = s]
           /\ Update(s, With(x, doc, Written(x, doc)))
           /\ unsaved' = [unsaved EXCEPT ![Owned(x)] = (@ \ OwnWork(x)) \cup {Current(doc)}]
           /\ latest' = [latest EXCEPT ![Owned(x)] = Current(doc)]
           /\ UNCHANGED aside
<1>1. s \in Live /\ x \in Session /\ Coherent(x)
  BY IdleFacts, LiveFacts
<1>2. /\ checkpoint_target(x).path = Owned(x) /\ Owned(x) \in Paths
      /\ checkpoint_target(x).base \in Revisions
  BY <1>1, TargetFacts
<1>3. lock[Owned(x)] \in {None, s}
  BY <1>2, IdleFacts
<1>4. /\ Written(x, doc) \in Checkpoint /\ Written(x, doc) # None
      /\ Written(x, doc).work = doc /\ Written(x, doc).base = checkpoint_target(x).base
  BY <1>2, NoneFacts DEF Checkpoint, Written
<1> QED
  BY <1>2, <1>3, <1>4 DEF write_work_recovery, Written, With

\* A change made with work recovery keeps the invariant (mutate_with_work_recovery).
LEMMA MutateOK ==
    ASSUME OwnerInv, UNCHANGED scenario, NEW s \in Idle, NEW doc \in Doc,
           made' \in Revisions, made <= made',
           doc.at <= Len(doc.trail), Len(doc.trail) <= made',
           mutate_with_work_recovery(s, doc)
    PROVE  OwnerInv'
<1>1. Types /\ UNCHANGED <<file, backup, saving>>
  BY DEF OwnerInv, mutate_with_work_recovery
<1>2. /\ s \in Live /\ saving[s] = None /\ s \in Sessions /\ s # None
      /\ session[s] \in Session /\ session[s] # None
      /\ Coherent(session[s]) /\ s \in scenario.sessions
      /\ session = [session EXCEPT ![s] = session[s]]
  BY <1>1, IdleFacts, LiveFacts, TypeFacts
<1>3. PICK x : x = session[s]
  OBVIOUS
<1>4. /\ x \in Session /\ Coherent(x) /\ x # None
      /\ x.checkpointId \in Checkpoint \cup {None}
      /\ x.doc.at <= Len(x.doc.trail) /\ Len(x.doc.trail) <= made'
  <2>1. /\ x.doc.at <= Len(x.doc.trail) /\ Len(x.doc.trail) <= made
        /\ Len(x.doc.trail) \in Int /\ made \in Int /\ made' \in Int
    BY <1>1, <1>2, <1>3, TypeFacts DEF Doc, Revisions
  <2> QED
    BY <1>2, <1>3, <2>1 DEF Session
<1>5. \A p \in Paths : lock[p] = s => x.checkpointId # None /\ p = Owned(x)
  BY <1>3, IdleFacts
<1>6. x.checkpointId # None =>
          /\ Owned(x) \in Paths /\ lock[Owned(x)] = s
          /\ checkpoint[Owned(x)] \in {x.checkpointId, None}
  BY <1>2, <1>3, LiveFacts
<1>7. PICK t : t = checkpoint_target(x)
  OBVIOUS
<1>8. saving'[s] = None /\ \A u \in Sessions \ {s} : saving'[u] = saving[u]
  BY <1>1, <1>2
<1>9. CASE t = None
  <2>1. /\ Update(s, [x EXCEPT !.doc = doc])
        /\ UNCHANGED <<checkpoint, aside, lock, unsaved, latest>>
    BY <1>3, <1>7, <1>9 DEF mutate_with_work_recovery
  <2>2. x.checkpointId = None /\ x.path = None /\ ~(x.requested # None /\ x.base # None)
    <3>1. x.checkpointId = None
      BY <1>4, <1>7, <1>9 DEF Coherent
    <3>2. x.path = None
      <4>1. x.path # None => [path |-> x.path, base |-> x.fileId] \in [path : Paths, base : Revisions]
        BY <1>4 DEF Coherent, Session
      <4> QED
        BY <1>4, <1>7, <1>9, <4>1, NoneFacts DEF Coherent, checkpoint_target
    <3> QED
      BY <1>4, <3>1, <3>2 DEF Coherent
  <2>3. PICK y : y = [x EXCEPT !.doc = doc]
    OBVIOUS
  <2>4. /\ y \in Session /\ y.doc = doc /\ y.checkpointId = None /\ y.path = None
        /\ y.requested = x.requested /\ y.base = x.base /\ y.pending = x.pending
    <3>1. y \in Session
      BY <1>4, <2>3 DEF Session
    <3> QED
      BY <1>4, <2>2, <2>3, <3>1 DEF Session
  <2>5. Coherent(y)
    BY <1>4, <2>2, <2>4 DEF Coherent
  <2>6. Types'
    BY <1>1, <1>2, <2>1, <2>3, <2>4, TypeFacts, TypesStep
  <2>7. y # None
    BY <2>4, NoneFacts
  <2> QED
    BY <1>1, <1>2, <1>5, <2>1, <2>2, <2>3, <2>4, <2>5, <2>6, <2>7, OwnerStep, ZenonT(30)
<1>10. CASE t # None /\ MatchesSaved(x, doc)
  <2>1. t.path = Owned(x) /\ Owned(x) \in Paths
    BY <1>4, <1>7, <1>10, TargetFacts
  <2>2. \/ clear_at_saved(s, x, t, doc)
        \/ /\ clear_work_recovery_fails(Owned(x), x.checkpointId)
           /\ latest' = IF checkpoint' = checkpoint THEN latest
                        ELSE [latest EXCEPT ![Owned(x)] = None]
           /\ UNCHANGED <<lock, session, unsaved>>
    BY <1>3, <1>7, <1>10, <2>1 DEF mutate_with_work_recovery
  <2>3. CASE clear_at_saved(s, x, t, doc)
    <3>1. PICK y : y = With(x, doc, None)
      OBVIOUS
    <3>2. /\ y \in Session /\ y.doc = doc /\ y.checkpointId = None /\ y.path = x.path
          /\ y.requested = x.requested /\ y.base = x.base /\ y.fileId = x.fileId
          /\ y.pending = x.pending /\ y.saved = x.saved /\ y # None
      BY <1>4, <3>1, WithFacts
    <3>3. Coherent(y)
      BY <1>4, <1>10, <3>2 DEF Coherent, MatchesSaved
    <3>4. /\ Update(s, y) /\ lock' = Released(s)
          /\ clear_work_recovery(Owned(x), x.checkpointId)
          /\ unsaved' = [unsaved EXCEPT ![Owned(x)] = @ \ OwnWork(x)]
          /\ latest' = IF x.checkpointId = None \/ latest[Owned(x)] = None THEN latest
                       ELSE [latest EXCEPT ![Owned(x)] = Current(doc)]
      BY <2>1, <2>3, <3>1 DEF clear_at_saved, With
    <3>5. /\ checkpoint' \in [Paths -> Checkpoint \cup {None}]
          /\ aside' \in [Paths -> SUBSET Revisions]
          /\ \A p \in Paths : checkpoint'[p] \in {checkpoint[p], None}
      BY <1>1, <1>4, <2>1, <3>4, ClearFacts
    <3>6. /\ lock' \in [Paths -> Sessions \cup {None}]
          /\ \A p \in Paths : lock'[p] = IF lock[p] = s THEN None ELSE lock[p]
      BY <1>1, <1>2, <3>4, ReleasedFacts
    <3>7. unsaved' \in [Paths -> SUBSET Revisions]
      BY <1>1, <3>4, TypeFacts
    <3>8. latest' \in [Paths -> Revisions \cup {None}]
      <4>1. Current(doc) \in Revisions
        BY Digest
      <4> QED
        BY <1>1, <3>4, <4>1, TypeFacts
    <3>9. Types'
      BY <1>1, <1>2, <3>2, <3>4, <3>5, <3>6, <3>7, <3>8, TypeFacts, TypesStep
    <3>10. \A p \in Paths : lock'[p] # s
      BY <1>2, <3>6
    <3>11. \A p \in Paths : lock'[p] = lock[p]
                            \/ (lock[p] \in {None, s} /\ lock'[p] \in {None, s})
      BY <3>6
    <3>12. Update(s, y) /\ y.checkpointId = None
      BY <3>2, <3>4
    <3> QED
      BY <1>2, <1>8, <3>3, <3>5, <3>9, <3>10, <3>11, <3>12, OwnerStep
  <2>4. CASE /\ clear_work_recovery_fails(Owned(x), x.checkpointId)
             /\ latest' = IF checkpoint' = checkpoint THEN latest
                          ELSE [latest EXCEPT ![Owned(x)] = None]
             /\ UNCHANGED <<lock, session, unsaved>>
    <3>1. /\ checkpoint' \in [Paths -> Checkpoint \cup {None}]
          /\ aside' \in [Paths -> SUBSET Revisions]
          /\ \A p \in Paths : checkpoint'[p] \in {checkpoint[p], None}
      BY <1>1, <1>4, <2>1, <2>4, ClearFailsFacts
    <3>2. latest' \in [Paths -> Revisions \cup {None}]
      BY <1>1, <2>4, TypeFacts
    <3>3. Update(s, x)
      BY <1>2, <1>3, <2>4 DEF Update
    <3>4. Types'
      BY <1>1, <1>2, <1>4, <2>4, <3>1, <3>2, <3>3, TypeFacts, TypesStep
    <3>5. UNCHANGED lock
      BY <2>4
    <3>6. x.checkpointId # None =>
              lock'[Owned(x)] = s /\ checkpoint'[Owned(x)] \in {x.checkpointId, None}
      BY <1>6, <3>1, <3>5
    <3> QED
      BY <1>2, <1>4, <1>5, <1>8, <3>1, <3>3, <3>4, <3>5, <3>6, OwnerStep
  <2> QED
    BY <2>2, <2>3, <2>4
<1>11. CASE t # None /\ ~MatchesSaved(x, doc)
  <2>1. PICK w : w = Written(x, doc)
    OBVIOUS
  <2>2. PICK p : p = Owned(x)
    OBVIOUS
  <2>3. /\ p \in Paths /\ lock[p] \in {None, s} /\ w \in Checkpoint /\ w # None
        /\ w.work = doc /\ w.base = t.base
        /\ checkpoint' = [checkpoint EXCEPT ![p] = w] /\ lock' = [lock EXCEPT ![p] = s]
        /\ Update(s, With(x, doc, w))
        /\ unsaved' = [unsaved EXCEPT ![p] = (@ \ OwnWork(x)) \cup {Current(doc)}]
        /\ latest' = [latest EXCEPT ![p] = Current(doc)]
        /\ UNCHANGED aside
    <3>1. /\ Holds(s) \/ lock[t.path] = None
          /\ write_work_recovery(s, x, t, doc)
      BY <1>3, <1>7, <1>11 DEF mutate_with_work_recovery
    <3> QED
      BY <1>3, <1>7, <1>11, <2>1, <2>2, <3>1, WriteFacts, SMTT(20)
  <2>4. PICK y : y = With(x, doc, w)
    OBVIOUS
  <2>5. /\ y \in Session /\ y.doc = doc /\ y.checkpointId = w /\ y.path = x.path
        /\ y.requested = x.requested /\ y.base = x.base /\ y.fileId = x.fileId
        /\ y.pending = x.pending /\ y.saved = x.saved /\ y # None
        /\ Owned(y) = p /\ checkpoint_target(y) = t
    <3>1. w \in Checkpoint \cup {None}
      BY <2>3
    <3> QED
      BY <1>4, <1>7, <2>2, <2>4, <3>1, WithFacts
  <2>6. Coherent(y)
    BY <1>4, <1>11, <2>1, <2>3, <2>5 DEF Coherent
  <2>7. Current(doc) \in Revisions
    BY Digest
  <2>8. /\ checkpoint' \in [Paths -> Checkpoint \cup {None}] /\ checkpoint'[p] = w
        /\ \A q \in Paths : q # p => checkpoint'[q] = checkpoint[q]
    BY <1>1, <2>3, TypeFacts
  <2>9. /\ lock' \in [Paths -> Sessions \cup {None}] /\ lock'[p] = s
        /\ \A q \in Paths : q # p => lock'[q] = lock[q]
    BY <1>1, <1>2, <2>3, TypeFacts
  <2>10. unsaved' \in [Paths -> SUBSET Revisions] /\ latest' \in [Paths -> Revisions \cup {None}]
    BY <1>1, <2>3, <2>7, TypeFacts
  <2>11. w.work = doc
    BY <2>3
  <2>12. Types'
    BY <1>1, <1>2, <2>3, <2>4, <2>5, <2>8, <2>9, <2>10, <2>11, TypeFacts, TypesStep
  <2>13. /\ \A q \in Paths : lock'[q] = lock[q]
                            \/ (lock[q] \in {None, s} /\ lock'[q] \in {None, s})
         /\ \A q \in Paths : checkpoint'[q] \in {checkpoint[q], None} \/ lock[q] \in {None, s}
         /\ \A q \in Paths : lock'[q] = s => q = Owned(y)
    BY <1>5, <2>2, <2>3, <2>5, <2>8, <2>9
  <2>14. Update(s, y) /\ y # None /\ y.checkpointId # None
         /\ lock'[Owned(y)] = s /\ checkpoint'[Owned(y)] \in {y.checkpointId, None}
    BY <2>3, <2>4, <2>5, <2>8, <2>9
  <2> QED
    BY <1>2, <1>8, <2>6, <2>12, <2>13, <2>14, OwnerStep
<1> QED
  BY <1>9, <1>10, <1>11

\* An edit, an undo, a redo and a checkpoint asked for are all changes made with work recovery.
LEMMA EditsOK ==
    ASSUME OwnerInv, UNCHANGED scenario, NEW s \in Idle,
           edit(s) \/ undo(s) \/ redo(s) \/ write_work_recovery_checkpoint(s)
    PROVE  /\ OwnerInv'
           /\ \E doc \in Doc : /\ mutate_with_work_recovery(s, doc)
                               /\ doc.at <= Len(doc.trail) /\ Len(doc.trail) <= made'
                               /\ made' \in Revisions /\ made <= made'
<1>1. Types /\ s \in Live
  BY IdleFacts DEF OwnerInv
<1>2. PICK d : d = session[s].doc
  OBVIOUS
<1>3. /\ d \in Doc /\ d.at <= Len(d.trail) /\ Len(d.trail) <= made
      /\ d.trail \in Seq(Revisions) /\ d.at \in Revisions /\ d.at \in Int
      /\ made \in Int /\ Len(d.trail) \in Int /\ 1 <= d.at /\ made <= MaxRevision
      /\ MaxRevision \in Int
  <2>1. d \in Doc /\ d.at <= Len(d.trail) /\ Len(d.trail) <= made /\ made \in Revisions
    BY <1>1, <1>2, TypeFacts
  <2> QED
    BY <2>1, ConstantAssumption DEF Doc, Revisions
<1>4. \A n \in Int : 1 <= n /\ n <= Len(d.trail) =>
          /\ [d EXCEPT !.at = n] \in Doc /\ [d EXCEPT !.at = n].at = n
          /\ [d EXCEPT !.at = n].trail = d.trail
  <2> TAKE n \in Int
  <2> HAVE 1 <= n /\ n <= Len(d.trail)
  <2>1. n \in Revisions
    BY <1>3 DEF Revisions
  <2> QED
    BY <1>3, <2>1 DEF Doc
<1>5. CASE edit(s)
  <2>1. PICK e : e = [trail |-> Append(history_digest(d), made'), at |-> d.at + 1]
    OBVIOUS
  <2>2. mutate_with_work_recovery(s, e) /\ made' = made + 1 /\ made < scenario.revisions
    BY <1>2, <1>5, <2>1 DEF edit
  <2>3. made' \in Revisions /\ made <= made'
    BY <1>1, <1>3, <2>2, TypeFacts DEF Revisions
  <2>4. history_digest(d) \in Seq(Revisions) /\ Len(history_digest(d)) = d.at
    BY <1>3, Digest
  <2>5. /\ Append(history_digest(d), made') \in Seq(Revisions)
        /\ Len(Append(history_digest(d), made')) = d.at + 1
    BY <2>3, <2>4, AppendProperties
  <2>6. d.at + 1 \in Revisions /\ d.at + 1 <= made' /\ d.at + 1 <= d.at + 1
    BY <1>3, <2>2, <2>3, SMTT(20) DEF Revisions
  <2>7. e \in Doc /\ e.at = d.at + 1 /\ Len(e.trail) = d.at + 1
    BY <2>1, <2>5, <2>6 DEF Doc
  <2>8. e.at <= Len(e.trail) /\ Len(e.trail) <= made'
    BY <2>6, <2>7
  <2> QED
    BY <2>2, <2>3, <2>7, <2>8, MutateOK
<1>6. CASE undo(s)
  <2>1. PICK e : e = [d EXCEPT !.at = d.at - 1]
    OBVIOUS
  <2>2. mutate_with_work_recovery(s, e) /\ d.at > 1 /\ UNCHANGED made
    BY <1>2, <1>6, <2>1 DEF undo
  <2>3. e \in Doc /\ e.at = d.at - 1 /\ e.trail = d.trail
    <3>1. PICK n \in Int : n = d.at - 1 /\ 1 <= n /\ n <= Len(d.trail)
      BY <1>3, <2>2
    <3>2. e = [d EXCEPT !.at = n]
      BY <2>1, <3>1, Zenon
    <3> QED
      BY <1>4, <3>1, <3>2
  <2>4. e.at <= Len(e.trail) /\ Len(e.trail) <= made' /\ made' \in Revisions /\ made <= made'
    BY <1>1, <1>3, <2>2, <2>3, TypeFacts
  <2> QED
    BY <2>2, <2>3, <2>4, MutateOK
<1>7. CASE redo(s)
  <2>1. PICK e : e = [d EXCEPT !.at = d.at + 1]
    OBVIOUS
  <2>2. mutate_with_work_recovery(s, e) /\ d.at < Len(d.trail) /\ UNCHANGED made
    BY <1>2, <1>7, <2>1 DEF redo
  <2>3. e \in Doc /\ e.at = d.at + 1 /\ e.trail = d.trail
    <3>1. PICK n \in Int : n = d.at + 1 /\ 1 <= n /\ n <= Len(d.trail)
      BY <1>3, <2>2
    <3>2. e = [d EXCEPT !.at = n]
      BY <2>1, <3>1, Zenon
    <3> QED
      BY <1>4, <3>1, <3>2
  <2>4. e.at <= Len(e.trail) /\ Len(e.trail) <= made' /\ made' \in Revisions /\ made <= made'
    BY <1>1, <1>3, <2>2, <2>3, TypeFacts
  <2> QED
    BY <2>2, <2>3, <2>4, MutateOK
<1>8. CASE write_work_recovery_checkpoint(s)
  <2>1. mutate_with_work_recovery(s, d) /\ UNCHANGED made
    BY <1>2, <1>8 DEF write_work_recovery_checkpoint
  <2>2. Len(d.trail) <= made' /\ made' \in Revisions /\ made <= made'
    BY <1>1, <1>3, <2>1, TypeFacts
  <2> QED
    BY <1>3, <2>1, <2>2, MutateOK
<1> QED
  BY <1>5, <1>6, <1>7, <1>8

\* What every later step of a live session starts from.
LEMMA StepFacts ==
    ASSUME OwnerInv, NEW s \in Live, NEW x, x = session[s]
    PROVE  /\ Types /\ s \in Sessions /\ s # None /\ s \in scenario.sessions
           /\ x \in Session /\ x # None /\ Coherent(x)
           /\ x.checkpointId \in Checkpoint \cup {None}
           /\ x.path \in Paths \cup {None} /\ x.requested \in Paths \cup {None}
           /\ x.doc \in Doc /\ x.doc.at <= Len(x.doc.trail) /\ Len(x.doc.trail) <= made
           /\ Current(x.doc) \in Revisions
           /\ x.checkpointId # None =>
                 /\ Owned(x) \in Paths /\ lock[Owned(x)] = s
                 /\ checkpoint[Owned(x)] \in {x.checkpointId, None}
           /\ UNCHANGED session => Update(s, x)
<1>1. /\ Types /\ s \in Sessions /\ s # None /\ x \in Session /\ x # None /\ Coherent(x)
      /\ session = [session EXCEPT ![s] = x]
      /\ x.checkpointId # None =>
            /\ Owned(x) \in Paths /\ lock[Owned(x)] = s
            /\ checkpoint[Owned(x)] \in {x.checkpointId, None}
  BY LiveFacts DEF OwnerInv
<1>2. /\ x.doc \in Doc /\ x.doc.at <= Len(x.doc.trail) /\ Len(x.doc.trail) <= made
      /\ s \in scenario.sessions
  BY <1>1, TypeFacts
<1>3. /\ x.checkpointId \in Checkpoint \cup {None}
      /\ x.path \in Paths \cup {None} /\ x.requested \in Paths \cup {None}
  BY <1>1 DEF Session
<1>4. Current(x.doc) \in Revisions
  BY <1>2, Digest
<1> QED
  BY <1>1, <1>2, <1>3, <1>4 DEF Update

\* The checkpoint of a cleanup that is pending.
LEMMA PendingFacts ==
    ASSUME NEW x \in Session, x.pending # None
    PROVE  x.pending.path \in Paths /\ x.pending.id \in Checkpoint
BY DEF Session

WithoutPending(x) == [x EXCEPT !.pending = None]

\* A retried cleanup keeps the invariant (retry_pending_work_recovery_cleanup).
LEMMA RetryOK ==
    ASSUME OwnerInv, UNCHANGED scenario, NEW s \in Idle, retry_pending_work_recovery_cleanup(s)
    PROVE  OwnerInv'
<1>1. s \in Live /\ saving[s] = None
  BY IdleFacts
<1>2. PICK x : x = session[s]
  OBVIOUS
<1>3. /\ Types /\ s \in Sessions /\ s # None /\ s \in scenario.sessions
      /\ x \in Session /\ x # None /\ Coherent(x)
      /\ x.doc.at <= Len(x.doc.trail) /\ Len(x.doc.trail) <= made
      /\ x.checkpointId # None =>
            /\ Owned(x) \in Paths /\ lock[Owned(x)] = s
            /\ checkpoint[Owned(x)] \in {x.checkpointId, None}
      /\ UNCHANGED session => Update(s, x)
  BY <1>1, <1>2, StepFacts
<1>4. /\ x.pending # None /\ UNCHANGED <<file, backup, lock, saving, made, unsaved, latest>>
      /\ \/ clear_work_recovery(x.pending.path, x.pending.id) /\ Update(s, WithoutPending(x))
         \/ clear_work_recovery_fails(x.pending.path, x.pending.id) /\ UNCHANGED session
  BY <1>2 DEF retry_pending_work_recovery_cleanup, WithoutPending
<1>5. x.pending.path \in Paths /\ x.pending.id \in Checkpoint
  BY <1>3, <1>4, PendingFacts
<1>6. /\ checkpoint' \in [Paths -> Checkpoint \cup {None}]
      /\ aside' \in [Paths -> SUBSET Revisions]
      /\ \A p \in Paths : checkpoint'[p] \in {checkpoint[p], None}
  BY <1>3, <1>4, <1>5, ClearFacts, ClearFailsFacts
<1>7. PICK y : y \in {x, WithoutPending(x)} /\ Update(s, y)
  BY <1>3, <1>4
<1>8. /\ y \in Session /\ y # None /\ y.doc = x.doc /\ y.checkpointId = x.checkpointId
      /\ Owned(y) = Owned(x) /\ Coherent(y)
  <2>1. CASE y = x
    BY <1>3, <2>1
  <2>2. CASE y = WithoutPending(x)
    <3>1. /\ y \in Session /\ y.doc = x.doc /\ y.checkpointId = x.checkpointId
          /\ y.path = x.path /\ y.requested = x.requested /\ y.base = x.base
          /\ y.fileId = x.fileId /\ y.saved = x.saved /\ y.pending = None
      BY <1>3, <2>2 DEF Session, WithoutPending
    <3>2. checkpoint_target(y) = checkpoint_target(x) /\ Owned(y) = Owned(x)
      BY <3>1 DEF checkpoint_target, Owned
    <3>3. Coherent(y)
      BY <1>3, <3>1, <3>2 DEF Coherent
    <3> QED
      BY <3>1, <3>2, <3>3, NoneFacts
  <2> QED BY <1>7, <2>1, <2>2
<1>9. Types'
  BY <1>3, <1>4, <1>6, <1>7, <1>8, TypeFacts, TypesStep
<1>10. \A p \in Paths : lock[p] = s => x.checkpointId # None /\ p = Owned(x)
  BY <1>2, IdleFacts
<1>11. saving'[s] = None /\ UNCHANGED lock /\ \A u \in Sessions \ {s} : saving'[u] = saving[u]
  BY <1>1, <1>4
<1>12. y.checkpointId # None =>
           lock'[Owned(y)] = s /\ checkpoint'[Owned(y)] \in {y.checkpointId, None}
  BY <1>3, <1>6, <1>8, <1>11
<1> QED
  BY <1>3, <1>6, <1>7, <1>8, <1>9, <1>10, <1>11, <1>12, OwnerStep

\* What publishing writes, and where.
Publishes(s, x, p) ==
    /\ file' = [file EXCEPT ![p] = Current(x.doc)]
    /\ lock' = [lock EXCEPT ![p] = s]
    /\ saving' = [saving EXCEPT ![s] = p]
    /\ unsaved' = [o \in Paths |-> IF o = Owned(x) THEN unsaved[o] \ OwnWork(x) ELSE unsaved[o]]
    /\ latest' = [o \in Paths |-> IF o = p THEN Current(x.doc)
                                  ELSE IF o = Owned(x) THEN None ELSE latest[o]]

\* A save publishes to a file whose lock it has or can take.
LEMMA SaveFacts ==
    ASSUME OwnerInv, NEW s \in Idle, NEW p \in Paths, NEW overwrite \in BOOLEAN, NEW x,
           x = session[s], save(s, p, overwrite)
    PROVE  /\ x.pending = None /\ lock[p] \in {None, s}
           /\ p \in {x.path, x.requested} => p = Owned(x) /\ checkpoint[p] = x.checkpointId
           /\ p \notin {x.path, x.requested} => checkpoint[p] = None
           /\ MayPublish(x, p, overwrite)
           /\ backup' \in [Paths -> Revisions \cup {Absent}]
           /\ Publishes(s, x, p) \/ UNCHANGED <<file, lock, saving, unsaved, latest>>
           /\ UNCHANGED <<checkpoint, aside, session, made>>
<1>1. s \in Live
  BY IdleFacts
<1>2. Types /\ x \in Session /\ Coherent(x)
  BY <1>1, StepFacts
<1>3. p \in {x.path, x.requested} => p = Owned(x)
  BY <1>2, NoneFacts DEF Coherent, Owned
<1>4. /\ x.pending = None
      /\ (p \in {x.path, x.requested} /\ Holds(s)) \/ lock[p] = None
      /\ checkpoint[p] = IF p \in {x.path, x.requested} THEN x.checkpointId ELSE None
      /\ MayPublish(x, p, overwrite)
      /\ backup' = IF file[p] \in Revisions THEN [backup EXCEPT ![p] = file[p]] ELSE backup
      /\ Publishes(s, x, p) \/ UNCHANGED <<file, lock, saving, unsaved, latest>>
      /\ UNCHANGED <<checkpoint, aside, session, made>>
  BY DEF save, Publishes
<1>5. lock[p] \in {None, s}
  BY <1>3, <1>4, IdleFacts
<1>6. backup' \in [Paths -> Revisions \cup {Absent}]
  BY <1>2, <1>4, TypeFacts
<1> QED
  BY <1>3, <1>4, <1>5, <1>6

\* The first half of a save, up to the replaced file, keeps the invariant (save).
LEMMA SaveOK ==
    ASSUME OwnerInv, UNCHANGED scenario, NEW s \in Idle, NEW p \in Paths,
           NEW overwrite \in BOOLEAN, save(s, p, overwrite)
    PROVE  OwnerInv'
<1>1. s \in Live /\ saving[s] = None
  BY IdleFacts
<1>2. PICK x : x = session[s]
  OBVIOUS
<1>3. /\ Types /\ s \in Sessions /\ s # None /\ s \in scenario.sessions
      /\ x \in Session /\ x # None /\ Coherent(x)
      /\ x.doc.at <= Len(x.doc.trail) /\ Len(x.doc.trail) <= made
      /\ Current(x.doc) \in Revisions
      /\ x.checkpointId # None =>
            /\ Owned(x) \in Paths /\ lock[Owned(x)] = s
            /\ checkpoint[Owned(x)] \in {x.checkpointId, None}
      /\ UNCHANGED session => Update(s, x)
  BY <1>1, <1>2, StepFacts
<1>4. /\ lock[p] \in {None, s} /\ backup' \in [Paths -> Revisions \cup {Absent}]
      /\ Publishes(s, x, p) \/ UNCHANGED <<file, lock, saving, unsaved, latest>>
      /\ UNCHANGED <<checkpoint, aside, session, made>>
  BY <1>2, SaveFacts
<1>5. \A q \in Paths : lock[q] = s => x.checkpointId # None /\ q = Owned(x)
  BY <1>2, IdleFacts
<1>6. Update(s, x)
  BY <1>3, <1>4
<1>7. CASE Publishes(s, x, p)
  <2>1. /\ file' \in [Paths -> Revisions \cup {Absent, Damaged}]
        /\ lock' \in [Paths -> Sessions \cup {None}]
        /\ saving' \in [Sessions -> Paths \cup {None}]
    BY <1>3, <1>7, TypeFacts DEF Publishes
  <2>2. /\ unsaved' \in [Paths -> SUBSET Revisions]
        /\ latest' \in [Paths -> Revisions \cup {None}]
    BY <1>3, <1>7, TypeFacts DEF Publishes
  <2>3. Types'
    BY <1>3, <1>4, <1>6, <2>1, <2>2, TypeFacts, TypesStep
  <2>4. /\ lock'[p] = s /\ \A q \in Paths : q # p => lock'[q] = lock[q]
        /\ saving'[s] = p /\ \A u \in Sessions \ {s} : saving'[u] = saving[u]
    BY <1>3, <1>7, TypeFacts DEF Publishes
  <2>5. \A q \in Paths : lock'[q] = lock[q] \/ (lock[q] \in {None, s} /\ lock'[q] \in {None, s})
    BY <1>4, <2>4
  <2>6. \A q \in Paths : lock'[q] = s =>
            q = saving'[s] \/ (x.checkpointId # None /\ q = Owned(x))
    BY <1>5, <2>4
  <2>7. x.checkpointId # None =>
            lock'[Owned(x)] = s /\ checkpoint'[Owned(x)] \in {x.checkpointId, None}
    BY <1>3, <1>4, <2>4
  <2>8. \A q \in Paths : checkpoint'[q] \in {checkpoint[q], None}
    BY <1>4
  <2> QED
    BY <1>3, <1>6, <2>3, <2>4, <2>5, <2>6, <2>7, <2>8, OwnerStep
<1>8. CASE UNCHANGED <<file, lock, saving, unsaved, latest>>
  <2>1. Types'
    BY <1>3, <1>4, <1>6, <1>8, TypeFacts, TypesStep
  <2>2. UNCHANGED lock /\ saving'[s] = None /\ \A u \in Sessions \ {s} : saving'[u] = saving[u]
    BY <1>1, <1>8
  <2>3. UNCHANGED checkpoint
    BY <1>4
  <2> QED
    BY <1>3, <1>5, <1>6, <2>1, <2>2, <2>3, OwnerStep
<1> QED
  BY <1>4, <1>7, <1>8

\* The session after a save to the path p.
Settled(x, p) == [Fresh(x.doc) EXCEPT !.path = p, !.fileId = Current(x.doc)]
Cleanup(x) == [path |-> Owned(x), id |-> x.checkpointId]
SettledPending(x, p) == [Settled(x, p) EXCEPT !.pending = Cleanup(x)]
IsSettled(y, x, p) ==
    \/ y = Settled(x, p)
    \/ x.checkpointId # None /\ y = SettledPending(x, p) /\ "clear" \in scenario.faults

\* A session settled on a path is coherent and owns no checkpoint, but the cleanup it may owe.
LEMMA SettledFacts ==
    ASSUME NEW x \in Session, x.doc.at <= Len(x.doc.trail), NEW p \in Paths, NEW y,
           x.checkpointId # None => Owned(x) \in Paths /\ x.checkpointId.work = x.doc,
           IsSettled(y, x, p)
    PROVE  /\ y \in Session /\ y # None /\ y.doc = x.doc /\ y.path = p
           /\ y.checkpointId = None /\ Coherent(y)
           /\ y = Settled(x, p) => y.pending = None
           /\ y.pending # None => /\ x.checkpointId # None /\ y.pending.path = Owned(x)
                                  /\ y.pending.id = x.checkpointId
<1>1. x.doc \in Doc /\ x.checkpointId \in Checkpoint \cup {None}
  BY DEF Session
<1>2. PICK f : f = Fresh(x.doc)
  OBVIOUS
<1>3. /\ f \in Session /\ f.doc = x.doc /\ f.requested = None /\ f.base = None
      /\ f.checkpointId = None /\ f.pending = None /\ f.saved = history_digest(x.doc)
  BY <1>1, <1>2, FreshFacts
<1>4. /\ Current(x.doc) \in Revisions
      /\ history_digest(x.doc) # None /\ history_digest(x.doc) # <<>>
      /\ history_digest(x.doc)[Len(history_digest(x.doc))] = Current(x.doc)
  BY <1>1, Digest
<1>5. PICK z : z = Settled(x, p)
  OBVIOUS
<1>6. z = [f EXCEPT !.path = p, !.fileId = Current(x.doc)]
  BY <1>2, <1>5 DEF Settled
<1>7. z \in Session
  BY <1>3, <1>4, <1>6 DEF Session
<1>8. /\ z.doc = x.doc /\ z.path = p /\ z.fileId = Current(x.doc)
      /\ z.requested = None /\ z.checkpointId = None /\ z.pending = None
      /\ z.saved = history_digest(x.doc)
  BY <1>3, <1>6, <1>7 DEF Session
<1>9. CASE y = Settled(x, p)
  BY <1>4, <1>5, <1>7, <1>8, <1>9, NoneFacts DEF Coherent
<1>10. CASE /\ x.checkpointId # None /\ y = SettledPending(x, p)
            /\ "clear" \in scenario.faults
  <2>1. PICK e : e = Cleanup(x)
    OBVIOUS
  <2>2. /\ e \in [path : Paths, id : Checkpoint] /\ e # None
        /\ e.id = x.checkpointId /\ e.path = Owned(x)
    BY <1>1, <1>10, <2>1, NoneFacts DEF Cleanup
  <2>3. y = [z EXCEPT !.pending = e]
    BY <1>5, <1>10, <2>1 DEF SettledPending
  <2>4. y \in Session
    BY <1>7, <2>2, <2>3 DEF Session
  <2>5. /\ y.doc = x.doc /\ y.path = p /\ y.fileId = Current(x.doc)
        /\ y.requested = None /\ y.checkpointId = None /\ y.pending = e
        /\ y.saved = history_digest(x.doc)
    BY <1>7, <1>8, <2>3 DEF Session
  <2>6. y.saved = history_digest(y.pending.id.work)
    BY <1>10, <2>2, <2>5
  <2>7. Coherent(y)
    BY <1>4, <1>10, <2>5, <2>6, NoneFacts DEF Coherent
  <2>8. y # Settled(x, p)
    BY <1>5, <1>8, <2>2, <2>5
  <2> QED
    BY <1>10, <2>2, <2>4, <2>5, <2>7, <2>8, NoneFacts
<1> QED
  BY <1>9, <1>10 DEF IsSettled

\* The three ways a save settles: no checkpoint, a cleared one, and one that could not be cleared.
LEMMA SettleFacts ==
    ASSUME OwnerInv, NEW s \in Live \ Idle, NEW x, x = session[s], save_settle(s)
    PROVE  /\ saving[s] \in Paths /\ lock[saving[s]] = s
           /\ \/ /\ x.checkpointId = None /\ UNCHANGED <<checkpoint, aside>>
                 /\ Update(s, Settled(x, saving[s]))
              \/ /\ x.checkpointId # None /\ clear_work_recovery(Owned(x), x.checkpointId)
                 /\ Update(s, Settled(x, saving[s]))
              \/ /\ x.checkpointId # None /\ clear_work_recovery_fails(Owned(x), x.checkpointId)
                 /\ Update(s, SettledPending(x, saving[s]))
           /\ lock' = Released(s) /\ saving' = [saving EXCEPT ![s] = None]
           /\ UNCHANGED <<file, backup, made, unsaved, latest>>
<1>1. s \in Live /\ saving[s] # None /\ Types /\ s \in Sessions
  BY StepFacts DEF Idle
<1>2. saving[s] \in Paths /\ lock[saving[s]] = s
  BY <1>1, TypeFacts DEF OwnerInv, LocksOK
<1> QED
  BY <1>2 DEF save_settle, Settled, SettledPending, Cleanup

\* The second half of a save keeps the invariant.
LEMMA SettleOK ==
    ASSUME OwnerInv, UNCHANGED scenario, NEW s \in Live \ Idle, save_settle(s)
    PROVE  OwnerInv'
<1>1. PICK x : x = session[s]
  OBVIOUS
<1>2. /\ Types /\ s \in Sessions /\ s # None /\ s \in scenario.sessions
      /\ x \in Session /\ Coherent(x) /\ x.checkpointId \in Checkpoint \cup {None}
      /\ x.doc.at <= Len(x.doc.trail) /\ Len(x.doc.trail) <= made
      /\ x.checkpointId # None => Owned(x) \in Paths
  BY <1>1, StepFacts
<1>3. /\ saving[s] \in Paths
      /\ \/ /\ x.checkpointId = None /\ UNCHANGED <<checkpoint, aside>>
            /\ Update(s, Settled(x, saving[s]))
         \/ /\ x.checkpointId # None /\ clear_work_recovery(Owned(x), x.checkpointId)
            /\ Update(s, Settled(x, saving[s]))
         \/ /\ x.checkpointId # None /\ clear_work_recovery_fails(Owned(x), x.checkpointId)
            /\ Update(s, SettledPending(x, saving[s]))
      /\ lock' = Released(s) /\ saving' = [saving EXCEPT ![s] = None]
      /\ UNCHANGED <<file, backup, made, unsaved, latest>>
  BY <1>1, SettleFacts
<1>4. /\ checkpoint' \in [Paths -> Checkpoint \cup {None}]
      /\ aside' \in [Paths -> SUBSET Revisions]
      /\ \A p \in Paths : checkpoint'[p] \in {checkpoint[p], None}
  BY <1>2, <1>3, TypeFacts, ClearFacts, ClearFailsFacts
<1>5. PICK y : /\ Update(s, y)
               /\ \/ y = Settled(x, saving[s])
                  \/ /\ x.checkpointId # None /\ y = SettledPending(x, saving[s])
                     /\ clear_work_recovery_fails(Owned(x), x.checkpointId)
  BY <1>3
<1>6. y \in Session /\ y # None /\ y.doc = x.doc /\ y.checkpointId = None /\ Coherent(y)
  <2>1. x.checkpointId # None => x.checkpointId.work = x.doc
    BY <1>2 DEF Coherent
  <2>2. clear_work_recovery_fails(Owned(x), x.checkpointId) => "clear" \in scenario.faults
    BY DEF clear_work_recovery_fails
  <2>3. saving[s] \in Paths /\ IsSettled(y, x, saving[s])
    BY <1>3, <1>5, <2>2 DEF IsSettled
  <2> QED
    BY <1>2, <2>1, <2>3, SettledFacts
<1>7. /\ lock' \in [Paths -> Sessions \cup {None}]
      /\ \A p \in Paths : lock'[p] = IF lock[p] = s THEN None ELSE lock[p]
  BY <1>2, <1>3, ReleasedFacts
<1>8. /\ saving' \in [Sessions -> Paths \cup {None}] /\ saving'[s] = None
      /\ \A u \in Sessions \ {s} : saving'[u] = saving[u]
  BY <1>2, <1>3, TypeFacts
<1>9. Types'
  BY <1>2, <1>3, <1>4, <1>5, <1>6, <1>7, <1>8, TypeFacts, TypesStep
<1>10. /\ \A p \in Paths : lock'[p] # s
       /\ \A p \in Paths : lock'[p] = lock[p]
                           \/ (lock[p] \in {None, s} /\ lock'[p] \in {None, s})
  BY <1>2, <1>7
<1> QED
  BY <1>2, <1>4, <1>5, <1>6, <1>8, <1>9, <1>10, OwnerStep

\* A session that ends or crashes leaves the invariant to the others.
LEMMA StopOK ==
    ASSUME OwnerInv, UNCHANGED scenario, NEW s \in Live, stop(s)
    PROVE  OwnerInv'
<1>1. Types /\ s \in Sessions /\ s # None
  BY StepFacts
<1>2. /\ Update(s, None) /\ saving' = [saving EXCEPT ![s] = None] /\ lock' = Released(s)
      /\ UNCHANGED <<file, backup, checkpoint, aside, made, unsaved, latest>>
  BY DEF stop, Update
<1>3. /\ lock' \in [Paths -> Sessions \cup {None}]
      /\ \A p \in Paths : lock'[p] = IF lock[p] = s THEN None ELSE lock[p]
  BY <1>1, <1>2, ReleasedFacts
<1>4. /\ saving' \in [Sessions -> Paths \cup {None}] /\ saving'[s] = None
      /\ \A u \in Sessions \ {s} : saving'[u] = saving[u]
  BY <1>1, <1>2, TypeFacts
<1>5. Types'
  BY <1>1, <1>2, <1>3, <1>4, TypeFacts, TypesStep
<1>6. /\ \A p \in Paths : lock'[p] # s
      /\ \A p \in Paths : lock'[p] = lock[p]
                          \/ (lock[p] \in {None, s} /\ lock'[p] \in {None, s})
  BY <1>1, <1>3
<1>7. UNCHANGED checkpoint
  BY <1>2
<1> QED
  BY <1>1, <1>2, <1>4, <1>5, <1>6, <1>7, OwnerStep

\* A step that leaves sessions, locks and checkpoints alone.
LEMMA SessionsSame ==
    ASSUME OwnerInv, Types', UNCHANGED <<checkpoint, lock, session, saving, scenario>>
    PROVE  OwnerInv'
<1>1. Live' = Live /\ session' = session /\ scenario' = scenario
  BY DEF Live
<1>2. ASSUME NEW s \in Live PROVE Coherent(session[s])'
  <2>1. Coherent(session[s])
    BY <1>2 DEF OwnerInv
  <2> QED
    BY <1>1, <2>1 DEF Coherent, checkpoint_target, history_digest
<1>3. LocksOK'
  <2>1. LocksOK
    BY DEF OwnerInv
  <2> QED
    BY <1>1, <2>1 DEF LocksOK, Owned
<1>4. CheckpointIsOwn'
  <2>1. CheckpointIsOwn
    BY DEF OwnerInv
  <2> QED
    BY <1>1, <2>1 DEF CheckpointIsOwn, Owned
<1> QED
  BY <1>1, <1>2, <1>3, <1>4 DEF OwnerInv

\* A file changed by another program keeps the invariant: no session's state depends on it.
LEMMA OutsideOK ==
    ASSUME OwnerInv, UNCHANGED scenario, NEW p \in Paths,
           NEW found \in 1..made \cup {Absent, Damaged}, ChangedOutside(p, found)
    PROVE  OwnerInv'
<1>1. /\ Types /\ file' = [file EXCEPT ![p] = found] /\ latest' = [latest EXCEPT ![p] = None]
      /\ UNCHANGED <<backup, checkpoint, aside, lock, session, saving, made, unsaved>>
  BY DEF OwnerInv, ChangedOutside
<1>2. found \in Revisions \cup {Absent, Damaged}
  BY <1>1, TypeFacts, ConstantAssumption DEF Revisions
<1>3. /\ file' \in [Paths -> Revisions \cup {Absent, Damaged}]
      /\ latest' \in [Paths -> Revisions \cup {None}]
  BY <1>1, <1>2, TypeFacts
<1>4. Types'
  BY <1>1, <1>3 DEF Types, TypeOK, DocOK, Live
<1> QED
  BY <1>1, <1>4, SessionsSame

\* The invariant holds before any session is opened.
LEMMA InitOK == ASSUME Init PROVE OwnerInv
<1>1. Live = {}
  BY DEF Init, Live
<1>2. file \in [Paths -> Revisions \cup {Absent, Damaged}]
  BY NoneFacts DEF Init
<1>3. latest \in [Paths -> Revisions \cup {None}]
  BY DEF Init
<1>4. TypeOK
  BY <1>1, <1>2, <1>3, NoneFacts DEF Init, TypeOK
<1>5. Types
  BY <1>1, <1>4 DEF Init, Types
<1> QED
  BY <1>1, <1>5 DEF Init, OwnerInv, LocksOK, CheckpointIsOwn

\* The invariant holds when nothing changes.
LEMMA StutterOK == ASSUME OwnerInv, UNCHANGED vars PROVE OwnerInv'
<1>1. UNCHANGED <<file, backup, checkpoint, aside, lock, session, saving, made, unsaved, latest,
                  scenario>>
  BY DEF vars
<1>2. Types'
  BY <1>1 DEF OwnerInv, Types, TypeOK, DocOK, Live
<1> QED
  BY <1>1, <1>2, SessionsSame

\* Every step keeps the invariant.
LEMMA NextOK == ASSUME OwnerInv, [Next]_vars PROVE OwnerInv'
<1>1. CASE UNCHANGED vars
  BY <1>1, StutterOK
<1>2. CASE Next
  <2>1. UNCHANGED scenario /\ scenario.paths \subseteq Paths
    BY <1>2, TypeFacts DEF Next, OwnerInv
  <2>2. ASSUME NEW s \in scenario.sessions, new(s) PROVE OwnerInv'
    BY <2>1, <2>2, NewOK
  <2>3. ASSUME NEW s \in scenario.sessions, NEW p \in scenario.paths, open(s, p) PROVE OwnerInv'
    BY <2>1, <2>3, OpenCheckpointOK, OpenFileOK, OpenBackupOK DEF open
  <2>4. ASSUME NEW s \in Idle,
               edit(s) \/ undo(s) \/ redo(s) \/ write_work_recovery_checkpoint(s)
        PROVE  OwnerInv'
    BY <2>1, <2>4, EditsOK
  <2>5. ASSUME NEW s \in Idle, retry_pending_work_recovery_cleanup(s) PROVE OwnerInv'
    BY <2>1, <2>5, RetryOK
  <2>6. ASSUME NEW s \in Idle, NEW p \in scenario.paths, NEW overwrite \in BOOLEAN,
               save(s, p, overwrite)
        PROVE  OwnerInv'
    BY <2>1, <2>6, SaveOK
  <2>7. ASSUME NEW s \in Live \ Idle, save_settle(s) PROVE OwnerInv'
    BY <2>1, <2>7, SettleOK
  <2>8. ASSUME NEW s \in Live, stop(s) PROVE OwnerInv'
    BY <2>1, <2>8, StopOK
  <2>9. ASSUME NEW p \in scenario.paths, NEW found \in 1..made \cup {Absent, Damaged},
               ChangedOutside(p, found)
        PROVE  OwnerInv'
    BY <2>1, <2>9, OutsideOK
  <2> QED
    BY <1>2, <2>2, <2>3, <2>4, <2>5, <2>6, <2>7, <2>8, <2>9 DEF Next
<1> QED
  BY <1>1, <1>2

\* The ownership of paths, checkpoints and locks always holds.
LEMMA Ownership == Spec => []OwnerInv
<1>1. Init => OwnerInv
  BY InitOK
<1>2. OwnerInv /\ [Next]_vars => OwnerInv'
  BY NextOK
<1> QED
  BY <1>1, <1>2, PTL DEF Spec

\* Files, checkpoints and sessions keep their types; a document's place is inside its trail,
\* which is never longer than the revisions made.
THEOREM TypeCorrect == Spec => []TypeOK
<1>1. OwnerInv => TypeOK
  BY DEF OwnerInv, Types
<1> QED
  BY <1>1, Ownership, PTL

\* Whatever sessions open, save over and save beside each other's files, with any fault: one
\* of them at most has unsaved work on a file, and the checkpoint it relies on is its own
\* (session.rs and WorkRecoveryLock of work_recovery.rs).
THEOREM SingleOwner == Spec => []OneOwner
<1>1. ASSUME OwnerInv PROVE OneOwner
  <2>1. ASSUME NEW s \in Live, checkpoint_target(session[s]) # None, Modified(session[s])
        PROVE  lock[checkpoint_target(session[s]).path] = s
    <3>1. PICK x : x = session[s]
      OBVIOUS
    <3>2. /\ x \in Session /\ Coherent(x)
          /\ x.checkpointId # None => lock[Owned(x)] = s
      BY <1>1, <3>1, StepFacts
    <3>3. /\ checkpoint_target(x).path = Owned(x)
          /\ x.path = None => x.checkpointId # None
      BY <2>1, <3>1, <3>2, TargetFacts
    <3>4. x.checkpointId # None
      BY <2>1, <3>1, <3>2, <3>3 DEF Coherent, Modified
    <3> QED
      BY <3>1, <3>2, <3>3, <3>4
  <2>2. OneWriter
    BY <2>1 DEF OneWriter
  <2> QED
    BY <1>1, <2>2 DEF OneOwner, OwnerInv
<1> QED
  BY <1>1, Ownership, PTL

\* A session that saves to the file it works on replaces what it last read or wrote there
\* (publish_bytes with IfUnchanged), whatever was put there since.
THEOREM NoUpdateLost == Spec => NoLostUpdate
<1> DEFINE Step == \A s \in Live, p \in Paths :
                      /\ saving[s] = None /\ saving'[s] = p
                      /\ session[s].path = p
                      => file[p] \in {session[s].fileId, Absent}
<1>1. OwnerInv /\ [Next]_vars => Step
  <2> SUFFICES ASSUME OwnerInv, [Next]_vars, NEW s \in Live, NEW p \in Paths,
                      saving[s] = None, saving'[s] = p, session[s].path = p
               PROVE  file[p] \in {session[s].fileId, Absent}
    OBVIOUS
  <2>1. /\ Types /\ s \in Sessions /\ saving'[s] # None /\ saving' # saving
        /\ saving \in [Sessions -> Paths \cup {None}]
    BY StepFacts, TypeFacts, NoneFacts
  <2>2. PICK t \in Idle, q \in scenario.paths, overwrite \in BOOLEAN : save(t, q, overwrite)
    <3>1. Next
      BY <2>1 DEF vars
    <3>2. ASSUME NEW t \in Live, save_settle(t) \/ stop(t) PROVE FALSE
      <4>1. saving' = [saving EXCEPT ![t] = None]
        BY <3>2 DEF save_settle, stop
      <4> QED
        BY <2>1, <4>1
    <3> QED
      BY <2>1, <3>1, <3>2, Zenon
         DEF Next, new, open, open_checkpoint, open_file, open_backup, Start, edit, undo, redo,
             write_work_recovery_checkpoint, mutate_with_work_recovery,
             retry_pending_work_recovery_cleanup, ChangedOutside
  <2>3. q \in Paths
    BY <2>1, TypeFacts
  <2>4. /\ MayPublish(session[t], q, overwrite)
        /\ Publishes(t, session[t], q) \/ UNCHANGED <<file, lock, saving, unsaved, latest>>
    BY <2>2, <2>3, SaveFacts
  <2>5. saving' = [saving EXCEPT ![t] = q]
    BY <2>1, <2>4 DEF Publishes
  <2>6. t = s /\ q = p
    BY <2>1, <2>5
  <2>7. session[s].fileId # None
    <3>1. Coherent(session[s])
      BY StepFacts
    <3> QED
      BY <3>1, NoneFacts DEF Coherent
  <2> QED
    BY <2>4, <2>6, <2>7 DEF MayPublish
<1>2. []OwnerInv /\ [][Next]_vars => [][Step]_vars
  BY <1>1, PTL
<1> QED
  BY <1>2, Ownership, PTL DEF Spec, NoLostUpdate

------------------------------------------------------------------------------
(* Acknowledged work *)

\* A path whose file and checkpoint are as they were still holds the latest work and what was saved.
LEMMA PathSame ==
    ASSUME NEW p, PathOK(p), file'[p] = file[p], checkpoint'[p] = checkpoint[p],
           latest'[p] \in {latest[p], None}, unsaved'[p] \subseteq unsaved[p],
           aside[p] \subseteq aside'[p]
    PROVE  PathOK(p)'
BY DEF PathOK, Usable, Current

\* A step of the session s leaves the others what they rely on when it leaves the files that
\* they have locked alone.
LEMMA WorkStep ==
    ASSUME WorkInv, OwnerInv', UNCHANGED scenario, NEW s \in scenario.sessions, NEW x,
           Update(s, x),
           \A t \in Sessions \ {s} : saving'[t] = saving[t],
           \A p \in Paths : lock[p] \notin {None, s} =>
               /\ file'[p] = file[p] /\ latest'[p] \in {latest[p], None}
               /\ unsaved'[p] \subseteq unsaved[p],
           \A p \in Paths : PathOK(p)',
           x # None => Based(s)' /\ SavingOK(s)' /\ PendingOK(s)'
    PROVE  WorkInv'
<1>1. OwnerInv /\ Types
  BY DEF WorkInv, OwnerInv
<1>2. s \in Sessions /\ session \in [Sessions -> Session \cup {None}]
  BY <1>1, TypeFacts
<1>3. session'[s] = x /\ \A t \in Sessions : t # s => session'[t] = session[t]
  BY <1>2 DEF Update
<1>4. ASSUME NEW t \in Live' PROVE (Based(t) /\ SavingOK(t) /\ PendingOK(t))'
  <2>1. CASE t = s
    <3>1. x # None
      BY <1>3, <1>4, <2>1 DEF Live
    <3> QED
      BY <2>1, <3>1
  <2>2. CASE t # s
    <3>1. t \in Sessions /\ t \in Live /\ session'[t] = session[t] /\ saving'[t] = saving[t]
      BY <1>3, <1>4, <2>2 DEF Live
    <3>2. PICK y : y = session[t]
      OBVIOUS
    <3>3. /\ Coherent(y) /\ t # None /\ t \in scenario.sessions
          /\ y.checkpointId # None => Owned(y) \in Paths /\ lock[Owned(y)] = t
      BY <1>1, <3>1, <3>2, StepFacts
    <3>4. y.pending = None
      <4>1. "clear" \notin scenario.faults
        BY <2>2, <3>3 DEF WorkInv
      <4> QED
        BY <3>3, <4>1 DEF Coherent
    <3>5. PendingOK(t)'
      BY <3>1, <3>2, <3>4 DEF PendingOK
    <3>6. Based(t) /\ SavingOK(t)
      BY <3>1 DEF WorkInv
    <3>7. y.checkpointId # None =>
              /\ file'[Owned(y)] = file[Owned(y)]
              /\ latest'[Owned(y)] \in {latest[Owned(y)], None}
              /\ unsaved'[Owned(y)] \subseteq unsaved[Owned(y)]
      BY <2>2, <3>3
    <3>8. Based(t)'
      BY <3>1, <3>2, <3>6, <3>7 DEF Based, Owned
    <3>9. saving[t] # None => saving[t] \in Paths /\ lock[saving[t]] = t
      BY <1>1, <3>1, TypeFacts DEF OwnerInv, LocksOK
    <3>10. saving[t] # None => /\ file'[saving[t]] = file[saving[t]]
                               /\ latest'[saving[t]] \in {latest[saving[t]], None}
      BY <2>2, <3>3, <3>9
    <3>11. SavingOK(t)'
      <4>1. Current(y.doc)' = Current(y.doc) /\ Owned(y)' = Owned(y)
        BY DEF Current, Owned
      <4> QED
        BY <3>1, <3>2, <3>6, <3>7, <3>10, <4>1 DEF SavingOK
    <3> QED
      BY <3>5, <3>8, <3>11
  <2> QED BY <2>1, <2>2
<1> QED
  BY <1>4 DEF WorkInv

\* Opening changes no file and loses nothing: a checkpoint that cannot be used goes aside.
LEMMA StartKeeps ==
    ASSUME WorkInv, OwnerInv', UNCHANGED scenario, NEW s \in scenario.sessions, NEW x \in Session,
           Start(s, x), x.pending = None,
           x.checkpointId # None => file[Owned(x)] = x.checkpointId.base,
           \A p \in Paths : PathOK(p)'
    PROVE  WorkInv'
<1>1. OwnerInv /\ Types
  BY DEF WorkInv, OwnerInv
<1>2. /\ UNCHANGED <<file, backup, saving, unsaved, latest>> /\ session[s] = None
      /\ Update(s, x)
  BY DEF Start, Update
<1>3. s \in Sessions /\ session'[s] = x
  BY <1>1, <1>2, TypeFacts DEF Update
<1>4. saving'[s] = None
  BY <1>1, <1>2, <1>3 DEF OwnerInv, LocksOK, Live
<1>5. Based(s)' /\ SavingOK(s)' /\ PendingOK(s)'
  BY <1>2, <1>3, <1>4 DEF Based, SavingOK, PendingOK, Owned
<1> QED
  BY <1>2, <1>5, WorkStep

\* Opening a session loses no work.
LEMMA OpeningKeeps ==
    ASSUME WorkInv, UNCHANGED scenario, NEW s \in scenario.sessions, NEW p,
           new(s) \/ (p \in Paths /\ open(s, p))
    PROVE  WorkInv'
<1>1. OwnerInv /\ Types
  BY DEF WorkInv, OwnerInv
<1>2. OwnerInv' /\ Opens(s)
  BY <1>1, NewOK, OpenCheckpointOK, OpenFileOK, OpenBackupOK DEF open
<1>3. UNCHANGED <<file, unsaved, latest>>
  BY <1>2 DEF Opens, Start
<1>4. \A q \in Paths : PathOK(q)
  BY DEF WorkInv
<1>5. \A q \in Paths : PathOK(q)'
  <2>1. CASE UNCHANGED <<checkpoint, aside>>
    BY <1>3, <1>4, <2>1, PathSame
  <2>2. CASE p \in Paths /\ open_file(s, p) /\ ~UNCHANGED <<checkpoint, aside>>
    <3>1. PICK r : r = Current(checkpoint[p].work)
      OBVIOUS
    <3>2. /\ ~Usable(p) /\ checkpoint[p] # None
          /\ checkpoint' = [checkpoint EXCEPT ![p] = None]
          /\ aside' = [aside EXCEPT ![p] = @ \cup {r}]
      BY <2>2, <3>1 DEF open_file
    <3>3. /\ checkpoint'[p] = None /\ aside'[p] = aside[p] \cup {r}
          /\ \A q \in Paths : q # p => checkpoint'[q] = checkpoint[q] /\ aside'[q] = aside[q]
      BY <1>1, <2>2, <3>2, TypeFacts
    <3>4. PathOK(p)'
      BY <1>3, <1>4, <2>2, <3>1, <3>2, <3>3 DEF PathOK, Usable
    <3>5. \A q \in Paths : q # p => PathOK(q)'
      BY <1>3, <1>4, <3>3, PathSame
    <3> QED
      BY <3>4, <3>5
  <2> QED
    BY <2>1, <2>2 DEF new, open, open_checkpoint, open_backup
<1> QED
  BY <1>2, <1>5, StartKeeps DEF Opens

\* The work a session's own checkpoint holds is what the session shows.
LEMMA OwnCheckpoint ==
    ASSUME NEW x \in Session, Coherent(x), x.checkpointId # None
    PROVE  /\ Current(x.checkpointId.work) = Current(x.doc)
           /\ OwnWork(x) = {Current(x.doc)}
BY DEF Coherent, OwnWork

\* Removing the checkpoint of the session s at the saved state, or failing to.
LEMMA ClearKeeps ==
    ASSUME WorkInv, NEW s \in Idle, NEW doc \in Doc, NEW x, x = session[s],
           doc.at <= Len(doc.trail), UNCHANGED file,
           checkpoint_target(x) # None, MatchesSaved(x, doc),
           clear_at_saved(s, x, checkpoint_target(x), doc)
    PROVE  /\ \A p \in Paths : PathOK(p)'
           /\ \A p \in Paths : lock[p] \notin {None, s} =>
                 latest'[p] = latest[p] /\ unsaved'[p] = unsaved[p]
           /\ Update(s, With(x, doc, None))
           /\ x.pending # None /\ checkpoint'[x.pending.path] = x.pending.id =>
                 /\ Current(x.pending.id.work) \notin unsaved'[x.pending.path]
                 /\ latest'[x.pending.path] # None =>
                        latest'[x.pending.path] = file'[x.pending.path]
<1>1. s \in Live /\ saving[s] = None /\ OwnerInv /\ Types
  BY IdleFacts DEF WorkInv, OwnerInv
<1>2. /\ x \in Session /\ Coherent(x) /\ x.checkpointId \in Checkpoint \cup {None}
      /\ x.checkpointId # None =>
            lock[Owned(x)] = s /\ checkpoint[Owned(x)] \in {x.checkpointId, None}
  BY <1>1, StepFacts
<1>3. /\ checkpoint_target(x).path = Owned(x) /\ Owned(x) \in Paths
      /\ x.path # None /\ checkpoint_target(x).base = x.fileId
  BY <1>2, TargetFacts DEF MatchesSaved
<1>4. PICK p : p = Owned(x)
  OBVIOUS
<1>5. /\ clear_work_recovery(p, x.checkpointId)
      /\ unsaved' = [unsaved EXCEPT ![p] = @ \ OwnWork(x)]
      /\ latest' = IF x.checkpointId = None \/ latest[p] = None THEN latest
                   ELSE [latest EXCEPT ![p] = Current(doc)]
      /\ Update(s, With(x, doc, None))
  BY <1>3, <1>4 DEF clear_at_saved, With
<1>6. /\ aside' = aside /\ \A q \in Paths : q # p => checkpoint'[q] = checkpoint[q]
      /\ checkpoint'[p] = IF x.checkpointId # None /\ checkpoint[p] = x.checkpointId
                          THEN None ELSE checkpoint[p]
  BY <1>1, <1>2, <1>3, <1>4, <1>5, ClearFacts
<1>7. /\ unsaved'[p] = unsaved[p] \ OwnWork(x)
      /\ \A q \in Paths : q # p => unsaved'[q] = unsaved[q] /\ latest'[q] = latest[q]
  BY <1>1, <1>3, <1>4, <1>5, TypeFacts
<1>8. /\ \A q \in Paths : PathOK(q)
      /\ latest[p] # None /\ x.checkpointId # None => file[p] = x.checkpointId.base
      /\ x.pending # None /\ checkpoint[x.pending.path] = x.pending.id =>
            /\ Current(x.pending.id.work) \notin unsaved[x.pending.path]
            /\ latest[x.pending.path] # None => latest[x.pending.path] = file[x.pending.path]
  BY <1>1, <1>4 DEF WorkInv, Based, PendingOK
<1>9. Current(doc) = x.fileId
  BY <1>2, <1>3, Digest DEF Coherent, MatchesSaved
<1>10. x.pending # None => x.pending.path \in Paths /\ x.pending.id \in Checkpoint
  BY <1>2, PendingFacts
<1>11. \A q \in Paths : q # p => PathOK(q)'
  BY <1>6, <1>7, <1>8, PathSame
<1>12. CASE x.checkpointId = None
  <2>1. UNCHANGED latest /\ OwnWork(x) = {} /\ checkpoint'[p] = checkpoint[p]
    BY <1>5, <1>6, <1>12 DEF OwnWork
  <2>2. PathOK(p)'
    BY <1>3, <1>4, <1>6, <1>7, <1>8, <2>1, PathSame
  <2>3. \A q \in Paths : unsaved'[q] = unsaved[q] /\ checkpoint'[q] = checkpoint[q]
    BY <1>6, <1>7, <2>1
  <2> QED
    BY <1>5, <1>8, <1>10, <1>11, <2>1, <2>2, <2>3, <1>4
<1>13. CASE x.checkpointId # None
  <2>1. Current(x.checkpointId.work) = Current(x.doc) /\ OwnWork(x) = {Current(x.doc)}
    BY <1>2, <1>13, OwnCheckpoint
  <2>2. checkpoint'[p] = None
    BY <1>2, <1>4, <1>6, <1>13
  <2>3. latest'[p] # None => latest'[p] = Current(doc) /\ latest[p] # None
    BY <1>1, <1>3, <1>4, <1>5, <1>13, TypeFacts
  <2>4. x.checkpointId.base = x.fileId
    BY <1>2, <1>3, <1>13 DEF Coherent
  <2>5. latest'[p] # None => file'[p] = latest'[p] /\ file[p] \in Revisions
    BY <1>3, <1>4, <1>8, <1>9, <1>13, <2>3, <2>4 DEF PathOK
  <2>6. ASSUME NEW r \in unsaved'[p] PROVE r \in aside'[p]
    <3>1. r \in unsaved[p] /\ r # Current(x.doc)
      BY <1>7, <2>1, <2>6
    <3>2. \/ checkpoint[p] # None /\ Current(checkpoint[p].work) = r
          \/ r \in aside[p]
      BY <1>3, <1>4, <1>8, <3>1 DEF PathOK
    <3> QED
      BY <1>2, <1>4, <1>6, <1>13, <2>1, <3>1, <3>2
  <2>7. PathOK(p)'
    BY <2>2, <2>5, <2>6 DEF PathOK, Usable
  <2>8. x.pending # None /\ checkpoint'[x.pending.path] = x.pending.id => x.pending.path # p
    BY <1>10, <2>2, NoneFacts
  <2>9. lock[p] = s
    BY <1>2, <1>4, <1>13
  <2> QED
    BY <1>4, <1>5, <1>6, <1>7, <1>8, <1>10, <1>11, <2>7, <2>8, <2>9
<1> QED
  BY <1>12, <1>13

\* A checkpoint written holds the latest work of its path, and no other path is touched.
LEMMA WriteKeeps ==
    ASSUME WorkInv, NEW s \in Idle, NEW doc \in Doc, NEW x, x = session[s],
           doc.at <= Len(doc.trail), UNCHANGED file,
           checkpoint_target(x) # None, ~MatchesSaved(x, doc),
           Holds(s) \/ lock[checkpoint_target(x).path] = None,
           write_work_recovery(s, x, checkpoint_target(x), doc)
    PROVE  /\ \A p \in Paths : PathOK(p)'
           /\ \A p \in Paths : lock[p] \notin {None, s} =>
                 latest'[p] = latest[p] /\ unsaved'[p] = unsaved[p]
           /\ Update(s, With(x, doc, Written(x, doc)))
           /\ Written(x, doc) \in Checkpoint
           /\ file'[Owned(x)] = Written(x, doc).base
           /\ x.pending # None /\ checkpoint'[x.pending.path] = x.pending.id =>
                 /\ Current(x.pending.id.work) \notin unsaved'[x.pending.path]
                 /\ latest'[x.pending.path] # None =>
                        latest'[x.pending.path] = file'[x.pending.path]
<1>1. s \in Live /\ saving[s] = None /\ OwnerInv /\ Types
  BY IdleFacts DEF WorkInv, OwnerInv
<1>2. x \in Session /\ Coherent(x)
  BY <1>1, StepFacts
<1>3. checkpoint_target(x).base \in Revisions
  BY <1>2, TargetFacts
<1>4. PICK p, w : p = Owned(x) /\ w = Written(x, doc)
  OBVIOUS
<1>5. /\ p \in Paths /\ lock[p] \in {None, s} /\ w \in Checkpoint /\ w # None
      /\ w.work = doc /\ w.base = checkpoint_target(x).base
      /\ file[p] = checkpoint_target(x).base
      /\ checkpoint[p] = x.checkpointId
      /\ checkpoint' = [checkpoint EXCEPT ![p] = w]
      /\ Update(s, With(x, doc, w))
      /\ unsaved' = [unsaved EXCEPT ![p] = (@ \ OwnWork(x)) \cup {Current(doc)}]
      /\ latest' = [latest EXCEPT ![p] = Current(doc)]
      /\ UNCHANGED aside
  BY <1>1, <1>4, WriteFacts, SMTT(20)
<1>6. /\ checkpoint'[p] = w /\ latest'[p] = Current(doc)
      /\ unsaved'[p] = (unsaved[p] \ OwnWork(x)) \cup {Current(doc)}
      /\ \A q \in Paths : q # p => /\ checkpoint'[q] = checkpoint[q] /\ latest'[q] = latest[q]
                                   /\ unsaved'[q] = unsaved[q]
  BY <1>1, <1>5, TypeFacts
<1>7. /\ \A q \in Paths : PathOK(q)
      /\ x.pending # None /\ checkpoint[x.pending.path] = x.pending.id =>
            /\ Current(x.pending.id.work) \notin unsaved[x.pending.path]
            /\ latest[x.pending.path] # None => latest[x.pending.path] = file[x.pending.path]
  BY <1>1 DEF WorkInv, PendingOK
<1>8. \A q \in Paths : q # p => PathOK(q)'
  BY <1>5, <1>6, <1>7, PathSame
<1>9. ASSUME NEW r \in unsaved'[p], r # Current(doc) PROVE r \in aside'[p]
  <2>1. r \in unsaved[p] /\ r \notin OwnWork(x)
    BY <1>6, <1>9
  <2>2. \/ checkpoint[p] # None /\ Current(checkpoint[p].work) = r
        \/ r \in aside[p]
    BY <1>5, <1>7, <2>1 DEF PathOK
  <2>3. x.checkpointId # None =>
            Current(x.checkpointId.work) = Current(x.doc) /\ OwnWork(x) = {Current(x.doc)}
    BY <1>2, OwnCheckpoint
  <2> QED
    BY <1>5, <2>1, <2>2, <2>3
<1>10. PathOK(p)'
  <2>1. Usable(p)' /\ file'[p] \in Revisions
    BY <1>3, <1>5, <1>6 DEF Usable
  <2> QED
    BY <1>5, <1>6, <1>9, <2>1 DEF PathOK, Current
<1>11. x.pending # None => w # x.pending.id /\ x.pending.path \in Paths
  BY <1>2, <1>5, PendingFacts DEF Coherent, MatchesSaved
<1> QED
  BY <1>4, <1>5, <1>6, <1>7, <1>8, <1>10, <1>11

\* A checkpoint that could not be cleared: every path still holds its work.
LEMMA ClearFailsKeeps ==
    ASSUME WorkInv, NEW s \in Idle, NEW x, x = session[s], UNCHANGED <<file, unsaved>>,
           checkpoint_target(x) # None,
           clear_work_recovery_fails(Owned(x), x.checkpointId),
           latest' = IF checkpoint' = checkpoint THEN latest
                     ELSE [latest EXCEPT ![Owned(x)] = None]
    PROVE  /\ \A p \in Paths : PathOK(p)'
           /\ \A p \in Paths : checkpoint'[p] \in {checkpoint[p], None}
           /\ \A p \in Paths : latest'[p] \in {latest[p], None}
<1>1. s \in Live /\ OwnerInv /\ Types
  BY IdleFacts DEF WorkInv, OwnerInv
<1>2. /\ x \in Session /\ Coherent(x) /\ x.checkpointId \in Checkpoint \cup {None}
  BY <1>1, StepFacts
<1>3. PICK p : p = Owned(x)
  OBVIOUS
<1>4. p \in Paths
  BY <1>2, <1>3, TargetFacts
<1>5. PICK r : r = Current(x.checkpointId.work)
  OBVIOUS
<1>6. /\ \A q \in Paths : q # p => checkpoint'[q] = checkpoint[q] /\ aside'[q] = aside[q]
      /\ \/ checkpoint' = checkpoint /\ aside' = aside
         \/ /\ x.checkpointId # None /\ checkpoint[p] = x.checkpointId /\ checkpoint'[p] = None
            /\ aside'[p] = aside[p] \cup {r}
  BY <1>1, <1>2, <1>3, <1>4, <1>5, ClearFailsFacts
<1>7. \A q \in Paths : PathOK(q)
  BY DEF WorkInv
<1>8. CASE checkpoint' = checkpoint /\ aside' = aside
  BY <1>7, <1>8, PathSame
<1>9. CASE /\ x.checkpointId # None /\ checkpoint[p] = x.checkpointId /\ checkpoint'[p] = None
           /\ aside'[p] = aside[p] \cup {r}
  <2>1. latest'[p] = None /\ \A q \in Paths : q # p => latest'[q] = latest[q]
    <3>1. latest' = [latest EXCEPT ![p] = None]
      BY <1>3, <1>9
    <3> QED
      BY <1>1, <1>4, <3>1, TypeFacts
  <2>2. PathOK(p)'
    BY <1>4, <1>5, <1>7, <1>9, <2>1 DEF PathOK
  <2>3. \A q \in Paths : q # p => PathOK(q)'
    BY <1>6, <1>7, <2>1, PathSame
  <2> QED
    BY <1>6, <1>9, <2>1, <2>2, <2>3
<1> QED
  BY <1>6, <1>8, <1>9

\* A change made with work recovery loses no work.
LEMMA MutateKeeps ==
    ASSUME WorkInv, OwnerInv', UNCHANGED scenario, NEW s \in Idle, NEW doc \in Doc,
           doc.at <= Len(doc.trail), mutate_with_work_recovery(s, doc)
    PROVE  WorkInv'
<1>1. /\ s \in Live /\ saving[s] = None /\ OwnerInv /\ Types
      /\ UNCHANGED <<file, backup, saving>>
  BY IdleFacts DEF WorkInv, OwnerInv, mutate_with_work_recovery
<1>2. PICK x : x = session[s]
  OBVIOUS
<1>3. /\ x \in Session /\ Coherent(x) /\ s \in Sessions /\ s \in scenario.sessions
      /\ x.checkpointId \in Checkpoint \cup {None}
      /\ UNCHANGED session => Update(s, x)
      /\ session \in [Sessions -> Session \cup {None}]
  BY <1>1, <1>2, StepFacts, TypeFacts
<1>4. saving'[s] = None /\ \A t \in Sessions \ {s} : saving'[t] = saving[t]
  BY <1>1, <1>3
<1>5. SavingOK(s)'
  BY <1>4 DEF SavingOK
<1>6. /\ \A q \in Paths : PathOK(q)
      /\ Based(s) /\ PendingOK(s)
  BY <1>1 DEF WorkInv
<1>7. \A y : Update(s, y) => session'[s] = y
  BY <1>3 DEF Update
<1>8. CASE checkpoint_target(x) = None
  <2>1. /\ Update(s, [x EXCEPT !.doc = doc])
        /\ UNCHANGED <<checkpoint, aside, lock, unsaved, latest>>
    BY <1>2, <1>8 DEF mutate_with_work_recovery
  <2>2. x.checkpointId = None /\ x.path = None /\ x.pending = None
    <3>1. x.checkpointId = None
      BY <1>3, <1>8 DEF Coherent
    <3>2. x.path = None
      <4>1. x.path # None =>
                [path |-> x.path, base |-> x.fileId] \in [path : Paths, base : Revisions]
        BY <1>3 DEF Coherent, Session
      <4> QED
        BY <1>3, <1>8, <4>1, NoneFacts DEF Coherent, checkpoint_target
    <3> QED
      BY <1>3, <3>1, <3>2 DEF Coherent
  <2>3. PICK y : y = [x EXCEPT !.doc = doc]
    OBVIOUS
  <2>4. y.checkpointId = None /\ y.pending = None /\ Update(s, y)
    BY <1>3, <2>1, <2>2, <2>3 DEF Session
  <2>5. Based(s)' /\ PendingOK(s)'
    BY <1>7, <2>4 DEF Based, PendingOK
  <2>6. \A q \in Paths : PathOK(q)'
    BY <1>1, <1>6, <2>1, PathSame
  <2> QED
    BY <1>1, <1>3, <1>4, <1>5, <2>1, <2>4, <2>5, <2>6, WorkStep
<1>9. CASE checkpoint_target(x) # None /\ MatchesSaved(x, doc)
  <2>1. checkpoint_target(x).path = Owned(x) /\ Owned(x) \in Paths
    BY <1>3, <1>9, TargetFacts
  <2>2. CASE clear_at_saved(s, x, checkpoint_target(x), doc)
    <3>1. PICK y : y = With(x, doc, None)
      OBVIOUS
    <3>2. /\ \A p \in Paths : PathOK(p)'
          /\ \A p \in Paths : lock[p] \notin {None, s} =>
                latest'[p] = latest[p] /\ unsaved'[p] = unsaved[p]
          /\ Update(s, y)
          /\ x.pending # None /\ checkpoint'[x.pending.path] = x.pending.id =>
                /\ Current(x.pending.id.work) \notin unsaved'[x.pending.path]
                /\ latest'[x.pending.path] # None =>
                       latest'[x.pending.path] = file'[x.pending.path]
      BY <1>1, <1>2, <1>9, <2>2, <3>1, ClearKeeps
    <3>3. y.checkpointId = None /\ y.pending = x.pending
      BY <1>3, <3>1, WithFacts
    <3>4. Based(s)' /\ PendingOK(s)'
      BY <1>7, <3>2, <3>3 DEF Based, PendingOK, Current
    <3>5. \A p \in Paths : lock[p] \notin {None, s} =>
              /\ file'[p] = file[p] /\ latest'[p] \in {latest[p], None}
              /\ unsaved'[p] \subseteq unsaved[p]
      BY <1>1, <3>2
    <3> QED
      BY <1>3, <1>4, <1>5, <3>2, <3>4, <3>5, WorkStep
  <2>3. CASE /\ clear_work_recovery_fails(Owned(x), x.checkpointId)
             /\ latest' = IF checkpoint' = checkpoint THEN latest
                          ELSE [latest EXCEPT ![Owned(x)] = None]
             /\ UNCHANGED <<lock, session, unsaved>>
    <3>1. /\ \A p \in Paths : PathOK(p)'
          /\ \A p \in Paths : checkpoint'[p] \in {checkpoint[p], None}
          /\ \A p \in Paths : latest'[p] \in {latest[p], None}
      BY <1>1, <1>2, <1>9, <2>3, ClearFailsKeeps
    <3>2. Update(s, x) /\ session'[s] = x
      BY <1>2, <1>3, <2>3
    <3>3. Based(s)'
      BY <1>1, <1>2, <1>6, <2>1, <3>1, <3>2 DEF Based, Owned
    <3>4. PendingOK(s)'
      <4>1. x.pending # None => x.pending.path \in Paths /\ x.pending.id # None
        BY <1>3, PendingFacts, NoneFacts
      <4> QED
        BY <1>1, <1>2, <1>6, <2>3, <3>1, <3>2, <4>1 DEF PendingOK, Current
    <3>5. \A p \in Paths : lock[p] \notin {None, s} =>
              /\ file'[p] = file[p] /\ latest'[p] \in {latest[p], None}
              /\ unsaved'[p] \subseteq unsaved[p]
      BY <1>1, <2>3, <3>1
    <3> QED
      BY <1>3, <1>4, <1>5, <3>1, <3>2, <3>3, <3>4, <3>5, WorkStep
  <2> QED
    BY <1>2, <1>9, <2>1, <2>2, <2>3 DEF mutate_with_work_recovery
<1>10. CASE checkpoint_target(x) # None /\ ~MatchesSaved(x, doc)
  <2>1. PICK w : w = Written(x, doc)
    OBVIOUS
  <2>2. PICK y : y = With(x, doc, w)
    OBVIOUS
  <2>3. /\ \A p \in Paths : PathOK(p)'
        /\ \A p \in Paths : lock[p] \notin {None, s} =>
              latest'[p] = latest[p] /\ unsaved'[p] = unsaved[p]
        /\ Update(s, y) /\ w \in Checkpoint /\ file'[Owned(x)] = w.base
        /\ x.pending # None /\ checkpoint'[x.pending.path] = x.pending.id =>
              /\ Current(x.pending.id.work) \notin unsaved'[x.pending.path]
              /\ latest'[x.pending.path] # None =>
                     latest'[x.pending.path] = file'[x.pending.path]
    <3>1. /\ Holds(s) \/ lock[checkpoint_target(x).path] = None
          /\ write_work_recovery(s, x, checkpoint_target(x), doc)
      BY <1>2, <1>10 DEF mutate_with_work_recovery
    <3> QED
      BY <1>1, <1>2, <1>10, <2>1, <2>2, <3>1, WriteKeeps
  <2>4. y.checkpointId = w /\ y.pending = x.pending /\ Owned(y) = Owned(x)
    BY <1>3, <2>2, <2>3, WithFacts
  <2>7. session'[s] = y
    BY <1>7, <2>3
  <2>8. Based(s)'
    BY <2>3, <2>4, <2>7 DEF Based, Owned
  <2>5. Based(s)' /\ PendingOK(s)'
    BY <2>3, <2>4, <2>7, <2>8 DEF PendingOK, Current
  <2>6. \A p \in Paths : lock[p] \notin {None, s} =>
            /\ file'[p] = file[p] /\ latest'[p] \in {latest[p], None}
            /\ unsaved'[p] \subseteq unsaved[p]
    BY <1>1, <2>3
  <2> QED
    BY <1>3, <1>4, <1>5, <2>3, <2>5, <2>6, WorkStep
<1> QED
  BY <1>8, <1>9, <1>10

\* A pending removal takes away a checkpoint that is no longer needed.
LEMMA RetryKeeps ==
    ASSUME WorkInv, OwnerInv', UNCHANGED scenario, NEW s \in Idle,
           retry_pending_work_recovery_cleanup(s)
    PROVE  WorkInv'
<1>1. s \in Live /\ saving[s] = None /\ OwnerInv /\ Types
  BY IdleFacts DEF WorkInv, OwnerInv
<1>2. PICK x : x = session[s]
  OBVIOUS
<1>3. /\ x \in Session /\ Coherent(x) /\ s \in Sessions /\ s \in scenario.sessions
      /\ UNCHANGED session => Update(s, x)
      /\ session \in [Sessions -> Session \cup {None}]
  BY <1>1, <1>2, StepFacts, TypeFacts
<1>4. /\ x.pending # None /\ UNCHANGED <<file, backup, lock, saving, made, unsaved, latest>>
      /\ \/ clear_work_recovery(x.pending.path, x.pending.id) /\ Update(s, WithoutPending(x))
         \/ clear_work_recovery_fails(x.pending.path, x.pending.id) /\ UNCHANGED session
  BY <1>2 DEF retry_pending_work_recovery_cleanup, WithoutPending
<1>5. PICK p, c, r : p = x.pending.path /\ c = x.pending.id /\ r = Current(x.pending.id.work)
  OBVIOUS
<1>6. p \in Paths /\ c \in Checkpoint /\ c # None
  BY <1>3, <1>4, <1>5, PendingFacts, NoneFacts
<1>7. /\ \A q \in Paths : q # p => checkpoint'[q] = checkpoint[q] /\ aside'[q] = aside[q]
      /\ aside[p] \subseteq aside'[p]
      /\ checkpoint'[p] = checkpoint[p] \/ (checkpoint[p] = c /\ checkpoint'[p] = None)
  BY <1>1, <1>4, <1>5, <1>6, ClearFacts, ClearFailsFacts
<1>8. /\ \A q \in Paths : PathOK(q)
      /\ Based(s)
      /\ checkpoint[p] = c => /\ r \notin unsaved[p]
                              /\ latest[p] # None => latest[p] = file[p]
  BY <1>1, <1>2, <1>4, <1>5 DEF WorkInv, PendingOK
<1>9. \A q \in Paths : q # p => PathOK(q)'
  BY <1>4, <1>7, <1>8, PathSame
<1>10. PathOK(p)'
  <2>1. CASE checkpoint'[p] = checkpoint[p]
    BY <1>4, <1>6, <1>7, <1>8, <2>1, PathSame
  <2>2. CASE checkpoint[p] = c /\ checkpoint'[p] = None
    <3>1. latest'[p] # None => latest'[p] = file'[p] /\ file'[p] \in Revisions
      BY <1>4, <1>6, <1>8, <2>2 DEF PathOK
    <3>2. \A q \in unsaved'[p] : q \in aside'[p]
      BY <1>4, <1>5, <1>6, <1>7, <1>8, <2>2 DEF PathOK
    <3> QED
      BY <2>2, <3>1, <3>2 DEF PathOK, Usable
  <2> QED
    BY <1>7, <2>1, <2>2
<1>11. PICK y : y \in {x, WithoutPending(x)} /\ Update(s, y)
  BY <1>3, <1>4
<1>12. /\ session'[s] = y /\ y.checkpointId = x.checkpointId /\ Owned(y) = Owned(x)
       /\ y.pending \in {x.pending, None}
  <2>1. session'[s] = y
    BY <1>3, <1>11 DEF Update
  <2>2. CASE y = x
    BY <2>1, <2>2
  <2>3. CASE y = WithoutPending(x)
    <3>1. /\ y.checkpointId = x.checkpointId /\ y.path = x.path /\ y.requested = x.requested
          /\ y.pending = None
      BY <1>3, <2>3 DEF WithoutPending, Session
    <3> QED
      BY <2>1, <3>1 DEF Owned
  <2> QED BY <1>11, <2>2, <2>3
<1>13. saving'[s] = None /\ \A t \in Sessions \ {s} : saving'[t] = saving[t]
  BY <1>1, <1>4
<1>14. Based(s)' /\ SavingOK(s)'
  BY <1>1, <1>2, <1>4, <1>8, <1>12, <1>13 DEF Based, SavingOK, Owned
<1>15. PendingOK(s)'
  BY <1>4, <1>5, <1>6, <1>7, <1>8, <1>12 DEF PendingOK, Current
<1>16. \A q \in Paths : PathOK(q)'
  BY <1>9, <1>10
<1>17. \A q \in Paths : /\ file'[q] = file[q] /\ latest'[q] \in {latest[q], None}
                        /\ unsaved'[q] \subseteq unsaved[q]
  BY <1>4
<1> QED
  BY <1>3, <1>11, <1>13, <1>14, <1>15, <1>16, <1>17, WorkStep

\* Publishing: what the file holds now is what the session shows.
LEMMA SaveKeeps ==
    ASSUME WorkInv, OwnerInv', UNCHANGED scenario, NEW s \in Idle, NEW p \in Paths,
           NEW overwrite \in BOOLEAN, save(s, p, overwrite)
    PROVE  WorkInv'
<1>1. s \in Live /\ saving[s] = None /\ OwnerInv /\ Types
  BY IdleFacts DEF WorkInv, OwnerInv
<1>2. PICK x : x = session[s]
  OBVIOUS
<1>3. /\ x \in Session /\ Coherent(x) /\ s \in Sessions /\ s \in scenario.sessions
      /\ Current(x.doc) \in Revisions
      /\ UNCHANGED session => Update(s, x)
      /\ x.checkpointId # None => Owned(x) \in Paths /\ lock[Owned(x)] = s
  BY <1>1, <1>2, StepFacts
<1>4. /\ x.pending = None /\ lock[p] \in {None, s}
      /\ p \in {x.path, x.requested} => p = Owned(x) /\ checkpoint[p] = x.checkpointId
      /\ p \notin {x.path, x.requested} => checkpoint[p] = None
      /\ Publishes(s, x, p) \/ UNCHANGED <<file, lock, saving, unsaved, latest>>
      /\ UNCHANGED <<checkpoint, aside, session, made>>
  BY <1>1, <1>2, SaveFacts
<1>5. /\ \A q \in Paths : PathOK(q)
      /\ Based(s) /\ SavingOK(s) /\ PendingOK(s)
  BY <1>1 DEF WorkInv
<1>6. Update(s, x) /\ session'[s] = x
  BY <1>2, <1>3, <1>4
<1>7. PendingOK(s)'
  BY <1>4, <1>6 DEF PendingOK
<1>8. CASE Publishes(s, x, p)
  <2>1. PICK r : r = Current(x.doc)
    OBVIOUS
  <2>2. /\ file'[p] = r /\ \A q \in Paths : q # p => file'[q] = file[q]
        /\ saving'[s] = p /\ \A t \in Sessions \ {s} : saving'[t] = saving[t]
    BY <1>1, <1>3, <1>8, <2>1, TypeFacts DEF Publishes
  <2>3. \A q \in Paths :
            /\ latest'[q] = IF q = p THEN r ELSE IF q = Owned(x) THEN None ELSE latest[q]
            /\ unsaved'[q] = IF q = Owned(x) THEN unsaved[q] \ OwnWork(x) ELSE unsaved[q]
    BY <1>8, <2>1 DEF Publishes
  <2>4. \A q \in Paths : q # p => PathOK(q)'
    BY <1>4, <1>5, <2>2, <2>3, PathSame
  <2>5. PathOK(p)'
    <3>1. checkpoint[p] # None => Current(checkpoint[p].work) = r
      BY <1>3, <1>4, <2>1, OwnCheckpoint
    <3>2. latest'[p] = r /\ file'[p] = r /\ r \in Revisions
      BY <1>3, <2>1, <2>2, <2>3
    <3>3. \A q \in unsaved'[p] : \/ checkpoint[p] # None /\ Current(checkpoint[p].work) = q
                                 \/ q \in aside[p]
      BY <1>5, <2>3 DEF PathOK
    <3> QED
      BY <1>4, <3>1, <3>2, <3>3 DEF PathOK, Usable, Current
  <2>6. Based(s)'
    BY <2>2, NoneFacts DEF Based
  <2>7. SavingOK(s)'
    <3>1. latest'[p] = r /\ file'[p] = r
      BY <2>2, <2>3
    <3>2. x.checkpointId # None =>
              /\ Owned(x) # p => latest'[Owned(x)] = None
              /\ r \notin unsaved'[Owned(x)]
      BY <1>3, <2>1, <2>3, OwnCheckpoint
    <3> QED
      BY <1>6, <2>1, <2>2, <3>1, <3>2 DEF SavingOK, Owned, Current
  <2>8. \A q \in Paths : lock[q] \notin {None, s} =>
            /\ file'[q] = file[q] /\ latest'[q] \in {latest[q], None}
            /\ unsaved'[q] \subseteq unsaved[q]
    BY <1>4, <2>2, <2>3
  <2>9. \A q \in Paths : PathOK(q)'
    BY <2>4, <2>5
  <2> QED
    BY <1>3, <1>6, <1>7, <2>2, <2>6, <2>7, <2>8, <2>9, WorkStep
<1>9. CASE UNCHANGED <<file, lock, saving, unsaved, latest>>
  <2>1. \A q \in Paths : PathOK(q)'
    BY <1>4, <1>5, <1>9, PathSame
  <2>2. Based(s)' /\ SavingOK(s)'
    BY <1>1, <1>2, <1>5, <1>6, <1>9 DEF Based, SavingOK, Owned
  <2> QED
    BY <1>3, <1>6, <1>7, <1>9, <2>1, <2>2, WorkStep
<1> QED
  BY <1>4, <1>8, <1>9

\* After publishing, the session's checkpoint is no longer needed.
LEMMA SettleKeeps ==
    ASSUME WorkInv, OwnerInv', UNCHANGED scenario, NEW s \in Live \ Idle, save_settle(s)
    PROVE  WorkInv'
<1>1. s \in Live /\ OwnerInv /\ Types
  BY DEF WorkInv, OwnerInv
<1>2. PICK x : x = session[s]
  OBVIOUS
<1>3. /\ x \in Session /\ Coherent(x) /\ s \in Sessions /\ s \in scenario.sessions
      /\ x.checkpointId \in Checkpoint \cup {None}
      /\ x.doc.at <= Len(x.doc.trail)
      /\ x.checkpointId # None =>
            Owned(x) \in Paths /\ checkpoint[Owned(x)] \in {x.checkpointId, None}
      /\ session \in [Sessions -> Session \cup {None}]
      /\ saving \in [Sessions -> Paths \cup {None}]
  BY <1>1, <1>2, StepFacts, TypeFacts
<1>4. PICK p, o, r : p = saving[s] /\ o = Owned(x) /\ r = Current(x.doc)
  OBVIOUS
<1>5. /\ p \in Paths
      /\ \/ /\ x.checkpointId = None /\ UNCHANGED <<checkpoint, aside>>
            /\ Update(s, Settled(x, p))
         \/ /\ x.checkpointId # None /\ clear_work_recovery(o, x.checkpointId)
            /\ Update(s, Settled(x, p))
         \/ /\ x.checkpointId # None /\ clear_work_recovery_fails(o, x.checkpointId)
            /\ Update(s, SettledPending(x, p))
      /\ saving' = [saving EXCEPT ![s] = None]
      /\ UNCHANGED <<file, backup, made, unsaved, latest>>
  BY <1>1, <1>2, <1>4, SettleFacts
<1>6. /\ \A q \in Paths : PathOK(q)
      /\ latest[p] # None => latest[p] = r /\ file[p] = latest[p]
      /\ x.checkpointId # None => /\ o # p => latest[o] = None
                                  /\ r \notin unsaved[o]
  BY <1>1, <1>2, <1>4, <1>5, NoneFacts DEF WorkInv, SavingOK
<1>7. PICK y : Update(s, y) /\ IsSettled(y, x, p)
  BY <1>5 DEF IsSettled, clear_work_recovery_fails
<1>8. /\ y.checkpointId = None
      /\ y.pending # None => /\ x.checkpointId # None /\ y.pending.path = o
                             /\ y.pending.id = x.checkpointId
  <2>1. x.checkpointId # None => Owned(x) \in Paths /\ x.checkpointId.work = x.doc
    BY <1>3 DEF Coherent
  <2> QED
    BY <1>3, <1>4, <1>5, <1>7, <2>1, SettledFacts
<1>9. /\ session'[s] = y /\ saving'[s] = None
      /\ \A t \in Sessions \ {s} : saving'[t] = saving[t]
  BY <1>3, <1>5, <1>7 DEF Update
<1>10. x.checkpointId # None => Current(x.checkpointId.work) = r
  BY <1>3, <1>4, OwnCheckpoint
<1>11. /\ x.checkpointId = None => checkpoint' = checkpoint /\ aside' = aside
       /\ x.checkpointId # None =>
             /\ \A q \in Paths : q # o => checkpoint'[q] = checkpoint[q] /\ aside'[q] = aside[q]
             /\ aside[o] \subseteq aside'[o] /\ checkpoint'[o] \in {checkpoint[o], None}
  BY <1>1, <1>3, <1>4, <1>5, ClearFacts, ClearFailsFacts
<1>12. \A q \in Paths : PathOK(q)'
  <2>1. CASE x.checkpointId = None
    BY <1>5, <1>6, <1>11, <2>1, PathSame
  <2>2. CASE x.checkpointId # None
    <3>1. \A q \in Paths : q # o => PathOK(q)'
      BY <1>5, <1>6, <1>11, <2>2, PathSame
    <3>2. PathOK(o)'
      <4>1. CASE checkpoint'[o] = checkpoint[o]
        BY <1>3, <1>4, <1>5, <1>6, <1>11, <2>2, <4>1, PathSame
      <4>2. CASE checkpoint'[o] = None
        <5>1. latest'[o] # None => latest'[o] = file'[o] /\ file'[o] \in Revisions
          BY <1>3, <1>4, <1>5, <1>6, <2>2 DEF PathOK
        <5>2. \A q \in unsaved'[o] : q \in aside'[o]
          BY <1>3, <1>4, <1>5, <1>6, <1>10, <1>11, <2>2 DEF PathOK
        <5> QED
          BY <4>2, <5>1, <5>2 DEF PathOK, Usable
      <4> QED
        BY <1>11, <2>2, <4>1, <4>2
    <3> QED
      BY <3>1, <3>2
  <2> QED BY <2>1, <2>2
<1>13. Based(s)' /\ SavingOK(s)'
  BY <1>8, <1>9 DEF Based, SavingOK
<1>14. PendingOK(s)'
  BY <1>5, <1>6, <1>8, <1>9, <1>10 DEF PendingOK, Current
<1>15. \A q \in Paths : /\ file'[q] = file[q] /\ latest'[q] \in {latest[q], None}
                        /\ unsaved'[q] \subseteq unsaved[q]
  BY <1>5
<1> QED
  BY <1>3, <1>7, <1>9, <1>12, <1>13, <1>14, <1>15, WorkStep

\* A crash loses no work that a checkpoint held.
LEMMA StopKeeps ==
    ASSUME WorkInv, OwnerInv', UNCHANGED scenario, NEW s \in Live, stop(s) PROVE WorkInv'
<1>1. OwnerInv /\ Types /\ s \in Sessions /\ s \in scenario.sessions
      /\ saving \in [Sessions -> Paths \cup {None}]
  BY StepFacts, TypeFacts DEF WorkInv
<1>2. /\ Update(s, None) /\ saving' = [saving EXCEPT ![s] = None]
      /\ UNCHANGED <<file, checkpoint, aside, unsaved, latest>>
  BY DEF stop, Update
<1>3. \A t \in Sessions \ {s} : saving'[t] = saving[t]
  BY <1>1, <1>2
<1>4. \A q \in Paths : PathOK(q)'
  BY <1>2, PathSame DEF WorkInv
<1>5. \A q \in Paths : /\ file'[q] = file[q] /\ latest'[q] \in {latest[q], None}
                       /\ unsaved'[q] \subseteq unsaved[q]
  BY <1>2
<1> QED
  BY <1>1, <1>2, <1>3, <1>4, <1>5, WorkStep

\* A file changed by another program loses no work of a checkpoint.
LEMMA OutsideKeeps ==
    ASSUME WorkInv, OwnerInv', UNCHANGED scenario, NEW p \in Paths,
           NEW found, ChangedOutside(p, found)
    PROVE  WorkInv'
<1>1. /\ OwnerInv /\ Types /\ file' = [file EXCEPT ![p] = found]
      /\ latest' = [latest EXCEPT ![p] = None]
      /\ UNCHANGED <<backup, checkpoint, aside, lock, session, saving, made, unsaved>>
  BY DEF WorkInv, OwnerInv, ChangedOutside
<1>2. /\ latest'[p] = None
      /\ \A q \in Paths : q # p => file'[q] = file[q] /\ latest'[q] = latest[q]
  BY <1>1, TypeFacts
<1>3. \A q \in Paths : q # p => PathOK(q)'
  BY <1>1, <1>2, PathSame DEF WorkInv
<1>4. PathOK(p)'
  BY <1>1, <1>2 DEF WorkInv, PathOK, Current
<1>5. ASSUME NEW s \in Live' PROVE (Based(s) /\ SavingOK(s) /\ PendingOK(s))'
  <2>1. s \in Live
    BY <1>1, <1>5 DEF Live
  <2>2. PICK x : x = session[s]
    OBVIOUS
  <2>3. /\ Based(s) /\ SavingOK(s) /\ PendingOK(s) /\ x \in Session
        /\ x.checkpointId # None => Owned(x) \in Paths
    BY <1>1, <2>1, <2>2, StepFacts DEF WorkInv
  <2>4. saving[s] \in Paths \cup {None}
    BY <1>1, <2>1, TypeFacts
  <2>8. \A q \in Paths : latest'[q] # None => latest'[q] = latest[q] /\ file'[q] = file[q]
    BY <1>2
  <2>9. session'[s] = x /\ saving' = saving /\ checkpoint' = checkpoint /\ unsaved' = unsaved
    BY <1>1, <2>2
  <2>5. Based(s)'
    BY <2>2, <2>3, <2>8, <2>9 DEF Based, Owned
  <2>6. SavingOK(s)'
    BY <2>2, <2>3, <2>4, <2>8, <2>9 DEF SavingOK, Owned, Current
  <2>7. PendingOK(s)'
    <3>1. x.pending # None => x.pending.path \in Paths
      BY <2>3, PendingFacts
    <3>2. ASSUME x.pending # None, checkpoint[x.pending.path] = x.pending.id
          PROVE  /\ Current(x.pending.id.work) \notin unsaved[x.pending.path]
                 /\ latest[x.pending.path] # None =>
                        latest[x.pending.path] = file[x.pending.path]
      BY <2>2, <2>3, <3>2 DEF PendingOK
    <3> QED
      BY <2>8, <2>9, <3>1, <3>2 DEF PendingOK, Current
  <2> QED
    BY <2>5, <2>6, <2>7
<1> QED
  BY <1>3, <1>4, <1>5 DEF WorkInv

------------------------------------------------------------------------------
(* No acknowledged work is lost *)

\* Where removing a checkpoint can fail there is one session.  With two the removal left
\* pending by one of them takes the checkpoint away that the other works on: the run
\* session_cleanup_race shows it.
Alone ==
    \A x \in Scenarios : "clear" \in x.faults => \A s, t \in x.sessions : s = t

\* The stronger invariant holds before any session is opened.
LEMMA WorkInitOK == ASSUME Alone, Init PROVE WorkInv
<1>1. OwnerInv
  BY InitOK
<1>2. Live = {}
  BY DEF Init, Live
<1>3. ASSUME NEW p \in Paths PROVE PathOK(p)
  <2>1. checkpoint[p] = None /\ unsaved[p] = {}
    BY DEF Init
  <2>2. latest[p] # None => file[p] \in Revisions /\ latest[p] = file[p]
    BY DEF Init
  <2> QED
    BY <2>1, <2>2 DEF PathOK, Usable
<1>4. "clear" \in scenario.faults => \A s, t \in scenario.sessions : s = t
  BY DEF Init, Alone
<1> QED
  BY <1>1, <1>2, <1>3, <1>4 DEF WorkInv

\* The stronger invariant holds when nothing changes.
LEMMA WorkStutterOK == ASSUME WorkInv, UNCHANGED vars PROVE WorkInv'
<1>1. OwnerInv'
  BY StutterOK DEF WorkInv
<1>2. /\ UNCHANGED <<file, checkpoint, aside, lock, session, saving>>
      /\ UNCHANGED <<unsaved, latest, scenario>>
  BY DEF vars
<1>3. \A p \in Paths : PathOK(p)'
  BY <1>2, PathSame DEF WorkInv
<1>4. \A s \in Live' : s \in Live /\ (Based(s) /\ SavingOK(s) /\ PendingOK(s))'
  BY <1>2 DEF WorkInv, Live, Based, SavingOK, PendingOK, Owned, Current
<1> QED
  BY <1>1, <1>2, <1>3, <1>4 DEF WorkInv

\* Every step keeps the stronger invariant.
LEMMA WorkNextOK == ASSUME WorkInv, [Next]_vars PROVE WorkInv'
<1>1. CASE UNCHANGED vars
  BY <1>1, WorkStutterOK
<1>2. CASE Next
  <2>1. OwnerInv /\ OwnerInv' /\ UNCHANGED scenario /\ scenario.paths \subseteq Paths
    BY <1>2, NextOK, TypeFacts DEF Next, WorkInv, OwnerInv
  <2>2. ASSUME NEW s \in scenario.sessions, new(s) PROVE WorkInv'
    BY <2>1, <2>2, OpeningKeeps
  <2>3. ASSUME NEW s \in scenario.sessions, NEW p \in scenario.paths, open(s, p) PROVE WorkInv'
    <3>1. p \in Paths
      BY <2>1
    <3> QED
      BY <2>1, <2>3, <3>1, OpeningKeeps
  <2>4. ASSUME NEW s \in Idle,
               edit(s) \/ undo(s) \/ redo(s) \/ write_work_recovery_checkpoint(s)
        PROVE  WorkInv'
    <3>1. PICK doc \in Doc : mutate_with_work_recovery(s, doc) /\ doc.at <= Len(doc.trail)
      BY <2>1, <2>4, EditsOK
    <3> QED
      BY <2>1, <3>1, MutateKeeps
  <2>5. ASSUME NEW s \in Idle, retry_pending_work_recovery_cleanup(s) PROVE WorkInv'
    BY <2>1, <2>5, RetryKeeps
  <2>6. ASSUME NEW s \in Idle, NEW p \in scenario.paths, NEW overwrite \in BOOLEAN,
               save(s, p, overwrite)
        PROVE  WorkInv'
    <3>1. p \in Paths
      BY <2>1
    <3> QED
      BY <2>1, <2>6, <3>1, SaveKeeps
  <2>7. ASSUME NEW s \in Live \ Idle, save_settle(s) PROVE WorkInv'
    BY <2>1, <2>7, SettleKeeps
  <2>8. ASSUME NEW s \in Live, stop(s) PROVE WorkInv'
    BY <2>1, <2>8, StopKeeps
  <2>9. ASSUME NEW p \in scenario.paths, NEW found \in 1..made \cup {Absent, Damaged},
               ChangedOutside(p, found)
        PROVE  WorkInv'
    <3>1. p \in Paths
      BY <2>1
    <3> QED
      BY <2>1, <2>9, <3>1, OutsideKeeps
  <2> QED
    BY <1>2, <2>2, <2>3, <2>4, <2>5, <2>6, <2>7, <2>8, <2>9 DEF Next
<1> QED
  BY <1>1, <1>2

\* However sessions open, edit, save and stop, and whatever changes their files from outside:
\* opening a file finds what was last acknowledged for it, and acknowledged work that no save
\* took over stays on disk beside it (mutate_with_work_recovery and save of session.rs over
\* work_recovery.rs).
THEOREM NoWorkEverLost == ASSUME Alone PROVE Spec => []NoWorkLost
<1>1. Init => WorkInv
  BY WorkInitOK
<1>2. WorkInv /\ [Next]_vars => WorkInv'
  BY WorkNextOK
<1>3. ASSUME WorkInv PROVE NoWorkLost
  <2>1. \A p \in Paths : PathOK(p)
    BY <1>3 DEF WorkInv
  <2>2. OpensLatest
    BY <2>1 DEF OpensLatest, PathOK, Loads
  <2>3. WorkStaysOnDisk
    BY <2>1 DEF WorkStaysOnDisk, PathOK
  <2> QED
    BY <2>2, <2>3 DEF NoWorkLost
<1> QED
  BY <1>1, <1>2, <1>3, PTL DEF Spec

=============================================================================
