--------------------------- MODULE CheckpointSteps ---------------------------
(***************************************************************************)
(* The work-recovery checkpoint of one file as it lies on disk: the whole  *)
(* document at the first edit, then one appended step per later edit       *)
(* (ketchup-model, persistence/work_recovery.rs, work_recovery_steps.rs).  *)
(* A write may be cut short by a crash or fail halfway.                    *)
(*                                                                         *)
(* Bytes are what they were written from: a FileIdentity is the checkpoint *)
(* itself, a snapshot's checksum the snapshot, and lengths are counted in  *)
(* steps.  The file the checkpoint is made from does not change here and a *)
(* history always fits a whole checkpoint.  Positions start at 1.          *)
(***************************************************************************)
EXTENDS Integers, Sequences, SequencesExt, FiniteSetsExt

CONSTANTS
    MaxRevisionId,  \* bound on revision ids
    UndoLimit,      \* UNDO_REVISIONS
    Snapshots,      \* the models a revision can hold
    Programs,       \* rule programs
    Names,          \* names of named checkpoints
    Sides,          \* blobs and extensions of the file
    StepRoom,       \* how many steps weigh as much as the base
    Budget,         \* how many snapshots one open assembles
    None, Torn

VARIABLES
    document,       \* the session's document
    side,           \* its blobs and extensions
    checkpoint,     \* the .work-recovery file, or None
    identity,       \* the checkpoint the session wrote or opened
    observed,       \* the observed_files entry of the checkpoint
    recovered,      \* the session was opened from a checkpoint
    pending,        \* the checkpoint being written, or None
    opens           \* the document opening the file would give

vars == <<document, side, checkpoint, identity, observed, recovered, pending, opens>>

Revision ==
    [id : 1..MaxRevisionId, snapshot : Snapshots, program : Programs \cup {None},
     name : Names \cup {None}]

Document == [history : Seq(Revision), cursor : Nat, next : Nat]

\* A revision in a plan; known is FALSE for one a step added, whose name the plan does
\* not read.
HeldRevision ==
    [id : 1..MaxRevisionId, snapshot : Snapshots, name : Names \cup {None}, known : BOOLEAN]
Plan == [held : Seq(HeldRevision), side : Sides, steps : Nat]

\* What an appended step and a checkpoint file hold, and a checkpoint being written.
Step ==
    [skip : Nat, keep : Nat, cursor : Nat, kept_id : Nat, next : Nat,
     added : Seq([revision : Revision, as_kept : BOOLEAN])]
File == [payload : Document, side : Sides, steps : Seq(Step \cup {Torn})]
Write == [document : Document, planned : [step : Step, plan : Plan] \cup {None}]

ASSUME ConstantAssumption ==
    /\ MaxRevisionId \in Nat \ {0} /\ UndoLimit \in Nat /\ StepRoom \in Nat
    /\ Budget \in Nat /\ Budget >= UndoLimit
    /\ Snapshots # {} /\ Sides # {}
    /\ None \notin Programs \cup Names \cup Sides \cup Revision \cup Document \cup File \cup Write
    /\ Torn \notin Step

Saved ==
    [history |-> <<[id |-> 1, snapshot |-> CHOOSE s \in Snapshots : TRUE,
                    program |-> None, name |-> None]>>,
     cursor |-> 1, next |-> 2]

-----------------------------------------------------------------------------
(* The plan of a step *)

\* A revision as a plan compares it.
Planned(r, known) ==
    [id |-> r.id, snapshot |-> r.snapshot, name |-> IF known THEN r.name ELSE None,
     known |-> known]

\* Mutant: a named checkpoint is not compared.
Is_unnamed(h, r) == h.known /\ h.id = r.id /\ h.snapshot = r.snapshot

Is(h, r) ==
    /\ h.known
    /\ h.id = r.id /\ h.snapshot = r.snapshot
    /\ h.name = r.name

PlannedAll(history) == [i \in 1..Len(history) |-> Planned(history[i], TRUE)]

\* Step::apply on a history, or on what a plan holds of it.
Applied(s, history, added) ==
    SubSeq(history, s.skip + 1, s.skip + s.keep) \o added

\* Mutant: a step cut short is taken for the end of the steps.
ReadSteps_until_torn(steps) == SelectSeq(steps, LAMBDA s : s # Torn)

\* read_steps for a plan: None as soon as one does not read.
ReadSteps(steps) == IF Torn \in Range(steps) THEN None ELSE steps

\* What a plan holds of a history after the steps.
HeldAfter(history, steps) ==
    LET held[i \in 0..Len(steps)] ==
            IF i = 0 THEN PlannedAll(history)
            ELSE Applied(steps[i], held[i - 1],
                         [k \in 1..Len(steps[i].added) |->
                             Planned(steps[i].added[k].revision, FALSE)])
    IN  held[Len(steps)]

\* read_plan
read_plan(file) ==
    LET steps == ReadSteps(file.steps)
    IN  IF steps = None THEN None
        ELSE [held |-> HeldAfter(file.payload.history, steps), side |-> file.side,
              steps |-> Len(steps)]

\* The program is the last kept revision's, which the step need not hold.
AsKept(r, kept) == r.program # None /\ r.program = kept.program

\* A revision as a step holds it.
Written(r, kept) ==
    IF AsKept(r, kept) THEN [revision |-> [r EXCEPT !.program = None], as_kept |-> TRUE]
    ELSE [revision |-> r, as_kept |-> FALSE]

\* The plan of the checkpoint a step to d makes.
PlanAfter(plan, d) == [plan EXCEPT !.held = PlannedAll(d.history), !.steps = @ + 1]

\* plan_step: the step from what the plan holds to the document d, with the
\* plan of the checkpoint it makes, or None when only a whole one can follow.
plan_step(plan, d, sd) ==
    LET shared == {i \in 1..Len(plan.held) : Is(plan.held[i], d.history[1])}
        skip == Min(shared) - 1
        Common(n) == /\ skip + n <= Len(plan.held)
                     /\ \A i \in 1..n : Is(plan.held[skip + i], d.history[i])
        keep == Max({n \in 1..Len(d.history) : Common(n)})
        kept == d.history[keep]
    IN  IF plan = None \/ plan.side # sd \/ shared = {} \/ plan.steps >= StepRoom
        THEN None
        ELSE [step |-> [skip |-> skip, keep |-> keep, cursor |-> d.cursor,
                        kept_id |-> kept.id, next |-> d.next,
                        added |-> [i \in 1..(Len(d.history) - keep) |->
                                       Written(d.history[keep + i], kept)]],
              plan |-> PlanAfter(plan, d)]

-----------------------------------------------------------------------------
(* Opening *)

\* give_up_oldest: the oldest revisions, then the Redo steps from the last,
\* until the others are within the budget.
give_up_oldest(slots, cursor) ==
    LET Held == {i \in DOMAIN slots : slots[i] # None}
        Rank(i) == IF i < cursor THEN i ELSE 2 * Len(slots) - i
        GivenUp == {i \in Held \ {cursor} :
                       Cardinality({j \in Held \ {cursor} : Rank(j) < Rank(i)})
                           < Cardinality(Held) - Budget}
    IN  [i \in DOMAIN slots |-> IF i \in GivenUp THEN None ELSE slots[i]]

\* What a step needs of the revisions assembled so far.
Applies(s, slots) ==
    /\ s.keep > 0 /\ s.skip + s.keep <= Len(slots)
    /\ slots[s.skip + s.keep] # None
    /\ slots[s.skip + s.keep].id = s.kept_id
    /\ Len(s.added) <= Budget
    /\ s.cursor <= s.keep + Len(s.added)
    /\ s.cursor <= s.keep => slots[s.skip + s.cursor] # None

\* The revisions a step added, with the program of the last kept one where they share it.
Full(s, slots) ==
    [i \in 1..Len(s.added) |->
        IF s.added[i].as_kept
        THEN [s.added[i].revision EXCEPT !.program = slots[s.skip + s.keep].program]
        ELSE s.added[i].revision]

\* What is assembled with one more step, unless it is torn or does not apply.
Take(acc, s) ==
    IF ~acc.ok \/ s = Torn THEN [acc EXCEPT !.ok = FALSE]
    ELSE IF ~Applies(s, acc.slots) THEN [acc EXCEPT !.ok = FALSE]
    ELSE [slots |-> give_up_oldest(Applied(s, acc.slots, Full(s, acc.slots)), s.cursor),
          cursor |-> s.cursor, next |-> s.next, taken |-> acc.taken + 1, ok |-> TRUE]

\* What is assembled of the base.
Base(d) ==
    [slots |-> give_up_oldest(d.history, d.cursor), cursor |-> d.cursor, next |-> d.next,
     taken |-> 0, ok |-> TRUE]

\* assemble_checkpoint up to the first step that is torn or does not apply.
assemble(file) ==
    LET run[i \in 0..Len(file.steps)] ==
            IF i = 0 THEN Base(file.payload) ELSE Take(run[i - 1], file.steps[i])
    IN  run[Len(file.steps)]

\* The assembled document: the revisions around the current one that were not
\* given up.
Rest(a) ==
    LET first == Max({0} \cup {i \in 1..(a.cursor - 1) : a.slots[i] = None})
        last == Max({i \in a.cursor..Len(a.slots) : \A j \in a.cursor..i : a.slots[j] # None})
    IN  [history |-> SubSeq(a.slots, first + 1, last), cursor |-> a.cursor - first,
         next |-> a.next]

\* The document opening gives: the file's own, or the checkpoint's.
Opened(file) ==
    IF file = None THEN Saved
    ELSE IF file.steps = <<>> \/ file.steps[1] = Torn THEN file.payload
    ELSE Rest(assemble(file))

-----------------------------------------------------------------------------
(* Mutations of the document *)

\* push_revision of an edit.
Pushed(d, s, p) ==
    LET r == [id |-> d.next, snapshot |-> s, program |-> p, name |-> None]
        excess == Max({0, d.cursor - UndoLimit})
        history == SubSeq(d.history, 1, d.cursor) \o <<r>>
    IN  [history |-> SubSeq(history, excess + 1, Len(history)),
         cursor |-> d.cursor + 1 - excess, next |-> d.next + 1]

\* An edit, Undo or Redo, a named checkpoint.
Edited(d) ==
    IF d.next <= MaxRevisionId
    THEN {Pushed(d, s, p) : s \in Snapshots, p \in Programs \cup {None}}
    ELSE {}
Moved(d) ==
    {[d EXCEPT !.cursor = c] : c \in {d.cursor - 1, d.cursor + 1} \cap 1..Len(d.history)}
Named(d) ==
    {[d EXCEPT !.history[d.cursor].name = n] :
        n \in {m \in Names : \A i \in DOMAIN d.history \ {d.cursor} : d.history[i].name # m}}

Mutated(d) == Edited(d) \cup Moved(d) \cup Named(d)

\* The history digest is the saved one.
AtSaved(d) == SubSeq(d.history, 1, d.cursor) = Saved.history

\* Blobs or extensions of the document change.
change_side(sd) ==
    /\ pending = None /\ sd # side
    /\ side' = sd
    /\ UNCHANGED <<document, checkpoint, identity, observed, recovered, pending, opens>>

\* A mutation back at the saved document removes the checkpoint instead.
clear_work_recovery(d) ==
    /\ pending = None /\ d \in Mutated(document)
    /\ ~recovered /\ AtSaved(d)
    /\ checkpoint = identity
    /\ document' = d
    /\ checkpoint' = None /\ identity' = None /\ observed' = None
    /\ opens' = Saved
    /\ UNCHANGED <<side, recovered, pending>>

-----------------------------------------------------------------------------
(* Writing a checkpoint *)

\* observe: the entry in memory while the file's fingerprint stays, else the
\* file is read.
observe ==
    IF checkpoint = None THEN None
    ELSE IF observed # None THEN observed
    ELSE [file |-> checkpoint, plan |-> read_plan(checkpoint)]

\* write_work_recovery up to the write: refused unless the checkpoint is the
\* one the session knows.
write_work_recovery(d) ==
    LET seen == observe
        planned == IF seen = None THEN None ELSE plan_step(seen.plan, d, side)
    IN  /\ pending = None /\ d \in Mutated(document)
        /\ recovered \/ ~AtSaved(d)
        /\ checkpoint = identity
        /\ observed' = seen
        /\ pending' = [document |-> d, planned |-> planned]
        /\ UNCHANGED <<document, side, checkpoint, identity, recovered, opens>>

\* What the file is once the write is complete.
Whole(d, sd) == [payload |-> d, side |-> sd, steps |-> <<>>]

Complete ==
    IF pending.planned = None THEN Whole(pending.document, side)
    ELSE [identity EXCEPT !.steps = Append(@, pending.planned.step)]

\* append_step has written a part of the step.
append_partly ==
    /\ pending # None /\ pending.planned # None /\ checkpoint = identity
    /\ checkpoint' = [checkpoint EXCEPT !.steps = Append(@, Torn)]
    /\ opens' = Opened(checkpoint')
    /\ UNCHANGED <<document, side, identity, observed, recovered, pending>>

\* The step or the whole checkpoint is written; a whole one is renamed in.
write_complete ==
    /\ pending # None /\ checkpoint # Complete
    /\ pending.planned = None => checkpoint = identity
    /\ checkpoint' = Complete
    /\ opens' = Opened(checkpoint')
    /\ UNCHANGED <<document, side, identity, observed, recovered, pending>>

\* record_written; the mutation is acknowledged.
acknowledge ==
    /\ pending # None /\ checkpoint = Complete
    /\ document' = pending.document
    /\ identity' = checkpoint
    /\ observed' = [file |-> checkpoint,
                    plan |-> IF pending.planned = None THEN read_plan(checkpoint)
                             ELSE pending.planned.plan]
    /\ pending' = None
    /\ UNCHANGED <<side, checkpoint, recovered, opens>>

\* The write fails and the mutation is rolled back: append_step cuts the file
\* back, which may fail too, and a whole checkpoint is not renamed in.
write_fails ==
    /\ pending # None
    /\ pending' = None
    /\ pending.planned = None => checkpoint = identity
    /\ checkpoint' \in {identity, checkpoint}
    /\ opens' = Opened(checkpoint')
    /\ observed' \in IF checkpoint = identity THEN {observed, None} ELSE {None}
    /\ UNCHANGED <<document, side, identity, recovered>>

-----------------------------------------------------------------------------
(* The specification *)

\* The process stops at any moment, or the file is opened again in the same
\* process, whose observed files stay.
open(known) ==
    /\ known => pending = None
    /\ document' = opens
    /\ side' = IF checkpoint = None THEN CHOOSE sd \in Sides : TRUE ELSE checkpoint.side
    /\ identity' = checkpoint
    /\ recovered' = (checkpoint # None)
    /\ observed' = IF known THEN observed ELSE None
    /\ pending' = None
    /\ UNCHANGED <<checkpoint, opens>>

Init ==
    /\ document = Saved
    /\ side = CHOOSE sd \in Sides : TRUE
    /\ checkpoint = None /\ identity = None /\ observed = None
    /\ recovered = FALSE /\ pending = None /\ opens = Saved

Next ==
    \/ \E sd \in Sides : change_side(sd)
    \/ \E d \in Mutated(document) : clear_work_recovery(d) \/ write_work_recovery(d)
    \/ append_partly \/ write_complete \/ acknowledge \/ write_fails
    \/ \E known \in BOOLEAN : open(known)

Spec == Init /\ [][Next]_vars

-----------------------------------------------------------------------------
(* Properties *)

\* "The checkpoint is written whole when ... a step does not read"
\* (work_recovery_steps.rs): no step is appended after one that opening
\* leaves out, which would hide it with every later edit.
NoStepAfterUnreadable ==
    checkpoint # None => assemble(checkpoint).taken >= Len(checkpoint.steps) - 1

Atomic ==
    INSTANCE AtomicCheckpoint
    WITH held <- opens, acked <- document,
         writing <- IF pending = None THEN None ELSE pending.document

\* A checkpoint of a base and steps is as good as one written whole: whatever
\* is edited, undone, named or cut short, opening gives the acknowledged
\* document with its history, programs and names, or the one being written.
ImplementsAtomicCheckpoint == Atomic!Spec

=============================================================================
