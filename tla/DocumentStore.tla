--------------------------- MODULE DocumentStore ---------------------------
(***************************************************************************)
(* The document store of ketchup-model (document/store.rs): the bounded    *)
(* revision history with its cursor, the mutation epoch, the two write     *)
(* paths of ADR 0006 (canonical revisions and derived results), proposals  *)
(* that commit only against unchanged dependencies, tip replacement and    *)
(* the single-use approvals of high-risk work.                             *)
(*                                                                         *)
(* A product is a function from Items to Values.  Its digest is the        *)
(* product itself (stable_digest.rs hashes exactly the canonical items);   *)
(* the evidence of an exact face reference is stored with the product but  *)
(* is not part of the digest, so it is a field of its own.                 *)
(*                                                                         *)
(* A batch of commands writes one item: a given value, or what another     *)
(* item holds (a recompute).  `deps` are the items it reads, the set       *)
(* authoritative_dependencies computes; `view` says that every command of  *)
(* it is one rule_program_kept_by lets through.                            *)
(***************************************************************************)
EXTENDS Integers, Sequences, FiniteSets

CONSTANTS
    Items,            \* parts of the product a command reads or writes
    Values,           \* what an item can hold
    Face,             \* the item whose value determines an exact face
    EmptyProduct,     \* the product of a new document
    ValidProducts,    \* the products the validators of a batch accept
    BareProducts,     \* the products without a definition
    Batches,          \* [target, input, deps, view]
    Programs,         \* rule program sources
    Names,            \* checkpoint names
    Clients,          \* holders of a prepared proposal
    Readers,          \* those who work from a captured state of the store
    UndoRevisions,    \* limits::UNDO_REVISIONS
    MaxRevisionId,    \* the revision id after which ids are exhausted
    MaxEpoch,         \* bound on the mutation epoch
    MaxPolicyEpoch,   \* bound on confirmation policy epochs
    NoProgram, NoName, NoEvidence, NoBatch, NoProposal, NoObservation

Products == [Items -> Values]

Revision == [id : Nat, product : Products, evidence : Values \cup {NoEvidence},
             program : Programs \cup {NoProgram},
             checkpoint : Names \cup {NoName},
             origin : {"initial", "principal", "rollback"}]

\* The envelope and intended result of a prepared proposal.  An "edit" is a
\* Proposal, a "tip" a TipReplacementProposal (its provenance is the tip it
\* supersedes), an "effect" a SideEffectProposal (it has no batch to run).
Proposal ==
    [kind : {"edit", "tip"}, batch : Batches, high : BOOLEAN,
     revision : Nat, product : Products,
     parent : Nat, base : Products, result : Products]
    \cup
    [kind : {"effect"}, batch : {NoBatch}, high : {TRUE},
     revision : Nat, product : Products,
     parent : Nat, base : Products, result : Products]

Token == [proposal : Proposal, epoch : Nat]

Observation == [epoch : Nat, revision : Nat, product : Products,
                program : Programs \cup {NoProgram},
                checkpoint : Names \cup {NoName}]

Result == [revision : Nat, product : Products]

ASSUME ProductAssumption ==
    /\ Face \in Items
    /\ EmptyProduct \in ValidProducts
    /\ ValidProducts \subseteq Products
    /\ BareProducts \subseteq Products

ASSUME BatchAssumption ==
    /\ Items \cap Values = {}
    /\ Batches \subseteq [target : Items, input : Items \cup Values,
                          deps : SUBSET Items, view : BOOLEAN]
    /\ \A b \in Batches : {b.target, b.input} \cap Items \subseteq b.deps

ASSUME BoundAssumption ==
    /\ UndoRevisions \in Nat \ {0}
    /\ MaxRevisionId \in Nat
    /\ MaxEpoch \in Nat
    /\ MaxPolicyEpoch \in Nat

ASSUME SentinelAssumption ==
    /\ NoProgram \notin Programs
    /\ NoName \notin Names
    /\ NoEvidence \notin Values
    /\ NoBatch \notin Batches
    /\ NoProposal \notin Proposal
    /\ NoObservation \notin Observation

VARIABLES
    revisions,        \* DocumentStore.revisions
    cursor,           \* DocumentStore.cursor, counted from 0 as in the code
    nextRevisionId,   \* DocumentStore.next_revision_id
    mutationEpoch,    \* DocumentStore.mutation_epoch
    registry,         \* DocumentStore.evaluation_registry
    policyEpoch,      \* human_confirmation_policy.epoch, 0 when there is none
    consumed,         \* human_confirmation_policy.consumed_signatures
    proposals,        \* the proposal each client holds
    observed,         \* what each reader outside the store captured of it
    grants,           \* history: approvals that took effect and still stand
    replayed          \* history: an approval took effect a second time

vars == <<revisions, cursor, nextRevisionId, mutationEpoch, registry,
          policyEpoch, consumed, proposals, observed, grants, replayed>>

-----------------------------------------------------------------------------

current == revisions[cursor + 1]

\* The parts of the store a transaction can put back.
store == [revisions |-> revisions, cursor |-> cursor,
          nextRevisionId |-> nextRevisionId, registry |-> registry,
          consumed |-> consumed, grants |-> grants, replayed |-> replayed]

\* Mutant: a rollback that puts back the next id but not the history.
RestoredBy_keeps_history(s) ==
    [store EXCEPT !.revisions = s.revisions, !.cursor = s.cursor]

\* What a failed finalizer leaves: everything as it was.
RestoredBy(s) == store

Install(s) ==
    /\ revisions' = s.revisions
    /\ cursor' = s.cursor
    /\ nextRevisionId' = s.nextRevisionId
    /\ registry' = s.registry
    /\ consumed' = s.consumed
    /\ grants' = s.grants
    /\ replayed' = s.replayed

\* A canonical mutation whose outcome is s.  Its finalizer may fail (a session
\* fails it when the work-recovery checkpoint cannot be written): the history
\* and the policy are put back, the epoch it took is not.
try_canonical_transaction(s) ==
    /\ mutationEpoch < MaxEpoch
    /\ mutationEpoch' = mutationEpoch + 1
    /\ Install(s) \/ Install(RestoredBy(s))
    /\ UNCHANGED <<policyEpoch, proposals, observed>>

\* Mutant: the redo branch survives a new edit.
push_revision_keeps_redo(revs, cur, revision) ==
    [revisions |-> SubSeq(revs, 1, cur + 1) \o <<revision>>
                      \o SubSeq(revs, cur + 2, Len(revs)),
     cursor    |-> cur + 1]

\* Drops the redo branch and the revisions past the undo limit.
push_revision(revs, cur, revision) ==
    LET kept   == Append(SubSeq(revs, 1, cur + 1), revision)
        excess == IF cur + 1 > UndoRevisions THEN cur + 1 - UndoRevisions ELSE 0
    IN  [revisions |-> SubSeq(kept, excess + 1, cur + 2),
         cursor    |-> cur + 1 - excess]

\* The store after `revision` is pushed at cursor `cur` of `revs`.
Pushed(revs, cur, revision, reg) ==
    LET history == push_revision(revs, cur, revision)
    IN  [revisions |-> history.revisions, cursor |-> history.cursor,
         nextRevisionId |-> nextRevisionId + 1, registry |-> reg,
         consumed |-> consumed, grants |-> grants, replayed |-> replayed]

\* checked_add of the revision id.
RevisionIdLeft == nextRevisionId < MaxRevisionId

Edit(b, product) ==
    [product EXCEPT ![b.target] =
        IF b.input \in Items THEN product[b.input] ELSE b.input]

Accepted(b, product) == Edit(b, product) \in ValidProducts

\* refresh_reference_lineages: evidence of a face whose producer changed is
\* dropped with the batch that changed it.
refresh_reference_lineages(product, before) ==
    IF product[Face] = before.product[Face] THEN before.evidence ELSE NoEvidence

rule_program_kept_by(b, before) == IF b.view THEN before.program ELSE NoProgram

\* The revision apply_batch builds on `before`.
Applied(b, before) ==
    LET product == Edit(b, before.product)
    IN  [id         |-> nextRevisionId,
         product    |-> product,
         evidence   |-> refresh_reference_lineages(product, before),
         program    |-> rule_program_kept_by(b, before),
         checkpoint |-> NoName,
         origin     |-> "principal"]

-----------------------------------------------------------------------------
(* Canonical path *)

\* apply_batch; a program edit binds its source to the new revision in the
\* same transaction (bind_rule_program).
apply_batch(b, source) ==
    /\ RevisionIdLeft
    /\ Accepted(b, current.product)
    /\ LET built == Applied(b, current)
           bound == IF source = NoProgram THEN built
                    ELSE [built EXCEPT !.program = source]
       IN  /\ source = NoProgram \/ built.program = NoProgram
           /\ try_canonical_transaction(Pushed(revisions, cursor, bound, registry))

\* A source-only edit: the same product under another program.
replace_rule_program_source(source) ==
    /\ RevisionIdLeft
    /\ current.program # NoProgram \/ current.product \in BareProducts
    /\ current.program # source
    /\ try_canonical_transaction(
           Pushed(revisions, cursor,
                  [current EXCEPT !.id = nextRevisionId, !.program = source,
                                  !.checkpoint = NoName, !.origin = "principal"],
                  registry))

\* The tip of a document built apart, with its evidence and its program,
\* becomes one revision of this one.
publish_replacement(product, evidence, source) ==
    /\ RevisionIdLeft
    /\ evidence \in {NoEvidence, product[Face]}
    /\ try_canonical_transaction(
           Pushed(revisions, cursor,
                  [id |-> nextRevisionId, product |-> product,
                   evidence |-> evidence, program |-> source,
                   checkpoint |-> NoName, origin |-> "principal"],
                  {}))

\* A new revision with the content of an earlier or undone one.  The caller's
\* expected revision and digest are the current ones, or it is refused.
rollback_to_revision(i) ==
    /\ RevisionIdLeft
    /\ LET target == revisions[i]
       IN  /\ \/ target.product # current.product
              \/ target.program # current.program
           /\ try_canonical_transaction(
                  Pushed(revisions, cursor,
                         [target EXCEPT !.id = nextRevisionId,
                                        !.checkpoint = NoName,
                                        !.origin = "rollback"],
                         {}))

create_checkpoint(name) ==
    /\ \A i \in DOMAIN revisions :
           revisions[i].checkpoint = name => revisions[i].id = current.id
    /\ try_canonical_transaction(
           [store EXCEPT !.revisions =
               [revisions EXCEPT ![cursor + 1].checkpoint = name]])

\* Mutant: stepping back takes no new epoch.
undo_without_epoch ==
    /\ cursor > 0
    /\ Install([store EXCEPT !.cursor = cursor - 1])
    /\ UNCHANGED <<mutationEpoch, policyEpoch, proposals, observed>>

undo ==
    /\ cursor > 0
    /\ try_canonical_transaction([store EXCEPT !.cursor = cursor - 1])

\* Mutant: one step too far forward.
redo_past_the_end ==
    /\ cursor + 1 <= Len(revisions)
    /\ try_canonical_transaction([store EXCEPT !.cursor = cursor + 1])

redo ==
    /\ cursor + 1 < Len(revisions)
    /\ try_canonical_transaction([store EXCEPT !.cursor = cursor + 1])

\* Retention only: no new epoch.
discard_history_before_current ==
    /\ Len(revisions) > 1
    /\ revisions' = <<current>>
    /\ cursor' = 0
    /\ UNCHANGED <<nextRevisionId, mutationEpoch, registry, policyEpoch, consumed,
                   proposals, observed, grants, replayed>>

-----------------------------------------------------------------------------
(* Proposals *)

Hold(c, p) ==
    /\ proposals' = [proposals EXCEPT ![c] = p]
    /\ UNCHANGED <<revisions, cursor, nextRevisionId, mutationEpoch, registry,
                   policyEpoch, consumed, observed, grants, replayed>>

prepare_proposal(c, b, high) ==
    /\ Accepted(b, current.product)
    /\ Hold(c, [kind |-> "edit", batch |-> b, high |-> high,
                revision |-> current.id, product |-> current.product,
                parent |-> current.id, base |-> current.product,
                result |-> Edit(b, current.product)])

prepare_high_risk_side_effect(c) ==
    Hold(c, [kind |-> "effect", batch |-> NoBatch, high |-> TRUE,
             revision |-> current.id, product |-> current.product,
             parent |-> current.id, base |-> current.product,
             result |-> current.product])

\* tip_replacement_parent and prepare_tip_replacement_proposal.
prepare_tip_replacement_proposal(c, b) ==
    /\ cursor > 0
    /\ cursor + 1 = Len(revisions)
    /\ nextRevisionId = current.id + 1
    /\ LET parent == revisions[cursor]
       IN  /\ Accepted(b, parent.product)
           /\ Hold(c, [kind |-> "tip", batch |-> b, high |-> FALSE,
                       revision |-> current.id, product |-> current.product,
                       parent |-> parent.id, base |-> parent.product,
                       result |-> Edit(b, parent.product)])

\* Mutant: only the item a proposal writes is compared.
validate_proposal_target_only(p) ==
    current.product[p.batch.target] = p.base[p.batch.target]

\* The digest of the items a proposal read when it was prepared.
validate_proposal(p) ==
    \A i \in p.batch.deps : current.product[i] = p.base[i]

\* The candidate is replayed on the current product and must be accepted and
\* write what the reviewed one wrote.
verify_proposal_candidate(p) ==
    /\ validate_proposal(p)
    /\ Accepted(p.batch, current.product)
    /\ Edit(p.batch, current.product)[p.batch.target] = p.result[p.batch.target]

Committed(p) == Pushed(revisions, cursor, Applied(p.batch, current), registry)

\* commit_verified_proposal, or with a source
\* commit_verified_rule_program_proposal, which replaces an inherited binding.
commit_verified_proposal(p, source) ==
    /\ p.kind = "edit"
    /\ ~p.high
    /\ RevisionIdLeft
    /\ verify_proposal_candidate(p)
    /\ LET built == Applied(p.batch, current)
           bound == IF source = NoProgram THEN built
                    ELSE [built EXCEPT !.program = source]
       IN  try_canonical_transaction(Pushed(revisions, cursor, bound, registry))

validate_tip_replacement_envelope(p) ==
    /\ cursor > 0
    /\ cursor + 1 = Len(revisions)
    /\ current.id = p.revision
    /\ current.product = p.product
    /\ revisions[cursor].id = p.parent
    /\ revisions[cursor].product = p.base
    /\ nextRevisionId = p.revision + 1

\* The correction is replayed on the parent as it was reviewed.
verify_tip_replacement_proposal(p) ==
    /\ validate_tip_replacement_envelope(p)
    /\ Accepted(p.batch, p.base)
    /\ Edit(p.batch, p.base)[p.batch.target] = p.result[p.batch.target]

commit_tip_replacement_proposal(p) ==
    /\ p.kind = "tip"
    /\ RevisionIdLeft
    /\ verify_tip_replacement_proposal(p)
    /\ try_canonical_transaction(
           Pushed(SubSeq(revisions, 1, cursor), cursor - 1,
                  Applied(p.batch, revisions[cursor]),
                  {r \in registry : r.revision # p.revision}))

-----------------------------------------------------------------------------
(* Human confirmation *)

configure_human_confirmation_policy(epoch) ==
    /\ epoch > policyEpoch
    /\ policyEpoch' = epoch
    /\ consumed' = {}
    /\ UNCHANGED <<revisions, cursor, nextRevisionId, mutationEpoch, registry,
                   proposals, observed, grants, replayed>>

\* Mutant: a used token still stands.
ApprovalStands_replayable(token) == policyEpoch # 0 /\ token.epoch = policyEpoch

\* A token signed for this proposal under the policy in force, not yet used.
\* The signed fields are the proposal's own; the time window is an input.
ApprovalStands(token) ==
    /\ policyEpoch # 0
    /\ token.epoch = policyEpoch
    /\ token \notin consumed

commit_high_risk_proposal(p, token) ==
    /\ p.kind = "edit"
    /\ p.high
    /\ token.proposal = p
    /\ ApprovalStands(token)
    /\ RevisionIdLeft
    /\ verify_proposal_candidate(p)
    /\ try_canonical_transaction(
           [Committed(p) EXCEPT !.consumed = consumed \cup {token},
                                !.grants = grants \cup {token},
                                !.replayed = replayed \/ token \in grants])

authorize_high_risk_side_effect(p, token) ==
    /\ p.kind = "effect"
    /\ token.proposal = p
    /\ ApprovalStands(token)
    /\ current.id = p.revision
    /\ current.product = p.product
    /\ consumed' = consumed \cup {token}
    /\ grants' = grants \cup {token}
    /\ replayed' = (replayed \/ token \in grants)
    /\ UNCHANGED <<revisions, cursor, nextRevisionId, mutationEpoch, registry,
                   policyEpoch, proposals, observed>>

-----------------------------------------------------------------------------
(* Derived results *)

\* A reader outside the store captures the state it works from: an evaluation
\* in the background, or a client that will send expected_mutation_epoch.
observe(r) ==
    /\ observed' = [observed EXCEPT ![r] =
                       [epoch |-> mutationEpoch, revision |-> current.id,
                        product |-> current.product, program |-> current.program,
                        checkpoint |-> current.checkpoint]]
    /\ UNCHANGED <<revisions, cursor, nextRevisionId, mutationEpoch, registry,
                   policyEpoch, consumed, proposals, grants, replayed>>

\* Mutant: results of any revision are taken.
EnvelopeMatches_any(o) == o.revision <= current.id

\* The envelope register_derived_result checks: revision and digest.
EnvelopeMatches(o) == o.revision = current.id /\ o.product = current.product

register_evaluation(o) ==
    /\ EnvelopeMatches(o)
    /\ registry' = registry \cup {[revision |-> current.id,
                                   product |-> o.product]}
    /\ UNCHANGED <<revisions, cursor, nextRevisionId, mutationEpoch,
                   policyEpoch, consumed, proposals, observed, grants, replayed>>

\* A face reference is accepted when the producer compiled from the current
\* snapshot is the one it was computed from; the revision it was computed on
\* is not part of it.
register_exact_reference_evidence(o) ==
    /\ o.product[Face] = current.product[Face]
    /\ revisions' = [revisions EXCEPT ![cursor + 1].evidence = o.product[Face]]
    /\ UNCHANGED <<cursor, nextRevisionId, mutationEpoch, registry, policyEpoch,
                   consumed, proposals, observed, grants, replayed>>

\* A rebind whose results, however old, find the face lost, ambiguous or
\* quarantined.
lose_exact_reference ==
    /\ Readers # {}
    /\ revisions' = [revisions EXCEPT ![cursor + 1].evidence = NoEvidence]
    /\ UNCHANGED <<cursor, nextRevisionId, mutationEpoch, registry, policyEpoch,
                   consumed, proposals, observed, grants, replayed>>

-----------------------------------------------------------------------------

Init ==
    /\ revisions = <<[id |-> 0, product |-> EmptyProduct, evidence |-> NoEvidence,
                      program |-> NoProgram, checkpoint |-> NoName,
                      origin |-> "initial"]>>
    /\ cursor = 0
    /\ nextRevisionId = 1
    /\ mutationEpoch = 1
    /\ registry = {}
    /\ policyEpoch = 0
    /\ consumed = {}
    /\ proposals = [c \in Clients |-> NoProposal]
    /\ observed = [r \in Readers |-> NoObservation]
    /\ grants = {}
    /\ replayed = FALSE

Held == {c \in Clients : proposals[c] # NoProposal}

Informed == {r \in Readers : observed[r] # NoObservation}

Next ==
    \/ \E b \in Batches, s \in Programs \cup {NoProgram} : apply_batch(b, s)
    \/ \E s \in Programs : replace_rule_program_source(s)
    \/ \E p \in ValidProducts, e \in Values \cup {NoEvidence},
          s \in Programs \cup {NoProgram} : publish_replacement(p, e, s)
    \/ \E i \in DOMAIN revisions : rollback_to_revision(i)
    \/ \E n \in Names : create_checkpoint(n)
    \/ undo
    \/ redo
    \/ discard_history_before_current
    \/ \E c \in Clients, b \in Batches, high \in BOOLEAN : prepare_proposal(c, b, high)
    \/ \E c \in Clients : prepare_high_risk_side_effect(c)
    \/ \E c \in Clients, b \in Batches : prepare_tip_replacement_proposal(c, b)
    \/ \E c \in Held, s \in Programs \cup {NoProgram} :
           commit_verified_proposal(proposals[c], s)
    \/ \E c \in Held : commit_tip_replacement_proposal(proposals[c])
    \/ \E e \in 1..MaxPolicyEpoch : configure_human_confirmation_policy(e)
    \/ \E c \in Held, e \in 1..MaxPolicyEpoch :
           commit_high_risk_proposal(proposals[c],
                                     [proposal |-> proposals[c], epoch |-> e])
    \/ \E c \in Held, e \in 1..MaxPolicyEpoch :
           authorize_high_risk_side_effect(proposals[c],
                                           [proposal |-> proposals[c], epoch |-> e])
    \/ \E r \in Readers : observe(r)
    \/ \E r \in Informed : register_evaluation(observed[r])
    \/ \E r \in Informed : register_exact_reference_evidence(observed[r])
    \/ lose_exact_reference

Spec == Init /\ [][Next]_vars

-----------------------------------------------------------------------------
(* Properties *)

\* The store's fields hold what their Rust types admit, and the cursor points
\* at a revision: `current` never indexes out of the vector.
TypeOK ==
    /\ revisions \in Seq(Revision)
    /\ cursor \in Nat
    /\ cursor < Len(revisions)
    /\ nextRevisionId \in Nat
    /\ mutationEpoch \in Nat
    /\ registry \subseteq Result
    /\ policyEpoch \in Nat
    /\ consumed \subseteq Token
    /\ proposals \in [Clients -> Proposal \cup {NoProposal}]
    /\ observed \in [Readers -> Observation \cup {NoObservation}]
    /\ grants \subseteq Token
    /\ replayed \in BOOLEAN

\* Along the history revision identifiers only grow and stay below the next
\* one to be given, through pushes, tip replacements and rolled-back
\* transactions that put next_revision_id back.
IdsIncrease ==
    /\ \A i, j \in 1..Len(revisions) : i < j => revisions[i].id < revisions[j].id
    /\ \A i \in 1..Len(revisions) : revisions[i].id < nextRevisionId

\* Never more than UNDO_REVISIONS steps back, nor than that many revisions
\* beside the current one.
UndoBounded == Len(revisions) <= UndoRevisions + 1

\* A checkpoint name leads to one revision, also after a rollback to a named
\* revision copied its content.
CheckpointNamesUnique ==
    \A i, j \in 1..Len(revisions) :
        /\ revisions[i].checkpoint # NoName
        /\ revisions[i].checkpoint = revisions[j].checkpoint
        => i = j

\* The history as a whole: ordered, bounded, and every name leads to one
\* revision (push_revision, create_checkpoint, rollback_to_revision).
HistorySound == IdsIncrease /\ UndoBounded /\ CheckpointNamesUnique

\* A registered evaluation belongs to the content of the revision it names:
\* no result computed before an undo, redo, correction or rolled-back edit is
\* filed under another revision.
RegistryMatchesHistory ==
    \A r \in registry : \A i \in 1..Len(revisions) :
        revisions[i].id = r.revision => revisions[i].product = r.product

\* Evidence kept with a revision was computed from the producer that revision
\* holds: an edit of the producer, a rollback or an undo never leaves a face
\* resolved against other geometry.
EvidenceMatchesProducer ==
    \A i \in 1..Len(revisions) :
        \/ revisions[i].evidence = NoEvidence
        \/ revisions[i].evidence = revisions[i].product[Face]

\* What was derived from a revision stays with what it was derived from.
DerivedCurrent == RegistryMatchesHistory /\ EvidenceMatchesProducer

\* expected_mutation_epoch is a sound version: whoever captured the document
\* at an epoch still sees the revision, content, program and checkpoint it
\* captured as long as the epoch is the same.
EpochIsVersion ==
    \A r \in Informed :
        observed[r].epoch = mutationEpoch
        => /\ observed[r].revision = current.id
           /\ observed[r].product = current.product
           /\ observed[r].program = current.program
           /\ observed[r].checkpoint = current.checkpoint

\* A human approval takes effect at most once, whatever is undone, rolled back
\* or reconfigured in between.
ApprovedOnce == ~replayed

\* A prepared edit that becomes a revision writes what was reviewed, and
\* every item it read is what it was when it was prepared.
CommitsAsReviewed ==
    [][\A c \in Held :
          LET p == proposals[c]
          IN  /\ \/ \E s \in Programs \cup {NoProgram} : commit_verified_proposal(p, s)
                 \/ \E e \in 1..MaxPolicyEpoch :
                       commit_high_risk_proposal(p, [proposal |-> p, epoch |-> e])
              /\ nextRevisionId' > nextRevisionId
              => /\ current'.product[p.batch.target] = p.result[p.batch.target]
                 /\ \A i \in p.batch.deps : current.product[i] = p.product[i]]_vars

\* The store implements the bounded linear history a user sees.
Linear == INSTANCE LinearHistory WITH
    Limit   <- UndoRevisions,
    past    <- SubSeq(revisions, 1, cursor),
    present <- current,
    future  <- SubSeq(revisions, cursor + 2, Len(revisions))

ImplementsLinearHistory == Linear!HSpec

=============================================================================
