------------------------ MODULE DocumentStoreProofs ------------------------
(***************************************************************************)
(* Theorems about DocumentStore for every value of its constants: its      *)
(* invariant, the refinement of LinearHistory and that a reviewed proposal *)
(* is what is committed.                                                   *)
(***************************************************************************)
EXTENDS DocumentStore, SequenceTheorems, TLAPS

\* What a mutation may hand to try_canonical_transaction.
StoreOK(s) ==
    /\ s.revisions \in Seq(Revision)
    /\ s.cursor \in Nat
    /\ s.cursor < Len(s.revisions)
    /\ s.nextRevisionId \in Nat
    /\ s.registry \subseteq Result
    /\ s.consumed \subseteq Token
    /\ s.grants \subseteq Token
    /\ s.replayed \in BOOLEAN

\* push_revision drops the redo branch and the oldest revisions only: the new
\* revision is last, and what is before it is a run of the old history that
\* ends at the cursor.
Excess(cur) == IF cur + 1 > UndoRevisions THEN cur + 1 - UndoRevisions ELSE 0
Pushes(h, revs, cur, rev, k) ==
    /\ h.revisions \in Seq(Revision)
    /\ h.cursor \in Nat
    /\ h.cursor = cur + 1 - k
    /\ k \in Nat /\ k <= cur + 1
    /\ Len(h.revisions) = h.cursor + 1
    /\ h.revisions[h.cursor + 1] = rev
    /\ \A i \in 1..h.cursor : h.revisions[i] = revs[i + k]

\* What push_revision returns: the revisions up to the cursor, then the new one, with the oldest dropped.
LEMMA PushFacts ==
    ASSUME NEW revs \in Seq(Revision), NEW cur \in Nat, cur < Len(revs),
           NEW rev \in Revision
    PROVE  Pushes(push_revision(revs, cur, rev), revs, cur, rev, Excess(cur))
  <1> DEFINE kept == Append(SubSeq(revs, 1, cur + 1), rev)
             k == Excess(cur)
             h == push_revision(revs, cur, rev)
  <1>1. /\ SubSeq(revs, 1, cur + 1) \in Seq(Revision)
        /\ Len(SubSeq(revs, 1, cur + 1)) = cur + 1
        /\ \A i \in 1..(cur + 1) : SubSeq(revs, 1, cur + 1)[i] = revs[i]
    OBVIOUS
  <1>2. /\ kept \in Seq(Revision)
        /\ Len(kept) = cur + 2
        /\ kept[cur + 2] = rev
        /\ \A i \in 1..(cur + 1) : kept[i] = revs[i]
    BY <1>1
  <1>3. k \in Nat /\ k <= cur + 1
    BY BoundAssumption DEF Excess
  <1> HIDE DEF kept, k
  <1>4. /\ SubSeq(kept, k + 1, cur + 2) \in Seq(Revision)
        /\ Len(SubSeq(kept, k + 1, cur + 2)) = cur + 2 - k
        /\ \A i \in 1..(cur + 2 - k) : SubSeq(kept, k + 1, cur + 2)[i] = kept[i + k]
    BY <1>2, <1>3
  <1>5. h = [revisions |-> SubSeq(kept, k + 1, cur + 2), cursor |-> cur + 1 - k]
    BY DEF push_revision, kept, k, h, Excess
  <1> HIDE DEF h
  <1>6. /\ h.revisions = SubSeq(kept, k + 1, cur + 2)
        /\ h.cursor = cur + 1 - k
    BY <1>5
  <1>7. /\ h.revisions \in Seq(Revision)
        /\ h.cursor \in Nat
        /\ Len(h.revisions) = h.cursor + 1
        /\ h.revisions[h.cursor + 1] = rev
        /\ \A i \in 1..h.cursor : h.revisions[i] = revs[i + k]
    BY <1>2, <1>3, <1>4, <1>6
  <1>8. Pushes(h, revs, cur, rev, k)
    BY <1>3, <1>6, <1>7 DEF Pushes
  <1> QED
    BY <1>8 DEF h, k


\* The parts of the inductive invariant that speak of the history.
HistoryOK(s) ==
    /\ \A i, j \in 1..Len(s.revisions) :
          i < j => s.revisions[i].id < s.revisions[j].id
    /\ \A i \in 1..Len(s.revisions) : s.revisions[i].id < s.nextRevisionId
    /\ Len(s.revisions) <= UndoRevisions + 1
    /\ \A i, j \in 1..Len(s.revisions) :
          /\ s.revisions[i].checkpoint # NoName
          /\ s.revisions[i].checkpoint = s.revisions[j].checkpoint
          => i = j
    /\ \A i \in 1..Len(s.revisions) :
          \/ s.revisions[i].evidence = NoEvidence
          \/ s.revisions[i].evidence = s.revisions[i].product[Face]
    /\ \A r \in s.registry :
          /\ r.revision < s.nextRevisionId
          /\ \A i \in 1..Len(s.revisions) :
                s.revisions[i].id = r.revision => s.revisions[i].product = r.product

\* The part that speaks of approvals: those that took effect under the policy
\* in force are the consumed ones, none is of a later policy.
ApprovalsOK(s) ==
    /\ ~s.replayed
    /\ \A t \in s.grants : t.epoch <= policyEpoch
                           /\ (t.epoch = policyEpoch => t \in s.consumed)

\* The part that speaks of readers: no observation is from the future.
ReadersOK ==
    /\ \A r \in Informed : observed[r].epoch <= mutationEpoch
    /\ EpochIsVersion

Inv == TypeOK /\ HistoryOK(store) /\ ApprovalsOK(store) /\ ReadersOK

\* A revision pushed on a history that is in order, with the next id, no
\* checkpoint name and evidence of its own producer, leaves it in order.
LEMMA PushedOK ==
    ASSUME TypeOK,
           NEW revs \in Seq(Revision), NEW cur \in Nat, cur < Len(revs),
           HistoryOK([store EXCEPT !.revisions = revs]),
           NEW rev \in Revision,
           rev.id = nextRevisionId,
           rev.checkpoint = NoName,
           rev.evidence \in {NoEvidence, rev.product[Face]},
           NEW reg \in SUBSET registry
    PROVE  LET s == Pushed(revs, cur, rev, reg)
           IN  /\ StoreOK(s)
               /\ HistoryOK(s)
               /\ s.consumed = consumed /\ s.grants = grants /\ s.replayed = replayed
  <1> DEFINE h == push_revision(revs, cur, rev)
             k == Excess(cur)
             s == Pushed(revs, cur, rev, reg)
  <1>1. /\ h.revisions \in Seq(Revision)
        /\ h.cursor \in Nat
        /\ h.cursor = cur + 1 - k
        /\ k \in Nat /\ k <= cur + 1
        /\ Len(h.revisions) = h.cursor + 1
        /\ h.revisions[h.cursor + 1] = rev
        /\ \A i \in 1..h.cursor : h.revisions[i] = revs[i + k]
    BY PushFacts DEF Pushes
  <1>2. h.cursor <= UndoRevisions
    <2>1. k = IF cur + 1 > UndoRevisions THEN cur + 1 - UndoRevisions ELSE 0
      BY DEF Excess
    <2> HIDE DEF h, k
    <2>2. h.cursor = cur + 1 - k /\ h.cursor \in Nat
      BY <1>1
    <2>3. cur \in Nat /\ UndoRevisions \in Nat
      BY BoundAssumption
    <2>4. CASE cur + 1 > UndoRevisions
      BY <2>1, <2>2, <2>3, <2>4
    <2>5. CASE ~(cur + 1 > UndoRevisions)
      BY <2>1, <2>2, <2>3, <2>5
    <2> QED
      BY <2>4, <2>5
  <1>3. s = [revisions |-> h.revisions, cursor |-> h.cursor,
             nextRevisionId |-> nextRevisionId + 1, registry |-> reg,
             consumed |-> consumed, grants |-> grants, replayed |-> replayed]
    BY DEF Pushed
  <1> HIDE DEF h, k, s
  <1>4. /\ s.revisions = h.revisions
        /\ s.cursor = h.cursor
        /\ s.nextRevisionId = nextRevisionId + 1
        /\ s.registry = reg
        /\ s.consumed = consumed
        /\ s.grants = grants
        /\ s.replayed = replayed
    BY <1>3
  <1>0. /\ nextRevisionId \in Nat
        /\ registry \subseteq Result
        /\ consumed \subseteq Token
        /\ grants \subseteq Token
        /\ replayed \in BOOLEAN
    BY DEF TypeOK
  <1>5. StoreOK(s)
    <2>1. /\ h.revisions \in Seq(Revision) /\ h.cursor \in Nat
          /\ h.cursor < Len(h.revisions) /\ nextRevisionId + 1 \in Nat
      BY <1>0, <1>1, SMTT(20)
    <2>2. reg \subseteq Result
      BY <1>0
    <2> QED
      BY <1>0, <1>4, <2>1, <2>2 DEF StoreOK
  <1>6. /\ \A i, j \in 1..Len(revs) : i < j => revs[i].id < revs[j].id
        /\ \A i \in 1..Len(revs) : revs[i].id < nextRevisionId
        /\ \A i, j \in 1..Len(revs) :
              revs[i].checkpoint # NoName /\ revs[i].checkpoint = revs[j].checkpoint
              => i = j
        /\ \A i \in 1..Len(revs) :
              \/ revs[i].evidence = NoEvidence
              \/ revs[i].evidence = revs[i].product[Face]
        /\ \A r \in registry :
              /\ r.revision < nextRevisionId
              /\ \A i \in 1..Len(revs) :
                    revs[i].id = r.revision => revs[i].product = r.product
    BY DEF HistoryOK, store
  <1>7. \A i \in 1..Len(revs) : revs[i].id \in Nat
    <2>1. \A i \in 1..Len(revs) : revs[i] \in Revision
      OBVIOUS
    <2> QED
      BY <2>1 DEF Revision
  <1>8. \A i \in 1..Len(h.revisions) :
           \/ i \in 1..h.cursor /\ i + k \in 1..Len(revs) /\ h.revisions[i] = revs[i + k]
           \/ i = h.cursor + 1 /\ h.revisions[i] = rev
    <2>1. ASSUME NEW i \in 1..Len(h.revisions), i # h.cursor + 1
          PROVE  i \in 1..h.cursor /\ i + k \in 1..Len(revs)
      BY <1>1, <2>1, SMTT(20)
    <2> QED
      BY <1>1, <2>1
  <1>9. HistoryOK(s)
    <2>1. ASSUME NEW i \in 1..Len(h.revisions), NEW j \in 1..Len(h.revisions), i < j
          PROVE  h.revisions[i].id < h.revisions[j].id
      <3>1. i \in 1..h.cursor /\ i + k \in 1..Len(revs) /\ h.revisions[i] = revs[i + k]
        BY <1>1, <1>8, <2>1, SMTT(20)
      <3>2. CASE j = h.cursor + 1 /\ h.revisions[j] = rev
        BY <1>6, <3>1, <3>2
      <3>3. CASE j \in 1..h.cursor /\ j + k \in 1..Len(revs) /\ h.revisions[j] = revs[j + k]
        <4>1. i + k < j + k
          BY <1>1, <2>1
        <4> QED
          BY <1>6, <3>1, <3>3, <4>1
      <3> QED
        BY <1>8, <3>2, <3>3
    <2>2. ASSUME NEW i \in 1..Len(h.revisions)
          PROVE  h.revisions[i].id < nextRevisionId + 1
      <3>1. CASE h.revisions[i] = rev
        BY <1>0, <3>1
      <3>2. CASE i + k \in 1..Len(revs) /\ h.revisions[i] = revs[i + k]
        <4>1. revs[i + k].id < nextRevisionId /\ revs[i + k].id \in Nat
          BY <1>6, <1>7, <3>2
        <4> QED
          BY <1>0, <3>2, <4>1
      <3> QED
        BY <1>8, <3>1, <3>2
    <2>3. Len(h.revisions) <= UndoRevisions + 1
      BY <1>1, <1>2, BoundAssumption
    <2>4. ASSUME NEW i \in 1..Len(h.revisions), NEW j \in 1..Len(h.revisions),
                 h.revisions[i].checkpoint # NoName,
                 h.revisions[i].checkpoint = h.revisions[j].checkpoint
          PROVE  i = j
      <3>1. /\ i + k \in 1..Len(revs) /\ h.revisions[i] = revs[i + k]
            /\ j + k \in 1..Len(revs) /\ h.revisions[j] = revs[j + k]
        BY <1>8, <2>4
      <3>2. i + k = j + k
        BY <1>6, <2>4, <3>1
      <3> QED
        BY <1>1, <3>2, SMTT(20)
    <2>5. \A i \in 1..Len(h.revisions) :
             \/ h.revisions[i].evidence = NoEvidence
             \/ h.revisions[i].evidence = h.revisions[i].product[Face]
      BY <1>6, <1>8
    <2>6. ASSUME NEW r \in reg
          PROVE  /\ r.revision < nextRevisionId + 1
                 /\ \A i \in 1..Len(h.revisions) :
                       h.revisions[i].id = r.revision => h.revisions[i].product = r.product
      <3>1. r.revision < nextRevisionId /\ r.revision \in Nat
        BY <1>0, <1>6 DEF Result
      <3>2. ASSUME NEW i \in 1..Len(h.revisions), h.revisions[i].id = r.revision
            PROVE  h.revisions[i].product = r.product
        <4>1. h.revisions[i] # rev
          BY <1>0, <3>1, <3>2
        <4>2. i + k \in 1..Len(revs) /\ h.revisions[i] = revs[i + k]
          BY <1>8, <4>1
        <4> QED
          BY <1>6, <3>2, <4>2
      <3> QED
        BY <1>0, <3>1, <3>2
    <2> QED
      BY <1>4, <2>1, <2>2, <2>3, <2>4, <2>5, <2>6 DEF HistoryOK
  <1> QED
    BY <1>4, <1>5, <1>9 DEF s


\* Whether its finalizer succeeds or fails, a mutation with a sound outcome
\* keeps the invariant; the advanced epoch makes every observation a past one.
LEMMA TransactionOK ==
    ASSUME Inv, NEW s, StoreOK(s), HistoryOK(s), ApprovalsOK(s),
           try_canonical_transaction(s)
    PROVE  Inv'
  <1>1. /\ UNCHANGED <<policyEpoch, proposals, observed>>
        /\ mutationEpoch' = mutationEpoch + 1
        /\ Install(s) \/ Install(store)
    BY DEF try_canonical_transaction, RestoredBy
  <1>2. StoreOK(store)
    BY DEF Inv, TypeOK, StoreOK, store
  <1>3. ASSUME NEW t, StoreOK(t), HistoryOK(t), ApprovalsOK(t), Install(t)
        PROVE  TypeOK' /\ HistoryOK(store)' /\ ApprovalsOK(store)'
    <2>1. /\ revisions' = t.revisions
          /\ cursor' = t.cursor
          /\ nextRevisionId' = t.nextRevisionId
          /\ registry' = t.registry
          /\ consumed' = t.consumed
          /\ grants' = t.grants
          /\ replayed' = t.replayed
      BY <1>3 DEF Install
    <2>2. TypeOK'
      <3>1. mutationEpoch' \in Nat
        BY <1>1 DEF Inv, TypeOK
      <3>2. /\ policyEpoch' \in Nat
            /\ proposals' \in [Clients -> Proposal \cup {NoProposal}]
            /\ observed' \in [Readers -> Observation \cup {NoObservation}]
        BY <1>1 DEF Inv, TypeOK
      <3> QED
        BY <1>3, <2>1, <3>1, <3>2 DEF StoreOK, TypeOK
    <2>3. HistoryOK(store)'
      BY <1>3, <2>1 DEF HistoryOK, store
    <2>4. ApprovalsOK(store)'
      BY <1>1, <1>3, <2>1 DEF ApprovalsOK, store
    <2> QED
      BY <2>2, <2>3, <2>4
  <1>4. TypeOK' /\ HistoryOK(store)' /\ ApprovalsOK(store)'
    <2>1. CASE Install(s)
      BY <1>3, <2>1
    <2>2. CASE Install(store)
      BY <1>2, <1>3, <2>2 DEF Inv
    <2> QED
      BY <1>1, <2>1, <2>2
  <1>5. ReadersOK'
    <2>1. \A r \in Informed : observed[r].epoch \in Nat /\ observed[r].epoch <= mutationEpoch
      BY DEF Inv, ReadersOK, Informed, TypeOK, Observation
    <2>2. mutationEpoch \in Nat
      BY DEF Inv, TypeOK
    <2>3. Informed' = Informed /\ observed' = observed
      BY <1>1 DEF Informed
    <2> QED
      BY <1>1, <2>1, <2>2, <2>3 DEF ReadersOK, EpochIsVersion
  <1> QED
    BY <1>4, <1>5 DEF Inv


\* A revision as a push needs it.
Pushable(rev) ==
    /\ rev \in Revision
    /\ rev.id = nextRevisionId
    /\ rev.checkpoint = NoName
    /\ rev.evidence \in {NoEvidence, rev.product[Face]}

\* The current revision is a revision of the history, so its evidence is that
\* of the producer it holds.
LEMMA CurrentOK ==
    ASSUME Inv
    PROVE  /\ cursor + 1 \in 1..Len(revisions)
           /\ current = revisions[cursor + 1]
           /\ \A i \in 1..Len(revisions) :
                 /\ revisions[i] \in Revision
                 /\ revisions[i].evidence \in {NoEvidence, revisions[i].product[Face]}
  <1>1. revisions \in Seq(Revision) /\ cursor \in Nat /\ cursor < Len(revisions)
    BY DEF Inv, TypeOK
  <1>2. \A i \in 1..Len(revisions) : revisions[i] \in Revision
    BY <1>1
  <1>3. \A i \in 1..Len(revisions) :
           revisions[i].evidence \in {NoEvidence, revisions[i].product[Face]}
    BY DEF Inv, HistoryOK, store
  <1> QED
    BY <1>1, <1>2, <1>3 DEF current

\* A revision pushed at the cursor.
LEMMA PushKeepsInv ==
    ASSUME Inv, NEW rev, Pushable(rev), NEW reg \in SUBSET registry,
           try_canonical_transaction(Pushed(revisions, cursor, rev, reg))
    PROVE  Inv'
  <1> DEFINE s == Pushed(revisions, cursor, rev, reg)
  <1>1. revisions \in Seq(Revision) /\ cursor \in Nat /\ cursor < Len(revisions)
    BY DEF Inv, TypeOK
  <1>2. [store EXCEPT !.revisions = revisions] = store
    BY DEF store
  <1>3. HistoryOK([store EXCEPT !.revisions = revisions])
    BY <1>2 DEF Inv
  <1>4. StoreOK(s) /\ HistoryOK(s)
        /\ s.consumed = consumed /\ s.grants = grants /\ s.replayed = replayed
    BY <1>1, <1>3, PushedOK DEF Inv, Pushable
  <1> HIDE DEF s
  <1>5. ApprovalsOK(s)
    BY <1>4 DEF Inv, ApprovalsOK, store
  <1> QED
    BY <1>4, <1>5, TransactionOK DEF s

\* The revision a batch builds on a sound one is sound: the lineage refresh
\* keeps evidence only when the producer is unchanged.
LEMMA AppliedOK ==
    ASSUME Inv, NEW b \in Batches, NEW before \in Revision,
           before.evidence \in {NoEvidence, before.product[Face]},
           Accepted(b, before.product)
    PROVE  Pushable(Applied(b, before))
  <1> DEFINE q == Edit(b, before.product)
  <1>1. q \in Products
    BY ProductAssumption DEF Accepted
  <1>2. nextRevisionId \in Nat
    BY DEF Inv, TypeOK
  <1> HIDE DEF q
  <1>3. refresh_reference_lineages(q, before) \in {NoEvidence, q[Face]}
    BY DEF refresh_reference_lineages
  <1>4. q[Face] \in Values
    BY <1>1, ProductAssumption DEF Products
  <1>5. rule_program_kept_by(b, before) \in Programs \cup {NoProgram}
    BY DEF rule_program_kept_by, Revision
  <1> DEFINE e == refresh_reference_lineages(q, before)
             g == rule_program_kept_by(b, before)
  <1> HIDE DEF e, g
  <1>6. Applied(b, before) =
           [id |-> nextRevisionId, product |-> q, evidence |-> e, program |-> g,
            checkpoint |-> NoName, origin |-> "principal"]
    BY DEF Applied, q, e, g
  <1>7. e \in {NoEvidence, q[Face]} /\ g \in Programs \cup {NoProgram}
    BY <1>3, <1>5 DEF e, g
  <1> QED
    BY <1>1, <1>2, <1>4, <1>6, <1>7 DEF Pushable, Revision

\* A batch applied at the cursor, with or without a bound program.
LEMMA ApplyBatchKeepsInv ==
    ASSUME Inv, NEW b \in Batches, NEW source \in Programs \cup {NoProgram},
           Accepted(b, current.product),
           NEW bound,
           bound = IF source = NoProgram THEN Applied(b, current)
                   ELSE [Applied(b, current) EXCEPT !.program = source],
           try_canonical_transaction(Pushed(revisions, cursor, bound, registry))
    PROVE  Inv'
  <1>1. Pushable(Applied(b, current))
    BY AppliedOK, CurrentOK
  <1>2. Pushable(bound)
    BY <1>1 DEF Pushable, Revision
  <1> QED
    BY <1>2, PushKeepsInv


\* A correction: the tip is popped, the batch runs on its parent.
LEMMA TipKeepsInv ==
    ASSUME Inv, NEW c \in Held, commit_tip_replacement_proposal(proposals[c])
    PROVE  Inv'
  <1> DEFINE p == proposals[c]
             revs == SubSeq(revisions, 1, cursor)
             rev == Applied(p.batch, revisions[cursor])
             reg == {r \in registry : r.revision # p.revision}
             s == Pushed(revs, cursor - 1, rev, reg)
  <1>1. /\ p.kind = "tip"
        /\ cursor > 0
        /\ revisions[cursor].product = p.base
        /\ Accepted(p.batch, revisions[cursor].product)
        /\ try_canonical_transaction(s)
    BY DEF commit_tip_replacement_proposal, verify_tip_replacement_proposal,
           validate_tip_replacement_envelope
  <1>2. p \in Proposal
    BY DEF Inv, TypeOK, Held
  <1>3. p.batch \in Batches
    BY <1>1, <1>2 DEF Proposal
  <1>4. revisions \in Seq(Revision) /\ cursor \in Nat /\ cursor < Len(revisions)
    BY DEF Inv, TypeOK
  <1>5. /\ revisions[cursor] \in Revision
        /\ revisions[cursor].evidence \in {NoEvidence, revisions[cursor].product[Face]}
    BY <1>1, <1>4, CurrentOK
  <1>6. Pushable(rev)
    BY <1>1, <1>3, <1>5, AppliedOK
  <1>7. /\ revs \in Seq(Revision)
        /\ Len(revs) = cursor
        /\ \A i \in 1..cursor : i \in 1..Len(revisions) /\ revs[i] = revisions[i]
    BY <1>1, <1>4
  <1> HIDE DEF revs
  <1>8. HistoryOK([store EXCEPT !.revisions = revs])
    <2>1. /\ \A i, j \in 1..Len(revs) : i < j => revs[i].id < revs[j].id
          /\ \A i \in 1..Len(revs) : revs[i].id < nextRevisionId
          /\ \A i, j \in 1..Len(revs) :
                revs[i].checkpoint # NoName /\ revs[i].checkpoint = revs[j].checkpoint
                => i = j
          /\ \A i \in 1..Len(revs) :
                \/ revs[i].evidence = NoEvidence
                \/ revs[i].evidence = revs[i].product[Face]
          /\ \A r \in registry :
                /\ r.revision < nextRevisionId
                /\ \A i \in 1..Len(revs) :
                      revs[i].id = r.revision => revs[i].product = r.product
      <3>1. /\ \A i, j \in 1..Len(revisions) : i < j => revisions[i].id < revisions[j].id
            /\ \A i \in 1..Len(revisions) : revisions[i].id < nextRevisionId
            /\ \A i, j \in 1..Len(revisions) :
                  revisions[i].checkpoint # NoName
                  /\ revisions[i].checkpoint = revisions[j].checkpoint => i = j
            /\ \A i \in 1..Len(revisions) :
                  \/ revisions[i].evidence = NoEvidence
                  \/ revisions[i].evidence = revisions[i].product[Face]
            /\ \A r \in registry :
                  /\ r.revision < nextRevisionId
                  /\ \A i \in 1..Len(revisions) :
                        revisions[i].id = r.revision => revisions[i].product = r.product
        BY DEF Inv, HistoryOK, store
      <3>2. ASSUME NEW i \in 1..Len(revs) PROVE i \in 1..Len(revisions) /\ revs[i] = revisions[i]
        BY <1>7
      <3> QED
        BY <3>1, <3>2, SMTT(20)
    <2>2. Len(revs) <= UndoRevisions + 1
      BY <1>4, <1>7, BoundAssumption DEF Inv, HistoryOK, store
    <2> QED
      BY <2>1, <2>2 DEF HistoryOK, store
  <1>9. cursor - 1 \in Nat /\ cursor - 1 < Len(revs)
    BY <1>1, <1>4, <1>7
  <1>10. reg \in SUBSET registry
    OBVIOUS
  <1> HIDE DEF rev, reg
  <1>11. /\ StoreOK(s) /\ HistoryOK(s)
         /\ s.consumed = consumed /\ s.grants = grants /\ s.replayed = replayed
    BY <1>6, <1>7, <1>8, <1>9, <1>10, PushedOK DEF Inv, Pushable
  <1> HIDE DEF s
  <1>12. ApprovalsOK(s)
    BY <1>11 DEF Inv, ApprovalsOK, store
  <1> QED
    BY <1>1, <1>11, <1>12, TransactionOK

\* A high-risk commit: the approval it uses was not used before.
LEMMA HighRiskKeepsInv ==
    ASSUME Inv, NEW c \in Held, NEW e \in 1..MaxPolicyEpoch,
           commit_high_risk_proposal(proposals[c],
                                     [proposal |-> proposals[c], epoch |-> e])
    PROVE  Inv'
  <1> DEFINE p == proposals[c]
             token == [proposal |-> p, epoch |-> e]
             s == Committed(p)
             t == [s EXCEPT !.consumed = consumed \cup {token},
                            !.grants = grants \cup {token},
                            !.replayed = replayed \/ token \in grants]
  <1>1. /\ p.kind = "edit"
        /\ ApprovalStands(token)
        /\ Accepted(p.batch, current.product)
        /\ try_canonical_transaction(t)
    BY DEF commit_high_risk_proposal, verify_proposal_candidate
  <1>2. p \in Proposal
    BY DEF Inv, TypeOK, Held
  <1>3. p.batch \in Batches
    BY <1>1, <1>2 DEF Proposal
  <1>4. token \in Token
    BY <1>2, BoundAssumption DEF Token
  <1>5. Pushable(Applied(p.batch, current))
    BY <1>1, <1>3, AppliedOK, CurrentOK
  <1>6. revisions \in Seq(Revision) /\ cursor \in Nat /\ cursor < Len(revisions)
    BY DEF Inv, TypeOK
  <1>7. HistoryOK([store EXCEPT !.revisions = revisions])
    <2>1. [store EXCEPT !.revisions = revisions] = store
      BY DEF store
    <2> QED
      BY <2>1 DEF Inv
  <1>8. /\ StoreOK(s) /\ HistoryOK(s)
        /\ s.consumed = consumed /\ s.grants = grants /\ s.replayed = replayed
    BY <1>5, <1>6, <1>7, PushedOK DEF Inv, Pushable, Committed
  <1>9. /\ t.revisions = s.revisions /\ t.cursor = s.cursor
        /\ t.nextRevisionId = s.nextRevisionId /\ t.registry = s.registry
        /\ t.consumed = consumed \cup {token}
        /\ t.grants = grants \cup {token}
        /\ t.replayed = (replayed \/ token \in grants)
    BY DEF Committed, Pushed
  <1> HIDE DEF s, t
  <1>10. StoreOK(t)
    BY <1>4, <1>8, <1>9 DEF StoreOK
  <1>11. HistoryOK(t)
    BY <1>8, <1>9 DEF HistoryOK
  <1>12. ApprovalsOK(t)
    <2>1. token.epoch = policyEpoch /\ token \notin consumed
      BY <1>1 DEF ApprovalStands
    <2>2. ~replayed
          /\ \A g \in grants : g.epoch <= policyEpoch
                               /\ (g.epoch = policyEpoch => g \in consumed)
      BY DEF Inv, ApprovalsOK, store
    <2>3. policyEpoch \in Nat
      BY DEF Inv, TypeOK
    <2> HIDE DEF token
    <2>4. token \notin grants
      BY <2>1, <2>2
    <2>5. ~t.replayed
      BY <1>9, <2>2, <2>4, Zenon
    <2>6. \A g \in t.grants : g.epoch <= policyEpoch
                                /\ (g.epoch = policyEpoch => g \in t.consumed)
      BY <1>9, <2>1, <2>2, <2>3
    <2> QED
      BY <2>5, <2>6 DEF ApprovalsOK
  <1> QED
    BY <1>1, <1>10, <1>11, <1>12, TransactionOK


\* The canonical actions that change the cursor or a name only.
LEMMA CursorKeepsInv ==
    ASSUME Inv, undo \/ redo
    PROVE  Inv'
  <1>1. /\ revisions \in Seq(Revision) /\ cursor \in Nat /\ cursor < Len(revisions)
        /\ StoreOK(store)
    BY DEF Inv, TypeOK, StoreOK, store
  <1>2. ASSUME NEW n \in Nat, n < Len(revisions),
               try_canonical_transaction([store EXCEPT !.cursor = n])
        PROVE  Inv'
    <2> DEFINE s == [store EXCEPT !.cursor = n]
    <2>1. /\ s.revisions = store.revisions /\ s.cursor = n
          /\ s.nextRevisionId = store.nextRevisionId /\ s.registry = store.registry
          /\ s.consumed = store.consumed /\ s.grants = store.grants
          /\ s.replayed = store.replayed /\ store.revisions = revisions
      BY DEF store
    <2> HIDE DEF s
    <2>2. StoreOK(s) /\ HistoryOK(s) /\ ApprovalsOK(s)
      BY <1>1, <1>2, <2>1 DEF Inv, StoreOK, HistoryOK, ApprovalsOK
    <2> QED
      BY <1>2, <2>2, TransactionOK DEF s
  <1>3. CASE undo
    <2>1. cursor - 1 \in Nat /\ cursor - 1 < Len(revisions)
      BY <1>1, <1>3 DEF undo
    <2> QED
      BY <1>2, <1>3, <2>1 DEF undo
  <1>4. CASE redo
    <2>1. cursor + 1 \in Nat /\ cursor + 1 < Len(revisions)
      BY <1>1, <1>4 DEF redo
    <2> QED
      BY <1>2, <1>4, <2>1 DEF redo
  <1> QED
    BY <1>3, <1>4

\* Naming the current revision, when no other revision has the name.
LEMMA CheckpointKeepsInv ==
    ASSUME Inv, NEW name \in Names, create_checkpoint(name)
    PROVE  Inv'
  <1> DEFINE revs == [revisions EXCEPT ![cursor + 1].checkpoint = name]
             s == [store EXCEPT !.revisions = revs]
  <1>1. /\ revisions \in Seq(Revision) /\ cursor \in Nat /\ cursor < Len(revisions)
        /\ StoreOK(store)
    BY DEF Inv, TypeOK, StoreOK, store
  <1>2. /\ \A i \in 1..Len(revisions) :
              revisions[i].checkpoint = name => revisions[i].id = revisions[cursor + 1].id
        /\ try_canonical_transaction(s)
    BY <1>1 DEF create_checkpoint, current
  <1>3. /\ revs \in Seq(Revision)
        /\ Len(revs) = Len(revisions)
        /\ \A i \in 1..Len(revisions) :
              /\ revs[i].id = revisions[i].id
              /\ revs[i].product = revisions[i].product
              /\ revs[i].evidence = revisions[i].evidence
              /\ i # cursor + 1 => revs[i].checkpoint = revisions[i].checkpoint
        /\ revs[cursor + 1].checkpoint = name
    <2> DEFINE v == [revisions[cursor + 1] EXCEPT !.checkpoint = name]
    <2>1. revisions[cursor + 1] \in Revision
      BY <1>1
    <2>2. /\ v \in Revision
          /\ v.id = revisions[cursor + 1].id
          /\ v.product = revisions[cursor + 1].product
          /\ v.evidence = revisions[cursor + 1].evidence
          /\ v.checkpoint = name
      BY <2>1 DEF Revision
    <2>3. revs = [revisions EXCEPT ![cursor + 1] = v]
      OBVIOUS
    <2> HIDE DEF v, revs
    <2>4. /\ revs \in Seq(Revision)
          /\ Len(revs) = Len(revisions)
          /\ \A i \in 1..Len(revisions) :
                revs[i] = IF i = cursor + 1 THEN v ELSE revisions[i]
      BY <1>1, <2>2, <2>3, ExceptSeq
    <2> QED
      BY <1>1, <2>2, <2>4
  <1>4. /\ s.revisions = revs /\ s.cursor = cursor
        /\ s.nextRevisionId = nextRevisionId /\ s.registry = registry
        /\ s.consumed = consumed /\ s.grants = grants
        /\ s.replayed = replayed
    BY DEF store
  <1> HIDE DEF s, revs
  <1>5. StoreOK(s)
    BY <1>1, <1>3, <1>4 DEF StoreOK, store
  <1>6. HistoryOK(s)
    <2>1. /\ \A i, j \in 1..Len(revisions) : i < j => revisions[i].id < revisions[j].id
          /\ \A i \in 1..Len(revisions) : revisions[i].id < nextRevisionId
          /\ Len(revisions) <= UndoRevisions + 1
          /\ \A i, j \in 1..Len(revisions) :
                revisions[i].checkpoint # NoName
                /\ revisions[i].checkpoint = revisions[j].checkpoint
                => i = j
          /\ \A i \in 1..Len(revisions) :
                \/ revisions[i].evidence = NoEvidence
                \/ revisions[i].evidence = revisions[i].product[Face]
          /\ \A r \in registry :
                /\ r.revision < nextRevisionId
                /\ \A i \in 1..Len(revisions) :
                      revisions[i].id = r.revision => revisions[i].product = r.product
      BY DEF Inv, HistoryOK, store
    <2>2. \A i \in 1..Len(revisions) : revisions[i].id \in Nat
      <3>1. \A i \in 1..Len(revisions) : revisions[i] \in Revision
        BY <1>1
      <3> QED
        BY <3>1 DEF Revision
    <2>3. \A i \in 1..Len(revisions) :
             revisions[i].checkpoint = name => i = cursor + 1
      BY <1>1, <1>2, <2>1, <2>2, SMTT(20)
    <2>4. ASSUME NEW i \in 1..Len(revs), NEW j \in 1..Len(revs),
                 revs[i].checkpoint # NoName, revs[i].checkpoint = revs[j].checkpoint
          PROVE  i = j
      <3>1. CASE i = cursor + 1
        BY <1>3, <2>3, <2>4, <3>1
      <3>2. CASE j = cursor + 1
        BY <1>3, <2>3, <2>4, <3>2
      <3>3. CASE i # cursor + 1 /\ j # cursor + 1
        BY <1>3, <2>1, <2>4, <3>3
      <3> QED
        BY <3>1, <3>2, <3>3
    <2> QED
      BY <1>3, <1>4, <2>1, <2>4, SMTT(20) DEF HistoryOK
  <1>7. ApprovalsOK(s)
    BY <1>4 DEF Inv, ApprovalsOK, store
  <1> QED
    BY <1>2, <1>5, <1>6, <1>7, TransactionOK

\* Evidence registered or lost on the current revision.
LEMMA EvidenceKeepsInv ==
    ASSUME Inv, NEW e, e \in {NoEvidence, current.product[Face]},
           revisions' = [revisions EXCEPT ![cursor + 1].evidence = e],
           UNCHANGED <<cursor, nextRevisionId, mutationEpoch, registry, policyEpoch,
                       consumed, proposals, observed, grants, replayed>>
    PROVE  Inv'
  <1>1. /\ revisions \in Seq(Revision) /\ cursor \in Nat /\ cursor < Len(revisions)
        /\ cursor + 1 \in 1..Len(revisions)
    BY DEF Inv, TypeOK
  <1>2. \A i \in 1..Len(revisions) :
           revisions[i] \in Revision /\ revisions[i].product[Face] \in Values
    <2>1. \A i \in 1..Len(revisions) : revisions[i] \in Revision
      BY <1>1
    <2> QED
      BY <2>1, ProductAssumption DEF Revision, Products
  <1>3. e \in Values \cup {NoEvidence}
    BY <1>1, <1>2 DEF current
  <1>4. /\ revisions' \in Seq(Revision)
        /\ Len(revisions') = Len(revisions)
        /\ \A i \in 1..Len(revisions) :
              /\ revisions'[i].id = revisions[i].id
              /\ revisions'[i].product = revisions[i].product
              /\ revisions'[i].program = revisions[i].program
              /\ revisions'[i].checkpoint = revisions[i].checkpoint
              /\ i # cursor + 1 => revisions'[i].evidence = revisions[i].evidence
        /\ revisions'[cursor + 1].evidence = e
    <2> DEFINE v == [revisions[cursor + 1] EXCEPT !.evidence = e]
    <2>1. /\ v \in Revision
          /\ v.id = revisions[cursor + 1].id
          /\ v.product = revisions[cursor + 1].product
          /\ v.program = revisions[cursor + 1].program
          /\ v.checkpoint = revisions[cursor + 1].checkpoint
          /\ v.evidence = e
      BY <1>1, <1>2, <1>3 DEF Revision
    <2>2. revisions' = [revisions EXCEPT ![cursor + 1] = v]
      OBVIOUS
    <2> HIDE DEF v
    <2>3. /\ revisions' \in Seq(Revision)
          /\ Len(revisions') = Len(revisions)
          /\ \A i \in 1..Len(revisions) :
                revisions'[i] = IF i = cursor + 1 THEN v ELSE revisions[i]
      BY <1>1, <2>1, <2>2, ExceptSeq
    <2> QED
      BY <1>1, <2>1, <2>3
  <1>5. TypeOK'
    BY <1>1, <1>4 DEF Inv, TypeOK
  <1>6. HistoryOK(store)'
    <2>1. \A i \in 1..Len(revisions) :
             \/ revisions'[i].evidence = NoEvidence
             \/ revisions'[i].evidence = revisions'[i].product[Face]
      BY <1>1, <1>4 DEF Inv, HistoryOK, store, current
    <2> QED
      BY <1>4, <2>1 DEF Inv, HistoryOK, store
  <1>7. ApprovalsOK(store)'
    BY DEF Inv, ApprovalsOK, store
  <1>8. ReadersOK'
    BY <1>1, <1>4 DEF Inv, ReadersOK, EpochIsVersion, Informed, current
  <1> QED
    BY <1>5, <1>6, <1>7, <1>8 DEF Inv


\* A proposal that is prepared changes nothing but what its client holds.
LEMMA HoldKeepsInv ==
    ASSUME Inv, NEW c \in Clients, NEW p \in Proposal, Hold(c, p)
    PROVE  Inv'
  <1>1. TypeOK'
    BY DEF Inv, TypeOK, Hold
  <1>2. HistoryOK(store)' /\ ApprovalsOK(store)'
    BY DEF Inv, Hold, HistoryOK, ApprovalsOK, store
  <1>3. ReadersOK'
    BY DEF Inv, Hold, ReadersOK, EpochIsVersion, Informed, current
  <1> QED
    BY <1>1, <1>2, <1>3 DEF Inv

\* A new store satisfies the inductive invariant.
LEMMA InitInv == Init => Inv
  <1> SUFFICES ASSUME Init PROVE Inv
    OBVIOUS
  <1> DEFINE first == [id |-> 0, product |-> EmptyProduct, evidence |-> NoEvidence,
                       program |-> NoProgram, checkpoint |-> NoName,
                       origin |-> "initial"]
  <1>1. first \in Revision /\ first.id = 0 /\ first.checkpoint = NoName
        /\ first.evidence = NoEvidence
    BY ProductAssumption DEF Revision
  <1>2. revisions = <<first>>
    BY DEF Init
  <1> HIDE DEF first
  <1>3. revisions \in Seq(Revision) /\ Len(revisions) = 1 /\ revisions[1] = first
    BY <1>1, <1>2
  <1>4. TypeOK
    <2>1. /\ proposals \in [Clients -> Proposal \cup {NoProposal}]
          /\ observed \in [Readers -> Observation \cup {NoObservation}]
      BY DEF Init
    <2>2. /\ cursor = 0 /\ nextRevisionId = 1 /\ mutationEpoch = 1 /\ policyEpoch = 0
          /\ registry = {} /\ consumed = {} /\ grants = {} /\ replayed = FALSE
      BY DEF Init
    <2>3. /\ cursor \in Nat /\ cursor < Len(revisions)
          /\ nextRevisionId \in Nat /\ mutationEpoch \in Nat /\ policyEpoch \in Nat
      BY <1>3, <2>2
    <2>4. /\ registry \subseteq Result /\ consumed \subseteq Token
          /\ grants \subseteq Token /\ replayed \in BOOLEAN
      BY <2>2
    <2> QED
      BY <1>3, <2>1, <2>3, <2>4 DEF TypeOK
  <1>5. HistoryOK(store)
    BY <1>1, <1>3, BoundAssumption DEF Init, HistoryOK, store
  <1>6. ApprovalsOK(store)
    BY DEF Init, ApprovalsOK, store
  <1>7. ReadersOK
    BY DEF Init, ReadersOK, EpochIsVersion, Informed
  <1> QED
    BY <1>4, <1>5, <1>6, <1>7 DEF Inv

\* Every operation of the store keeps the inductive invariant.
LEMMA NextInv == Inv /\ [Next]_vars => Inv'
  <1> SUFFICES ASSUME Inv, [Next]_vars PROVE Inv'
    OBVIOUS
  <1>1. /\ revisions \in Seq(Revision) /\ cursor \in Nat /\ cursor < Len(revisions)
        /\ nextRevisionId \in Nat
        /\ cursor + 1 \in 1..Len(revisions)
        /\ current \in Revision
        /\ current.evidence \in {NoEvidence, current.product[Face]}
    BY CurrentOK DEF Inv, TypeOK
  <1>2. ASSUME NEW b \in Batches, NEW s \in Programs \cup {NoProgram}, apply_batch(b, s)
        PROVE  Inv'
    BY <1>2, ApplyBatchKeepsInv DEF apply_batch
  <1>3. ASSUME NEW s \in Programs, replace_rule_program_source(s)
        PROVE  Inv'
    <2> DEFINE rev == [current EXCEPT !.id = nextRevisionId, !.program = s,
                                      !.checkpoint = NoName, !.origin = "principal"]
    <2>1. Pushable(rev)
      BY <1>1 DEF Pushable, Revision
    <2> QED
      BY <1>3, <2>1, PushKeepsInv DEF replace_rule_program_source
  <1>4. ASSUME NEW q \in ValidProducts, NEW e \in Values \cup {NoEvidence},
               NEW s \in Programs \cup {NoProgram}, publish_replacement(q, e, s)
        PROVE  Inv'
    <2> DEFINE rev == [id |-> nextRevisionId, product |-> q,
                       evidence |-> e, program |-> s,
                       checkpoint |-> NoName, origin |-> "principal"]
    <2>0. e \in {NoEvidence, q[Face]}
      BY <1>4 DEF publish_replacement
    <2>1. Pushable(rev)
      BY <1>1, <2>0, ProductAssumption DEF Pushable, Revision
    <2>2. try_canonical_transaction(Pushed(revisions, cursor, rev, {}))
      BY <1>4 DEF publish_replacement
    <2> HIDE DEF rev
    <2> QED
      BY <2>1, <2>2, PushKeepsInv
  <1>5. ASSUME NEW i \in DOMAIN revisions, rollback_to_revision(i)
        PROVE  Inv'
    <2> DEFINE rev == [revisions[i] EXCEPT !.id = nextRevisionId,
                                           !.checkpoint = NoName,
                                           !.origin = "rollback"]
    <2>1. /\ revisions[i] \in Revision
          /\ revisions[i].evidence \in {NoEvidence, revisions[i].product[Face]}
      BY <1>1, CurrentOK
    <2>2. Pushable(rev)
      BY <1>1, <2>1 DEF Pushable, Revision
    <2>3. try_canonical_transaction(Pushed(revisions, cursor, rev, {}))
      BY <1>5 DEF rollback_to_revision
    <2> HIDE DEF rev
    <2> QED
      BY <2>2, <2>3, PushKeepsInv
  <1>6. ASSUME NEW n \in Names, create_checkpoint(n)
        PROVE  Inv'
    BY <1>6, CheckpointKeepsInv
  <1>7. ASSUME undo \/ redo
        PROVE  Inv'
    BY <1>7, CursorKeepsInv
  <1>8. ASSUME discard_history_before_current
        PROVE  Inv'
    <2>1. /\ revisions' = <<current>> /\ cursor' = 0
          /\ UNCHANGED <<nextRevisionId, mutationEpoch, registry, policyEpoch, consumed,
                         proposals, observed, grants, replayed>>
      BY <1>8 DEF discard_history_before_current
    <2>2. revisions' \in Seq(Revision) /\ Len(revisions') = 1
          /\ revisions'[1] = revisions[cursor + 1]
      BY <1>1, <2>1 DEF current
    <2>3. current' = current
      BY <2>1, <2>2 DEF current
    <2>4. TypeOK'
      BY <2>1, <2>2 DEF Inv, TypeOK
    <2>5. HistoryOK(store)'
      BY <1>1, <2>1, <2>2, BoundAssumption DEF Inv, HistoryOK, store
    <2>6. ApprovalsOK(store)'
      BY <2>1 DEF Inv, ApprovalsOK, store
    <2>7. ReadersOK'
      BY <2>1, <2>3 DEF Inv, ReadersOK, EpochIsVersion, Informed
    <2> QED
      BY <2>4, <2>5, <2>6, <2>7 DEF Inv
  <1>9. ASSUME NEW c \in Clients, NEW b \in Batches, NEW high \in BOOLEAN,
               prepare_proposal(c, b, high)
        PROVE  Inv'
    <2>1. Edit(b, current.product) \in Products
      BY <1>9, ProductAssumption DEF prepare_proposal, Accepted
    <2> DEFINE q == [kind |-> "edit", batch |-> b, high |-> high,
                     revision |-> current.id, product |-> current.product,
                     parent |-> current.id, base |-> current.product,
                     result |-> Edit(b, current.product)]
    <2>2. q \in Proposal
      BY <1>1, <2>1 DEF Proposal, Revision
    <2> QED
      BY <1>9, <2>2, HoldKeepsInv DEF prepare_proposal
  <1>10. ASSUME NEW c \in Clients, prepare_high_risk_side_effect(c)
         PROVE  Inv'
    <2> DEFINE q == [kind |-> "effect", batch |-> NoBatch, high |-> TRUE,
                     revision |-> current.id, product |-> current.product,
                     parent |-> current.id, base |-> current.product,
                     result |-> current.product]
    <2>1. q \in Proposal
      BY <1>1 DEF Proposal, Revision
    <2> QED
      BY <1>10, <2>1, HoldKeepsInv DEF prepare_high_risk_side_effect
  <1>11. ASSUME NEW c \in Clients, NEW b \in Batches,
                prepare_tip_replacement_proposal(c, b)
         PROVE  Inv'
    <2> DEFINE parent == revisions[cursor]
               q == [kind |-> "tip", batch |-> b, high |-> FALSE,
                     revision |-> current.id, product |-> current.product,
                     parent |-> parent.id, base |-> parent.product,
                     result |-> Edit(b, parent.product)]
    <2>1. cursor > 0 /\ Accepted(b, parent.product) /\ Hold(c, q)
      BY <1>11 DEF prepare_tip_replacement_proposal
    <2>2. parent \in Revision
      BY <1>1, <2>1
    <2>3. Edit(b, parent.product) \in Products
      BY <2>1, ProductAssumption DEF Accepted
    <2> HIDE DEF parent
    <2>4. q \in Proposal
      BY <1>1, <2>2, <2>3 DEF Proposal, Revision
    <2> QED
      BY <2>1, <2>4, HoldKeepsInv
  <1>12. ASSUME NEW c \in Held, NEW s \in Programs \cup {NoProgram},
                commit_verified_proposal(proposals[c], s)
         PROVE  Inv'
    <2>1. proposals[c] \in Proposal /\ proposals[c].kind = "edit"
      BY <1>12 DEF Inv, TypeOK, Held, commit_verified_proposal
    <2>2. proposals[c].batch \in Batches
      BY <2>1 DEF Proposal
    <2> QED
      BY <1>12, <2>2, ApplyBatchKeepsInv
         DEF commit_verified_proposal, verify_proposal_candidate
  <1>13. ASSUME NEW c \in Held, commit_tip_replacement_proposal(proposals[c])
         PROVE  Inv'
    BY <1>13, TipKeepsInv
  <1>14. ASSUME NEW e \in 1..MaxPolicyEpoch, configure_human_confirmation_policy(e)
         PROVE  Inv'
    <2>1. /\ e > policyEpoch /\ policyEpoch' = e /\ consumed' = {}
          /\ UNCHANGED <<revisions, cursor, nextRevisionId, mutationEpoch, registry,
                         proposals, observed, grants, replayed>>
      BY <1>14 DEF configure_human_confirmation_policy
    <2>2. TypeOK'
      BY <2>1, BoundAssumption DEF Inv, TypeOK
    <2>3. HistoryOK(store)'
      BY <2>1 DEF Inv, HistoryOK, store
    <2>4. ApprovalsOK(store)'
      <3>1. \A t \in grants : t.epoch \in Nat
        BY DEF Inv, TypeOK, Token
      <3> QED
        BY <2>1, <3>1, BoundAssumption DEF Inv, TypeOK, ApprovalsOK, store
    <2>5. ReadersOK'
      BY <2>1 DEF Inv, ReadersOK, EpochIsVersion, Informed, current
    <2> QED
      BY <2>2, <2>3, <2>4, <2>5 DEF Inv
  <1>15. ASSUME NEW c \in Held, NEW e \in 1..MaxPolicyEpoch,
                commit_high_risk_proposal(proposals[c],
                                          [proposal |-> proposals[c], epoch |-> e])
         PROVE  Inv'
    BY <1>15, HighRiskKeepsInv
  <1>16. ASSUME NEW c \in Held, NEW e \in 1..MaxPolicyEpoch,
                authorize_high_risk_side_effect(proposals[c],
                                          [proposal |-> proposals[c], epoch |-> e])
         PROVE  Inv'
    <2> DEFINE token == [proposal |-> proposals[c], epoch |-> e]
    <2>1. /\ token.epoch = policyEpoch /\ token \notin consumed
          /\ consumed' = consumed \cup {token}
          /\ grants' = grants \cup {token}
          /\ replayed' = (replayed \/ token \in grants)
          /\ UNCHANGED <<revisions, cursor, nextRevisionId, mutationEpoch, registry,
                         policyEpoch, proposals, observed>>
      BY <1>16 DEF authorize_high_risk_side_effect, ApprovalStands
    <2>2. token \in Token
      BY BoundAssumption DEF Inv, TypeOK, Held, Token
    <2>3. ~replayed
          /\ \A g \in grants : g.epoch <= policyEpoch
                               /\ (g.epoch = policyEpoch => g \in consumed)
      BY DEF Inv, ApprovalsOK, store
    <2> HIDE DEF token
    <2>4. token \notin grants
      BY <2>1, <2>3
    <2>5. replayed' = FALSE
      BY <2>1, <2>3, <2>4
    <2>6. TypeOK'
      BY <2>1, <2>2, <2>5 DEF Inv, TypeOK
    <2>7. HistoryOK(store)'
      BY <2>1 DEF Inv, HistoryOK, store
    <2>8. \A g \in grants' : g.epoch <= policyEpoch
                             /\ (g.epoch = policyEpoch => g \in consumed')
      BY <2>1, <2>3 DEF Inv, TypeOK
    <2>9. ApprovalsOK(store)'
      BY <2>1, <2>5, <2>8 DEF ApprovalsOK, store
    <2>10. ReadersOK'
      BY <2>1 DEF Inv, ReadersOK, EpochIsVersion, Informed, current
    <2> QED
      BY <2>6, <2>7, <2>9, <2>10 DEF Inv
  <1>17. ASSUME NEW r \in Readers, observe(r)
         PROVE  Inv'
    <2> DEFINE o == [epoch |-> mutationEpoch, revision |-> current.id,
                     product |-> current.product, program |-> current.program,
                     checkpoint |-> current.checkpoint]
    <2>1. /\ observed' = [observed EXCEPT ![r] = o]
          /\ UNCHANGED <<revisions, cursor, nextRevisionId, mutationEpoch, registry,
                         policyEpoch, consumed, proposals, grants, replayed>>
      BY <1>17 DEF observe
    <2>2. /\ o \in Observation
          /\ o.epoch = mutationEpoch /\ o.revision = current.id
          /\ o.product = current.product /\ o.program = current.program
          /\ o.checkpoint = current.checkpoint
          /\ mutationEpoch \in Nat
      BY <1>1 DEF Inv, TypeOK, Observation, Revision
    <2> HIDE DEF o
    <2>3. observed \in [Readers -> Observation \cup {NoObservation}]
      BY DEF Inv, TypeOK
    <2>4. TypeOK'
      BY <2>1, <2>2, <2>3 DEF Inv, TypeOK
    <2>5. HistoryOK(store)' /\ ApprovalsOK(store)'
      BY <2>1 DEF Inv, HistoryOK, ApprovalsOK, store
    <2>6. current' = current
      BY <2>1 DEF current
    <2>7. \A q \in Informed' : observed'[q] = o \/ (q \in Informed /\ observed'[q] = observed[q])
      BY <2>1, <2>3 DEF Informed
    <2>8. ReadersOK'
      BY <2>1, <2>2, <2>6, <2>7 DEF Inv, ReadersOK, EpochIsVersion
    <2> QED
      BY <2>4, <2>5, <2>8 DEF Inv
  <1>18. ASSUME NEW r \in Informed, register_evaluation(observed[r])
         PROVE  Inv'
    <2> DEFINE e == [revision |-> current.id, product |-> observed[r].product]
    <2>1. /\ observed[r].product = current.product
          /\ registry' = registry \cup {e}
          /\ UNCHANGED <<revisions, cursor, nextRevisionId, mutationEpoch, policyEpoch,
                         consumed, proposals, observed, grants, replayed>>
      BY <1>18 DEF register_evaluation, EnvelopeMatches
    <2>2. e \in Result /\ e.revision = current.id /\ e.product = current.product
      BY <1>1, <2>1 DEF Result, Revision
    <2> HIDE DEF e
    <2>3. TypeOK'
      BY <2>1, <2>2 DEF Inv, TypeOK
    <2>4. \A i \in 1..Len(revisions) : revisions[i].id = current.id => i = cursor + 1
      <3>1. \A i \in 1..Len(revisions) : revisions[i] \in Revision
        BY <1>1
      <3>2. \A i \in 1..Len(revisions) : revisions[i].id \in Nat
        BY <3>1 DEF Revision
      <3> QED
        BY <1>1, <3>2 DEF Inv, HistoryOK, store, current
    <2>5. \A i \in 1..Len(revisions) :
             revisions[i].id = e.revision => revisions[i].product = e.product
      BY <1>1, <2>2, <2>4 DEF current
    <2>6. e.revision < nextRevisionId
      BY <1>1, <2>2 DEF Inv, HistoryOK, store, current
    <2>7. HistoryOK(store)'
      BY <2>1, <2>5, <2>6 DEF Inv, HistoryOK, store
    <2>8. ApprovalsOK(store)' /\ ReadersOK'
      BY <2>1 DEF Inv, ApprovalsOK, store, ReadersOK, EpochIsVersion, Informed, current
    <2> QED
      BY <2>3, <2>7, <2>8 DEF Inv
  <1>19. ASSUME NEW r \in Informed, register_exact_reference_evidence(observed[r])
         PROVE  Inv'
    <2>1. observed[r].product[Face] = current.product[Face]
      BY <1>19 DEF register_exact_reference_evidence
    <2> QED
      BY <1>19, <2>1, EvidenceKeepsInv DEF register_exact_reference_evidence
  <1>20. ASSUME lose_exact_reference
         PROVE  Inv'
    BY <1>20, EvidenceKeepsInv DEF lose_exact_reference
  <1>21. CASE UNCHANGED vars
    <2>1. TypeOK'
      BY <1>21 DEF Inv, TypeOK, vars
    <2>2. HistoryOK(store)' /\ ApprovalsOK(store)'
      BY <1>21 DEF Inv, HistoryOK, ApprovalsOK, store, vars
    <2>3. ReadersOK'
      BY <1>21 DEF Inv, ReadersOK, EpochIsVersion, Informed, current, vars
    <2> QED
      BY <2>1, <2>2, <2>3 DEF Inv
  <1> QED
    BY <1>2, <1>3, <1>4, <1>5, <1>6, <1>7, <1>8, <1>9, <1>10, <1>11, <1>12, <1>13,
       <1>14, <1>15, <1>16, <1>17, <1>18, <1>19, <1>20, <1>21 DEF Next

\* The inductive invariant holds in every reachable state.
THEOREM Invariance == Spec => []Inv
  BY InitInv, NextInv, PTL DEF Spec

\* The store's fields keep their types and the cursor points at a revision.
THEOREM TypeCorrect == Spec => []TypeOK
  <1>1. Inv => TypeOK
    BY DEF Inv
  <1> QED
    BY <1>1, Invariance, PTL

\* Ids increase along the history, no sequence of edits keeps more revisions than the undo limit
\* allows, and a checkpoint name leads to one revision (push_revision, create_checkpoint,
\* rollback_to_revision).
THEOREM HistoryStaysSound == Spec => []HistorySound
  <1>1. Inv => HistorySound
    BY DEF Inv, HistoryOK, store, HistorySound, IdsIncrease, UndoBounded, CheckpointNamesUnique
  <1> QED
    BY <1>1, Invariance, PTL

\* Registered evaluations belong to the content of the revision they name (register_evaluation),
\* and face evidence kept with a revision was computed from the producer the revision holds.
THEOREM DerivedStaysCurrent == Spec => []DerivedCurrent
  <1>1. Inv => DerivedCurrent
    BY DEF Inv, HistoryOK, store, DerivedCurrent, RegistryMatchesHistory, EvidenceMatchesProducer
  <1> QED
    BY <1>1, Invariance, PTL

\* The mutation epoch is a sound version of the document.
THEOREM EpochSound == Spec => []EpochIsVersion
  <1>1. Inv => EpochIsVersion
    BY DEF Inv, ReadersOK
  <1> QED
    BY <1>1, Invariance, PTL

\* No human approval takes effect twice.
THEOREM ApprovalsSingleUse == Spec => []ApprovedOnce
  <1>1. Inv => ApprovedOnce
    BY DEF Inv, ApprovalsOK, store, ApprovedOnce
  <1> QED
    BY <1>1, Invariance, PTL

-----------------------------------------------------------------------------
(* The store is a linear history *)

\* A step of the abstract history, or none.
HistoryStep == Linear!HNext \/ UNCHANGED Linear!hvars

\* The history h is the first n revisions of revs and one more, the current one.
Appended(h, revs, n, rev) ==
    /\ h.revisions \in Seq(Revision) /\ h.cursor = n
    /\ Len(h.revisions) = n + 1 /\ h.revisions[n + 1] = rev
    /\ \A i \in 1..n : h.revisions[i] = revs[i]

\* Within the undo limit a push drops nothing before it.
LEMMA PushWithin ==
    ASSUME NEW revs \in Seq(Revision), NEW cur \in Nat, cur < Len(revs),
           NEW rev \in Revision, cur + 1 <= UndoRevisions
    PROVE  Appended(push_revision(revs, cur, rev), revs, cur + 1, rev)
  <1> DEFINE k == Excess(cur)
  <1>0. PICK h : h = push_revision(revs, cur, rev)
    OBVIOUS
  <1>6. Pushes(h, revs, cur, rev, k)
    BY <1>0, PushFacts
  <1>1. /\ h.revisions \in Seq(Revision)
        /\ h.cursor = cur + 1 - k
        /\ Len(h.revisions) = h.cursor + 1
        /\ h.revisions[h.cursor + 1] = rev
        /\ \A i \in 1..h.cursor : h.revisions[i] = revs[i + k]
    BY <1>6 DEF Pushes
  <1>2. k = 0
    BY BoundAssumption DEF Excess
  <1> HIDE DEF k
  <1>3. h.cursor = cur + 1 /\ h.cursor + 1 = cur + 2
    BY <1>1, <1>2
  <1>4. \A i \in 1..(cur + 1) : i + k = i
    BY <1>2
  <1>5. Appended(h, revs, cur + 1, rev)
    BY <1>1, <1>3, <1>4 DEF Appended
  <1> QED
    BY <1>0, <1>5

\* A part of a sequence.
LEMMA PartIs ==
    ASSUME NEW S, NEW h \in Seq(S), NEW a \in Nat \ {0}, NEW b \in Nat, a <= b + 1,
           b <= Len(h)
    PROVE  /\ SubSeq(h, a, b) \in Seq(S)
           /\ Len(SubSeq(h, a, b)) = b - a + 1
           /\ \A i \in 1..(b - a + 1) : SubSeq(h, a, b)[i] = h[a + i - 1]
  <1>1. \A i \in a..b : h[i] \in S
    OBVIOUS
  <1>2. /\ SubSeq(h, a, b) \in Seq(S)
        /\ Len(SubSeq(h, a, b)) = IF a <= b THEN b - a + 1 ELSE 0
        /\ \A i \in 1..(b - a + 1) : SubSeq(h, a, b)[i] = h[a + i - 1]
    BY <1>1, SubSeqProperties
  <1> QED
    BY <1>2

\* The past and the future of the store's history.
LEMMA Sides ==
    ASSUME TypeOK
    PROVE  /\ SubSeq(revisions, 1, cursor) \in Seq(Revision)
           /\ Len(SubSeq(revisions, 1, cursor)) = cursor
           /\ \A i \in 1..cursor : SubSeq(revisions, 1, cursor)[i] = revisions[i]
           /\ SubSeq(revisions, cursor + 2, Len(revisions)) \in Seq(Revision)
           /\ Len(SubSeq(revisions, cursor + 2, Len(revisions))) = Len(revisions) - cursor - 1
           /\ \A i \in 1..(Len(revisions) - cursor - 1) :
                 SubSeq(revisions, cursor + 2, Len(revisions))[i] = revisions[i + cursor + 1]
           /\ current \in Revision
  BY DEF TypeOK, current

\* Every identifier in view is below the next one, so a pushed revision is new to a user.
LEMMA NextIsFresh ==
    ASSUME Inv, current'.id = nextRevisionId
    PROVE  Linear!Fresh
  <1>1. \A i \in 1..Len(revisions) : revisions[i].id < nextRevisionId
    BY DEF Inv, HistoryOK, store
  <1>2. \A i \in 1..Len(revisions) : revisions[i].id \in Nat
    BY CurrentOK DEF Revision
  <1>3. nextRevisionId \in Nat
    BY DEF Inv, TypeOK
  <1>4. \A id \in Linear!Ids : id \in Nat /\ id < nextRevisionId
    <2> SUFFICES ASSUME NEW id \in Linear!Ids PROVE \E i \in 1..Len(revisions) : revisions[i].id = id
      BY <1>1, <1>2
    <2> DEFINE past == SubSeq(revisions, 1, cursor)
               future == SubSeq(revisions, cursor + 2, Len(revisions))
    <2>1. /\ Len(past) = cursor /\ past \in Seq(Revision)
          /\ \A i \in 1..cursor : past[i] = revisions[i]
          /\ future \in Seq(Revision) /\ Len(future) = Len(revisions) - cursor - 1
          /\ \A i \in 1..(Len(revisions) - cursor - 1) : future[i] = revisions[i + cursor + 1]
      BY Sides DEF Inv
    <2>2. \/ \E i \in DOMAIN past : id = past[i].id
          \/ id = current.id
          \/ \E i \in DOMAIN future : id = future[i].id
      BY DEF Linear!Ids
    <2> HIDE DEF past, future
    <2>3. cursor \in Nat /\ Len(revisions) \in Nat /\ cursor < Len(revisions)
      BY DEF Inv, TypeOK
    <2>4. CASE \E i \in DOMAIN past : id = past[i].id
      <3>1. PICK i \in 1..cursor : id = revisions[i].id
        BY <2>1, <2>4
      <3>2. i \in 1..Len(revisions)
        BY <2>3
      <3> QED BY <3>1, <3>2
    <2>5. CASE id = current.id
      BY <2>3, <2>5 DEF current
    <2>6. CASE \E i \in DOMAIN future : id = future[i].id
      <3>1. PICK i \in 1..(Len(revisions) - cursor - 1) : id = revisions[i + cursor + 1].id
        BY <2>1, <2>6
      <3>2. i + cursor + 1 \in 1..Len(revisions)
        BY <2>3
      <3> QED BY <3>1, <3>2
    <2> QED
      BY <2>2, <2>4, <2>5, <2>6
  <1> QED
    BY <1>3, <1>4 DEF Linear!Fresh

\* A push gives up the future and what is past the undo limit: a new edit of the history.
LEMMA PushIsNew ==
    ASSUME Inv, NEW rev, Pushable(rev),
           revisions' = push_revision(revisions, cursor, rev).revisions,
           cursor' = push_revision(revisions, cursor, rev).cursor
    PROVE  Linear!New
  <1> DEFINE k == Excess(cursor)
             past == SubSeq(revisions, 1, cursor)
             longer == Append(past, current)
  <1>1. revisions \in Seq(Revision) /\ cursor \in Nat /\ cursor < Len(revisions)
    BY DEF Inv, TypeOK
  <1>2. /\ revisions' \in Seq(Revision) /\ cursor' \in Nat /\ cursor' = cursor + 1 - k
        /\ k \in Nat /\ k <= cursor + 1 /\ Len(revisions') = cursor' + 1
        /\ revisions'[cursor' + 1] = rev
        /\ \A i \in 1..cursor' : revisions'[i] = revisions[i + k]
    <2>1. rev \in Revision
      BY DEF Pushable
    <2>2. PICK h : h = push_revision(revisions, cursor, rev)
      OBVIOUS
    <2>3. Pushes(h, revisions, cursor, rev, k)
      BY <1>1, <2>1, <2>2, PushFacts
    <2> HIDE DEF k
    <2>4. revisions' = h.revisions /\ cursor' = h.cursor
      BY <2>2
    <2> QED
      BY <2>3, <2>4 DEF Pushes
  <1>3. k = IF cursor + 1 > UndoRevisions THEN cursor + 1 - UndoRevisions ELSE 0
    BY DEF Excess
  <1>4. /\ past \in Seq(Revision) /\ Len(past) = cursor
        /\ \A i \in 1..cursor : past[i] = revisions[i]
        /\ current \in Revision /\ current = revisions[cursor + 1]
    BY Sides DEF Inv, current
  <1> HIDE DEF k, past
  <1>5. /\ longer \in Seq(Revision) /\ Len(longer) = cursor + 1
        /\ \A i \in 1..(cursor + 1) : longer[i] = revisions[i]
    <2>1. /\ longer \in Seq(Revision) /\ Len(longer) = Len(past) + 1
          /\ \A i \in 1..Len(past) : longer[i] = past[i]
          /\ longer[Len(past) + 1] = current
      BY <1>4, AppendProperties
    <2> HIDE DEF longer
    <2>2. ASSUME NEW i \in 1..(cursor + 1) PROVE longer[i] = revisions[i]
      <3>1. CASE i = cursor + 1
        BY <1>4, <2>1, <3>1
      <3>2. CASE i # cursor + 1
        BY <1>1, <1>4, <2>1, <3>2
      <3> QED
        BY <3>1, <3>2
    <2> QED
      BY <1>4, <2>1, <2>2
  <1>6. /\ SubSeq(revisions', 1, cursor') \in Seq(Revision)
        /\ Len(SubSeq(revisions', 1, cursor')) = cursor'
        /\ \A i \in 1..cursor' : SubSeq(revisions', 1, cursor')[i] = revisions'[i]
    BY <1>2
  <1> HIDE DEF longer
  <1>7. SubSeq(revisions', 1, cursor') = Linear!Recent(longer)
    <2>1. CASE cursor + 1 > UndoRevisions
      <3>1. k = cursor + 1 - UndoRevisions /\ cursor' = UndoRevisions
        BY <1>1, <1>2, <1>3, <2>1, BoundAssumption
      <3>2. Linear!Recent(longer) = SubSeq(longer, k + 1, cursor + 1)
        <4>1. PICK a, b : a = Len(longer) - UndoRevisions + 1 /\ b = Len(longer)
          OBVIOUS
        <4>2. b > UndoRevisions
          BY <1>5, <2>1, <4>1
        <4>3. Linear!Recent(longer) = SubSeq(longer, a, b)
          BY <4>1, <4>2, Zenon DEF Linear!Recent
        <4>4. a = k + 1 /\ b = cursor + 1
          BY <1>1, <1>5, <3>1, <4>1, BoundAssumption
        <4> QED
          BY <4>3, <4>4, Zenon
      <3>3. /\ SubSeq(longer, k + 1, cursor + 1) \in Seq(Revision)
            /\ Len(SubSeq(longer, k + 1, cursor + 1)) = cursor'
            /\ \A i \in 1..cursor' : SubSeq(longer, k + 1, cursor + 1)[i] = longer[i + k]
        <4>1. longer \in Seq(Revision) /\ Len(longer) = cursor + 1
          BY <1>5
        <4>2. k + 1 \in Nat \ {0} /\ cursor + 1 \in Nat /\ k + 1 <= cursor + 2
          BY <1>1, <1>2
        <4>3. (cursor + 1) - (k + 1) + 1 = cursor' /\ cursor + 1 <= Len(longer)
          BY <1>1, <1>2, <4>1
        <4>4. PICK a \in Nat \ {0}, b \in Nat : a = k + 1 /\ b = cursor + 1
          BY <4>2
        <4>5. a <= b + 1 /\ b <= Len(longer) /\ b - a + 1 = cursor'
          BY <1>1, <1>2, <4>3, <4>4
        <4>6. PICK part : part = SubSeq(longer, a, b)
          OBVIOUS
        <4>7. /\ part \in Seq(Revision) /\ Len(part) = b - a + 1
              /\ \A i \in 1..(b - a + 1) : part[i] = longer[a + i - 1]
          BY <4>1, <4>5, <4>6, PartIs
        <4>8. \A i \in 1..cursor' : a + i - 1 = i + k
          BY <1>2, <4>4
        <4>9. /\ part \in Seq(Revision) /\ Len(part) = cursor'
              /\ \A i \in 1..cursor' : part[i] = longer[i + k]
          BY <4>5, <4>7, <4>8
        <4> QED
          BY <4>4, <4>6, <4>9, Zenon
      <3>4. \A i \in 1..cursor' :
               SubSeq(revisions', 1, cursor')[i] = SubSeq(longer, k + 1, cursor + 1)[i]
        <4>1. \A i \in 1..cursor' : i + k \in 1..(cursor + 1)
          BY <1>1, <1>2
        <4> QED BY <1>2, <1>5, <1>6, <3>3, <4>1, ZenonT(30)
      <3> QED BY <1>6, <3>2, <3>3, <3>4, SeqEqual
    <2>2. CASE ~(cursor + 1 > UndoRevisions)
      <3>1. k = 0 /\ cursor' = cursor + 1
        BY <1>1, <1>2, <1>3, <2>2
      <3>2. Linear!Recent(longer) = longer
        BY <1>1, <1>5, <2>2 DEF Linear!Recent
      <3>3. \A i \in 1..cursor' : SubSeq(revisions', 1, cursor')[i] = longer[i]
        BY <1>1, <1>2, <1>5, <1>6, <3>1, SMTT(20)
      <3> QED BY <1>5, <1>6, <3>1, <3>2, <3>3, SeqEqual
    <2> QED BY <2>1, <2>2
  <1>8. SubSeq(revisions', cursor' + 2, Len(revisions')) = <<>>
    BY <1>2
  <1>9. current' = rev
    BY <1>2 DEF current
  <1>10. Linear!Fresh
    BY <1>9, NextIsFresh DEF Pushable
  <1> QED
    BY <1>7, <1>8, <1>10 DEF Linear!New, longer, past

\* What a transaction does to the history is its outcome, or nothing.
LEMMA TransactionMaps ==
    ASSUME NEW s, try_canonical_transaction(s),
           revisions' = s.revisions /\ cursor' = s.cursor => HistoryStep
    PROVE  HistoryStep
  <1>1. CASE Install(s)
    BY <1>1 DEF Install
  <1>2. CASE Install(store)
    <2>1. revisions' = revisions /\ cursor' = cursor
      BY <1>2 DEF Install, store
    <2> QED BY <2>1 DEF HistoryStep, Linear!hvars, current
  <1> QED
    BY <1>1, <1>2 DEF try_canonical_transaction, RestoredBy

\* A transaction that pushes a revision is an edit of the linear history.
LEMMA PushMaps ==
    ASSUME Inv, NEW rev, Pushable(rev), NEW reg,
           try_canonical_transaction(Pushed(revisions, cursor, rev, reg))
    PROVE  HistoryStep
  <1> DEFINE s == Pushed(revisions, cursor, rev, reg)
  <1>1. /\ s.revisions = push_revision(revisions, cursor, rev).revisions
        /\ s.cursor = push_revision(revisions, cursor, rev).cursor
    BY DEF Pushed
  <1> HIDE DEF s
  <1>2. revisions' = s.revisions /\ cursor' = s.cursor => HistoryStep
    BY <1>1, PushIsNew DEF HistoryStep, Linear!HNext
  <1> QED
    BY <1>2, TransactionMaps DEF s

\* So is a batch, which pushes what it computes from the current product.
LEMMA ApplyBatchMaps ==
    ASSUME Inv, NEW b \in Batches, NEW source \in Programs \cup {NoProgram},
           Accepted(b, current.product), NEW bound,
           bound = IF source = NoProgram THEN Applied(b, current)
                   ELSE [Applied(b, current) EXCEPT !.program = source],
           NEW s, NEW reg,
           s.revisions = Pushed(revisions, cursor, bound, reg).revisions,
           s.cursor = Pushed(revisions, cursor, bound, reg).cursor,
           try_canonical_transaction(s)
    PROVE  HistoryStep /\ Pushable(bound)
  <1>1. Pushable(Applied(b, current))
    BY AppliedOK, CurrentOK
  <1>2. Pushable(bound)
    BY <1>1 DEF Pushable, Revision
  <1>3. revisions' = s.revisions /\ cursor' = s.cursor => HistoryStep
    BY <1>2, PushIsNew DEF HistoryStep, Linear!HNext, Pushed
  <1> QED
    BY <1>2, <1>3, TransactionMaps

\* A correction takes the place of the present: the history is not longer than the limit, so
\* nothing of the past goes.
LEMMA TipMaps ==
    ASSUME Inv, NEW c \in Held, commit_tip_replacement_proposal(proposals[c])
    PROVE  HistoryStep
  <1> DEFINE p == proposals[c]
             revs == SubSeq(revisions, 1, cursor)
             rev == Applied(p.batch, revisions[cursor])
             reg == {r \in registry : r.revision # p.revision}
             s == Pushed(revs, cursor - 1, rev, reg)
  <1>1. /\ cursor > 0 /\ cursor + 1 = Len(revisions) /\ try_canonical_transaction(s)
        /\ rev.id = nextRevisionId
    BY DEF commit_tip_replacement_proposal, verify_tip_replacement_proposal,
           validate_tip_replacement_envelope, Applied
  <1>2. /\ revisions \in Seq(Revision) /\ cursor \in Nat /\ cursor < Len(revisions)
        /\ Len(revisions) <= UndoRevisions + 1
    BY DEF Inv, TypeOK, HistoryOK, store
  <1>3. revs \in Seq(Revision) /\ Len(revs) = cursor
    BY <1>2, Sides DEF Inv
  <1>4. rev \in Revision
    <2>1. /\ p.kind = "tip" /\ p \in Proposal /\ revisions[cursor] \in Revision
          /\ revisions[cursor].evidence \in {NoEvidence, revisions[cursor].product[Face]}
          /\ Accepted(p.batch, revisions[cursor].product)
      BY <1>1, <1>2, CurrentOK DEF commit_tip_replacement_proposal, Inv, TypeOK, Held,
         verify_tip_replacement_proposal, validate_tip_replacement_envelope
    <2>2. p.batch \in Batches
      BY <2>1 DEF Proposal
    <2> QED BY <2>1, <2>2, AppliedOK DEF Pushable
  <1> HIDE DEF revs, rev
  <1>5. /\ s.revisions = push_revision(revs, cursor - 1, rev).revisions
        /\ s.cursor = push_revision(revs, cursor - 1, rev).cursor
    BY DEF Pushed
  <1>6. /\ s.revisions \in Seq(Revision) /\ s.cursor = cursor
        /\ Len(s.revisions) = cursor + 1 /\ s.revisions[cursor + 1] = rev
        /\ \A i \in 1..cursor : s.revisions[i] = revs[i]
    <2>1. PICK cur \in Nat : cur = cursor - 1
      BY <1>1, <1>2
    <2>2. cur + 1 <= UndoRevisions /\ cur < Len(revs)
      BY <1>1, <1>2, <1>3, <2>1, BoundAssumption
    <2>3. Appended(push_revision(revs, cur, rev), revs, cur + 1, rev)
      BY <1>3, <1>4, <2>2, PushWithin
    <2>4. PICK h : h = push_revision(revs, cur, rev)
      OBVIOUS
    <2>5. Appended(h, revs, cursor, rev)
      <3>1. cur + 1 = cursor
        BY <1>2, <2>1
      <3> QED
        BY <2>3, <2>4, <3>1
    <2> HIDE DEF s
    <2>6. s.revisions = h.revisions /\ s.cursor = h.cursor
      BY <1>5, <2>1, <2>4, Zenon
    <2> QED BY <2>5, <2>6 DEF Appended
  <1> HIDE DEF s
  <1>7. ASSUME revisions' = s.revisions, cursor' = s.cursor PROVE Linear!Correct
    <2>1. current' = rev
      BY <1>6, <1>7 DEF current
    <2>2. Linear!Fresh
      BY <1>1, <2>1, NextIsFresh
    <2>3. SubSeq(revisions', 1, cursor') = revs
      <3>1. /\ SubSeq(s.revisions, 1, cursor) \in Seq(Revision)
            /\ Len(SubSeq(s.revisions, 1, cursor)) = cursor
            /\ \A i \in 1..cursor : SubSeq(s.revisions, 1, cursor)[i] = s.revisions[i]
        BY <1>2, <1>6
      <3>2. \A i \in 1..cursor : SubSeq(s.revisions, 1, cursor)[i] = revs[i]
        BY <1>6, <3>1
      <3> QED BY <1>3, <1>6, <1>7, <3>1, <3>2, SeqEqual
    <2>4. /\ SubSeq(revisions, cursor + 2, Len(revisions)) = <<>>
          /\ SubSeq(revisions', cursor' + 2, Len(revisions')) = <<>>
      BY <1>1, <1>2, <1>6, <1>7
    <2>5. revs # <<>>
      BY <1>1, <1>2, <1>3
    <2> QED BY <2>2, <2>3, <2>4, <2>5 DEF Linear!Correct, revs
  <1> QED
    BY <1>1, <1>7, TransactionMaps DEF HistoryStep, Linear!HNext, s

\* Undo moves the present to the future, redo moves it to the past.
LEMMA CursorMaps ==
    ASSUME Inv, undo \/ redo
    PROVE  HistoryStep
  <1>1. revisions \in Seq(Revision) /\ cursor \in Nat /\ cursor < Len(revisions)
    BY DEF Inv, TypeOK
  <1>2. CASE undo
    <2>1. cursor > 0 /\ try_canonical_transaction([store EXCEPT !.cursor = cursor - 1])
      BY <1>2 DEF undo
    <2>2. ASSUME revisions' = revisions, cursor' = cursor - 1 PROVE Linear!StepBack
      <3>1. current' = revisions[cursor]
        BY <1>1, <2>1, <2>2 DEF current
      <3> DEFINE past == SubSeq(revisions, 1, cursor)
                 future == SubSeq(revisions, cursor + 2, Len(revisions))
      <3>2. /\ past \in Seq(Revision) /\ Len(past) = cursor
            /\ \A i \in 1..cursor : past[i] = revisions[i]
            /\ current \in Revision /\ current = revisions[cursor + 1]
        BY Sides DEF Inv, current
      <3> HIDE DEF past
      <3>3. SubSeq(revisions, 1, cursor - 1) = SubSeq(past, 1, cursor - 1)
        <4>1. /\ SubSeq(revisions, 1, cursor - 1) \in Seq(Revision)
              /\ SubSeq(past, 1, cursor - 1) \in Seq(Revision)
              /\ Len(SubSeq(revisions, 1, cursor - 1)) = cursor - 1
              /\ Len(SubSeq(past, 1, cursor - 1)) = cursor - 1
              /\ \A i \in 1..(cursor - 1) :
                    /\ SubSeq(revisions, 1, cursor - 1)[i] = revisions[i]
                    /\ SubSeq(past, 1, cursor - 1)[i] = past[i]
          BY <1>1, <2>1, <3>2
        <4>2. \A i \in 1..(cursor - 1) :
                 SubSeq(revisions, 1, cursor - 1)[i] = SubSeq(past, 1, cursor - 1)[i]
          BY <1>1, <3>2, <4>1
        <4> QED BY <4>1, <4>2, SeqEqual
      <3>4. SubSeq(revisions, cursor + 1, Len(revisions)) = <<current>> \o future
        <4>1. /\ SubSeq(revisions, cursor + 1, Len(revisions)) \in Seq(Revision)
              /\ Len(SubSeq(revisions, cursor + 1, Len(revisions))) = Len(revisions) - cursor
              /\ \A i \in 1..(Len(revisions) - cursor) :
                    SubSeq(revisions, cursor + 1, Len(revisions))[i] = revisions[i + cursor]
          BY <1>1
        <4>2. /\ future \in Seq(Revision) /\ Len(future) = Len(revisions) - cursor - 1
              /\ \A i \in 1..(Len(revisions) - cursor - 1) :
                    future[i] = revisions[i + cursor + 1]
          BY Sides DEF Inv
        <4> HIDE DEF future
        <4>3. /\ <<current>> \o future \in Seq(Revision)
              /\ Len(<<current>> \o future) = Len(revisions) - cursor
              /\ (<<current>> \o future)[1] = current
              /\ \A i \in 2..(Len(revisions) - cursor) : (<<current>> \o future)[i] = future[i - 1]
          BY <1>1, <3>2, <4>2
        <4>4. ASSUME NEW i \in 1..(Len(revisions) - cursor)
              PROVE  SubSeq(revisions, cursor + 1, Len(revisions))[i] = (<<current>> \o future)[i]
          <5>1. CASE i = 1
            BY <1>1, <3>2, <4>1, <4>3, <5>1
          <5>2. CASE i # 1
            <6>1. /\ i \in 2..(Len(revisions) - cursor) /\ i - 1 \in 1..(Len(revisions) - cursor - 1)
                  /\ i - 1 + cursor + 1 = i + cursor
              BY <1>1, <5>2
            <6> QED BY <4>1, <4>2, <4>3, <6>1
          <5> QED BY <5>1, <5>2
        <4> QED BY <4>1, <4>3, <4>4, SeqEqual
      <3>5. cursor' + 2 = cursor + 1 /\ past # <<>> /\ past[Len(past)] = revisions[cursor]
        BY <1>1, <2>1, <2>2, <3>2
      <3> QED BY <2>2, <3>1, <3>2, <3>3, <3>4, <3>5 DEF Linear!StepBack, past
    <2>3. HistoryStep
      BY <2>1, <2>2, TransactionMaps DEF HistoryStep, Linear!HNext, store
    <2> QED BY <2>3
  <1>3. CASE redo
    <2>1. cursor + 1 < Len(revisions) /\ try_canonical_transaction([store EXCEPT !.cursor = cursor + 1])
      BY <1>3 DEF redo
    <2>2. ASSUME revisions' = revisions, cursor' = cursor + 1 PROVE Linear!StepForward
      <3> DEFINE past == SubSeq(revisions, 1, cursor)
                 future == SubSeq(revisions, cursor + 2, Len(revisions))
      <3>1. /\ past \in Seq(Revision) /\ Len(past) = cursor
            /\ \A i \in 1..cursor : past[i] = revisions[i]
            /\ future \in Seq(Revision) /\ Len(future) = Len(revisions) - cursor - 1
            /\ \A i \in 1..(Len(revisions) - cursor - 1) : future[i] = revisions[i + cursor + 1]
            /\ current \in Revision /\ current = revisions[cursor + 1]
        BY Sides DEF Inv, current
      <3>2. future # <<>> /\ current' = future[1]
        <4>1. /\ 1 \in 1..(Len(revisions) - cursor - 1) /\ 1 + cursor + 1 = cursor + 2
              /\ cursor + 1 + 1 = cursor + 2
          BY <1>1, <2>1
        <4>2. current' = revisions[cursor + 2]
          BY <2>2, <4>1 DEF current
        <4> HIDE DEF future
        <4> QED BY <3>1, <4>1, <4>2
      <3>3. SubSeq(revisions, 1, cursor + 1) = Append(past, current)
        <4> HIDE DEF past, future
        <4>1. /\ SubSeq(revisions, 1, cursor + 1) \in Seq(Revision)
              /\ Len(SubSeq(revisions, 1, cursor + 1)) = cursor + 1
              /\ \A i \in 1..(cursor + 1) : SubSeq(revisions, 1, cursor + 1)[i] = revisions[i]
          BY <1>1
        <4>2. /\ Append(past, current) \in Seq(Revision) /\ Len(Append(past, current)) = cursor + 1
              /\ \A i \in 1..(cursor + 1) : Append(past, current)[i] = revisions[i]
          BY <1>1, <3>1
        <4> QED BY <4>1, <4>2, SeqEqual
      <3>4. SubSeq(revisions, cursor + 3, Len(revisions)) = Tail(future)
        <4> HIDE DEF past, future
        <4>1. /\ SubSeq(revisions, cursor + 3, Len(revisions)) \in Seq(Revision)
              /\ Len(SubSeq(revisions, cursor + 3, Len(revisions))) = Len(revisions) - cursor - 2
              /\ \A i \in 1..(Len(revisions) - cursor - 2) :
                    SubSeq(revisions, cursor + 3, Len(revisions))[i] = revisions[i + cursor + 2]
          BY <1>1, <2>1, SMTT(20)
        <4>2. /\ Tail(future) \in Seq(Revision) /\ Len(Tail(future)) = Len(revisions) - cursor - 2
              /\ \A i \in 1..(Len(revisions) - cursor - 2) : Tail(future)[i] = future[i + 1]
          BY <1>1, <3>1, <3>2, HeadTailProperties
        <4>3. ASSUME NEW i \in 1..(Len(revisions) - cursor - 2)
              PROVE  SubSeq(revisions, cursor + 3, Len(revisions))[i] = Tail(future)[i]
          <5>1. i + 1 \in 1..(Len(revisions) - cursor - 1) /\ i + 1 + cursor + 1 = i + cursor + 2
            BY <1>1
          <5>2. PICK b : b = Tail(future)
            OBVIOUS
          <5>3. b[i] = future[i + 1]
            BY <4>2, <5>2, Zenon
          <5>4. future[i + 1] = revisions[i + cursor + 2]
            BY <3>1, <5>1
          <5> QED BY <4>1, <5>2, <5>3, <5>4, Zenon
        <4> QED BY <4>1, <4>2, <4>3, SeqEqual
      <3>5. cursor' + 2 = cursor + 3
        BY <1>1, <2>2
      <3> QED BY <2>2, <3>2, <3>3, <3>4, <3>5 DEF Linear!StepForward
    <2> QED
      BY <2>1, <2>2, TransactionMaps DEF HistoryStep, Linear!HNext, store
  <1> QED
    BY <1>2, <1>3

\* A name, evidence or its loss is a note on the present.
LEMMA NoteMaps ==
    ASSUME Inv, NEW rev \in Revision, rev.id = current.id, rev.product = current.product,
           rev.program = current.program,
           revisions' = [revisions EXCEPT ![cursor + 1] = rev], cursor' = cursor
    PROVE  HistoryStep
  <1>1. revisions \in Seq(Revision) /\ cursor \in Nat /\ cursor < Len(revisions)
    BY DEF Inv, TypeOK
  <1>2. DOMAIN revisions = 1..Len(revisions) /\ DOMAIN revisions' = 1..Len(revisions)
        /\ Len(revisions') = Len(revisions) /\ revisions' \in Seq(Revision)
    BY <1>1
  <1>3. revisions'[cursor + 1] = rev
        /\ \A i \in 1..Len(revisions) : i # cursor + 1 => revisions'[i] = revisions[i]
    BY <1>1, <1>2
  <1>4. SubSeq(revisions', 1, cursor) = SubSeq(revisions, 1, cursor)
    BY <1>1, <1>3
  <1>5. SubSeq(revisions', cursor + 2, Len(revisions')) =
           SubSeq(revisions, cursor + 2, Len(revisions))
    <2>1. \A i \in 1..(Len(revisions) - cursor - 1) :
             /\ i + cursor + 1 \in 1..Len(revisions) /\ i + cursor + 1 # cursor + 1
             /\ revisions'[i + cursor + 1] = revisions[i + cursor + 1]
      BY <1>1, <1>3
    <2>2. /\ SubSeq(revisions', cursor + 2, Len(revisions)) \in Seq(Revision)
          /\ Len(SubSeq(revisions', cursor + 2, Len(revisions))) = Len(revisions) - cursor - 1
          /\ \A i \in 1..(Len(revisions) - cursor - 1) :
                SubSeq(revisions', cursor + 2, Len(revisions))[i] = revisions'[i + cursor + 1]
      <3>1. PICK new \in Seq(Revision) : new = revisions'
        BY <1>2
      <3>2. PICK n \in Nat : n = Len(revisions)
        BY <1>1
      <3>3. Len(new) = n /\ cursor \in Nat /\ cursor < n
        BY <1>1, <1>2, <3>1, <3>2
      <3>4. /\ SubSeq(new, cursor + 2, n) \in Seq(Revision)
            /\ Len(SubSeq(new, cursor + 2, n)) = n - cursor - 1
            /\ \A i \in 1..(n - cursor - 1) : SubSeq(new, cursor + 2, n)[i] = new[i + cursor + 1]
        BY <3>3
      <3> QED BY <3>1, <3>2, <3>4
    <2>3. /\ SubSeq(revisions, cursor + 2, Len(revisions)) \in Seq(Revision)
          /\ Len(SubSeq(revisions, cursor + 2, Len(revisions))) = Len(revisions) - cursor - 1
          /\ \A i \in 1..(Len(revisions) - cursor - 1) :
                SubSeq(revisions, cursor + 2, Len(revisions))[i] = revisions[i + cursor + 1]
      BY Sides, Zenon DEF Inv
    <2>4. PICK a, b : /\ a = SubSeq(revisions', cursor + 2, Len(revisions))
                      /\ b = SubSeq(revisions, cursor + 2, Len(revisions))
      OBVIOUS
    <2>5. PICK n : n = Len(revisions) - cursor - 1
      OBVIOUS
    <2>6. /\ a \in Seq(Revision) /\ b \in Seq(Revision) /\ Len(a) = n /\ Len(b) = n
          /\ \A i \in 1..n : /\ a[i] = revisions'[i + cursor + 1]
                             /\ b[i] = revisions[i + cursor + 1]
      BY <2>2, <2>3, <2>4, <2>5, Zenon
    <2>7. \A i \in 1..n : revisions'[i + cursor + 1] = revisions[i + cursor + 1]
      BY <2>1, <2>5, Zenon
    <2>8. a = b
      BY <2>6, <2>7, SeqEqual
    <2> QED BY <1>2, <2>4, <2>8, Zenon
  <1>6. current' = rev
    BY <1>3 DEF current
  <1> QED
    BY <1>4, <1>5, <1>6 DEF HistoryStep, Linear!HNext, Linear!Annotate

\* Every step of the store is a step of a linear history, or none.
LEMMA StepMaps ==
    ASSUME Inv, Next
    PROVE  HistoryStep
  <1>1. /\ cursor + 1 \in 1..Len(revisions) /\ current = revisions[cursor + 1]
        /\ current \in Revision /\ current.evidence \in {NoEvidence, current.product[Face]}
        /\ revisions \in Seq(Revision) /\ cursor \in Nat /\ nextRevisionId \in Nat
    BY CurrentOK DEF Inv, TypeOK
  <1>2. ASSUME UNCHANGED <<revisions, cursor>> PROVE HistoryStep
    BY <1>2 DEF HistoryStep, Linear!hvars, current
  <1>3. ASSUME NEW b \in Batches, NEW source \in Programs \cup {NoProgram},
               apply_batch(b, source)
        PROVE  HistoryStep
    BY <1>3, ApplyBatchMaps DEF apply_batch
  <1>4. ASSUME NEW source \in Programs, replace_rule_program_source(source)
        PROVE  HistoryStep
    <2> DEFINE rev == [current EXCEPT !.id = nextRevisionId, !.program = source,
                                      !.checkpoint = NoName, !.origin = "principal"]
    <2>1. Pushable(rev)
      BY <1>1 DEF Pushable, Revision
    <2> QED BY <1>4, <2>1, PushMaps DEF replace_rule_program_source
  <1>5. ASSUME NEW q \in ValidProducts, NEW e \in Values \cup {NoEvidence},
               NEW source \in Programs \cup {NoProgram}, publish_replacement(q, e, source)
        PROVE  HistoryStep
    <2> DEFINE rev == [id |-> nextRevisionId, product |-> q, evidence |-> e,
                       program |-> source, checkpoint |-> NoName, origin |-> "principal"]
    <2>0. e \in {NoEvidence, q[Face]}
          /\ try_canonical_transaction(Pushed(revisions, cursor, rev, {}))
      BY <1>5 DEF publish_replacement
    <2>1. Pushable(rev)
      BY <1>1, <2>0, ProductAssumption DEF Pushable, Revision
    <2> HIDE DEF rev
    <2> QED BY <2>0, <2>1, PushMaps
  <1>6. ASSUME NEW i \in DOMAIN revisions, rollback_to_revision(i)
        PROVE  HistoryStep
    <2> DEFINE rev == [revisions[i] EXCEPT !.id = nextRevisionId, !.checkpoint = NoName,
                                           !.origin = "rollback"]
    <2>1. /\ revisions[i] \in Revision
          /\ revisions[i].evidence \in {NoEvidence, revisions[i].product[Face]}
      BY <1>1, CurrentOK
    <2>2. Pushable(rev)
      BY <1>1, <2>1 DEF Pushable, Revision
    <2>3. try_canonical_transaction(Pushed(revisions, cursor, rev, {}))
      BY <1>6 DEF rollback_to_revision
    <2> HIDE DEF rev
    <2> QED BY <2>2, <2>3, PushMaps
  <1>7. ASSUME NEW name \in Names, create_checkpoint(name)
        PROVE  HistoryStep
    <2>1. PICK rev : rev = [revisions[cursor + 1] EXCEPT !.checkpoint = name]
      OBVIOUS
    <2>2. /\ rev \in Revision /\ rev.id = current.id /\ rev.product = current.product
          /\ rev.program = current.program
      BY <1>1, <2>1 DEF Revision
    <2>3. [revisions EXCEPT ![cursor + 1].checkpoint = name] =
             [revisions EXCEPT ![cursor + 1] = rev]
      BY <2>1
    <2>4. try_canonical_transaction([store EXCEPT !.revisions =
                                        [revisions EXCEPT ![cursor + 1] = rev]])
      BY <1>7, <2>3 DEF create_checkpoint
    <2>5. revisions' = [revisions EXCEPT ![cursor + 1] = rev] /\ cursor' = cursor => HistoryStep
      BY <2>2, NoteMaps
    <2> QED BY <2>4, <2>5, TransactionMaps DEF store
  <1>8. ASSUME undo \/ redo PROVE HistoryStep
    BY <1>8, CursorMaps
  <1>9. ASSUME discard_history_before_current PROVE HistoryStep
    <2>1. revisions' = <<current>> /\ cursor' = 0
      BY <1>9 DEF discard_history_before_current
    <2>2. /\ SubSeq(revisions', 1, cursor') = <<>>
          /\ SubSeq(revisions', cursor' + 2, Len(revisions')) = <<>>
          /\ current' = current
      BY <1>1, <2>1 DEF current
    <2> QED BY <2>2 DEF HistoryStep, Linear!HNext, Linear!Forget
  <1>10. ASSUME NEW c \in Held, NEW source \in Programs \cup {NoProgram},
                commit_verified_proposal(proposals[c], source)
         PROVE  HistoryStep
    <2>1. proposals[c].batch \in Batches
      BY <1>10 DEF Inv, TypeOK, Held, commit_verified_proposal, Proposal
    <2> QED BY <1>10, <2>1, ApplyBatchMaps DEF commit_verified_proposal, verify_proposal_candidate
  <1>11. ASSUME NEW c \in Held, commit_tip_replacement_proposal(proposals[c])
         PROVE  HistoryStep
    BY <1>11, TipMaps
  <1>12. ASSUME NEW c \in Held, NEW e \in 1..MaxPolicyEpoch,
                commit_high_risk_proposal(proposals[c], [proposal |-> proposals[c], epoch |-> e])
         PROVE  HistoryStep
    <2>1. PICK token : token = [proposal |-> proposals[c], epoch |-> e]
      OBVIOUS
    <2>2. proposals[c].batch \in Batches /\ Accepted(proposals[c].batch, current.product)
      BY <1>12 DEF Inv, TypeOK, Held, commit_high_risk_proposal, verify_proposal_candidate, Proposal
    <2>3. PICK bound : bound = Applied(proposals[c].batch, current)
      OBVIOUS
    <2>4. PICK s : /\ s = [Committed(proposals[c]) EXCEPT !.consumed = consumed \cup {token},
                              !.grants = grants \cup {token},
                              !.replayed = replayed \/ token \in grants]
                   /\ try_canonical_transaction(s)
      BY <1>12, <2>1 DEF commit_high_risk_proposal
    <2>5. /\ s.revisions = Pushed(revisions, cursor, bound, registry).revisions
          /\ s.cursor = Pushed(revisions, cursor, bound, registry).cursor
      BY <2>3, <2>4 DEF Committed, Pushed
    <2>6. bound = IF NoProgram = NoProgram THEN Applied(proposals[c].batch, current)
                  ELSE [Applied(proposals[c].batch, current) EXCEPT !.program = NoProgram]
      BY <2>3
    <2> QED BY <2>2, <2>4, <2>5, <2>6, ApplyBatchMaps, ZenonT(30)
  <1>13. ASSUME NEW r \in Informed, register_exact_reference_evidence(observed[r])
         PROVE  HistoryStep
    <2>1. PICK rev : rev = [revisions[cursor + 1] EXCEPT !.evidence = observed[r].product[Face]]
      OBVIOUS
    <2>2. observed[r].product[Face] \in Values
      BY <1>1, <1>13, ProductAssumption
      DEF register_exact_reference_evidence, Revision, Products
    <2>3. /\ rev \in Revision /\ rev.id = current.id /\ rev.product = current.product
          /\ rev.program = current.program
      BY <1>1, <2>1, <2>2 DEF Revision
    <2>4. revisions' = [revisions EXCEPT ![cursor + 1] = rev] /\ cursor' = cursor
      BY <1>13, <2>1 DEF register_exact_reference_evidence
    <2> QED BY <2>3, <2>4, NoteMaps
  <1>14. ASSUME lose_exact_reference PROVE HistoryStep
    <2>1. PICK rev : rev = [revisions[cursor + 1] EXCEPT !.evidence = NoEvidence]
      OBVIOUS
    <2>2. /\ rev \in Revision /\ rev.id = current.id /\ rev.product = current.product
          /\ rev.program = current.program
      BY <1>1, <2>1 DEF Revision
    <2>3. revisions' = [revisions EXCEPT ![cursor + 1] = rev] /\ cursor' = cursor
      BY <1>14, <2>1 DEF lose_exact_reference
    <2> QED BY <2>2, <2>3, NoteMaps
  <1>15. ASSUME \/ \E c \in Clients, b \in Batches, high \in BOOLEAN : prepare_proposal(c, b, high)
                \/ \E c \in Clients : prepare_high_risk_side_effect(c)
                \/ \E c \in Clients, b \in Batches : prepare_tip_replacement_proposal(c, b)
                \/ \E e \in 1..MaxPolicyEpoch : configure_human_confirmation_policy(e)
                \/ \E c \in Held, e \in 1..MaxPolicyEpoch :
                      authorize_high_risk_side_effect(proposals[c],
                                                      [proposal |-> proposals[c], epoch |-> e])
                \/ \E r \in Readers : observe(r)
                \/ \E r \in Informed : register_evaluation(observed[r])
         PROVE  HistoryStep
    <2>1. UNCHANGED <<revisions, cursor>>
      BY <1>15 DEF prepare_proposal, prepare_high_risk_side_effect,
         prepare_tip_replacement_proposal, Hold, configure_human_confirmation_policy,
         authorize_high_risk_side_effect, observe, register_evaluation
    <2> QED BY <1>2, <2>1
  <1> QED
    BY <1>3, <1>4, <1>5, <1>6, <1>7, <1>8, <1>9, <1>10, <1>11, <1>12, <1>13, <1>14, <1>15
    DEF Next

\* The store implements the bounded linear history a user sees, for every limit and any number
\* of clients, readers and programs: each operation is a new edit, a correction, a step back or
\* forward, a note on the present or the loss of the past and the future, and a transaction
\* whose finalizer fails is none (push_revision, try_canonical_transaction).
THEOREM StoreIsLinear == Spec => ImplementsLinearHistory
  <1>1. Init => Linear!HInit
    <2> SUFFICES ASSUME Init PROVE Linear!HInit
      OBVIOUS
    <2>1. cursor = 0 /\ Len(revisions) = 1
      BY DEF Init
    <2>2. SubSeq(revisions, 1, 0) = <<>> /\ SubSeq(revisions, 2, 1) = <<>>
      BY SubSeqProperties
    <2> QED BY <2>1, <2>2 DEF Linear!HInit
  <1>2. Inv /\ [Next]_vars => [Linear!HNext]_(Linear!hvars)
    <2> SUFFICES ASSUME Inv, [Next]_vars PROVE Linear!HNext \/ UNCHANGED Linear!hvars
      OBVIOUS
    <2>1. CASE Next
      BY <2>1, StepMaps DEF HistoryStep
    <2>2. CASE UNCHANGED vars
      BY <2>2 DEF vars, Linear!hvars, current
    <2> QED BY <2>1, <2>2
  <1> QED
    BY <1>1, <1>2, Invariance, PTL DEF Spec, ImplementsLinearHistory, Linear!HSpec

-----------------------------------------------------------------------------
(* What is committed is what was reviewed *)

\* A proposal that is not a correction was prepared on the product it names.
PreparedOnCurrent ==
    \A c \in Held : proposals[c].kind # "tip" => proposals[c].base = proposals[c].product

\* A proposal is prepared on the product it names and held unchanged.
LEMMA PreparedKept ==
    ASSUME Inv, PreparedOnCurrent, [Next]_vars
    PROVE  PreparedOnCurrent'
  <1>1. proposals \in [Clients -> Proposal \cup {NoProposal}]
    BY DEF Inv, TypeOK
  <1>2. ASSUME UNCHANGED proposals PROVE PreparedOnCurrent'
    BY <1>2 DEF PreparedOnCurrent, Held
  <1>3. ASSUME NEW c \in Clients, NEW p, Hold(c, p), p.kind # "tip" => p.base = p.product
        PROVE  PreparedOnCurrent'
    <2>1. proposals' = [proposals EXCEPT ![c] = p]
      BY <1>3 DEF Hold
    <2>2. ASSUME NEW d \in Clients, proposals'[d] # NoProposal, proposals'[d].kind # "tip"
          PROVE  proposals'[d].base = proposals'[d].product
      <3>1. CASE d = c
        BY <1>1, <1>3, <2>1, <2>2, <3>1
      <3>2. CASE d # c
        BY <1>1, <2>1, <2>2, <3>2 DEF PreparedOnCurrent, Held
      <3> QED BY <3>1, <3>2
    <2> QED BY <2>2 DEF PreparedOnCurrent, Held
  <1>4. ASSUME NEW c \in Clients, NEW b \in Batches, NEW high \in BOOLEAN,
               prepare_proposal(c, b, high)
        PROVE  PreparedOnCurrent'
    BY <1>3, <1>4 DEF prepare_proposal
  <1>5. ASSUME NEW c \in Clients, prepare_high_risk_side_effect(c) PROVE PreparedOnCurrent'
    BY <1>3, <1>5 DEF prepare_high_risk_side_effect
  <1>6. ASSUME NEW c \in Clients, NEW b \in Batches, prepare_tip_replacement_proposal(c, b)
        PROVE  PreparedOnCurrent'
    BY <1>3, <1>6 DEF prepare_tip_replacement_proposal
  <1>7. \/ UNCHANGED proposals
        \/ \E c \in Clients, b \in Batches, high \in BOOLEAN : prepare_proposal(c, b, high)
        \/ \E c \in Clients : prepare_high_risk_side_effect(c)
        \/ \E c \in Clients, b \in Batches : prepare_tip_replacement_proposal(c, b)
    BY DEF Next, vars, try_canonical_transaction, apply_batch, replace_rule_program_source,
       publish_replacement, rollback_to_revision, create_checkpoint, undo, redo,
       discard_history_before_current, commit_verified_proposal,
       commit_tip_replacement_proposal, configure_human_confirmation_policy,
       commit_high_risk_proposal, authorize_high_risk_side_effect, observe,
       register_evaluation, register_exact_reference_evidence, lose_exact_reference
  <1> QED
    BY <1>2, <1>4, <1>5, <1>6, <1>7

\* The revision a commit leaves is the one it pushed.
LEMMA CommitLeaves ==
    ASSUME Inv, NEW p \in Proposal, p.batch \in Batches, NEW source \in Programs \cup {NoProgram},
           verify_proposal_candidate(p), p.base = p.product,
           NEW bound,
           bound = IF source = NoProgram THEN Applied(p.batch, current)
                   ELSE [Applied(p.batch, current) EXCEPT !.program = source],
           NEW s, NEW reg,
           s.revisions = Pushed(revisions, cursor, bound, reg).revisions,
           s.cursor = Pushed(revisions, cursor, bound, reg).cursor,
           try_canonical_transaction(s), nextRevisionId' > nextRevisionId
    PROVE  /\ current'.product[p.batch.target] = p.result[p.batch.target]
           /\ \A i \in p.batch.deps : current.product[i] = p.product[i]
  <1>1. /\ \A i \in p.batch.deps : current.product[i] = p.base[i]
        /\ Accepted(p.batch, current.product)
        /\ Edit(p.batch, current.product)[p.batch.target] = p.result[p.batch.target]
    BY DEF verify_proposal_candidate, validate_proposal
  <1>2. revisions' = s.revisions /\ cursor' = s.cursor
    <2>1. nextRevisionId \in Nat
      BY DEF Inv, TypeOK
    <2>2. ~Install(store)
      BY <2>1 DEF Install, store
    <2> QED BY <2>2 DEF try_canonical_transaction, RestoredBy, Install
  <1>3. bound \in Revision /\ bound.product = Edit(p.batch, current.product)
    <2>1. Pushable(bound)
      BY <1>1, ApplyBatchMaps
    <2>2. Applied(p.batch, current).product = Edit(p.batch, current.product)
      BY DEF Applied
    <2> QED BY <2>1, <2>2 DEF Pushable, Applied
  <1>4. current' = bound
    <2>1. revisions \in Seq(Revision) /\ cursor \in Nat /\ cursor < Len(revisions)
      BY DEF Inv, TypeOK
    <2>2. /\ s.revisions = push_revision(revisions, cursor, bound).revisions
          /\ s.cursor = push_revision(revisions, cursor, bound).cursor
      BY DEF Pushed
    <2>3. s.revisions[s.cursor + 1] = bound
      <3>1. PICK h : h = push_revision(revisions, cursor, bound)
        OBVIOUS
      <3>2. Pushes(h, revisions, cursor, bound, Excess(cursor))
        BY <1>3, <2>1, <3>1, PushFacts
      <3>3. s.revisions = h.revisions /\ s.cursor = h.cursor
        BY <2>2, <3>1
      <3> QED
        BY <3>2, <3>3, Zenon DEF Pushes
    <2> QED BY <1>2, <2>3 DEF current
  <1> QED
    BY <1>1, <1>3, <1>4

\* A prepared edit that becomes a revision writes what was reviewed, and every item it read is
\* what it was when it was prepared, whatever was edited, undone or corrected in between
\* (validate_proposal, verify_proposal_candidate, commit_high_risk_proposal).
THEOREM ReviewedIsCommitted == Spec => CommitsAsReviewed
  <1>1. Init => PreparedOnCurrent
    BY DEF Init, PreparedOnCurrent, Held
  <1>2. Inv /\ PreparedOnCurrent /\ [Next]_vars => PreparedOnCurrent'
    BY PreparedKept
  <1> DEFINE Reviewed ==
        \A c \in Held :
          LET p == proposals[c]
          IN  /\ \/ \E s \in Programs \cup {NoProgram} : commit_verified_proposal(p, s)
                 \/ \E e \in 1..MaxPolicyEpoch :
                       commit_high_risk_proposal(p, [proposal |-> p, epoch |-> e])
              /\ nextRevisionId' > nextRevisionId
              => /\ current'.product[p.batch.target] = p.result[p.batch.target]
                 /\ \A i \in p.batch.deps : current.product[i] = p.product[i]
  <1>3. Inv /\ PreparedOnCurrent /\ [Next]_vars => [Reviewed]_vars
    <2> SUFFICES ASSUME Inv, PreparedOnCurrent PROVE Reviewed
      OBVIOUS
    <2> DEFINE CommitOf(p) ==
                 \/ \E s \in Programs \cup {NoProgram} : commit_verified_proposal(p, s)
                 \/ \E e \in 1..MaxPolicyEpoch :
                       commit_high_risk_proposal(p, [proposal |-> p, epoch |-> e])
               AsReviewed(p) ==
                 /\ current'.product[p.batch.target] = p.result[p.batch.target]
                 /\ \A i \in p.batch.deps : current.product[i] = p.product[i]
    <2> SUFFICES \A c \in Held :
                    CommitOf(proposals[c]) /\ nextRevisionId' > nextRevisionId
                    => AsReviewed(proposals[c])
      OBVIOUS
    <2> SUFFICES ASSUME NEW c \in Held, NEW p, p = proposals[c], nextRevisionId' > nextRevisionId,
                        CommitOf(p)
                 PROVE  AsReviewed(p)
      <3> HIDE DEF CommitOf, AsReviewed
      <3> QED OBVIOUS
    <2>1. p \in Proposal /\ p.kind = "edit"
      BY DEF Inv, TypeOK, Held, commit_verified_proposal, commit_high_risk_proposal
    <2>2. p.batch \in Batches /\ p.base = p.product
      BY <2>1 DEF Proposal, PreparedOnCurrent
    <2>3. ASSUME NEW source \in Programs \cup {NoProgram}, commit_verified_proposal(p, source)
          PROVE  /\ current'.product[p.batch.target] = p.result[p.batch.target]
                 /\ \A i \in p.batch.deps : current.product[i] = p.product[i]
      <3>1. PICK bound : bound = IF source = NoProgram THEN Applied(p.batch, current)
                                 ELSE [Applied(p.batch, current) EXCEPT !.program = source]
        OBVIOUS
      <3>2. PICK s : s = Pushed(revisions, cursor, bound, registry)
                     /\ try_canonical_transaction(s)
        BY <2>3, <3>1 DEF commit_verified_proposal
      <3>3. verify_proposal_candidate(p)
        BY <2>3 DEF commit_verified_proposal
      <3> QED BY <2>1, <2>2, <3>1, <3>2, <3>3, CommitLeaves
    <2>4. ASSUME NEW e \in 1..MaxPolicyEpoch,
                 commit_high_risk_proposal(p, [proposal |-> p, epoch |-> e])
          PROVE  /\ current'.product[p.batch.target] = p.result[p.batch.target]
                 /\ \A i \in p.batch.deps : current.product[i] = p.product[i]
      <3>1. PICK token : token = [proposal |-> p, epoch |-> e]
        OBVIOUS
      <3>2. PICK bound : bound = Applied(p.batch, current)
        OBVIOUS
      <3>3. PICK s : /\ s = [Committed(p) EXCEPT !.consumed = consumed \cup {token},
                                !.grants = grants \cup {token},
                                !.replayed = replayed \/ token \in grants]
                     /\ try_canonical_transaction(s)
        BY <2>4, <3>1 DEF commit_high_risk_proposal
      <3>4. /\ s.revisions = Pushed(revisions, cursor, bound, registry).revisions
            /\ s.cursor = Pushed(revisions, cursor, bound, registry).cursor
        BY <3>2, <3>3 DEF Committed, Pushed
      <3>5. verify_proposal_candidate(p)
        BY <2>4 DEF commit_high_risk_proposal
      <3>6. PICK source \in Programs \cup {NoProgram} :
               bound = IF source = NoProgram THEN Applied(p.batch, current)
                       ELSE [Applied(p.batch, current) EXCEPT !.program = source]
        BY <3>2
      <3>7. try_canonical_transaction(s)
        BY <3>3
      <3> QED BY <2>1, <2>2, <3>4, <3>5, <3>6, <3>7, CommitLeaves
    <2> QED BY <2>3, <2>4
  <1> QED
    BY <1>1, <1>2, <1>3, Invariance, PTL DEF Spec, CommitsAsReviewed

=============================================================================
