-------------------------- MODULE MCDocumentStore --------------------------
(***************************************************************************)
(* Instances of DocumentStore for TLC.  A product has a dimension, whose   *)
(* value determines an exact face, and a tag; the two may not both be set  *)
(* to the larger value, so that a batch can be refused for what another    *)
(* edit did.                                                               *)
(***************************************************************************)
EXTENDS DocumentStore

MCItems == {"dim", "tag"}
MCValues == {"low", "high"}

Product(d, t) == [i \in MCItems |-> IF i = "dim" THEN d ELSE t]

MCEmptyProduct == Product("low", "low")
MCValidProducts == {Product("low", "low"), Product("high", "low"), Product("low", "high")}
MCBareProducts == {MCEmptyProduct}

SetDim(v) ==
    [target |-> "dim", input |-> v, deps |-> {"dim", "tag"}, view |-> FALSE]
SetTag(v) == [target |-> "tag", input |-> v, deps |-> {"tag"}, view |-> TRUE]
DimFromTag ==
    [target |-> "dim", input |-> "tag", deps |-> {"dim", "tag"}, view |-> FALSE]

HistoryBatches == {SetDim("low"), SetDim("high"), SetTag("high")}
ProposalBatches == {SetDim("low"), SetTag("high"), DimFromTag}

=============================================================================
