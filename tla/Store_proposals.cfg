\* Proposals, corrections and approvals against concurrent edits.
SPECIFICATION Spec
CONSTANTS
    Items <- MCItems
    Values <- MCValues
    Face = "dim"
    EmptyProduct <- MCEmptyProduct
    ValidProducts <- MCValidProducts
    BareProducts <- MCBareProducts
    Batches <- ProposalBatches
    Programs = {}
    Names = {}
    Clients = {c}
    Readers = {}
    UndoRevisions = 2
    MaxRevisionId = 3
    MaxEpoch = 4
    MaxPolicyEpoch = 2
    NoProgram = NoProgram
    NoName = NoName
    NoEvidence = NoEvidence
    NoBatch = NoBatch
    NoProposal = NoProposal
    NoObservation = NoObservation
INVARIANTS
    ApprovedOnce
PROPERTY
    CommitsAsReviewed
