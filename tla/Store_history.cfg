\* Histories, programs, checkpoints and derived results; no proposals.
SPECIFICATION Spec
CONSTANTS
    Items <- MCItems
    Values <- MCValues
    Face = "dim"
    EmptyProduct <- MCEmptyProduct
    ValidProducts <- MCValidProducts
    BareProducts <- MCBareProducts
    Batches <- HistoryBatches
    Programs = {p}
    Names = {n}
    Clients = {}
    Readers = {r}
    UndoRevisions = 2
    MaxRevisionId = 4
    MaxEpoch = 5
    MaxPolicyEpoch = 0
    NoProgram = NoProgram
    NoName = NoName
    NoEvidence = NoEvidence
    NoBatch = NoBatch
    NoProposal = NoProposal
    NoObservation = NoObservation
INVARIANTS
    TypeOK
    HistorySound
    DerivedCurrent
    EpochIsVersion
PROPERTY
    ImplementsLinearHistory
