\* Two processes that write and one that reads, or one that writes in a damaged repository.
SPECIFICATION MCSpec
CONSTANTS
    w1 = w1
    w2 = w2
    Writers = {w1, w2}
    d1 = d1
    d2 = d2
    Documents = {d1, d2}
    r1 = r1
    r2 = r2
    r3 = r3
    Revisions = {r1, r2, r3}
    Large = {}
    Parts = {"a"}
    Paths = {"p"}
    Audits = {1}
    MaxDepth = 4
    MaxEntries = 9
    MaxReleases = 4
    MaxCrashes = 1
    MaxCancels = 1
    MaxDamages = 1
    MaxCatalogs = 1
SYMMETRY Symmetry
INVARIANTS
    TypeOK
    ReleaseIsWhole
    CreatedOpens
    ComparisonAgrees
    QuietCatalogReads
PROPERTIES
    OneCreator
CHECK_DEADLOCK FALSE
