SPECIFICATION Spec
CONSTANTS
    k1 = k1
    k2 = k2
    RowCount = 2
    Header <- FourColumns
    Cells <- TwoRows
    Number <- OneNumber
    Addresses = {}
    Mappings <- UserMappings
    Calls = {k1, k2}
    MayAsk <- MapAndCommit
    KeysElsewhere <- TheId
    Hazards = {"api", "worker", "retention"}
    MaxAttempts = 2
    MaxStalls = 0
SYMMETRY Symmetry
INVARIANT TypeOK
INVARIANT ContactsShareNoKey
INVARIANT FinishedLeavesNoValidRow
INVARIANT CountersNeverOverstate
PROPERTY QuietCancellationIsFinal
CHECK_DEADLOCK FALSE
