SPECIFICATION Spec
CONSTANTS
    NoState = NoState
    Worker = worker
    Apis = {api1}
    Attempts = {m1}
    States = {s1, s2}
    Callbacks = {b1, b2}
    MaxTokens = 3
INVARIANT OAuthStateUsedOnce
INVARIANT StoredTokenSpentOnlyByLoss
INVARIANT ConnectedHasCredential
PROPERTY RefreshNeverReconnects
SYMMETRY Symmetry
CHECK_DEADLOCK FALSE
