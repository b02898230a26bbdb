SPECIFICATION Spec
CONSTANTS
    NoToken = NoToken
    Tokens = {t1, t2, t3}
    Calls = {k1, k2, k3}
INVARIANT SessionNeverForks
INVARIANT EndedSessionNeedsOverlap
PROPERTY CompromisedFamilyIsNeverExchanged
SYMMETRY Symmetry
CHECK_DEADLOCK FALSE
