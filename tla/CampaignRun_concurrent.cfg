SPECIFICATION Spec
CONSTANTS
    k1 = k1
    k2 = k2
    k3 = k3
    k4 = k4
    Contacts = {c1}
    Unasked = {}
    Consent <- Consents
    Suppressed = {}
    Promotional = TRUE
    DailyLimit = 1
    Calls = {k1, k2, k3}
    MayAsk <- StartTwice
    Hazards = {"scheduler", "fanOut", "halt", "retention"}
    MaxAttempts = 2
    MaxStalls = 0
INVARIANT JobHasLink
INVARIANT LinkFollowsMessage
INVARIANT OrphansOnlyFromLostFanOut
SYMMETRY Symmetry
CHECK_DEADLOCK FALSE
