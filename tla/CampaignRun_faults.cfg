SPECIFICATION Spec
CONSTANTS
    k1 = k1
    k2 = k2
    k3 = k3
    k4 = k4
    Contacts = {c1, x1}
    Unasked = {x1}
    Consent <- Consents
    Suppressed = {}
    Promotional = TRUE
    DailyLimit = 1
    Calls = {k1, k2, k3}
    MayAsk <- StartAndStop
    Hazards = {"fanOut", "send", "abort", "halt"}
    MaxAttempts = 2
    MaxStalls = 0
INVARIANT TypeOK
INVARIANT LinkFollowsMessage
INVARIANT FailedCampaignSentOnlyCutOff
PROPERTY StopHoldsLaterAttempts
SYMMETRY Symmetry
CHECK_DEADLOCK FALSE
