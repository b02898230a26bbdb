SPECIFICATION FairSpec
CONSTANTS
    k1 = k1
    k2 = k2
    k3 = k3
    k4 = k4
    Contacts = {c1, c2}
    Unasked = {}
    Consent <- Consents
    Suppressed = {}
    Promotional = TRUE
    DailyLimit = 4
    Calls = {k1, k2, k3, k4}
    MayAsk <- EachOnce
    Hazards = {}
    MaxAttempts = 2
    MaxStalls = 0
PROPERTY EveryRecipientSettles
CHECK_DEADLOCK FALSE
