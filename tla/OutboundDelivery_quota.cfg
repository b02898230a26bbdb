SPECIFICATION Spec
CONSTANTS
    m1 = m1
    m2 = m2
    c1 = c1
    Messages <- TwoMessages
    Requests = {r1, r2, r3}
    Contacts = {c1}
    Recipient <- SharedContact
    Promotional = {}
    DailyLimit = 1
    Interventions = {"midnight"}
    MaxAttempts = 2
    MaxStalls = 0
INVARIANT ExtraCopyNeedsUnconfirmedSend
INVARIANT DispatchWithinDailyLimit
SYMMETRY QuotaSymmetry
CHECK_DEADLOCK FALSE
