SPECIFICATION FairSpec
CONSTANTS
    m1 = m1
    m2 = m2
    c1 = c1
    Messages <- OneMessage
    Requests = {r1}
    Contacts = {c1}
    Recipient <- SharedContact
    Promotional = {m1}
    DailyLimit = 1
    Interventions = {"consent", "account", "tenant", "stop"}
    MaxAttempts = 2
    MaxStalls = 1
INVARIANT TypeOK
INVARIANT FailedOnlyAfterLastAttempt
INVARIANT CompletedJobSettledMessage
INVARIANT BothDecideByTheRules
PROPERTY DeliversReliably
 
PROPERTY EveryJobEnds
CHECK_DEADLOCK FALSE
