SPECIFICATION FairSpec
CONSTANTS
    manager = manager
    operator = operator
    staff = staff
    Users = {manager, operator, staff}
    Staff = {staff}
    RoleOf <- People
    Accounts <- TwoAccounts
    Environment = {"FACEBOOK_CLIENT_ID", "FACEBOOK_CLIENT_SECRET", "ZALO_CLIENT_ID"}
    Calls = {c1}
    LastHour = 1
    MaxBreaks = 1
    MaxAttempts = 2
    MaxStalls = 0
PROPERTY PostChangesNeedAccess
INVARIANT EarlyFailureIsAnOlderJobs
PROPERTY DuePostEnds
CHECK_DEADLOCK FALSE
