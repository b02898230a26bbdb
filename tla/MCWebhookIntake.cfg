SPECIFICATION FairSpec
CONSTANTS
    text = text
    echo = echo
    optout = optout
    k1 = k1
    k2 = k2
    k3 = k3
    NoEvent = NoEvent
    Events <- SomeEvents
    KeyOf <- Keyed
    KindOf <- Kinded
    Calls = {c1, c2}
    MaxStored = 2
    MaxAttempts = 2
    MaxStalls = 1
INVARIANT OptOutSurvivesEvents
INVARIANT CompletedMeansDone
INVARIANT SecondRowNeedsOvertaking
INVARIANT AnnouncedOnceUnlessCut
PROPERTY QueuedEventSettles
CHECK_DEADLOCK FALSE
