SPECIFICATION FairSpec
CONSTANTS
    Slack = 1
    IdleWait = 2
    MaxTime = 2
    MaxUid = 4
    MaxRuns = 1
    MaxPending = 1
    MaxPackets = 2
    Delays = {1}
    Initial <- MCInitial
INVARIANTS AssertionsHold Woken NoStranded
PROPERTIES InTime Served
CHECK_DEADLOCK FALSE
