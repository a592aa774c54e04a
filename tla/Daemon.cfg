\* Three requests and one restart, any signal, refusal, timeout or failure.
SPECIFICATION FairSpec
CONSTANTS
    MaxRequests = 3
    MaxRestarts = 1
INVARIANTS RequestsReachOwner HandlersOutlived AgentFlagFollows
PROPERTIES SignalEndsDaemon RequestsAnswered
CHECK_DEADLOCK FALSE
