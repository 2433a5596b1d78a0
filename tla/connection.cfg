CONSTANTS
    Names = {"s1"}
    Methods = {"trust", "password", "scram"}
    MaxRequests = 3
    MaxConnects = 2
    MaxPushed = 1
SPECIFICATION FairSpec
INVARIANT InSync
INVARIANT OwnAnswer
PROPERTY CallReturns
CHECK_DEADLOCK FALSE
