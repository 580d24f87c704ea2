SPECIFICATION Spec
CONSTANTS
    k1 = k1
    k2 = k2
    alice = alice
    acme = acme
    Calls = {"c1", "c2"}
    Tokens = {k1, k2}
    NoToken = NoToken
    Untenanted = Untenanted
    Agent <- TokenAgent
    Tenant <- AcmeTenant
    MaxCalls <- OneCall
    Deployments <- Filters
    MaxOps = 0
    MaxFaults = 0
    MaxLost = 0
INVARIANT ForwardsRewrittenArguments
CHECK_DEADLOCK FALSE
