SPECIFICATION Spec
CONSTANTS
    k1 = k1
    k2 = k2
    alice = alice
    acme = acme
    Calls = {"c1", "c2"}
    Tokens = {k1, k2}
    NoToken = NoToken
    Untenanted = Untenanted
    Agent <- TokenAgent
    Tenant <- AcmeTenant
    MaxCalls <- OneCall
    Deployments <- AllDeployments
    MaxOps = 2
    MaxFaults = 1
    MaxLost = 1
INVARIANTS BarredNeverForwarded EscalatedOnlyApproved AuditTellsReply
CHECK_DEADLOCK FALSE
