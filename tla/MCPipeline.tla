----------------------------- MODULE MCPipeline -----------------------------
(* Two tokens of one agent; a gateway with containment and approvals and two *)
(* requests at once, one with every stage, one that answers an escalation at *)
(* once and takes a retry, and one without an upstream.                      *)
EXTENDS Pipeline, TLC

CONSTANTS k1, k2, alice, acme

TokenAgent == [t \in {k1, k2} |-> alice]
AcmeTenant == (k1 :> acme) @@ (k2 :> acme)
OneCall == (k1 :> 1) @@ (k2 :> 0)

Contained ==
  [enabled |-> {"deception", "policy", "approvals", "upstream"},
   requireCapability |-> TRUE, requireBudget |-> FALSE, calls |-> {"c1", "c2"},
   async |-> FALSE, actions |-> {"pay"}]

EveryStage ==
  [enabled |-> Asked \cup {"deception", "approvals", "upstream", "isolation",
                           "response_pii", "schema"},
   requireCapability |-> FALSE, requireBudget |-> TRUE, calls |-> {"c1"},
   async |-> FALSE, actions |-> {"pay"}]

Stub ==
  [enabled |-> {"deception", "policy", "approvals", "pii"},
   requireCapability |-> FALSE, requireBudget |-> FALSE, calls |-> {"c1"},
   async |-> FALSE, actions |-> {"pay"}]

Async ==
  [enabled |-> {"action", "policy", "approvals", "upstream"},
   requireCapability |-> FALSE, requireBudget |-> FALSE, calls |-> {"c1", "c2"},
   async |-> TRUE, actions |-> {"pay", "read"}]

AllDeployments == {Contained, EveryStage, Async, Stub}

Filters ==
  {[enabled |-> {"pii", "tenantscope", "upstream"},
    requireCapability |-> TRUE, requireBudget |-> FALSE, calls |-> {"c1"},
    async |-> FALSE, actions |-> {"pay"}]}
=============================================================================
