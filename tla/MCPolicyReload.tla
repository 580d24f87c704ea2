---------------------------- MODULE MCPolicyReload ----------------------------
EXTENDS PolicyReload

CONSTANTS a, b, c1, c2, c3

\* A replica that only follows, with lost notifications, connections and
\* values and a failed read ...
Following == [replicas |-> {a, b}, calls |-> {c1, c2},
              kinds |-> {"promote", "propose", "approve"},
              buffer |-> 1, edits |-> 0, restarts |-> 0, drops |-> 1, readFails |-> 1]

\* ... one that restarts ...
Returning == [Following EXCEPT !.kinds = {"promote", "clear"}, !.calls = {c1},
                               !.restarts = 1]

\* ... a single one, with restarts, edits and failed reads ...
Failing == [replicas |-> {a}, calls |-> {c1, c2},
            kinds |-> {"promote", "clear", "propose", "approve"},
            buffer |-> 1, edits |-> 1, restarts |-> 1, drops |-> 1, readFails |-> 1]

\* ... and three calls at once.
Crossing == [replicas |-> {a}, calls |-> {c1, c2, c3},
             kinds |-> {"promote", "rollback", "clear"},
             buffer |-> 1, edits |-> 0, restarts |-> 0, drops |-> 0, readFails |-> 0]

\* An approval between two proposals.
Approving == [Crossing EXCEPT !.kinds = {"propose", "approve"}]

\* Nothing fails, and a watcher is slower than two promotions.
Lagging == [Following EXCEPT !.kinds = {"promote"}, !.drops = 0, !.readFails = 0]

MCReplicas == {a, b}
MCAdmins == {a}
MCCalls == {c1, c2, c3}
MCScenarios == {Following, Returning, Failing, Crossing}
MCApproving == {Approving}
MCLagging == {Lagging}
=============================================================================
