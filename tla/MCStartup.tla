------------------------------ MODULE MCStartup ------------------------------
EXTENDS Startup

\* Nothing set, everything set but what start-up reads back from a store or a
\* file, and Postgres alone, each with one setting changed; and everything
\* set, as it is and with one setting bad.  A setting that is only on or off
\* is never bad.
Minimal == [s \in Settings |-> "off"]
Full == [s \in Settings |-> IF s \in {"approvals_off", "cred_key"} THEN "off" ELSE "good"]
Lean == [Full EXCEPT !["policy_store"] = "off", !["east_west"] = "off", !["tool_scope"] = "off"]
Durably == [Minimal EXCEPT !["postgres"] = "good"]
MCConfigs ==
  {Full} \cup
  {[base EXCEPT ![s] = v] :
     base \in {Minimal, Lean, Durably, [Durably EXCEPT !["refverify"] = "good"]},
     s \in Settings \ {"postgres"}, v \in {"off", "good"}}
  \cup {[base EXCEPT ![s] = "bad"] :
     base \in {Minimal, Full}, s \in Settings \ (Switchable \cup {"postgres"})}
=============================================================================
