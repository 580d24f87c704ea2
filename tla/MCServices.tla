----------------------------- MODULE MCServices ------------------------------
EXTENDS Services, MCStartup

\* Only the rate, only the money, both, and a breaker that is off.
MCVelocityLimits == [MaxCalls : {0, 1}, MaxCents : {0, 2}, Window : {2},
                     MaxInFlight : {1, 2}]

\* The weights of task.DefaultConfig, with a smaller call budget and slack and
\* lower thresholds: one call can halt the task, two can flag it.
MCBindConfig == [MaxCalls |-> 1, PlanSlack |-> 0, OffPlanWeight |-> 3,
                 OverBudgetWeight |-> 2, DistinctWeight |-> 2,
                 WarnScore |-> 2, BlockScore |-> 3]

MCDecisions == {[decision |-> "allow", agent |-> "a"]}

MCSeed == [t \in {"pay"} |-> "env"]

\* Names with two spellings, and a text that has a marker in it.
MCFold == [x \in {"", "pay", "Pay", "acme", "m", "text m", "tok", "key"} |->
             IF x = "Pay" THEN "pay" ELSE x]
MCInside == {<<"text m", "m">>, <<"m", "m">>}
MCMarkerRank == [x \in {"m", "acme"} |-> IF x = "m" THEN 2 ELSE 1]
Decoy(kind, key, on) == [kind |-> kind, key |-> key, on_trip |-> on]
MCExports ==
  {<<>>,
   <<Decoy("honey_tool", "Pay", "contain"), Decoy("honey_tool", "pay", "alert"),
     Decoy("honey_tool", "", "contain")>>,
   <<Decoy("honey_credential", "key", "hold"), Decoy("honey_record", "acme", "sandbox"),
     Decoy("injection_canary", "m", "contain"), Decoy("injection_canary", "acme", "contain")>>,
   <<Decoy("decoy_token", "tok", "contain"), Decoy("decoy_zone", "Pay", "alert"),
     Decoy("breadcrumb", "key", "alert")>>}
MCFileSets == {<<>>, << <<Decoy("honey_tool", "Pay", "contain")>> >>}
MCTouches == [token : {"", "tok"}, tool : {"pay", "acme"}, credential : {"", "key"},
              values : {{}, {"acme", "key"}, {"text m"}}, zone : {"", "pay"},
              content : {"", "text m"}]

\* Bundles of two subjects: with a bound, expiring, observe-only, unsigned, with
\* a signature that does not verify, and without a subject.
Grant(s, for, until, max, observe, signed) ==
  [subject |-> s, tools |-> for, until |-> until, max |-> max, irreversible |-> {"pay"},
   guard |-> TRUE, enabled |-> max > 0, vendor |-> TRUE, observe |-> observe, proof |-> TRUE,
   signed |-> signed]
MCGrants ==
  {Grant("a", {"pay"}, 0, 1, FALSE, "good"), Grant("a", {}, 1, 0, TRUE, "good"),
   Grant("a", {"read"}, 0, 0, FALSE, "none"), Grant("b", {"read"}, 1, 0, FALSE, "bad"),
   Grant("b", {"pay"}, 0, 0, FALSE, "good"), Grant("", {"pay"}, 0, 0, FALSE, "good")}
MCGrantRequests == [subject : {"a", "b"}, tool : {"pay", "read"}, cents : {0, 1, 2},
                    counterparty : {"", "v"}]
=============================================================================
