----------------------------- MODULE MCAuthority -----------------------------
(***************************************************************************)
(* What administrators hand out, read and set: capability tokens, the read *)
(* side of the admin API, segmentation, and the audit trail they rely on.  *)
(* The parts share only the way an administrator is recognised, so one run *)
(* looks at each in turn: part is chosen once and the others stay idle.    *)
(***************************************************************************)
EXTENDS Capability, AdminReads, FlowMap, MCAuditTrail

VARIABLE part   \* the part that is looked at

officeVars == <<capabilityVars, adminVars, flowVars>>
authorityVars == <<part, officeVars, trailVars>>

ReadParts == {"pages", "queries", "holds"}
SegParts == {"edits", "flows"}

AuthorityInit ==
  /\ part \in ReadParts \cup SegParts \cup {"tokens", "trail"}
  /\ part \notin ReadParts \ {"holds"} => auditKind = "memory"
  /\ part # "edits" => paths = [guard |-> TRUE, east |-> TRUE, scope |-> TRUE]
  /\ part # "trail" => path = "chain" /\ ChainOff
  /\ CapabilityInit /\ AdminInit /\ FlowInit /\ TrailInit

OfficeNext ==
  /\ \/ part = "tokens" /\ CapabilityNext /\ UNCHANGED <<adminVars, flowVars>>
     \/ part = "pages" /\ PagesNext /\ UNCHANGED <<capabilityVars, flowVars>>
     \/ part = "queries" /\ QueriesNext /\ UNCHANGED <<capabilityVars, flowVars>>
     \/ part = "holds" /\ HoldsNext /\ UNCHANGED <<capabilityVars, flowVars>>
     \/ part = "edits" /\ EditNext /\ UNCHANGED <<capabilityVars, adminVars>>
     \/ part = "flows" /\ FlowNext /\ UNCHANGED <<capabilityVars, adminVars>>
  /\ UNCHANGED trailVars

AuthorityNext ==
  /\ \/ OfficeNext
     \/ part = "trail" /\ TrailNext /\ UNCHANGED officeVars
  /\ UNCHANGED part

AuthoritySpec == AuthorityInit /\ [][AuthorityNext]_authorityVars /\ SinksFair

-----------------------------------------------------------------------------
(* The instance that is checked. *)

\* Bodies of the mint handlers: a scoped one, one with every limit, an
\* exception, and igctl's.
MintBody(tenant, zn, ttl, tools, servers, n, callees, zones) ==
  [sub |-> "a1", tenant |-> tenant, zone |-> zn, ttl |-> ttl, tools |-> tools, maxCalls |-> n,
   servers |-> servers, rate |-> n, cents |-> n, risk |-> n, stepUp |-> n > 0,
   callees |-> callees, calleeZones |-> zones]
MCMintBodies == {MintBody("", "", 1, {"pay"}, {}, 0, {"a2"}, {}),
                 MintBody("t1", "z1", 0, {}, {"sap"}, 1, {}, {"z1"})}
MCExceptionBodies == {[sub |-> "a2", tenant |-> "t1", zone |-> "", ttl |-> 1, tools |-> {"r*"},
                       ref |-> "x"]}
MCIgctlFlags == {[sub |-> "a1", zone |-> "", ttl |-> 0, tools |-> {}, forbidden |-> {"pay"},
                  maxCalls |-> 0, callees |-> {}, calleeZones |-> {}]}
MCHolderCaveats == {Caveat("tool_allow", {"pay", "read"}, {}, 0), Caveat("exp", {}, {}, 2),
                    Caveat("callee_allow", {"a1"}, {}, 0)}
MCGlob == [p \in {"r*"} |-> {"read"}]
MCServerOf == [t \in {"pay", "read"} |-> IF t = "pay" THEN "sap" ELSE ""]

\* One tenant has an administrator, the other's slot is empty.
MCTenantAdmins == [t \in {"t1", "t2"} |-> IF t = "t1" THEN "k1" ELSE ""]

\* The second of three times falls on a whole second: its text has no
\* fraction and sorts after that of the third.
MCLexRank == <<1, 3, 2>>

Unsent == [prefix |-> <<>>, pairs |-> <<>>, rules |-> <<>>, zones |-> <<>>, groups |-> <<>>,
           edges |-> <<>>, groupCalls |-> <<>>, intra |-> <<>>, intraZone |-> <<>>,
           observe |-> <<>>, scopes |-> <<>>]
Rule(from, to, expires) == [from |-> from, to |-> to, expires |-> expires]
MCFirstFile == [prefix |-> "", pairs |-> {<<"p1", "f1">>}, rules |-> <<Rule("p*", "f1", 1)>>,
                zones |-> [a \in {"p1"} |-> "buy"], edges |-> {}, intra |-> FALSE,
                observe |-> FALSE]
MCFirstScopes == [g \in {"buy"} |-> [tools |-> {"read"}, tenants |-> {}]]

\* Labels only, rules only, label rules in both spellings, a bad label.
MCSaveBodies ==
  {[Unsent EXCEPT !.groups = <<[a \in {"p1", "f1"} |-> "buy"]>>, !.intraZone = <<TRUE>>,
                  !.scopes = <<MCFirstScopes>>],
   [Unsent EXCEPT !.pairs = <<{}>>,
                  !.rules = <<<<Rule("p1", "f1", 0), Rule("p1", "f1", 1), Rule("*", "p1", 2)>>>>],
   [Unsent EXCEPT !.edges = <<{<<"buy", "pay">>}>>, !.groupCalls = <<{<<"pay", "buy">>}>>,
                  !.observe = <<TRUE>>, !.prefix = <<"a2a:">>],
   [Unsent EXCEPT !.zones = <<[a \in {""} |-> "buy"]>>]}
MCPadded == [n \in {" f1"} |-> "f1"]
MCAnyAgent == [p \in {"*", "p*"} |-> IF p = "*" THEN {"p1", "f1"} ELSE {"p1"}]

\* Calls between agents, to a tool, to a tool named like an agent, to the
\* admin API, with a bare prefix, and with space before the agent.
MCObservedCalls ==
  [agent : {"p1", "f1"}, tenant : {"t1"},
   tool : {<<"agent:", "f1">>, <<"agent:", "p1">>, <<"", "read">>, <<"", "f1">>,
           <<"admin/", "mint">>, <<"agent:", "">>, <<"agent:", " f1">>},
   decision : {"allow"}, check : {"policy"}]
  \cup [agent : {"p1"}, tenant : {"", "t1"},
        tool : {<<"agent:", "f1">>, <<"", "read">>, <<"", "f1">>},
        decision : {"block", "escalate"}, check : {"policy", "budget"}]
MCStageOrder == <<"budget", "policy">>

\* A draft that spells a group in capitals.
MCLower == [n \in {"Buy", "buy", "pay"} |-> IF n = "Buy" THEN "buy" ELSE n]
Line(kind, subject, list) == [kind |-> kind, subject |-> subject, list |-> list]
MCDraftTexts ==
  {<<Line("zone", "Buy", {"p1"}), Line("member", "pay", {"f1"}), Line("edge", "Buy", {"pay"}),
     Line("tools", "Buy", {"read"}), Line("tenants", "pay", {"t1"}), Line("intra", "", {}),
     Line("other", "", {})>>}
=============================================================================
