--------------------------- MODULE StartupProofs ----------------------------
(***************************************************************************)
(* What main promises of every environment, over any number of boots,      *)
(* crashes and outages of the database and of Redis, and what a replica    *)
(* that is up promises of the credentials it reloads and of the policy     *)
(* bundles it is sent.                                                     *)
(***************************************************************************)
EXTENDS Startup, Credentials, Bundles, TLAPS

StageNames == {"env", "content", "effect", "segments", "policy", "audit", "sinks",
               "credentials", "upstream", "revocation", "killswitch", "tasks", "approvals",
               "policy_store", "active_policy", "admins", "tracing", "optional", "listen"}

Extras == {"deception", "directives", "bundles", "intentgrant", "observations", "outcomes"}

\* The settings a stage must have met to pass; those main is lenient about only
\* when they can be used.
Meets(n) ==
  {s \in Settings :
     \/ n = "env" /\ s \in {"redaction", "master_key"}
     \/ n = "content" /\ s \in {"pii", "schemas", "tenant_scope"}
     \/ n = "effect" /\ s \in {"isolation", "action_guard", "refverify"}
     \/ n = "effect" /\ s = "vendor_master" /\ Asked("refverify") /\ config[s] = "good"
     \/ n = "segments" /\ s \in {"east_west", "tool_scope"}
     \/ n = "policy" /\ s \in {"policy_file", "redis"}
     \/ n = "audit" /\ s \in {"audit_target", "audit_persist", "payload_capture"}
     \/ n = "sinks" /\ s \in AlertSinks \cup StreamSinks \cup CloudSinks \cup {"webhook", "risk"}
     \/ n = "sinks" /\ s = "pubsub" /\ config[s] = "good"
     \/ n = "credentials" /\ s = "tool_creds"
     \/ n = "credentials" /\ s = "cred_key" /\ Durable
     \/ n = "upstream" /\ s = "upstream"
     \/ n = "tasks" /\ s = "tasks"
     \/ n = "approvals" /\ s = "approvals"
     \/ n = "policy_store" /\ s = "policy_store"
     \/ n = "admins" /\ s \in {"tenant_admins", "admin_token"}
     \/ n = "tracing" /\ s = "tracing"
     \/ n = "optional" /\ s \in Extras /\ config[s] = "good"
     \/ n = "optional" /\ s = "federation" /\ config[s] = "good" /\ Asked("audit_persist")}

\* The stages that end every boot of the environment, whatever is up.
Hopeless(n) ==
  \/ n # "effect" /\ Bad(Meets(n))
  \/ n = "effect" /\ Bad({"isolation", "action_guard", "refverify"})
  \/ n = "audit" /\ ~Durable /\ (Asked("audit_persist") \/ Asked("payload_capture"))
  \/ n = "approvals" /\ ~Durable /\ Asked("approvals")
  \/ n = "policy_store" /\ ~Durable /\ Asked("policy_store")
  \/ n = "listen" /\ Bad({"addr"})

\* The credentials in Postgres cannot be read: they were written under the
\* key of another boot.
Unreadable == Durable /\ rows \ {CredentialKey} # {}

\* The environment fixes the key of the credentials.
FixedKey == config["master_key"] = "good" \/ config["cred_key"] = "good"
TheKey == IF config["cred_key"] = "good" THEN MaxBoots + 1 ELSE 0

Up == [postgres |-> "up", redis |-> "up"]

StartTypes ==
  /\ config \in Configs
  /\ dep \in [{"postgres", "redis"} -> {"up", "down"}]
  /\ phase \in StageNames \cup {"down", "serving"}
  /\ stores \in [{"kill", "revoke"} -> {"none", "postgres", "memory"}]
  /\ served \in BOOLEAN

\* The stages before stage k of main have passed.
Passed(k) ==
  \A j \in 1 .. k - 1 : /\ ~Hopeless(Stages[j])
                        /\ \A s \in Meets(Stages[j]) : Asked(s) => s \in wired
                        /\ Stages[j] \in {"killswitch", "revocation"} /\ Durable =>
                             stores[IF Stages[j] = "killswitch" THEN "kill" ELSE "revoke"] = "postgres"

StagesPassed ==
  /\ phase \in StageNames => \E k \in 1 .. 19 : phase = Stages[k] /\ Passed(k)
  /\ phase = "serving" => Passed(20)

\* With a database, what was acknowledged is in the table.
StopsKept == acked \subseteq {"kill", "revoke"} /\ (Durable => acked \subseteq table)

KeysFixed == FixedKey => rows \subseteq {TheKey} /\ (config["master_key"] = "good" => masterKey = 0)

ServedInv == served => \A n \in StageNames : ~Hopeless(n)

StartInv == StartTypes /\ StagesPassed /\ StopsKept /\ KeysFixed /\ ServedInv

-----------------------------------------------------------------------------
(* The stages. *)

LEMMA StageOrder ==
  /\ Len(Stages) = 19 /\ DOMAIN Stages = 1 .. 19
  /\ \A k \in 1 .. 19 : Stages[k] \in StageNames
  /\ \A n \in StageNames : \E k \in 1 .. 19 : Stages[k] = n
  /\ \A j, k \in 1 .. 19 : Stages[j] = Stages[k] => j = k
<1>1. Len(Stages) = 19 /\ DOMAIN Stages = 1 .. 19
  BY DEF Stages
<1>2. \A k \in 1 .. 19 : Stages[k] \in StageNames
  BY DEF Stages, StageNames
<1>3. \A n \in StageNames : \E k \in 1 .. 19 : Stages[k] = n
  BY DEF Stages, StageNames
<1>4. \A j, k \in 1 .. 19 : Stages[j] = Stages[k] => j = k
  BY DEF Stages
<1> QED BY Zenon, <1>1, <1>2, <1>3, <1>4

LEMMA NextStage ==
  ASSUME NEW k \in 1 .. 19
  PROVE  After(Stages[k]) = IF k = 19 THEN "serving" ELSE Stages[k + 1]
<1>1. k = CHOOSE i \in DOMAIN Stages : Stages[i] = Stages[k]
  BY StageOrder
<1> QED BY Zenon, <1>1, StageOrder DEF After

LEMMA StageIs ==
  /\ Stage("env") = ReadEnv /\ Stage("content") = ContentChecks /\ Stage("effect") = EffectGuards
  /\ Stage("segments") = SegmentGuards /\ Stage("policy") = PolicyAndBudget
  /\ Stage("audit") = AuditTargets /\ Stage("sinks") = Sinks
  /\ Stage("credentials") = loadCredentials /\ Stage("upstream") = loadUpstream
  /\ Stage("revocation") = loadRevocation /\ Stage("killswitch") = loadKillSwitch
  /\ Stage("tasks") = loadTaskBinder /\ Stage("approvals") = loadApprovals
  /\ Stage("policy_store") = loadPolicyStore /\ Stage("admins") = parseTenantAdmins
  /\ Stage("active_policy") = reloadActivePolicy
  /\ Stage("tracing") = loadTracing /\ Stage("optional") = OptionalParts
  /\ Stage("listen") = [fatal |-> Bad({"addr"}), on |-> {}]
  BY DEF Stage

\* What the gateway or its operators left behind that ends a boot.
Left(n) ==
  \/ n = "credentials" /\ Unreadable
  \/ n = "segments" /\ cut # {}
  \/ n = "active_policy" /\ pointer = "deleted"

\* The audit store is there when federation is built.
Audited(n) == n = "optional" /\ Asked("audit_persist") => "audit_persist" \in wired

\* A stage that passes has what it had to meet; one that can never pass ends
\* the boot, and with both dependencies up nothing else does, but for what was
\* left behind.
StageOutcome(n) ==
  /\ Hopeless(n) => Stage(n).fatal
  /\ ~Stage(n).fatal /\ Audited(n) => \A s \in Meets(n) : Asked(s) => s \in Stage(n).on
  /\ Stage(n).fatal /\ dep.postgres = "up" /\ dep.redis = "up" => Hopeless(n) \/ Left(n)

LEMMA ConfigIs ==
  ASSUME StartTypes
  PROVE  /\ \A s \in Settings : config[s] \in {"off", "good", "bad"}
         /\ \A s \in Switchable : config[s] # "bad"
  BY SettingsAssumption DEF StartTypes

\* A stage that only refuses what is bad and builds what is good.
LEMMA PlainOutcome ==
  ASSUME StartTypes, NEW n, n \notin {"effect", "audit", "approvals", "policy_store", "listen"},
         NEW X \in SUBSET Settings, Meets(n) = X,
         Stage(n).fatal <=> Bad(X) \/ (n = "segments" /\ cut # {}), Good(X) \subseteq Stage(n).on
  PROVE  StageOutcome(n)
<1>1. Hopeless(n) <=> Bad(X)
  BY DEF Hopeless
<1> QED BY <1>1, ConfigIs DEF StageOutcome, Left, Good, Bad, Asked

LEMMA PlainStages ==
  ASSUME StartTypes
  PROVE  \A n \in {"env", "content", "segments", "sinks", "upstream", "admins", "tracing"} : StageOutcome(n)
<1>1. StageOutcome("env")
  <2>1. Meets("env") = {"redaction", "master_key"}
    BY DEF Meets, Settings
  <2>2. Stage("env") = ReadEnv /\ {"redaction", "master_key"} \in SUBSET Settings
    BY StageIs DEF Settings
  <2>3. (Stage("env").fatal <=> Bad({"redaction", "master_key"})) /\ Good({"redaction", "master_key"}) \subseteq Stage("env").on
    BY <2>2 DEF ReadEnv
  <2> QED BY Zenon, <2>1, <2>2, <2>3, PlainOutcome
<1>2. StageOutcome("content")
  <2>1. Meets("content") = {"pii", "schemas", "tenant_scope"}
    BY DEF Meets, Settings
  <2>2. Stage("content") = ContentChecks /\ {"pii", "schemas", "tenant_scope"} \in SUBSET Settings
    BY StageIs DEF Settings
  <2>3. (Stage("content").fatal <=> Bad({"pii", "schemas", "tenant_scope"})) /\ Good({"pii", "schemas", "tenant_scope"}) \subseteq Stage("content").on
    BY <2>2 DEF ContentChecks
  <2> QED BY Zenon, <2>1, <2>2, <2>3, PlainOutcome
<1>3. StageOutcome("segments")
  <2>1. Meets("segments") = {"east_west", "tool_scope"}
    BY DEF Meets, Settings
  <2>2. Stage("segments") = SegmentGuards /\ {"east_west", "tool_scope"} \in SUBSET Settings
    BY StageIs DEF Settings
  <2>3. (SegmentGuards.fatal <=> Bad({"east_west", "tool_scope"}) \/ cut # {})
        /\ SegmentGuards.on = Good({"east_west", "tool_scope"})
    BY Zenon DEF SegmentGuards
  <2> QED BY Zenon, <2>1, <2>2, <2>3, PlainOutcome
<1>4. StageOutcome("sinks")
  <2> DEFINE X == AlertSinks \cup StreamSinks \cup CloudSinks \cup {"webhook", "risk"}
                  \cup {s \in {"pubsub"} : config[s] = "good"}
  <2>1. Meets("sinks") = X /\ X \in SUBSET Settings
    BY DEF Meets, Settings
  <2>0. Stage("sinks") = Sinks
    BY StageIs
  <2>2. Sinks.fatal <=> loadSIEM.fatal \/ Notifiers.fatal
    BY Zenon DEF Sinks
  <2>3. Stage("sinks").fatal <=> Bad(X)
    BY <2>0, <2>2 DEF loadSIEM, Notifiers, Bad
  <2>4. Good(X) \subseteq Stage("sinks").on
    BY StageIs DEF Sinks, loadSIEM, Notifiers, Good
  <2> HIDE DEF X
  <2> QED BY Zenon, <2>1, <2>3, <2>4, PlainOutcome
<1>5. StageOutcome("upstream")
  <2>1. Meets("upstream") = {"upstream"}
    BY DEF Meets, Settings
  <2>2. Stage("upstream") = loadUpstream /\ {"upstream"} \in SUBSET Settings
    BY StageIs DEF Settings
  <2>3. (Stage("upstream").fatal <=> Bad({"upstream"})) /\ Good({"upstream"}) \subseteq Stage("upstream").on
    BY <2>2 DEF loadUpstream
  <2> QED BY Zenon, <2>1, <2>2, <2>3, PlainOutcome
<1>6. StageOutcome("admins")
  <2>1. Meets("admins") = {"tenant_admins", "admin_token"}
    BY DEF Meets, Settings
  <2>2. Bad({"tenant_admins", "admin_token"}) <=> Bad({"tenant_admins"})
    BY ConfigIs DEF Bad, Switchable
  <2>3. Stage("admins") = parseTenantAdmins /\ {"tenant_admins", "admin_token"} \in SUBSET Settings
    BY StageIs DEF Settings
  <2>4. /\ Stage("admins").fatal <=> Bad({"tenant_admins", "admin_token"})
        /\ Good({"tenant_admins", "admin_token"}) \subseteq Stage("admins").on
    BY <2>2, <2>3 DEF parseTenantAdmins
  <2> QED BY Zenon, <2>1, <2>3, <2>4, PlainOutcome
<1>7. StageOutcome("tracing")
  <2>1. Meets("tracing") = {"tracing"}
    BY DEF Meets, Settings
  <2>2. Stage("tracing") = loadTracing /\ {"tracing"} \in SUBSET Settings
    BY StageIs DEF Settings
  <2>3. (Stage("tracing").fatal <=> Bad({"tracing"})) /\ Good({"tracing"}) \subseteq Stage("tracing").on
    BY <2>2 DEF loadTracing
  <2> QED BY Zenon, <2>1, <2>2, <2>3, PlainOutcome
<1> QED BY <1>1, <1>2, <1>3, <1>4, <1>5, <1>6, <1>7

\* The guards of effects: the vendor master comes with its verifier.
LEMMA EffectStage == ASSUME StartTypes PROVE StageOutcome("effect")
<1> DEFINE X == {"isolation", "action_guard", "refverify"}
<1>1. Meets("effect") = X \cup {s \in {"vendor_master"} : Asked("refverify") /\ config[s] = "good"}
  BY DEF Meets, Settings
<1>2. Hopeless("effect") <=> Bad(X)
  BY DEF Hopeless
<1>3. Stage("effect").fatal <=> Bad(X)
  BY StageIs DEF EffectGuards
<1>4. Stage("effect").on = Good(X) \cup
        IF config["refverify"] = "good" THEN Good({"vendor_master"}) ELSE {}
  BY StageIs DEF EffectGuards
<1> QED BY <1>1, <1>2, <1>3, <1>4, ConfigIs DEF StageOutcome, Good, Bad, Asked, Settings

\* The stages that ask for the database or for Redis.
LEMMA PolicyStage == ASSUME StartTypes PROVE StageOutcome("policy")
<1> DEFINE X == {"policy_file", "redis"}
<1>1. Meets("policy") = X
  BY DEF Meets, Settings
<1>2. Hopeless("policy") <=> Bad(X)
  BY Zenon, <1>1 DEF Hopeless
<1>0. Stage("policy") = PolicyAndBudget
  BY Zenon, StageIs
<1>a. PolicyAndBudget.fatal <=> Bad(X) \/ (Asked("redis") /\ dep.redis = "down")
  BY Zenon DEF PolicyAndBudget
<1>3. Stage("policy").fatal <=> Bad(X) \/ (Asked("redis") /\ dep.redis = "down")
  BY Zenon, <1>0, <1>a
<1>4. Stage("policy").on = Good(X)
  BY StageIs DEF PolicyAndBudget
<1> QED BY <1>1, <1>2, <1>3, <1>4, ConfigIs DEF StageOutcome, Good, Bad, Asked, Settings

LEMMA AuditStage == ASSUME StartTypes PROVE StageOutcome("audit")
<1> DEFINE X == {"audit_target", "audit_persist", "payload_capture"}
<1>1. Meets("audit") = X
  BY DEF Meets, Settings
<1>2. Hopeless("audit") <=> Bad(X) \/ (~Durable /\ (Asked("audit_persist") \/ Asked("payload_capture")))
  BY <1>1 DEF Hopeless
<1>0. Stage("audit") = AuditTargets
  BY StageIs
<1>3. /\ AuditTargets.fatal <=> Bad({"audit_target"}) \/ loadAuditStore.fatal \/ loadPayloadCapture.fatal
      /\ loadAuditStore.fatal <=> Needs({"audit_persist"})
      /\ loadPayloadCapture.fatal <=> Bad({"payload_capture"}) \/ Needs({"payload_capture"})
  BY Zenon DEF AuditTargets, loadAuditStore, loadPayloadCapture
<1>4. Stage("audit").fatal <=>
        \/ Bad({"audit_target", "payload_capture"})
        \/ (Asked("audit_persist") \/ Asked("payload_capture")) /\ ~(Durable /\ Reachable)
  BY <1>0, <1>3 DEF Needs, Bad
<1>5. Good(X) \subseteq Stage("audit").on
  BY StageIs DEF AuditTargets, loadAuditStore, loadPayloadCapture, Good
<1>6. Bad(X) <=> Bad({"audit_target", "payload_capture"})
  BY ConfigIs DEF Bad, Switchable
<1> QED BY <1>1, <1>2, <1>4, <1>5, <1>6, ConfigIs
           DEF StageOutcome, Good, Bad, Asked, Settings, Reachable

LEMMA CredentialStage == ASSUME StartTypes PROVE StageOutcome("credentials")
<1>1. Meets("credentials") = {"tool_creds"} \cup {s \in {"cred_key"} : Durable}
  BY DEF Meets, Settings
<1>2. Hopeless("credentials") <=> Bad({"tool_creds"}) \/ (Durable /\ Bad({"cred_key"}))
  BY <1>1 DEF Hopeless, Bad
<1>3. Stage("credentials").fatal <=>
        \/ Bad({"tool_creds"})
        \/ Durable /\ (Bad({"cred_key"}) \/ ~Reachable \/ rows \ {CredentialKey} # {})
  BY StageIs DEF loadCredentials
<1>4. Stage("credentials").on = Good({"tool_creds"}) \cup IF Durable THEN Good({"cred_key"}) ELSE {}
  BY StageIs DEF loadCredentials
<1>5. ~Stage("credentials").fatal => \A s \in Meets("credentials") : Asked(s) => s \in Stage("credentials").on
  BY <1>1, <1>3, <1>4, ConfigIs DEF Good, Bad, Asked, Settings
<1>6. Hopeless("credentials") => Stage("credentials").fatal
  BY <1>2, <1>3
<1>7. Stage("credentials").fatal /\ dep.postgres = "up" => Hopeless("credentials") \/ Unreadable
  BY <1>2, <1>3 DEF Unreadable, Reachable
<1> QED BY Zenon, <1>5, <1>6, <1>7 DEF StageOutcome, Left

LEMMA StoreStages ==
  ASSUME StartTypes
  PROVE  \A n \in {"revocation", "killswitch", "tasks", "approvals", "policy_store", "active_policy",
                   "optional", "listen"} : StageOutcome(n)
<1>1. StageOutcome("revocation") /\ StageOutcome("killswitch")
  <2>1. Meets("revocation") = {} /\ Meets("killswitch") = {}
    BY DEF Meets
  <2>0. Stage("revocation") = loadRevocation /\ Stage("killswitch") = loadKillSwitch
    BY Zenon, StageIs
  <2>2. /\ loadRevocation.fatal <=> Durable /\ ~Reachable
        /\ loadKillSwitch.fatal <=> Durable /\ ~Reachable
    BY Zenon DEF loadRevocation, loadKillSwitch
  <2> QED BY Zenon, <2>0, <2>1, <2>2 DEF StageOutcome, Hopeless, Bad, Reachable
<1>2. StageOutcome("tasks")
  <2>1. Meets("tasks") = {"tasks"}
    BY DEF Meets, Settings
  <2>0. Stage("tasks") = loadTaskBinder
    BY Zenon, StageIs
  <2>2. loadTaskBinder.fatal <=> Asked("tasks") /\ Durable /\ ~Reachable
    BY Zenon DEF loadTaskBinder
  <2>3. Stage("tasks").on = Good({"tasks"})
    BY StageIs DEF loadTaskBinder
  <2>4. ~Hopeless("tasks")
    BY Zenon, <2>1, ConfigIs DEF Hopeless, Bad, Switchable
  <2> QED BY <2>0, <2>1, <2>2, <2>3, <2>4, ConfigIs
          DEF StageOutcome, Good, Asked, Reachable, Switchable, Settings
<1>3. ASSUME NEW n \in {"approvals", "policy_store"}, NEW r, Stage(n) = r,
             r.fatal <=> Bad({n}) \/ Needs({n}), r.on = Good({n})
      PROVE  StageOutcome(n)
  <2>1. Meets(n) = {n}
    BY DEF Meets, Settings
  <2>2. Hopeless(n) <=> Bad({n}) \/ (~Durable /\ Asked(n))
    BY Zenon, <2>1 DEF Hopeless
  <2> QED BY <1>3, <2>1, <2>2, ConfigIs
             DEF StageOutcome, Good, Bad, Needs, Asked, Reachable, Settings
<1>6. StageOutcome("approvals") /\ StageOutcome("policy_store")
  <2>1. /\ loadApprovals.fatal <=> Bad({"approvals"}) \/ Needs({"approvals"})
        /\ loadPolicyStore.fatal <=> Bad({"policy_store"}) \/ Needs({"policy_store"})
    BY Zenon DEF loadApprovals, loadPolicyStore
  <2>2. loadApprovals.on = Good({"approvals"}) /\ loadPolicyStore.on = Good({"policy_store"})
    BY DEF loadApprovals, loadPolicyStore
  <2> QED BY Zenon, <1>3, <2>1, <2>2, StageIs
<1>4. StageOutcome("optional")
  <2>1. /\ ~Stage("optional").fatal
        /\ Stage("optional").on = Good(Extras) \cup
             IF "audit_persist" \in wired THEN Good({"federation"}) ELSE {}
    BY StageIs DEF OptionalParts, Extras
  <2>2. \A s \in Meets("optional") :
          config[s] = "good" /\ (s \in Extras \/ (s = "federation" /\ Asked("audit_persist")))
    BY DEF Meets
  <2>3. Audited("optional") => \A s \in Meets("optional") : s \in Stage("optional").on
    BY <2>1, <2>2 DEF Audited, Good
  <2>4. ~Bad(Meets("optional"))
    BY <2>2 DEF Bad
  <2>5. ~Hopeless("optional")
    BY <2>4 DEF Hopeless
  <2> QED BY Zenon, <2>1, <2>3, <2>5 DEF StageOutcome
<1>7. StageOutcome("active_policy")
  <2>1. Meets("active_policy") = {}
    BY DEF Meets
  <2>2. reloadActivePolicy.fatal <=> Asked("policy_store") /\ (~Reachable \/ pointer = "deleted")
    BY Zenon DEF reloadActivePolicy
  <2>3. ~Hopeless("active_policy")
    BY <2>1 DEF Hopeless, Bad
  <2> QED BY Zenon, <2>1, <2>2, <2>3, StageIs DEF StageOutcome, Left, Reachable
<1>5. StageOutcome("listen")
  <2>1. Meets("listen") = {} /\ (Stage("listen").fatal <=> Bad({"addr"}))
    BY StageIs DEF Meets
  <2> QED BY Zenon, <2>1 DEF StageOutcome, Hopeless, Bad
<1> QED BY <1>1, <1>2, <1>4, <1>5, <1>6, <1>7

LEMMA EveryStage == ASSUME StartTypes, NEW n \in StageNames PROVE StageOutcome(n)
  BY PlainStages, EffectStage, PolicyStage, AuditStage, CredentialStage, StoreStages DEF StageNames

-----------------------------------------------------------------------------
(* The steps of the process. *)

\* What depends on the environment alone stays as it is.
LEMMA SameConfig ==
  ASSUME config' = config
  PROVE  /\ \A s : Asked(s)' <=> Asked(s)
         /\ \A n : Meets(n)' = Meets(n) /\ (Hopeless(n)' <=> Hopeless(n))
         /\ (Durable' <=> Durable) /\ (FixedKey' <=> FixedKey) /\ TheKey' = TheKey
<1>1. (\A s : Asked(s)' <=> Asked(s)) /\ (Durable' <=> Durable)
  BY DEF Asked, Durable
<1>2. \A n : Meets(n)' = Meets(n)
  BY <1>1 DEF Meets
<1>3. \A n : Hopeless(n)' <=> Hopeless(n)
  BY <1>1, <1>2 DEF Hopeless, Bad
<1> QED BY <1>1, <1>2, <1>3 DEF FixedKey, TheKey

\* A step that leaves the boot where it is, or ends it.
LEMMA QuietKeeps ==
  ASSUME StartInv, StartTypes', UNCHANGED <<config, wired, masterKey, stores, rows, served>>,
         phase' \in {phase, "down"}, StopsKept'
  PROVE  StartInv'
<1> USE DEF StartInv
<1>1. \A k \in 1 .. 20 : Passed(k) => Passed(k)'
  BY Zenon, SameConfig DEF Passed
<1>2. StagesPassed'
  BY <1>1 DEF StagesPassed, StageNames
<1>3. KeysFixed'
  BY Zenon, SameConfig DEF KeysFixed
<1>4. ServedInv'
  BY Zenon, SameConfig DEF ServedInv
<1> QED BY Zenon, <1>2, <1>3, <1>4

LEMMA BootKeeps ==
  ASSUME StartInv, Boot
  PROVE  StartInv'
<1> USE DEF StartInv
<1>1. /\ phase' = "env" /\ masterKey' = 0 /\ stores' = [kill |-> "none", revoke |-> "none"]
      /\ UNCHANGED <<config, dep, table, rows, acked, served>>
  BY DEF Boot, Stages
<1>2. StartTypes'
  BY <1>1 DEF StartTypes, StageNames
<1>3. StagesPassed'
  BY <1>1 DEF StagesPassed, Passed, Stages
<1>4. StopsKept'
  BY Zenon, <1>1, SameConfig DEF StopsKept
<1>5. KeysFixed'
  BY Zenon, <1>1, SameConfig DEF KeysFixed
<1>6. ServedInv'
  BY Zenon, <1>1, SameConfig DEF ServedInv
<1> QED BY <1>2, <1>3, <1>4, <1>5, <1>6

\* The credentials main and the console write are under the key the
\* environment fixes.
LEMMA KeyIsFixed ==
  ASSUME StartInv, FixedKey
  PROVE  CredentialKey = TheKey
  BY Zenon DEF StartInv, KeysFixed, FixedKey, CredentialKey, TheKey

LEMMA PassKeeps ==
  ASSUME StartInv, StagePasses
  PROVE  StartInv'
<1> USE DEF StartInv
<1>1. PICK k \in 1 .. 19 : phase = Stages[k] /\ Passed(k)
  BY Zenon DEF StagePasses, StagesPassed, StartTypes
<1>2. PICK n \in StageNames : n = phase
  BY Zenon, <1>1, StageOrder
<1>3. StageOutcome(n)
  BY EveryStage
<1>4. /\ ~Stage(n).fatal /\ wired' = wired \cup Stage(n).on /\ UNCHANGED <<config, dep, table, acked>>
      /\ masterKey' = IF n = "env" THEN loadMasterKey ELSE masterKey
      /\ rows' = IF n = "credentials" THEN Seeded ELSE rows
      /\ stores' = [kill |-> IF n = "killswitch" THEN loadKillSwitch.store ELSE stores.kill,
                    revoke |-> IF n = "revocation" THEN loadRevocation.store ELSE stores.revoke]
      /\ phase' = After(n) /\ served' = (served \/ phase' = "serving")
  BY Zenon, <1>2 DEF StagePasses
<1>5. phase' = IF k = 19 THEN "serving" ELSE Stages[k + 1]
  BY Zenon, <1>1, <1>2, <1>4, NextStage
<1>a. Audited(n)
  <2> SUFFICES ASSUME n = "optional", Asked("audit_persist") PROVE "audit_persist" \in wired
    BY DEF Audited
  <2>1. k = 18 /\ Stages[6] = "audit"
    BY <1>1, <1>2, StageOrder DEF Stages
  <2>2. "audit_persist" \in Meets("audit")
    BY DEF Meets, Settings
  <2>3. 6 \in 1 .. k - 1
    BY <2>1
  <2> QED BY Zenon, <1>1, <2>1, <2>2, <2>3 DEF Passed
<1>6. ~Hopeless(n) /\ \A s \in Meets(n) : Asked(s) => s \in wired'
  BY Zenon, <1>3, <1>4, <1>a DEF StageOutcome
<1>7. /\ stores'.kill = (IF n = "killswitch" THEN loadKillSwitch.store ELSE stores.kill)
      /\ stores'.revoke = (IF n = "revocation" THEN loadRevocation.store ELSE stores.revoke)
      /\ loadKillSwitch.store = (IF Durable THEN "postgres" ELSE "memory")
      /\ loadRevocation.store = (IF Durable THEN "postgres" ELSE "memory")
  BY Zenon, <1>4 DEF loadKillSwitch, loadRevocation
<1>8. StartTypes'
  <2>1. phase' \in StageNames \cup {"serving"}
    BY <1>5, StageOrder
  <2>2. stores' \in [{"kill", "revoke"} -> {"none", "postgres", "memory"}]
    BY Zenon, <1>4, <1>7 DEF StartTypes
  <2>3. served' \in BOOLEAN
    BY Zenon, <1>4
  <2> QED BY Zenon, <1>4, <2>1, <2>2, <2>3 DEF StartTypes
<1>9. Passed(k + 1)'
  <2> SUFFICES ASSUME NEW j \in 1 .. k
               PROVE  /\ ~Hopeless(Stages[j])'
                      /\ \A s \in Meets(Stages[j])' : Asked(s)' => s \in wired'
                      /\ Stages[j] \in {"killswitch", "revocation"} /\ Durable' =>
                           stores'[IF Stages[j] = "killswitch" THEN "kill" ELSE "revoke"] = "postgres"
    BY DEF Passed
  <2>1. CASE j = k
    BY Zenon, <1>1, <1>2, <1>4, <1>6, <1>7, <2>1, SameConfig
  <2>2. CASE j # k
    <3>1. j \in 1 .. k - 1
      BY <2>2
    <3>2. Stages[j] # n
      BY <1>1, <1>2, <2>2, StageOrder
    <3> QED BY Zenon, <1>1, <1>4, <1>7, <3>1, <3>2, SameConfig DEF Passed
  <2> QED BY Zenon, <2>1, <2>2
<1>10. StagesPassed'
  <2>1. CASE k = 19
    BY <1>5, <1>9, <2>1 DEF StagesPassed, StageNames
  <2>2. CASE k # 19
    <3>1. k + 1 \in 1 .. 19 /\ phase' = Stages[k + 1] /\ phase' # "serving"
      BY <1>5, <2>2, StageOrder DEF StageNames
    <3> QED BY Zenon, <1>9, <3>1 DEF StagesPassed
  <2> QED BY <2>1, <2>2
<1>11. StopsKept'
  BY Zenon, <1>4, SameConfig DEF StopsKept
<1>12. KeysFixed'
  <2>1. FixedKey => rows' \subseteq {TheKey}
    BY Zenon, <1>4, KeyIsFixed DEF KeysFixed, Seeded
  <2>2. FixedKey /\ config["master_key"] = "good" => masterKey' = 0
    BY Zenon, <1>4 DEF KeysFixed, loadMasterKey
  <2> QED BY Zenon, <1>4, <2>1, <2>2, SameConfig DEF KeysFixed
<1>13. ServedInv'
  <2>1. phase' = "serving" => \A m \in StageNames : ~Hopeless(m)
    <3> SUFFICES ASSUME phase' = "serving", NEW m \in StageNames PROVE ~Hopeless(m)
      OBVIOUS
    <3>1. k = 19
      BY <1>5, StageOrder DEF StageNames
    <3>2. PICK j \in 1 .. 19 : m = Stages[j]
      BY Zenon, StageOrder
    <3>3. ~Hopeless(m)'
      BY <1>9, <3>1, <3>2 DEF Passed
    <3> QED BY Zenon, <1>4, <3>3, SameConfig
  <2> QED BY Zenon, <1>4, <2>1, SameConfig DEF ServedInv
<1> QED BY Zenon, <1>8, <1>10, <1>11, <1>12, <1>13

\* A process that serves has passed every stage.
LEMMA ServingPassed ==
  ASSUME StagesPassed, phase = "serving", NEW n \in StageNames
  PROVE  /\ \A s \in Meets(n) : Asked(s) => s \in wired
         /\ n \in {"killswitch", "revocation"} /\ Durable =>
              stores[IF n = "killswitch" THEN "kill" ELSE "revoke"] = "postgres"
<1>1. PICK j \in 1 .. 19 : n = Stages[j]
  BY Zenon, StageOrder
<1>2. Passed(20) /\ j \in 1 .. 20 - 1
  BY DEF StagesPassed
<1> QED BY Zenon, <1>1, <1>2 DEF Passed

LEMMA ServingStores ==
  ASSUME StagesPassed, phase = "serving", Durable, NEW what \in {"kill", "revoke"}
  PROVE  stores[what] = "postgres"
<1>1. "killswitch" \in StageNames /\ "revocation" \in StageNames
  BY DEF StageNames
<1> QED BY Zenon, <1>1, ServingPassed

\* An acknowledged stop is written where every later process reads it.
LEMMA WriteKeeps ==
  ASSUME StartInv, NEW what \in {"kill", "revoke"}, NEW on \in BOOLEAN, Write(what, on)
  PROVE  StartInv'
<1> USE DEF StartInv
<1>1. /\ phase = "serving" /\ acked' = IF on THEN acked \cup {what} ELSE acked \ {what}
      /\ table' = IF stores[what] = "postgres"
                    THEN IF on THEN Store(what) \cup {what} ELSE Store(what) \ {what}
                    ELSE table
      /\ UNCHANGED <<config, dep, phase, wired, masterKey, stores, rows, served, boots>>
  BY Zenon DEF Write
<1>2. StartTypes'
  BY Zenon, <1>1 DEF StartTypes
<1>3. Durable => stores[what] = "postgres"
  BY Zenon, <1>1, ServingStores
<1>4. StopsKept'
  BY Zenon, <1>1, <1>3, SameConfig DEF StopsKept, Store
<1> QED BY Zenon, <1>1, <1>2, <1>4, QuietKeeps

LEMMA StoreCredentialKeeps ==
  ASSUME StartInv, StoreCredential
  PROVE  StartInv'
<1> USE DEF StartInv
<1>1. /\ phase = "serving" /\ rows' = rows \cup {CredentialKey}
      /\ UNCHANGED <<config, dep, phase, wired, masterKey, stores, table, memory, acked, served, boots>>
  BY Zenon DEF StoreCredential
<1>2. StartTypes' /\ StopsKept'
  BY Zenon, <1>1, SameConfig DEF StartTypes, StopsKept
<1>3. StagesPassed'
  BY Zenon, <1>1, SameConfig DEF StagesPassed, Passed, StageNames
<1>4. KeysFixed'
  BY Zenon, <1>1, SameConfig, KeyIsFixed DEF KeysFixed
<1>5. ServedInv'
  BY Zenon, <1>1, SameConfig DEF ServedInv
<1> QED BY Zenon, <1>2, <1>3, <1>4, <1>5

LEMMA StartInvariant == StartSpec => []StartInv
<1>1. ASSUME StartInit PROVE StartInv
  <2> USE <1>1 DEF StartInit
  <2>0. /\ dep \in [{"postgres", "redis"} -> {"up", "down"}]
        /\ stores \in [{"kill", "revoke"} -> {"none", "postgres", "memory"}]
    OBVIOUS
  <2>1. StartTypes
    BY Zenon, <2>0 DEF StartTypes
  <2>2. StagesPassed /\ StopsKept
    BY Zenon DEF StagesPassed, StopsKept, StageNames
  <2>3. KeysFixed /\ ServedInv
    BY Zenon DEF KeysFixed, ServedInv
  <2> QED BY Zenon, <2>1, <2>2, <2>3 DEF StartInv
<1>2. ASSUME StartInv, [StartNext]_startVars PROVE StartInv'
  <2> USE <1>2 DEF StartInv
  <2>1. CASE StageExits \/ Ends
    <3>1. StartTypes' /\ StopsKept'
      BY Zenon, <2>1, SameConfig DEF StageExits, Ends, StartTypes, StopsKept
    <3> QED BY Zenon, <2>1, <3>1, QuietKeeps DEF StageExits, Ends
  <2>4. ASSUME NEW to, PointerMoves(to) PROVE StartInv'
    <3>1. StartTypes' /\ StopsKept'
      BY Zenon, <2>4, SameConfig DEF PointerMoves, StartTypes, StopsKept
    <3> QED BY Zenon, <2>4, <3>1, QuietKeeps DEF PointerMoves
  <2>5. ASSUME NEW file, NEW whole, SaveSegments(file, whole) PROVE StartInv'
    <3>1. StartTypes' /\ StopsKept'
      BY Zenon, <2>5, SameConfig DEF SaveSegments, StartTypes, StopsKept
    <3> QED BY Zenon, <2>5, <3>1, QuietKeeps DEF SaveSegments
  <2>2. ASSUME NEW d \in {"postgres", "redis"}, DependencyFlips(d) PROVE StartInv'
    <3>1. StartTypes' /\ StopsKept'
      BY Zenon, <2>2, SameConfig DEF DependencyFlips, StartTypes, StopsKept
    <3> QED BY Zenon, <2>2, <3>1, QuietKeeps DEF DependencyFlips
  <2>3. CASE UNCHANGED startVars
    <3>1. StartTypes' /\ StopsKept'
      BY Zenon, <2>3, SameConfig DEF startVars, StartTypes, StopsKept
    <3> QED BY Zenon, <2>3, <3>1, QuietKeeps DEF startVars
  <2> QED BY Zenon, <2>1, <2>2, <2>3, <2>4, <2>5, BootKeeps, PassKeeps, WriteKeeps, StoreCredentialKeeps
             DEF StartNext
<1> QED BY <1>1, <1>2, PTL DEF StartSpec

-----------------------------------------------------------------------------
(* The results. *)

\* Whatever the environment and whatever was down, a gateway that main let
\* serve has built every control the environment asks for, but for those main
\* is lenient about.
THEOREM ServingEnforces == StartSpec => []EnabledMeansEnforced
<1>1. ASSUME StartInv PROVE EnabledMeansEnforced
  <2> SUFFICES ASSUME phase = "serving", NEW s \in DOMAIN config, Asked(s)
               PROVE  \/ s \in wired
                      \/ s \in {"postgres", "metrics", "approvals_off", "addr"}
                      \/ s \in Lenient /\ config[s] = "bad"
                      \/ s = "federation" /\ ~Asked("audit_persist")
                      \/ s = "cred_key" /\ ~Durable
                      \/ s = "vendor_master" /\ ~Asked("refverify")
    BY Zenon DEF EnabledMeansEnforced
  <2>1. s \in Settings
    BY Zenon, <1>1, SettingsAssumption DEF StartInv, StartTypes
  <2>2. \A n \in StageNames : s \in Meets(n) => s \in wired
    BY Zenon, <1>1, ServingPassed DEF StartInv
  <2>3. \A n \in StageNames : s \notin Meets(n) \/ s \in wired
    BY Zenon, <2>2
  <2>4. config[s] = "good" \/ config[s] = "bad"
    BY <1>1, <2>1, ConfigIs DEF StartInv, Asked
  <2> QED BY <2>1, <2>3, <2>4 DEF Meets, Settings, StageNames, Lenient, Extras
<1> QED BY <1>1, StartInvariant, PTL

\* loadKillSwitch and loadRevocation never fall back to memory when a
\* database is configured: an acknowledged stop outlives crashes and boots.
THEOREM StopsSurvive == StartSpec => []AcknowledgedStopsSurvive
<1>1. ASSUME StartInv PROVE AcknowledgedStopsSurvive
  <2> SUFFICES ASSUME phase = "serving", Durable, NEW what \in acked
               PROVE  what \in Store(what)
    BY Zenon DEF AcknowledgedStopsSurvive
  <2>1. what \in {"kill", "revoke"} /\ what \in table
    BY <1>1 DEF StartInv, StopsKept
  <2>2. stores[what] = "postgres"
    BY <1>1, <2>1, ServingStores DEF StartInv
  <2> QED BY Zenon, <2>1, <2>2 DEF Store
<1> QED BY <1>1, StartInvariant, PTL

\* A later boot of an environment that served is ended, with its dependencies
\* up, only by what was left behind: credentials under a generated key, a
\* segmentation file cut short, a live pointer to a deleted draft.
THEOREM ServedServesAgain == StartSpec => []ServesAgain
<1>1. ASSUME StartInv PROVE ServesAgain
  <2> USE <1>1 DEF StartInv
  <2> SUFFICES ASSUME served, dep = Up, phase \notin {"down", "serving"}, Stage(phase).fatal
               PROVE  \/ phase = "credentials" /\ ~Asked("master_key") /\ ~Asked("cred_key")
                      \/ phase = "segments" /\ cut # {}
                      \/ phase = "active_policy" /\ pointer = "deleted"
    BY Zenon DEF ServesAgain, Up
  <2>1. phase \in StageNames /\ ~Hopeless(phase) /\ ~Hopeless("env") /\ ~Hopeless("credentials")
    BY DEF StartTypes, ServedInv, StageNames
  <2>2. Left(phase)
    BY <2>1, EveryStage DEF StageOutcome, Up
  <2>3. ASSUME Unreadable PROVE ~Asked("master_key") /\ ~Asked("cred_key")
    <3>1. ~FixedKey
      BY Zenon, <2>3, KeyIsFixed DEF KeysFixed, Unreadable
    <3>2. config["master_key"] # "bad"
      BY <2>1 DEF Hopeless, Bad, Meets, Settings
    <3>3. config["cred_key"] # "bad"
      BY Zenon, <2>1, <2>3 DEF Hopeless, Bad, Meets, Settings, Unreadable
    <3> QED BY <3>1, <3>2, <3>3, ConfigIs DEF FixedKey, Settings, Asked
  <2> QED BY Zenon, <2>2, <2>3 DEF Left
<1> QED BY <1>1, StartInvariant, PTL

-----------------------------------------------------------------------------
(* The upstream credentials. *)

\* A replica that has settled serves the table, a reload that no write has
\* disturbed holds it, and no other reload is left to replace a settled map.
CredInv ==
  /\ DOMAIN perTool = Keepers /\ DOMAIN reload = Keepers
  /\ settled \subseteq Keepers /\ watched \subseteq Keepers
  /\ \A k \in settled : perTool[k] = credTable
  /\ \A k \in watched : reload[k] = <<credTable>>
  /\ \A k \in settled \ watched : reload[k] = <<>>
  /\ DOMAIN toSeed = Keepers /\ \A k \in Keepers : toSeed[k] # {} => reload[k] = <<>>

LEMMA CredStep == CredInv /\ [CredNext]_credVars => CredInv'
<1> SUFFICES ASSUME CredInv, [CredNext]_credVars PROVE CredInv'
  BY Zenon
<1> USE DEF CredInv
<1>1. ASSUME NEW e \in Edits, NEW k \in Keepers, NEW t \in CredTools, NEW v \in Secrets,
             SetPersists(e, k, t, v)
      PROVE  CredInv'
  BY <1>1 DEF SetPersists, Disturb
<1>2. ASSUME NEW e \in Edits, NEW k \in Keepers, NEW t \in CredTools, RemovePersists(e, k, t)
      PROVE  CredInv'
  BY Zenon, <1>2 DEF RemovePersists, Disturb
<1>3. ASSUME NEW e \in Edits, PersistFails(e) \/ EditMap(e) PROVE CredInv'
  BY Zenon, <1>3 DEF PersistFails, EditMap, Disturb
<1>4. ASSUME NEW k \in Keepers, ReloadReads(k) PROVE CredInv'
  BY Zenon, <1>4 DEF ReloadReads, Serving
<1>5. ASSUME NEW k \in Keepers, ReloadSwaps(k) PROVE CredInv'
  <2>1. k \in watched => perTool'[k] = credTable
    BY <1>5 DEF ReloadSwaps, Replaced
  <2>2. k \notin watched => k \notin settled \/ perTool'[k] = reload[k][1]
    BY Zenon, <1>5 DEF ReloadSwaps, Replaced
  <2> QED BY <1>5, <2>1, <2>2 DEF ReloadSwaps
<1>6. ASSUME NEW k \in Keepers, KeeperStarts(k) PROVE CredInv'
  BY <1>6 DEF KeeperStarts
<1>7. ASSUME NEW k \in Keepers, NEW t \in CredTools, SeedTool(k, t) PROVE CredInv'
  BY Zenon, <1>7 DEF SeedTool
<1>8. CASE UNCHANGED credVars
  BY Zenon, <1>8 DEF credVars
<1> QED BY Zenon, <1>1, <1>2, <1>3, <1>4, <1>5, <1>6, <1>7, <1>8 DEF CredNext

\* The reload timer of the credentials: a replica that has reloaded since the
\* last change injects what the table says, however calls, reloads and starts
\* of the replicas cross.
THEOREM ReloadsSettle == CredSpec => []ReloadSettles
<1>1. CredInit => CredInv
  BY Zenon DEF CredInit, CredInv
<1>2. CredInv /\ [CredNext]_credVars => CredInv'
  BY Zenon, CredStep
<1>3. CredInv => ReloadSettles
  BY Zenon DEF CredInv, ReloadSettles, HeaderFor
<1> QED BY <1>1, <1>2, <1>3, PTL DEF CredSpec

-----------------------------------------------------------------------------
(* Policy bundles. *)

INSTANCE FiniteSetTheorems

\* No two bundles of a set are for one subject.
OneEach(set) == \A x, y \in set : x.subject = y.subject => x = y

\* Installing p would leave b in force.
Beside(p, b) == p = b \/ p.subject # b.subject \/ ~Installs(p)

\* Once the subscriber has applied what is pending, b is in force.
Arrives(b) ==
  \/ \E k \in 1..Len(pending) :
       pending[k] = b /\ \A j \in 1..Len(pending) : j > k => Beside(pending[j], b)
  \/ b \in active /\ \A j \in 1..Len(pending) : Beside(pending[j], b)

BundleTypes ==
  /\ published \subseteq Grants /\ IsFiniteSet(published) /\ OneEach(published)
  /\ active \subseteq Grants /\ OneEach(active)
  /\ pending \in Seq(Grants) /\ link \in {"baseline", "apply", "connect", "watch"}

\* From a baseline on, every published bundle that verifies and was not missed
\* is in force or on its way.
BundleInv ==
  /\ BundleTypes
  /\ link # "baseline" =>
       \A b \in published : Installs(b) /\ b.subject \notin missed => Arrives(b)

LEMMA FiniteEmpty == IsFiniteSet({})
  BY FS_EmptySet

LEMMA FiniteReplaced ==
  ASSUME NEW S, NEW T, NEW x, IsFiniteSet(S), T \subseteq S
  PROVE  IsFiniteSet(T \cup {x})
  BY FS_Subset, FS_AddElement

LEMMA QueueHead ==
  ASSUME NEW S, NEW s \in Seq(S), s # <<>>
  PROVE  /\ Len(s) \in Nat /\ Len(s) >= 1 /\ Head(s) = s[1] /\ Head(s) \in S
         /\ Tail(s) \in Seq(S) /\ Len(Tail(s)) = Len(s) - 1
         /\ \A j \in 1..Len(Tail(s)) : Tail(s)[j] = s[j + 1]
  OBVIOUS

\* A baseline in any order has every published bundle and nothing else.
LEMMA BaselineArrives ==
  ASSUME NEW order \in Seq(published), pending' = order, OneEach(published),
         \A b \in published : \E k \in DOMAIN order : order[k] = b,
         NEW b \in published
  PROVE  Arrives(b)'
<1>1. DOMAIN order = 1..Len(order) /\ Len(order) \in Nat
  OBVIOUS
<1>2. PICK k \in 1..Len(order) : order[k] = b
  BY <1>1
<1>3. \A j \in 1..Len(order) : order[j] \in published
  OBVIOUS
<1> QED BY <1>2, <1>3 DEF Arrives, Beside, OneEach

\* An event that is appended arrives, and leaves the others in force.
LEMMA EventArrives ==
  ASSUME pending \in Seq(Grants), NEW p \in Grants, pending' = Append(pending, p),
         UNCHANGED <<active, trust>>
  PROVE  /\ Arrives(p)'
         /\ \A b \in Grants : Arrives(b) /\ b.subject # p.subject => Arrives(b)'
<1>1. /\ Len(pending) \in Nat /\ Len(pending') = Len(pending) + 1
      /\ pending'[Len(pending) + 1] = p
      /\ \A j \in 1..Len(pending) : pending'[j] = pending[j]
  OBVIOUS
<1>2. Arrives(p)'
  BY <1>1 DEF Arrives
<1>3. ASSUME NEW b \in Grants, Arrives(b), b.subject # p.subject
      PROVE  Arrives(b)'
  <2>1. \A q : Beside(q, b) => Beside(q, b)'
    BY DEF Beside, Installs, Verify
  <2>2. \A j \in 1..Len(pending') : j = Len(pending) + 1 \/ j \in 1..Len(pending)
    BY <1>1
  <2>3. Beside(p, b)'
    BY <1>3 DEF Beside
  <2>4. CASE \E k \in 1..Len(pending) :
          pending[k] = b /\ \A j \in 1..Len(pending) : j > k => Beside(pending[j], b)
    BY <1>1, <2>1, <2>2, <2>3, <2>4 DEF Arrives
  <2>5. CASE b \in active /\ \A j \in 1..Len(pending) : Beside(pending[j], b)
    BY <1>1, <2>1, <2>2, <2>3, <2>5 DEF Arrives
  <2> QED BY Zenon, <1>3, <2>4, <2>5 DEF Arrives
<1> QED BY <1>2, <1>3

\* What is on its way stays so when nothing that counts for it changes.
LEMMA ArrivesStill ==
  ASSUME UNCHANGED <<active, trust, pending>>, NEW b
  PROVE  Arrives(b) => Arrives(b)'
  BY Zenon DEF Arrives, Beside, Installs, Verify

\* When the head of what is pending goes, and if it counts is put in force,
\* every bundle on its way is one step nearer.
LEMMA HeadGone ==
  ASSUME pending \in Seq(Grants), pending # <<>>, UNCHANGED trust, pending' = Tail(pending),
         NEW b, Arrives(b),
         b \in active /\ Beside(Head(pending), b) => b \in active',
         Head(pending) = b => b \in active'
  PROVE  Arrives(b)'
<1>1. /\ Len(pending) \in Nat /\ Len(pending) >= 1 /\ Head(pending) = pending[1]
      /\ Len(pending') = Len(pending) - 1
      /\ \A j \in 1..Len(pending') : pending'[j] = pending[j + 1]
  BY QueueHead
<1>2. \A q : Beside(q, b) => Beside(q, b)'
  BY DEF Beside, Installs, Verify
<1>3. b \in active /\ Beside(pending[1], b) => b \in active'
  BY <1>1
<1>4. pending[1] = b => b \in active'
  BY <1>1
<1>5. CASE b \in active /\ \A j \in 1..Len(pending) : Beside(pending[j], b)
  BY <1>1, <1>2, <1>3, <1>5 DEF Arrives
<1>6. ASSUME NEW k \in 1..Len(pending), pending[k] = b,
             \A j \in 1..Len(pending) : j > k => Beside(pending[j], b)
      PROVE  Arrives(b)'
  <2>1. \A j \in 1..Len(pending') : j + 1 > k => Beside(pending[j], b)'
    BY <1>1, <1>2, <1>6
  <2>2. CASE k = 1
    BY <1>1, <1>4, <1>6, <2>1, <2>2 DEF Arrives
  <2>3. CASE k > 1
    <3>1. k - 1 \in 1..Len(pending') /\ pending'[k - 1] = b
      BY <1>1, <1>6, <2>3
    <3>2. \A j \in 1..Len(pending') : j > k - 1 => Beside(pending[j], b)'
      BY <1>1, <2>1
    <3> QED BY Zenon, <3>1, <3>2 DEF Arrives
  <2> QED BY <2>2, <2>3
<1> QED BY Zenon, <1>5, <1>6 DEF Arrives

LEMMA BundleStart == BundleInit => BundleInv
<1> SUFFICES ASSUME BundleInit PROVE BundleInv
  OBVIOUS
<1>1. IsFiniteSet(published)
  BY FiniteEmpty DEF BundleInit
<1> QED BY <1>1 DEF BundleInit, BundleInv, BundleTypes, OneEach

LEMMA PublishStep ==
  ASSUME BundleInv, NEW p \in Grants, Publish(p)
  PROVE  BundleInv'
<1>1. UNCHANGED <<trust, active, link>> /\ published' = Others(published, p.subject) \cup {p}
  BY DEF Publish
<1>2. BundleTypes'
  <2>1. OneEach(published)' /\ IsFiniteSet(published') /\ published' \subseteq Grants
    <3>1. Others(published, p.subject) \subseteq published
      BY DEF Others
    <3>2. IsFiniteSet(Others(published, p.subject) \cup {p})
      BY Zenon, <3>1, FiniteReplaced DEF BundleInv, BundleTypes
    <3>3. OneEach(published)'
      BY <1>1 DEF BundleInv, BundleTypes, OneEach, Others
    <3> QED BY <1>1, <3>1, <3>2, <3>3 DEF BundleInv, BundleTypes
  <2>2. pending' \in Seq(Grants)
    BY DEF Publish, BundleInv, BundleTypes
  <2> QED BY <1>1, <2>1, <2>2 DEF BundleTypes, BundleInv, OneEach
<1>3. ASSUME NEW b \in published', link' # "baseline", Installs(b)', b.subject \notin missed'
      PROVE  Arrives(b)'
  <2>1. b \in Grants /\ (b = p \/ (b \in published /\ b.subject # p.subject))
    BY Zenon, <1>1, <1>2, <1>3 DEF Publish, Others, BundleTypes
  <2>6. b # p => b.subject \notin missed
    BY <1>3, <2>1 DEF Publish
  <2>2. Installs(b)
    BY <1>1, <1>3 DEF Installs, Verify
  <2>3. b # p => Arrives(b)
    BY <1>1, <1>3, <2>1, <2>2, <2>6 DEF BundleInv
  <2>4. CASE link = "watch"
    BY <1>1, <2>1, <2>3, <2>4, EventArrives DEF Publish, BundleInv, BundleTypes
  <2>5. CASE link # "watch"
    <3>1. b # p /\ pending' = pending
      BY <1>1, <1>3, <2>5 DEF Publish, BundleInv, BundleTypes
    <3> QED BY <1>1, <2>3, <3>1, ArrivesStill
  <2> QED BY <2>4, <2>5
<1> QED BY <1>2, <1>3 DEF BundleInv

LEMMA WithdrawStep ==
  ASSUME BundleInv, NEW w \in Subjects, Withdraw(w)
  PROVE  BundleInv'
<1>1. published' \subseteq published /\ UNCHANGED <<trust, active, link, pending, missed>>
  BY DEF Withdraw, Others
<1>2. IsFiniteSet(published')
  BY <1>1, FS_Subset DEF BundleInv, BundleTypes
<1>3. \A b \in Grants : Arrives(b) => Arrives(b)'
  BY <1>1, ArrivesStill
<1> QED BY Zenon, <1>1, <1>2, <1>3 DEF BundleInv, BundleTypes, OneEach, Installs, Verify

LEMMA FetchBaselineStep ==
  ASSUME BundleInv, FetchBaseline
  PROVE  BundleInv'
<1>1. UNCHANGED <<trust, published, active>>
  BY DEF FetchBaseline
<1>2. ASSUME NEW order \in [1..Cardinality(published) -> published],
             \A b \in published : \E k \in DOMAIN order : order[k] = b,
             pending' = order, link' = "apply"
      PROVE  BundleInv'
  <2>1. Cardinality(published) \in Nat
    BY FS_CardinalityType DEF BundleInv, BundleTypes
  <2>2. order \in Seq(published)
    BY <2>1
  <2>3. order \in Seq(Grants)
    BY <2>2 DEF BundleInv, BundleTypes
  <2>4. \A b \in published : Arrives(b)'
    BY Zenon, <1>2, <2>2, BaselineArrives DEF BundleInv, BundleTypes
  <2> QED BY <1>1, <1>2, <2>3, <2>4 DEF BundleInv, BundleTypes, OneEach
<1>3. ASSUME link' = "connect", pending' = <<>>,
             missed' = {b.subject : b \in published \ active}
      PROVE  BundleInv'
  <2>1. \A b \in published : b.subject \notin missed' => b \in active
    BY Zenon, <1>3
  <2>2. \A b \in active : Arrives(b)'
    BY <1>1, <1>3 DEF Arrives
  <2>3. pending' \in Seq(Grants)
    BY <1>3
  <2> QED BY Zenon, <1>1, <1>3, <2>1, <2>2, <2>3 DEF BundleInv, BundleTypes, OneEach
<1> QED BY <1>2, <1>3 DEF FetchBaseline

LEMMA ConnectStep ==
  ASSUME BundleInv, Connect
  PROVE  BundleInv'
<1>1. /\ UNCHANGED <<trust, published, active, pending>> /\ link # "baseline"
      /\ link' = "baseline" \/ (link' = "watch" /\ missed' = missed)
  BY DEF Connect
<1>2. \A b \in Grants : Arrives(b) => Arrives(b)'
  BY <1>1, ArrivesStill
<1> QED BY Zenon, <1>1, <1>2 DEF BundleInv, BundleTypes, OneEach, Installs, Verify

LEMMA StreamEndsStep ==
  ASSUME BundleInv, StreamEnds
  PROVE  BundleInv'
  BY DEF BundleInv, BundleTypes, OneEach, StreamEnds

LEMMA ApplyStep ==
  ASSUME BundleInv, Apply
  PROVE  BundleInv'
<1>1. PICK h \in Grants : h = Head(pending)
  BY Zenon, QueueHead DEF Apply, BundleInv, BundleTypes
<1>2. /\ UNCHANGED <<trust, published, link, missed>> /\ pending # <<>>
      /\ pending' = Tail(pending)
      /\ active' = IF Installs(h) THEN Others(active, h.subject) \cup {h} ELSE active
  BY Zenon, <1>1 DEF Apply
<1>3. BundleTypes'
  <2>1. pending' \in Seq(Grants)
    BY <1>2, QueueHead DEF BundleInv, BundleTypes
  <2>2. active' \subseteq Grants /\ OneEach(active)'
    BY <1>1, <1>2 DEF BundleInv, BundleTypes, OneEach, Others
  <2> QED BY Zenon, <1>2, <2>1, <2>2 DEF BundleInv, BundleTypes, OneEach
<1>4. ASSUME NEW b \in published, link # "baseline", Installs(b), b.subject \notin missed
      PROVE  Arrives(b)'
  <2>1. Arrives(b) /\ pending \in Seq(Grants)
    BY <1>4 DEF BundleInv, BundleTypes
  <2>2. (b \in active /\ Beside(h, b) => b \in active') /\ (h = b => b \in active')
    BY <1>2, <1>4 DEF Beside, Others
  <2> QED BY Zenon, <1>1, <1>2, <2>1, <2>2, HeadGone
<1> QED BY Zenon, <1>2, <1>3, <1>4 DEF BundleInv, Installs, Verify

LEMMA SkipEventStep ==
  ASSUME BundleInv, SkipEvent
  PROVE  BundleInv'
<1>1. PICK h \in Grants : h = Head(pending)
  BY QueueHead DEF SkipEvent, BundleInv, BundleTypes
<1>2. /\ UNCHANGED <<trust, published, link, active>> /\ pending # <<>>
      /\ pending' = Tail(pending) /\ missed' = missed \cup {h.subject}
  BY <1>1 DEF SkipEvent
<1>3. pending' \in Seq(Grants)
  BY <1>2, QueueHead DEF BundleInv, BundleTypes
<1>4. ASSUME NEW b \in published, link # "baseline", Installs(b), b.subject \notin missed'
      PROVE  Arrives(b)'
  <2>1. Arrives(b) /\ pending \in Seq(Grants) /\ h # b
    BY Zenon, <1>2, <1>4 DEF BundleInv, BundleTypes
  <2> QED BY Zenon, <1>1, <1>2, <2>1, HeadGone
<1> QED BY Zenon, <1>2, <1>3, <1>4 DEF BundleInv, BundleTypes, OneEach, Installs, Verify

LEMMA BundleStep == BundleInv /\ [BundleNext]_bundleVars => BundleInv'
<1> SUFFICES ASSUME BundleInv, [BundleNext]_bundleVars PROVE BundleInv'
  OBVIOUS
<1>1. CASE GrantClock \/ UNCHANGED bundleVars
  <2>1. UNCHANGED <<trust, published, active, link, pending, missed>>
    BY <1>1 DEF GrantClock, bundleVars
  <2>2. \A b \in Grants : Arrives(b) => Arrives(b)'
    BY <2>1, ArrivesStill
  <2> QED BY Zenon, <2>1, <2>2 DEF BundleInv, BundleTypes, OneEach, Installs, Verify
<1> QED BY <1>1, PublishStep, WithdrawStep, FetchBaselineStep, ConnectStep, StreamEndsStep,
           ApplyStep, SkipEventStep DEF BundleNext

\* A permit that is enforced comes from the path that refuses nothing.
LEMMA PermitWithin ==
  ASSUME NEW b \in Grants, NEW req \in GrantRequests, grantNow \in Int,
         decide(b, Paths(b, req)).decision = "PERMIT", ~decide(b, Paths(b, req)).monitor
  PROVE  WithinGrant(b, req)
<1>1. PICK path : path = Paths(b, req)
  OBVIOUS
<1>2. path[1] = "PERMIT"
  <2>1. /\ decide(b, path).monitor = (b.observe /\ path[1] # "PERMIT")
        /\ decide(b, path).decision = IF b.observe /\ path[1] # "PERMIT" THEN "PERMIT" ELSE path[1]
    BY Zenon DEF decide
  <2> QED BY Zenon, <1>1, <2>1
<1>3. b.until = 0 \/ grantNow <= b.until
  <2> SUFFICES ASSUME b.until # 0, grantNow > b.until PROVE FALSE
    BY GrantsAssumption
  <2>1. path = <<"DENY", "capability">>
    BY Zenon, <1>1 DEF Paths
  <2> QED BY Zenon, <1>2, <2>1
<1>4. ~(b.until # 0 /\ grantNow > b.until)
  BY <1>3, GrantsAssumption
<1>5. b.tools = {} \/ req.tool \in b.tools
  <2> SUFFICES ASSUME b.tools # {}, req.tool \notin b.tools PROVE FALSE
    OBVIOUS
  <2>1. path = <<"DENY", "capability">>
    BY Zenon, <1>1, <1>3, <1>4 DEF Paths
  <2> QED BY <1>2, <2>1
<1>6. ~(b.guard /\ b.enabled /\ Escalate(b, req))
  <2> SUFFICES ASSUME b.guard, b.enabled, Escalate(b, req) PROVE FALSE
    OBVIOUS
  <2>1. path = <<"ESCALATE", "actionguard_magnitude">>
    BY Zenon, <1>1, <1>4, <1>5 DEF Paths
  <2> QED BY <1>2, <2>1
<1> QED BY <1>3, <1>5, <1>6, GrantsAssumption DEF WithinGrant, Escalate

\* Subscriber.Run: on a node whose stream is open and read to the end, what is
\* permitted and enforced lies within what is published, for any bundles,
\* publications, broken streams and lost acknowledgements.  A failed baseline
\* leaves out only the subjects whose bundle had changed by then, until they
\* are published again.
THEOREM NodeFollowsPublished == BundleSpec => []PermitsWithinPublished
<1>1. BundleInv /\ grantNow \in Int => PermitsWithinPublished
  <2> SUFFICES ASSUME BundleInv, grantNow \in Int, link = "watch", pending = <<>>,
                      NEW req \in GrantRequests, NEW b \in published,
                      b.subject = req.subject, Installs(b), b.subject \notin missed
               PROVE  /\ bundleDecision(req) # {}
                      /\ \A r \in bundleDecision(req) :
                           r.decision = "PERMIT" /\ ~r.monitor => WithinGrant(b, req)
    BY Zenon DEF PermitsWithinPublished
  <2>1. b \in active /\ b \in Grants
    BY DEF BundleInv, BundleTypes, Arrives
  <2>2. {a \in active : a.subject = req.subject} = {b}
    BY <2>1 DEF BundleInv, BundleTypes, OneEach
  <2>3. bundleDecision(req) = {decide(b, Paths(b, req))}
    BY <2>2 DEF bundleDecision
  <2> QED BY Zenon, <2>1, <2>3, PermitWithin
<1>2. BundleInit => grantNow \in Int
  BY DEF BundleInit
<1>3. grantNow \in Int /\ [BundleNext]_bundleVars => (grantNow \in Int)'
  <2>1. [BundleNext]_bundleVars => grantNow' = grantNow \/ grantNow' = grantNow + 1
    BY Zenon DEF BundleNext, bundleVars, Publish, Withdraw, FetchBaseline, Connect, StreamEnds,
       Apply, SkipEvent, GrantClock
  <2> QED BY <2>1
<1> QED BY <1>1, <1>2, <1>3, BundleStart, BundleStep, PTL DEF BundleSpec
=============================================================================
