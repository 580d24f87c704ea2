------------------------------- MODULE Startup -------------------------------
(***************************************************************************)
(* The gateway's start (cmd/gateway/main.go) and the server it builds      *)
(* (internal/server/server.go): which settings end the process when they   *)
(* cannot be met, which are only logged, which store each component gets,  *)
(* and what a restart keeps.                                               *)
(*                                                                         *)
(* A setting is "off", "good", or "bad": set to something that cannot be   *)
(* used.  postgres is the DSN, whose database may be down at a boot.       *)
(***************************************************************************)
EXTENDS Naturals, Sequences

CONSTANTS
  Configs,    \* environments: functions from Settings to off, good, bad
  MaxBoots    \* starts of the process

AlertSinks == {"splunk", "datadog", "sentinel"}
StreamSinks == {"otlp", "siem_webhook", "kafka", "servicenow"}
CloudSinks == {"s3", "kinesis", "tencent", "eventbridge", "firehose"}

Settings ==
  {"redaction", "master_key", "pii", "schemas", "tenant_scope", "isolation", "action_guard",
   "refverify", "vendor_master", "east_west", "tool_scope", "policy_file", "redis",
   "audit_target", "audit_persist", "payload_capture", "pubsub", "webhook", "risk",
   "tool_creds", "cred_key", "upstream", "postgres", "tasks", "approvals", "policy_store",
   "tenant_admins", "admin_token", "tracing", "deception", "federation", "directives",
   "bundles", "intentgrant", "observations", "outcomes", "metrics", "approvals_off", "addr"}
  \cup AlertSinks \cup StreamSinks \cup CloudSinks

\* The settings that are compared with "true" or taken as they are: no value
\* of theirs is bad.
Switchable == {"admin_token", "metrics", "approvals_off", "tasks", "audit_persist"}

ASSUME SettingsAssumption ==
  /\ MaxBoots \in Nat
  /\ Configs \subseteq [Settings -> {"off", "good", "bad"}]
  /\ \A c \in Configs : \A s \in Switchable : c[s] # "bad"

VARIABLES
  config,     \* the environment, the same at every boot
  dep,        \* [postgres, redis]: up or down
  phase,      \* "down", "serving", or the stage of main that is next
  wired,      \* what the process has built so far
  masterKey,  \* of the process: 0, the configured key, or the boot that generated it
  stores,     \* of the process: postgres or memory, for the switch and the revocations
  table,      \* in Postgres: kills and revocations
  memory,     \* of the process: kills and revocations held in memory
  rows,       \* keys under which the tool credentials in Postgres are encrypted
  pointer,    \* in Postgres: the live draft, "none", "stored", or "deleted"
  cut,        \* segmentation files that a failed save cut short
  acked,      \* history: kills and revocations acknowledged and not released
  served,     \* history: this environment has served before
  boots

kept == <<pointer, cut>>

startVars == <<config, dep, phase, wired, masterKey, stores, table, memory, rows, kept,
               acked, served, boots>>

Stages == <<"env", "content", "effect", "segments", "policy", "audit", "sinks",
            "credentials", "upstream", "revocation", "killswitch", "tasks", "approvals",
            "policy_store", "active_policy", "admins", "tracing", "optional", "listen">>

StartInit ==
  /\ config \in Configs
  /\ dep = [postgres |-> "up", redis |-> "up"]
  /\ phase = "down"
  /\ wired = {} /\ masterKey = 0
  /\ stores = [kill |-> "none", revoke |-> "none"]
  /\ table = {} /\ memory = {} /\ rows = {}
  /\ pointer = "none" /\ cut = {}
  /\ acked = {} /\ served = FALSE /\ boots = 0

Asked(s) == config[s] # "off"
Bad(set) == \E s \in set : config[s] = "bad"
Good(set) == {s \in set : config[s] = "good"}
Durable == Asked("postgres")
Reachable == dep.postgres = "up"

-----------------------------------------------------------------------------
(* The stages of main, in order: when each ends the process, and what it   *)
(* builds otherwise.                                                       *)

\* The argument redaction mode and the master key; without a key, one for
\* this boot alone is generated.
ReadEnv == [fatal |-> Bad({"redaction", "master_key"}), on |-> Good({"redaction", "master_key"})]

loadMasterKey == IF config["master_key"] = "good" THEN 0 ELSE boots

\* Mutant: a schema file that does not parse leaves the check off.
ContentChecksLenient ==
  [fatal |-> Bad({"pii", "tenant_scope"}), on |-> Good({"pii", "schemas", "tenant_scope"})]

\* PII filter, output schemas, tenant scope.
ContentChecks ==
  [fatal |-> Bad({"pii", "schemas", "tenant_scope"}), on |-> Good({"pii", "schemas", "tenant_scope"})]

\* Fault isolation, action guard, reference verification.  A vendor master that
\* cannot be read is logged and leaves the verifier on without one.
EffectGuards ==
  [fatal |-> Bad({"isolation", "action_guard", "refverify"}),
   on |-> Good({"isolation", "action_guard", "refverify"})
          \cup IF config["refverify"] = "good" THEN Good({"vendor_master"}) ELSE {}]

\* East-west guard and tool scope, each read from its file.
SegmentGuards ==
  [fatal |-> Bad({"east_west", "tool_scope"}) \/ cut # {}, on |-> Good({"east_west", "tool_scope"})]

\* loadPolicyEngine, loadBudgetStore: the Redis client is pinged.
PolicyAndBudget ==
  [fatal |-> Bad({"policy_file", "redis"}) \/ (Asked("redis") /\ dep.redis = "down"),
   on |-> Good({"policy_file", "redis"})]

\* What is asked for and needs the database cannot be had without it.
Needs(set) == (\E s \in set : Asked(s)) /\ ~(Durable /\ Reachable)

loadAuditStore == [fatal |-> Needs({"audit_persist"}), on |-> Good({"audit_persist"})]

\* Capture with no tool selected, or a retention or a cap that does not parse.
loadPayloadCapture ==
  [fatal |-> Bad({"payload_capture"}) \/ Needs({"payload_capture"}), on |-> Good({"payload_capture"})]

\* audit.FromTarget, and the store and the capture on top of it.
AuditTargets ==
  [fatal |-> Bad({"audit_target"}) \/ loadAuditStore.fatal \/ loadPayloadCapture.fatal,
   on |-> Good({"audit_target"}) \cup loadAuditStore.on \cup loadPayloadCapture.on]

\* loadSIEM: a sink that is half configured or cannot be built is fatal, but
\* Pub/Sub with one of its two names is not built.
loadSIEM ==
  [fatal |-> Bad(AlertSinks \cup StreamSinks \cup CloudSinks),
   on |-> Good(AlertSinks \cup StreamSinks \cup CloudSinks \cup {"pubsub"})]

\* loadWebhook and the risk register exporter.
Notifiers == [fatal |-> Bad({"webhook", "risk"}), on |-> Good({"webhook", "risk"})]

Sinks == [fatal |-> loadSIEM.fatal \/ Notifiers.fatal, on |-> loadSIEM.on \cup Notifiers.on]

\* credentialEncryptionKey: its own key, or one derived from the master key.
CredentialKey == IF config["cred_key"] = "good" THEN MaxBoots + 1 ELSE masterKey

\* Mutant: the seed is inserted again at every boot, and conflicts.
CredentialsSeedTwice ==
  [fatal |-> \/ Bad({"tool_creds"})
             \/ Durable /\ (Bad({"cred_key"}) \/ ~Reachable \/ rows \ {CredentialKey} # {})
             \/ Durable /\ Asked("tool_creds") /\ CredentialKey \in rows,
   on |-> Good({"tool_creds"}) \cup IF Durable THEN Good({"cred_key"}) ELSE {}]

\* loadCredentials: with a database every row is decrypted, and the seed of
\* the environment is added.
loadCredentials ==
  [fatal |-> \/ Bad({"tool_creds"})
             \/ Durable /\ (Bad({"cred_key"}) \/ ~Reachable \/ rows \ {CredentialKey} # {}),
   on |-> Good({"tool_creds"}) \cup IF Durable THEN Good({"cred_key"}) ELSE {}]

loadUpstream == [fatal |-> Bad({"upstream"}), on |-> Good({"upstream"})]

Seeded == IF Durable /\ Asked("tool_creds") THEN rows \cup {CredentialKey} ELSE rows

\* Mutant: an unreachable database falls back to memory.
KillSwitchFallsBack ==
  [fatal |-> FALSE, on |-> {}, store |-> IF Durable /\ Reachable THEN "postgres" ELSE "memory"]

\* loadKillSwitch
loadKillSwitch ==
  [fatal |-> Durable /\ ~Reachable, on |-> {}, store |-> IF Durable THEN "postgres" ELSE "memory"]

\* loadRevocation
loadRevocation ==
  [fatal |-> Durable /\ ~Reachable, on |-> {}, store |-> IF Durable THEN "postgres" ELSE "memory"]

\* loadTaskBinder: thresholds that do not parse keep their defaults.
loadTaskBinder == [fatal |-> Asked("tasks") /\ Durable /\ ~Reachable, on |-> Good({"tasks"})]

\* loadApprovals, loadPolicyStore: "good" is the backend "postgres", which
\* must be there; any other name than off and memory is refused.
loadApprovals ==
  [fatal |-> Bad({"approvals"}) \/ Needs({"approvals"}), on |-> Good({"approvals"})]
loadPolicyStore ==
  [fatal |-> Bad({"policy_store"}) \/ Needs({"policy_store"}), on |-> Good({"policy_store"})]

\* reloadActivePolicy: the live draft is read and compiled before the server
\* takes a call.
reloadActivePolicy ==
  [fatal |-> Asked("policy_store") /\ (~Reachable \/ pointer = "deleted"), on |-> {}]

\* A pair without a colon, an empty half or a tenant named twice.
parseTenantAdmins ==
  [fatal |-> Bad({"tenant_admins"}), on |-> Good({"tenant_admins", "admin_token"})]
loadTracing == [fatal |-> Bad({"tracing"}), on |-> Good({"tracing"})]

\* Deception, federation, directives, bundles and the IntentGrant endpoint:
\* what cannot be used is logged and left out.
OptionalParts ==
  [fatal |-> FALSE,
   on |-> Good({"deception", "directives", "bundles", "intentgrant", "observations", "outcomes"})
          \cup IF "audit_persist" \in wired THEN Good({"federation"}) ELSE {}]

Stage(name) ==
  CASE name = "env" -> ReadEnv
    [] name = "content" -> ContentChecks
    [] name = "effect" -> EffectGuards
    [] name = "segments" -> SegmentGuards
    [] name = "policy" -> PolicyAndBudget
    [] name = "audit" -> AuditTargets
    [] name = "sinks" -> Sinks
    [] name = "credentials" -> loadCredentials
    [] name = "upstream" -> loadUpstream
    [] name = "revocation" -> loadRevocation
    [] name = "killswitch" -> loadKillSwitch
    [] name = "tasks" -> loadTaskBinder
    [] name = "approvals" -> loadApprovals
    [] name = "policy_store" -> loadPolicyStore
    [] name = "active_policy" -> reloadActivePolicy
    [] name = "admins" -> parseTenantAdmins
    [] name = "tracing" -> loadTracing
    [] name = "optional" -> OptionalParts
    [] name = "listen" -> [fatal |-> Bad({"addr"}), on |-> {}]

-----------------------------------------------------------------------------
Boot ==
  /\ phase = "down" /\ boots < MaxBoots
  /\ boots' = boots + 1
  /\ phase' = Stages[1]
  /\ wired' = {} /\ memory' = {}
  /\ masterKey' = 0 /\ stores' = [kill |-> "none", revoke |-> "none"]
  /\ UNCHANGED <<config, dep, table, rows, kept, acked, served>>

After(name) ==
  LET k == CHOOSE i \in DOMAIN Stages : Stages[i] = name IN
  IF k = Len(Stages) THEN "serving" ELSE Stages[k + 1]

\* A stage of main: os.Exit(1), or what it builds.
StagePasses ==
  /\ phase \notin {"down", "serving"}
  /\ ~Stage(phase).fatal
  /\ wired' = wired \cup Stage(phase).on
  /\ phase' = After(phase)
  /\ masterKey' = IF phase = "env" THEN loadMasterKey ELSE masterKey
  /\ rows' = IF phase = "credentials" THEN Seeded ELSE rows
  /\ stores' = [kill |-> IF phase = "killswitch" THEN loadKillSwitch.store ELSE stores.kill,
                revoke |-> IF phase = "revocation" THEN loadRevocation.store ELSE stores.revoke]
  /\ served' = (served \/ phase' = "serving")
  /\ UNCHANGED <<config, dep, table, memory, kept, acked, boots>>

StageExits ==
  /\ phase \notin {"down", "serving"}
  /\ Stage(phase).fatal
  /\ phase' = "down"
  /\ UNCHANGED <<config, dep, wired, masterKey, stores, table, memory, rows, kept, acked, served,
                 boots>>

\* Kill switch and revocation, in the store the process was given.
Store(what) == IF stores[what] = "postgres" THEN table ELSE memory

Write(what, on) ==
  LET set == IF on THEN Store(what) \cup {what} ELSE Store(what) \ {what} IN
  /\ phase = "serving"
  /\ stores[what] = "postgres" => Reachable
  /\ set # Store(what)
  /\ table' = IF stores[what] = "postgres" THEN set ELSE table
  /\ memory' = IF stores[what] = "postgres" THEN memory ELSE set
  /\ acked' = IF on THEN acked \cup {what} ELSE acked \ {what}
  /\ UNCHANGED <<config, dep, phase, wired, masterKey, stores, rows, kept, served, boots>>

\* A tool credential is set through the console.
StoreCredential ==
  /\ phase = "serving" /\ Durable /\ Reachable
  /\ rows' = rows \cup {CredentialKey}
  /\ rows' # rows
  /\ UNCHANGED <<config, dep, phase, wired, masterKey, stores, table, memory, kept, acked, served,
                 boots>>

\* The live draft changes, here or on a sibling.  It is one that was deleted
\* when DeleteDraft commits between the check and the write of Promote.
PointerMoves(to) ==
  /\ served /\ config["policy_store"] = "good" /\ Reachable
  /\ to # pointer /\ pointer' = to
  /\ UNCHANGED <<config, dep, phase, wired, masterKey, stores, table, memory, rows, cut, acked,
                 served, boots>>

\* A save of the segmentation writes a file, or fails and leaves it cut short.
SaveSegments(file, whole) ==
  /\ phase = "serving" /\ file \in wired
  /\ cut' = IF whole THEN cut \ {file} ELSE cut \cup {file}
  /\ cut' # cut
  /\ UNCHANGED <<config, dep, phase, wired, masterKey, stores, table, memory, rows, pointer,
                 acked, served, boots>>

\* The process ends, by a signal or a crash.
Ends ==
  /\ phase # "down"
  /\ phase' = "down"
  /\ UNCHANGED <<config, dep, wired, masterKey, stores, table, memory, rows, kept, acked, served,
                 boots>>

DependencyFlips(d) ==
  /\ d = "postgres" => Durable
  /\ d = "redis" => Asked("redis")
  /\ dep' = [dep EXCEPT ![d] = IF @ = "up" THEN "down" ELSE "up"]
  /\ UNCHANGED <<config, phase, wired, masterKey, stores, table, memory, rows, kept, acked, served,
                 boots>>

StartNext ==
  \/ Boot \/ StagePasses \/ StageExits \/ StoreCredential \/ Ends
  \/ Write("kill", TRUE) \/ Write("kill", FALSE) \/ Write("revoke", TRUE)
  \/ \E to \in {"none", "stored", "deleted"} : PointerMoves(to)
  \/ \E file \in {"east_west", "tool_scope"}, whole \in BOOLEAN : SaveSegments(file, whole)
  \/ \E d \in {"postgres", "redis"} : DependencyFlips(d)

StartSpec == StartInit /\ [][StartNext]_startVars

-----------------------------------------------------------------------------
(* The server: routes, and the writer a handler gets.                      *)

\* server.New: the data plane.
CoreRoutes ==
  {"healthz", "tool-call", "mcp", "reply"}
  \cup IF Asked("metrics") THEN {"metrics"} ELSE {}

\* The IntentGrant endpoint, mounted when its client could be built.
IntentGrantRoute == IF "intentgrant" \in wired THEN {"mcp/ig"} ELSE {}

\* The admin API.
AdminRoutes ==
  {"revoke", "revocations", "mint", "grant", "tenants", "segmentation", "kill-switch",
   "audit/stream"}
  \cup (IF "tasks" \in wired THEN {"tasks"} ELSE {})
  \cup (IF Durable \/ "tool_creds" \in wired THEN {"upstream-credentials"} ELSE {})

\* Its routes over the audit store and the optional stores.
EvidenceRoutes ==
  {"preview", "integrations"}
  \cup (IF "audit_persist" \in wired
          THEN {"audit", "flow-map", "agents", "verify", "export", "dry-run", "proof"} ELSE {})
  \cup (IF "payload_capture" \in wired THEN {"payloads"} ELSE {})
  \cup (IF config["approvals_off"] = "off" THEN {"approvals"} ELSE {})
  \cup (IF "policy_store" \in wired THEN {"policies"} ELSE {})

\* The admin API is mounted when there is somebody to authenticate.
Routes ==
  CoreRoutes \cup IntentGrantRoute
  \cup IF wired \cap {"admin_token", "tenant_admins"} = {} THEN {}
        ELSE AdminRoutes \cup EvidenceRoutes

\* What the writer of net/http can do, and what is left of it once it is
\* embedded in a statusRecorder.
NetWriter == {"Header", "Write", "WriteHeader", "Flush"}
statusRecorder(w) == w \cap {"Header", "Write", "WriteHeader"}

\* chain: recoverer, requestLogger and metricsMiddleware around the routes.
HandlerWriter == statusRecorder(statusRecorder(NetWriter))

\* What an authorized request to a route is answered with: the audit stream
\* needs a writer that flushes.
Answer(route) ==
  IF route \notin Routes THEN 404
  ELSE IF route = "audit/stream" /\ "Flush" \notin HandlerWriter THEN 500
  ELSE 200

-----------------------------------------------------------------------------
\* The settings main only logs when they cannot be used.
Lenient == {"deception", "federation", "directives", "pubsub", "bundles", "intentgrant",
            "observations", "outcomes", "vendor_master"}

\* main: a setting that cannot be met ends the process rather than leave the
\* gateway without what the operator asked for.  A gateway that serves has
\* built every control that is set, whatever was down or misspelt at its boot,
\* but for those main is lenient about, and of these it has built every one
\* that can be used.  Federation needs the audit store, an encryption key the
\* database, a vendor master its verifier.
EnabledMeansEnforced ==
  phase = "serving" =>
    \A s \in DOMAIN config :
      Asked(s) => \/ s \in wired
                  \/ s \in {"postgres", "metrics", "approvals_off", "addr"}
                  \/ s \in Lenient /\ config[s] = "bad"
                  \/ s = "federation" /\ ~Asked("audit_persist")
                  \/ s = "cred_key" /\ ~Durable
                  \/ s = "vendor_master" /\ ~Asked("refverify")

\* loadKillSwitch and loadRevocation: with a database, a kill or a revocation
\* that was acknowledged and not released is seen by every process that
\* serves later, through crashes and boots while the database is down.
AcknowledgedStopsSurvive ==
  phase = "serving" /\ Durable => \A what \in acked : what \in Store(what)

\* An environment that served once serves again: with the database and Redis
\* up no stage of main ends a later boot, whatever the gateway and its
\* operators stored meanwhile, but for three things they left behind:
\* credentials encrypted under the key an earlier boot generated, a
\* segmentation file that a failed save cut short, and a live pointer to a
\* draft that was deleted (loadCredentials, the reading of the two files, and
\* reloadActivePolicy).
ServesAgain ==
  /\ served /\ dep = [postgres |-> "up", redis |-> "up"]
  /\ phase \notin {"down", "serving"} /\ Stage(phase).fatal
  => \/ phase = "credentials" /\ ~Asked("master_key") /\ ~Asked("cred_key")
     \/ phase = "segments" /\ cut # {}
     \/ phase = "active_policy" /\ pointer = "deleted"

\* server.go mounts the live stream next to the Runtime Monitor ("it powers
\* the Runtime Monitor live stream even on stdout-only deployments with no
\* persistence"): every route that is mounted answers an authorized request.
MountedRoutesAnswer == phase = "serving" => \A r \in Routes : Answer(r) # 500
=============================================================================
