---------------------------- MODULE Credentials ------------------------------
(***************************************************************************)
(* The per-tool upstream credentials (internal/credentials): a table that  *)
(* the replicas share and a map in each of them that calls are served      *)
(* from.  Set and Remove write the table and then the map, the reload      *)
(* timer reads the table and then replaces the map, and a start loads the  *)
(* table and adds the tools of the environment it has not found in it.     *)
(***************************************************************************)
EXTENDS Naturals

CONSTANTS
  Keepers,         \* gateway replicas
  CredTools,       \* tool names
  Secrets,         \* header values, "" is malformed
  Seed,            \* INTENTGATE_UPSTREAM_TOOL_CREDENTIALS: tools to secrets
  Edits,           \* names of the administrators' calls
  MaxKeeperStops   \* restarts

VARIABLES
  credTable,   \* upstream_credentials: tool to secret
  perTool,     \* each replica's map
  edit,        \* the calls: where they are and what they are about
  reload,      \* of each replica: idle, or the table it has read
  toSeed,      \* of each replica: the tools its start has still to add, or <<>>
  settled,     \* history: replicas that began and ended a reload or a start
               \* since the last write of the table or by a call of a map
  watched,     \* history: replicas whose reload has had no such write so far
  keeperStops

credVars == <<credTable, perTool, edit, reload, toSeed, settled, watched, keeperStops>>

Without(f, t) == [u \in DOMAIN f \ {t} |-> f[u]]
With(f, t, v) == [u \in DOMAIN f \cup {t} |-> IF u = t THEN v ELSE f[u]]
IdleEdit == [pc |-> "new", at |-> CHOOSE k \in Keepers : TRUE,
             tool |-> CHOOSE t \in CredTools : TRUE, set |-> <<>>]

CredInit ==
  /\ credTable = Seed
  /\ perTool = [k \in Keepers |-> credTable]
  /\ edit = [e \in Edits |-> IdleEdit]
  /\ reload = [k \in Keepers |-> <<>>]
  /\ toSeed = [k \in Keepers |-> {}]
  /\ settled = Keepers
  /\ watched = {}
  /\ keeperStops = 0

Serving(k) == toSeed[k] = {}

\* A write that a reload under way may have missed.
Disturb == settled' = {} /\ watched' = {}

\* parseHeader
parseHeader(raw) == raw # ""

\* The Set handler up to the table: a malformed credential is refused.
SetPersists(e, k, t, v) ==
  /\ edit[e].pc = "new" /\ Serving(k)
  /\ IF parseHeader(v)
       THEN /\ credTable' = With(credTable, t, v)
            /\ edit' = [edit EXCEPT ![e] = [pc |-> "map", at |-> k, tool |-> t, set |-> <<v>>]]
            /\ Disturb
       ELSE /\ edit' = [edit EXCEPT ![e].pc = "refused"]
            /\ UNCHANGED <<credTable, settled, watched>>
  /\ UNCHANGED <<perTool, reload, toSeed, keeperStops>>

\* The Delete handler up to the table.
RemovePersists(e, k, t) ==
  /\ edit[e].pc = "new" /\ Serving(k)
  /\ credTable' = Without(credTable, t)
  /\ edit' = [edit EXCEPT ![e] = [pc |-> "map", at |-> k, tool |-> t, set |-> <<>>]]
  /\ Disturb
  /\ UNCHANGED <<perTool, reload, toSeed, keeperStops>>

\* upsertMeta or remove fails and the map is left alone.
PersistFails(e) ==
  /\ edit[e].pc = "new"
  /\ edit' = [edit EXCEPT ![e].pc = "refused"]
  /\ UNCHANGED <<credTable, perTool, reload, toSeed, settled, watched, keeperStops>>

\* s.perTool[tool] = entry, or delete, under the lock.
EditMap(e) ==
  LET k == edit[e].at
      t == edit[e].tool IN
  /\ edit[e].pc = "map"
  /\ perTool' = [perTool EXCEPT ![k] = IF edit[e].set = <<>> THEN Without(@, t)
                                       ELSE With(@, t, edit[e].set[1])]
  /\ edit' = [edit EXCEPT ![e] = [IdleEdit EXCEPT !.pc = "done"]]
  /\ Disturb
  /\ UNCHANGED <<credTable, reload, toSeed, keeperStops>>

\* Reload, loadAllMeta; a failed read ends it.
ReloadReads(k) ==
  /\ Serving(k) /\ reload[k] = <<>>
  /\ reload' = [reload EXCEPT ![k] = <<credTable>>]
  /\ watched' = watched \cup {k}
  /\ UNCHANGED <<credTable, perTool, edit, toSeed, settled, keeperStops>>

\* Mutant: what was read is merged into the map.
Merged(k, table) ==
  [t \in DOMAIN perTool[k] \cup DOMAIN table |->
     IF t \in DOMAIN table THEN table[t] ELSE perTool[k][t]]

\* s.perTool = next
Replaced(k, table) == table

ReloadSwaps(k) ==
  /\ reload[k] # <<>>
  /\ perTool' = [perTool EXCEPT ![k] = Replaced(k, reload[k][1])]
  /\ reload' = [reload EXCEPT ![k] = <<>>]
  /\ settled' = IF k \in watched THEN settled \cup {k} ELSE settled
  /\ watched' = watched \ {k}
  /\ UNCHANGED <<credTable, edit, toSeed, keeperStops>>

\* A restart: the calls it was serving are gone; NewPostgres loads the table
\* and finds which tools of the environment are not in it ...
KeeperStarts(k) ==
  /\ keeperStops < MaxKeeperStops
  /\ keeperStops' = keeperStops + 1
  /\ perTool' = [perTool EXCEPT ![k] = credTable]
  /\ toSeed' = [toSeed EXCEPT ![k] = DOMAIN Seed \ DOMAIN credTable]
  /\ reload' = [reload EXCEPT ![k] = <<>>]
  /\ edit' = [e \in Edits |-> IF edit[e].pc = "map" /\ edit[e].at = k
                                THEN [IdleEdit EXCEPT !.pc = "refused"] ELSE edit[e]]
  /\ settled' = settled \cup {k}
  /\ watched' = watched \ {k}
  /\ UNCHANGED credTable

\* ... and adds them one by one.
SeedTool(k, t) ==
  /\ t \in toSeed[k]
  /\ toSeed' = [toSeed EXCEPT ![k] = @ \ {t}]
  /\ credTable' = With(credTable, t, Seed[t])
  /\ perTool' = [perTool EXCEPT ![k] = With(@, t, Seed[t])]
  /\ settled' = settled \cap {k} /\ watched' = {}
  /\ UNCHANGED <<edit, reload, keeperStops>>

CredNext ==
  \/ \E e \in Edits : \/ \E k \in Keepers, t \in CredTools :
                           (\E v \in Secrets : SetPersists(e, k, t, v)) \/ RemovePersists(e, k, t)
                      \/ PersistFails(e) \/ EditMap(e)
  \/ \E k \in Keepers : \/ ReloadReads(k) \/ ReloadSwaps(k) \/ KeeperStarts(k)
                        \/ \E t \in CredTools : SeedTool(k, t)

CredSpec == CredInit /\ [][CredNext]_credVars

\* HeaderFor: the header a call to a tool gets, or none.
HeaderFor(k, t) == IF t \in DOMAIN perTool[k] THEN <<perTool[k][t]>> ELSE <<>>

-----------------------------------------------------------------------------
\* main.go: "Refresh per-tool credentials from Postgres on a timer so a change
\* made via the console on one replica propagates to the others."  A replica
\* that has reloaded since the last change injects for every tool what the
\* table says, and nothing for a tool that was removed, even if calls and
\* older reloads on several replicas crossed before.
ReloadSettles ==
  \A k \in settled, t \in CredTools :
    HeaderFor(k, t) = IF t \in DOMAIN credTable THEN <<credTable[t]>> ELSE <<>>
=============================================================================
