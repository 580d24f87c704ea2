---------------------------- MODULE Segmentation -----------------------------
(***************************************************************************)
(* Who may call whom: the east-west guard and the per-group tool scope     *)
(* (internal/eastwest, internal/zonescope), the handler that saves both    *)
(* while calls are decided (internal/handlers/admin.go), and the files a   *)
(* restarted gateway reads them from (cmd/gateway/main.go).                *)
(*                                                                         *)
(* A tool name is a pair <<prefix, rest>>; an optional field of a request  *)
(* is <<>> when it was not sent and <<value>> when it was.                 *)
(***************************************************************************)
EXTENDS Integers, Sequences, FiniteSets

CONSTANTS
  Callers,        \* agents
  Plain,          \* names of tools that are not agents
  AnyAgent,       \* what a pattern accepts: pattern -> set of agents
  Padded,         \* names with space around them: name -> name without it
  EnvPrefix, DefaultPrefix,
  FirstFile, FirstScopes,   \* contents of the two files at the first start
  SaveBodies,     \* bodies of PUT /v1/admin/segmentation
  Savers,         \* concurrent requests
  MaxSegTime, MaxSaves

\* The fields of a ruleset but for its prefix, and those of a write request.
RuleFields == {"pairs", "rules", "zones", "edges", "intra", "observe"}
BodyFields == RuleFields \cup {"prefix", "groups", "groupCalls", "intraZone", "scopes"}

\* The fields of a request that decode to a boolean, sent or not.
Flags == {"intra", "observe"}

\* Every field of a file or body is there.
ASSUME BodiesAssumption ==
  /\ DOMAIN FirstFile = RuleFields \cup {"prefix"}
  /\ \A b \in SaveBodies : DOMAIN b = BodyFields

VARIABLES
  live,       \* the ruleset of the east-west guard
  scopes,     \* the scopes of the tool-scope guard
  eastFile, scopeFile,   \* [ok, cfg]: a file that was cut short is not ok
  paths,      \* is the guard on, is each file configured?
  savers,     \* requests in progress
  quiet,      \* since the last start no save overlapped another or failed
  intent,     \* the rules the saves since the last start asked for
  unsaid,     \* the flags the last save since the last start did not send
  segTime, saves

segVars == <<live, scopes, eastFile, scopeFile, paths, savers, quiet, intent, unsaid, segTime, saves>>

NoName == ""
Sent(opt) == opt # <<>>
Given(opt, otherwise) == IF opt = <<>> THEN otherwise ELSE opt[1]

(***************************************************************************)
(* The guard.  A rule is [from, to, expires], 0 is no expiry; a bare pair  *)
(* is a rule without one.                                                  *)
(***************************************************************************)
isPattern(s) == s \in DOMAIN AnyAgent
matches(p, agent) == IF isPattern(p) THEN agent \in AnyAgent[p] ELSE p = agent

Bare(pair) == [from |-> pair[1], to |-> pair[2], expires |-> 0]
Expired(r, now) == r.expires # 0 /\ now > r.expires

IsExact(r) == ~isPattern(r.from) /\ ~isPattern(r.to)

\* One entry per exact pair: the last rule that names it, else the bare pair.
exactRules(cfg) ==
  LET last == {cfg.rules[i] : i \in {j \in DOMAIN cfg.rules :
                 IsExact(cfg.rules[j])
                 /\ \A k \in DOMAIN cfg.rules :
                      k > j => <<cfg.rules[k].from, cfg.rules[k].to>>
                               # <<cfg.rules[j].from, cfg.rules[j].to>>}}
  IN last \cup {Bare(p) : p \in {q \in cfg.pairs : IsExact(Bare(q))
                                   /\ \A r \in last : <<r.from, r.to>> # q}}

globRules(cfg) ==
  {r \in {cfg.rules[i] : i \in DOMAIN cfg.rules} \cup {Bare(p) : p \in cfg.pairs} : ~IsExact(r)}

pairAllowed(cfg, a, b, now) ==
  \E r \in exactRules(cfg) \cup globRules(cfg) :
    matches(r.from, a) /\ matches(r.to, b) /\ ~Expired(r, now)

TrimSpace(name) == IF name \in DOMAIN Padded THEN Padded[name] ELSE name

calleeAgent(cfg, tool) ==
  IF cfg.prefix # NoName /\ tool[1] = cfg.prefix THEN TrimSpace(tool[2]) ELSE NoName

zone(cfg, agent) == IF agent \in DOMAIN cfg.zones THEN cfg.zones[agent] ELSE NoName

\* Which kind of rule decides; "pass" is a call that is not agent to agent.
EastWestCheck(cfg, caller, callerZone, tool, now) ==
  LET callee == calleeAgent(cfg, tool)
      cz == IF callerZone # NoName THEN callerZone ELSE zone(cfg, caller)
      tz == zone(cfg, callee)
  IN IF callee = NoName THEN "pass"
     ELSE IF pairAllowed(cfg, caller, callee, now) THEN "agent-rule"
     ELSE IF <<cz, tz>> \in cfg.edges THEN "label-rule"
     ELSE IF cfg.intra /\ cz # NoName /\ cz = tz THEN "shared-label"
     ELSE IF cfg.observe THEN "observe-only"
     ELSE "default-deny"

\* A group without a scope passes; tools = "*" is every tool.
ZoneScopeCheck(sc, zn, tenant, tool) ==
  IF zn \notin DOMAIN sc THEN "unscoped"
  ELSE IF sc[zn].tenants # {} /\ tenant \notin sc[zn].tenants THEN "deny"
  ELSE IF sc[zn].tools \cap {"*", tool} # {} THEN "allow" ELSE "deny"

(***************************************************************************)
(* The files, and what a start makes of them.                              *)
(***************************************************************************)
Whole(cfg) == [ok |-> TRUE, cfg |-> cfg]
CutShort(file) == [file EXCEPT !.ok = FALSE]

LoadEast(file) ==
  [file.cfg EXCEPT !.prefix = IF @ = NoName THEN EnvPrefix ELSE @]

NoRules == [prefix |-> EnvPrefix, pairs |-> {}, rules |-> <<>>, zones |-> <<>>, edges |-> {},
            intra |-> FALSE, observe |-> FALSE]

StartGuard == IF paths.east THEN LoadEast(eastFile) ELSE NoRules
StartScopes == IF paths.scope THEN scopeFile.cfg ELSE <<>>

(***************************************************************************)
(* Saving.                                                                 *)
(***************************************************************************)
\* The new spellings win, label rules of both spellings add up, and an empty
\* group map or list of group calls counts as not sent.  A flag that was not
\* sent has been decoded to false.
normalise(b) ==
  LET old == Given(b.edges, {})
      new == Given(b.groupCalls, {})
  IN [b EXCEPT !.zones = IF Given(b.groups, <<>>) # <<>> THEN b.groups ELSE b.zones,
               !.edges = IF new = {} THEN b.edges ELSE <<old \cup new>>,
               !.intra = <<Given(b.intra, FALSE) \/ Given(b.intraZone, FALSE)>>,
               !.observe = <<Given(@, FALSE)>>]

validateSegmentation(b) ==
  /\ \A a \in DOMAIN Given(b.zones, <<>>) : a # NoName /\ b.zones[1][a] # NoName
  /\ \A e \in Given(b.edges, {}) : e[1] # NoName /\ e[2] # NoName
  /\ NoName \notin DOMAIN Given(b.scopes, <<>>)

\* A merge that takes the rules of the body as they come.
MergeWithoutRules(b, cfg) ==
  [b EXCEPT !.pairs = <<Given(@, cfg.pairs)>>, !.edges = <<Given(@, cfg.edges)>>,
            !.zones = <<Given(@, cfg.zones)>>]

\* A list or map the client did not send keeps its live value, a flag does not.
MergeUnsent(b, cfg) ==
  [b EXCEPT !.pairs = <<Given(@, cfg.pairs)>>, !.rules = <<Given(@, cfg.rules)>>,
            !.edges = <<Given(@, cfg.edges)>>, !.zones = <<Given(@, cfg.zones)>>]

Ruleset(b, prefix) ==
  [prefix |-> prefix, pairs |-> Given(b.pairs, {}), rules |-> Given(b.rules, <<>>),
   zones |-> Given(b.zones, <<>>), edges |-> Given(b.edges, {}),
   intra |-> Given(b.intra, FALSE), observe |-> Given(b.observe, FALSE)]

\* GET answers from the two guards, every field present; a console may save
\* it back.
SegmentationView ==
  LET cfg == IF paths.guard THEN live ELSE NoRules IN
  [prefix |-> <<IF cfg.prefix = NoName THEN DefaultPrefix ELSE cfg.prefix>>,
   pairs |-> <<cfg.pairs>>, rules |-> <<cfg.rules>>, zones |-> <<cfg.zones>>,
   groups |-> <<cfg.zones>>, edges |-> <<cfg.edges>>, groupCalls |-> <<cfg.edges>>,
   intra |-> <<cfg.intra>>, intraZone |-> <<cfg.intra>>, observe |-> <<cfg.observe>>,
   scopes |-> <<scopes>>]

NotSaving == [pc |-> "idle", body |-> <<>>]
Busy(w) == savers[w].pc # "idle"

\* The flags a body spells out.
SaidFlags(b) == {f \in Flags : Sent(b[f]) \/ (f = "intra" /\ Sent(b.intraZone))}

SaveBegin(w, sent) ==
  LET b == normalise(sent)
      said(f) == f \in SaidFlags(sent)
  IN
  /\ ~Busy(w) /\ saves < MaxSaves /\ saves' = saves + 1
  /\ paths.east \/ paths.scope
  /\ validateSegmentation(b)
  /\ savers' = [savers EXCEPT ![w] =
       [pc |-> IF paths.east THEN "east" ELSE "scope",
        body |-> <<IF paths.guard THEN MergeUnsent(b, live) ELSE b>>]]
  /\ quiet' = (quiet /\ \A v \in Savers : ~Busy(v))
  /\ intent' = [Ruleset(b, NoName) EXCEPT
                  !.pairs = Given(b.pairs, intent.pairs), !.rules = Given(b.rules, intent.rules),
                  !.edges = Given(b.edges, intent.edges), !.zones = Given(b.zones, intent.zones),
                  !.intra = IF said("intra") THEN @ ELSE intent.intra,
                  !.observe = IF said("observe") THEN @ ELSE intent.observe]
  /\ unsaid' = Flags \ SaidFlags(sent)
  /\ UNCHANGED <<live, scopes, eastFile, scopeFile, paths, segTime>>

SaveEast(w) ==
  LET b == savers[w].body[1] IN
  /\ savers[w].pc = "east"
  /\ eastFile' = Whole(Ruleset(b, IF Sent(b.prefix) THEN b.prefix[1] ELSE DefaultPrefix))
  /\ savers' = [savers EXCEPT ![w].pc = IF paths.scope THEN "scope" ELSE "apply"]
  /\ UNCHANGED <<live, scopes, scopeFile, paths, quiet, intent, unsaid, segTime, saves>>

\* The scopes are written as they came: none when none were sent.
SaveScopes(w) ==
  /\ savers[w].pc = "scope"
  /\ scopeFile' = Whole(Given(savers[w].body[1].scopes, <<>>))
  /\ savers' = [savers EXCEPT ![w].pc = "apply"]
  /\ UNCHANGED <<live, scopes, eastFile, paths, quiet, intent, unsaid, segTime, saves>>

\* A failed write answers 500 and leaves the file as it was or cut short.
SaveFails(w) ==
  /\ \/ savers[w].pc = "east" /\ eastFile' \in {eastFile, CutShort(eastFile)} /\ UNCHANGED scopeFile
     \/ savers[w].pc = "scope" /\ scopeFile' \in {scopeFile, CutShort(scopeFile)} /\ UNCHANGED eastFile
  /\ savers' = [savers EXCEPT ![w] = NotSaving]
  /\ quiet' = FALSE
  /\ UNCHANGED <<live, scopes, paths, intent, unsaid, segTime, saves>>

\* Only the east-west guard takes the save at once.
SaveApply(w) ==
  LET b == savers[w].body[1] IN
  /\ savers[w].pc = "apply"
  /\ live' = IF paths.guard THEN Ruleset(b, Given(b.prefix, live.prefix)) ELSE live
  /\ savers' = [savers EXCEPT ![w] = NotSaving]
  /\ UNCHANGED <<scopes, eastFile, scopeFile, paths, quiet, intent, unsaid, segTime, saves>>

\* A restart; with a file it cannot read the gateway does not come up.
Restart ==
  /\ paths.east => eastFile.ok
  /\ paths.scope => scopeFile.ok
  /\ live' = StartGuard /\ scopes' = StartScopes /\ intent' = StartGuard
  /\ savers' = [w \in Savers |-> NotSaving] /\ quiet' = TRUE /\ unsaid' = {}
  /\ UNCHANGED <<eastFile, scopeFile, paths, segTime, saves>>

SegTick == segTime < MaxSegTime /\ segTime' = segTime + 1
           /\ UNCHANGED <<live, scopes, eastFile, scopeFile, paths, savers, quiet, intent, unsaid, saves>>

SegInit ==
  /\ paths \in [guard : BOOLEAN, east : BOOLEAN, scope : BOOLEAN]
  /\ eastFile = Whole(FirstFile) /\ scopeFile = Whole(FirstScopes)
  /\ live = StartGuard /\ scopes = StartScopes /\ intent = StartGuard
  /\ savers = [w \in Savers |-> NotSaving] /\ quiet = TRUE /\ unsaid = {}
  /\ segTime = 1 /\ saves = 0

SegNext ==
  \/ \E w \in Savers : \/ \E b \in SaveBodies \cup {SegmentationView} : SaveBegin(w, b)
                       \/ SaveEast(w) \/ SaveScopes(w) \/ SaveFails(w) \/ SaveApply(w)
  \/ Restart \/ SegTick

SegSpec == SegInit /\ [][SegNext]_segVars

(***************************************************************************)
(* Properties.                                                             *)
(***************************************************************************)
Settled == quiet /\ paths.guard /\ \A w \in Savers : ~Busy(w)

InForce(f) == live[f] = intent[f] /\ (paths.east => LoadEast(eastFile)[f] = intent[f])

\* Saves that neither overlap nor fail stick: once each is answered, the live
\* guard and the file a restart reads both hold what the saves asked for: the
\* flags the last save sent, and the rules, pairs, labels and label rules,
\* unchanged where a save did not mention them (the merge of
\* NewAdminSegmentationWriteHandler, its file write and its Replace).  A flag
\* the last save did not send is left out: AbsentFieldUntouched is about it.
SavedRulesStick == Settled => \A f \in RuleFields \ unsaid : InForce(f)

\* Above the merge the handler's comment says "A field the client did not send
\* is not a field the client cleared", and its tests "an absent field is
\* untouched": the same, for every field.
AbsentFieldUntouched == Settled => \A f \in RuleFields : InForce(f)
=============================================================================
