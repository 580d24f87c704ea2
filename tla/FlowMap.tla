------------------------------ MODULE FlowMap --------------------------------
(***************************************************************************)
(* The estate map and what is derived from it: the graph of observed calls *)
(* (internal/flowmap), its policy overlay, the least-privilege proposal    *)
(* (internal/segrec), and the drafts of the plain-language editor          *)
(* (internal/authoring).                                                   *)
(***************************************************************************)
EXTENDS Segmentation, FiniteSetsExt

CONSTANTS
  ObservedCalls,   \* audit events [agent, tool, tenant, decision, check]
  StageOrder,      \* check stages in alphabetical order
  Lower,           \* a name in lower case
  DraftTexts,      \* texts as lines [kind, subject, list]
  MaxFlow

VARIABLE flow      \* audit events, in the order the query returns them

flowVars == <<flow, segVars>>

AdminPrefix == "admin/"

\* The handlers name the prefix the gateway was started with.
agentTarget(tool) == tool[1] = EnvPrefix

Observed(calls) ==
  {i \in DOMAIN calls :
     LET c == calls[i] IN
     /\ c.agent # NoName /\ c.tool # <<NoName, NoName>> /\ c.tool[1] # AdminPrefix
     /\ ~(agentTarget(c.tool) /\ c.tool[2] = NoName)}

\* The most frequent stage, the first in alphabetical order of several.
dominant(stages) ==
  IF stages = <<>> THEN "policy"
  ELSE LET times(s) == Cardinality({i \in DOMAIN stages : stages[i] = s})
           best == Max({times(StageOrder[k]) : k \in DOMAIN StageOrder})
       IN StageOrder[Min({k \in DOMAIN StageOrder : times(StageOrder[k]) = best})]

\* One edge per caller and name called; its kind is that of the first call.
Extract(calls) ==
  LET key(i) == <<calls[i].agent, calls[i].tool[2]>>
      edge(k) ==
        LET mine == {i \in Observed(calls) : key(i) = k}
            with(d) == {i \in mine : calls[i].decision = d}
            stages(d) == SelectSeq([i \in DOMAIN calls |->
                           IF i \in with(d) THEN calls[i].check ELSE NoName], LAMBDA s : s # NoName)
        IN [from |-> k[1], to |-> k[2],
            kind |-> IF agentTarget(calls[Min(mine)].tool) THEN "east-west" ELSE "north-south",
            allow |-> Cardinality(with("allow")), block |-> Cardinality(with("block")),
            escalate |-> Cardinality(with("escalate")),
            tenants |-> {calls[i].tenant : i \in mine} \ {NoName},
            decidedAt |-> IF with("block") # {} THEN dominant(stages("block"))
                          ELSE IF with("escalate") # {} THEN dominant(stages("escalate"))
                          ELSE "policy"]
  IN {edge(k) : k \in {key(i) : i \in Observed(calls)}}

\* The verdict the map draws next to an edge.
Overlay(e, cfg, sc) ==
  IF e.kind = "east-west"
  THEN IF EastWestCheck(cfg, e.from, NoName, <<EnvPrefix, e.to>>, segTime) = "default-deny"
       THEN "deny" ELSE "allow"
  ELSE ZoneScopeCheck(sc, zone(cfg, e.from),
                      IF e.tenants = {} THEN NoName ELSE CHOOSE t \in e.tenants : TRUE, e.to)

\* A proposal that forgets that only allowed traffic counts.
RecommendAllTraffic(graph, cfg) ==
  [pairs |-> {<<e.from, e.to>> : e \in {x \in graph : x.kind = "east-west"}},
   edges |-> {}, intra |-> FALSE, tools |-> <<>>, unzoned |-> {}]

Recommend(graph, cfg) ==
  LET used == {e \in graph : e.allow > 0}
      ew == {e \in used : e.kind = "east-west"}
      ns == used \ ew
      z(a) == zone(cfg, a)
      zoned == {e \in ew : z(e.from) # NoName /\ z(e.to) # NoName}
  IN [pairs |-> {<<e.from, e.to>> : e \in ew},
      edges |-> {<<z(e.from), z(e.to)>> : e \in {x \in zoned : z(x.from) # z(x.to)}},
      intra |-> \E e \in zoned : z(e.from) = z(e.to),
      tools |-> [g \in {z(e.from) : e \in ns} \ {NoName} |->
                   {e.to : e \in {x \in ns : z(x.from) = g}}],
      unzoned |-> {a \in {e.from : e \in used} \cup {e.to : e \in ew} : z(a) = NoName}]

\* The two files the proposal is handed out as.
ProposedConfig(rec) ==
  [NoRules EXCEPT !.prefix = IF live.prefix = NoName THEN EnvPrefix ELSE live.prefix,
                  !.pairs = rec.pairs, !.zones = live.zones]
ProposedScopes(rec) == [g \in DOMAIN rec.tools |-> [tools |-> rec.tools[g], tenants |-> {}]]

Observe(c) ==
  /\ Len(flow) < MaxFlow
  /\ flow' = <<c>> \o flow
  /\ UNCHANGED segVars

(***************************************************************************)
(* Drafts.  Label rules come out in lower case, groups as they were typed. *)
(***************************************************************************)
Parse(lines) ==
  LET of(kinds) == {i \in DOMAIN lines : lines[i].kind \in kinds}
      naming(a) == {i \in of({"zone", "member"}) : a \in lines[i].list}
      listed(kind, g) == UNION {lines[i].list : i \in {j \in of({kind}) : lines[j].subject = g}}
  IN [zones |-> [a \in UNION {lines[i].list : i \in of({"zone", "member"})} |->
                   lines[Max(naming(a))].subject],
      edges |-> UNION {{<<Lower[lines[i].subject], Lower[t]>> : t \in lines[i].list} :
                         i \in of({"edge"})},
      intra |-> of({"intra"}) # {},
      tools |-> [g \in {lines[i].subject : i \in of({"tools"})} |-> listed("tools", g)],
      tenants |-> [g \in {lines[i].subject : i \in of({"tenants"})} |-> listed("tenants", g)],
      warnings |-> Cardinality(of({"other"}))]

\* A draft in the shape of a save; a group with tenants only gets no tool.
SegmentationDraft(lines) ==
  LET d == Parse(lines)
      in(f, g) == IF g \in DOMAIN f THEN f[g] ELSE {}
  IN [prefix |-> <<EnvPrefix>>, pairs |-> <<>>, rules |-> <<>>,
      zones |-> <<d.zones>>, groups |-> <<d.zones>>, edges |-> <<d.edges>>,
      groupCalls |-> <<d.edges>>, intra |-> <<d.intra>>, intraZone |-> <<d.intra>>, observe |-> <<FALSE>>,
      scopes |-> <<[g \in DOMAIN d.tools \cup DOMAIN d.tenants |->
                      [tools |-> in(d.tools, g), tenants |-> in(d.tenants, g)]]>>]

SaveDraft(w) == (\E lines \in DraftTexts : SaveBegin(w, SegmentationDraft(lines))) /\ UNCHANGED flow

FlowInit == flow = <<>> /\ SegInit

FlowNext == \E c \in ObservedCalls : Observe(c)

EditNext == (SegNext /\ UNCHANGED flow) \/ \E w \in Savers : SaveDraft(w)

(***************************************************************************)
(* Properties.                                                             *)
(***************************************************************************)
Calls(a, tool, d) == \E i \in Observed(flow) :
  flow[i].agent = a /\ flow[i].tool = tool /\ flow[i].decision \in d

\* No tool is called by the name of an agent: Extract would take the two for
\* one edge.
NamesApart == \A i, j \in Observed(flow) :
  flow[i].tool[2] = flow[j].tool[2] => flow[i].tool = flow[j].tool

\* The proposal reproduces the allowed traffic and nothing else: adopted as
\* it is handed out, it permits an agent-to-agent call exactly when the window
\* holds that call allowed, gives a group that was seen using tools exactly
\* the tools its agents were allowed, and the map draws no call that went
\* through as denied (Extract, Recommend, the two guards and the overlay).
\* The map keeps space around the name of an agent, which the guard trims: a
\* rule proposed for such a name matches no call, and its edge is left out.
RecommendationReproduces ==
  NamesApart /\ live.prefix = EnvPrefix =>
    LET graph == Extract(flow)
        rec == Recommend(graph, live)
        cfg == ProposedConfig(rec)
        sc == ProposedScopes(rec)
    IN /\ \A a, b \in Callers :
            (EastWestCheck(cfg, a, NoName, <<EnvPrefix, b>>, segTime) # "default-deny")
              <=> Calls(a, <<EnvPrefix, b>>, {"allow"})
       /\ \A a \in Callers, t \in Plain :
            zone(live, a) \in DOMAIN sc =>
              (ZoneScopeCheck(sc, zone(live, a), NoName, t) = "allow"
                 <=> \E b \in Callers : zone(live, b) = zone(live, a)
                                        /\ Calls(b, <<NoName, t>>, {"allow"}))
       /\ \A e \in graph : e.allow > 0 /\ TrimSpace(e.to) = e.to => Overlay(e, cfg, sc) # "deny"
=============================================================================
