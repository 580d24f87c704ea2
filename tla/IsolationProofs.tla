-------------------------- MODULE IsolationProofs ---------------------------
(***************************************************************************)
(* What keeps one tool or agent from another.                              *)
(*   - Segmentation, for every set of bodies, files, requests in flight and *)
(*     restarts: saved rules stick.                                        *)
(*   - FaultIsolation, for every set of tools, every finite set of calls and *)
(*     every configuration: the inductive invariant IInv (types, the permit *)
(*     count, and that a half-open breaker is attended), and that the      *)
(*     bulkhead implements the counting semaphore of module Semaphore.     *)
(***************************************************************************)
EXTENDS FaultIsolation, Segmentation, TLAPS

-----------------------------------------------------------------------------
(* The east-west guard and the handler that saves its rules. *)

\* A ruleset, and a body, of the right fields.
IsRuleset(c) == DOMAIN c = RuleFields \cup {"prefix"}

IsBody(b) == DOMAIN b = BodyFields

\* Two rulesets say the same but for the prefix and the flags of u.
SameRules(c, d, u) ==
  /\ c.pairs = d.pairs /\ c.rules = d.rules /\ c.zones = d.zones /\ c.edges = d.edges
  /\ "intra" \notin u => c.intra = d.intra
  /\ "observe" \notin u => c.observe = d.observe

SegTypes ==
  /\ IsRuleset(live) /\ IsRuleset(eastFile.cfg)
  /\ DOMAIN eastFile = {"ok", "cfg"}
  /\ DOMAIN savers = Savers
  /\ \A w \in Savers :
       /\ DOMAIN savers[w] = {"pc", "body"}
       /\ Busy(w) => savers[w].pc \in {"east", "scope", "apply"} /\ IsBody(savers[w].body[1])

\* The save in progress, if any, will make the file and the guard what the
\* saves so far asked for.
QuietInv ==
  quiet /\ paths.guard =>
    /\ \A v, w \in Savers : Busy(v) /\ Busy(w) => v = w
    /\ (\A w \in Savers : ~Busy(w)) =>
         SameRules(live, intent, unsaid) /\ (paths.east => SameRules(eastFile.cfg, intent, unsaid))
    /\ \A w \in Savers : Busy(w) =>
         /\ SameRules(Ruleset(savers[w].body[1], NoName), intent, unsaid)
         /\ paths.east /\ savers[w].pc # "east" => SameRules(eastFile.cfg, intent, unsaid)

SegInv == SegTypes /\ QuietInv

LEMMA GivenOne == \A x, y : Given(<<x>>, y) = x
  BY DEF Given

LEMMA RulesetParts ==
  ASSUME NEW b, NEW prefix
  PROVE  /\ Ruleset(b, prefix).pairs = Given(b.pairs, {})
         /\ Ruleset(b, prefix).rules = Given(b.rules, <<>>)
         /\ Ruleset(b, prefix).zones = Given(b.zones, <<>>)
         /\ Ruleset(b, prefix).edges = Given(b.edges, {})
         /\ Ruleset(b, prefix).intra = Given(b.intra, FALSE)
         /\ Ruleset(b, prefix).observe = Given(b.observe, FALSE)
         /\ IsBody(b) => IsRuleset(Ruleset(b, prefix))
  BY DEF Ruleset, IsBody, IsRuleset, RuleFields

LEMMA PrefixApart == \A b, p, q, u : SameRules(Ruleset(b, p), Ruleset(b, q), u)
  BY DEF SameRules, Ruleset

LEMMA LoadFields ==
  ASSUME IsRuleset(eastFile.cfg)
  PROVE  (\A u : SameRules(LoadEast(eastFile), eastFile.cfg, u)) /\ IsRuleset(LoadEast(eastFile))
<1>1. PICK c, p : c = eastFile.cfg /\ p = IF c.prefix = NoName THEN EnvPrefix ELSE c.prefix
  OBVIOUS
<1>2. LoadEast(eastFile) = [c EXCEPT !.prefix = p]
  BY Zenon, <1>1 DEF LoadEast
<1>3. DOMAIN c = RuleFields \cup {"prefix"}
  BY Zenon, <1>1 DEF IsRuleset
<1>4. \A u : SameRules([c EXCEPT !.prefix = p], c, u)
  BY <1>3 DEF SameRules, RuleFields
<1>5. IsRuleset([c EXCEPT !.prefix = p])
  BY <1>3 DEF IsRuleset, RuleFields
<1> QED BY Zenon, <1>1, <1>2, <1>4, <1>5

LEMMA EmptyRuleset == IsRuleset(NoRules)
  BY DEF NoRules, IsRuleset, RuleFields

LEMMA StartRules ==
  ASSUME IsRuleset(eastFile.cfg)
  PROVE  IsRuleset(StartGuard) /\ (paths.east => \A u : SameRules(eastFile.cfg, StartGuard, u))
  BY Zenon, LoadFields, EmptyRuleset DEF StartGuard, SameRules

\* What normalise leaves alone.
LEMMA Normalised ==
  ASSUME NEW b, IsBody(b)
  PROVE  IsBody(normalise(b))
  BY DEF normalise, IsBody, BodyFields, RuleFields

\* The merge takes what the body sent and otherwise what is live.
LEMMA Merged ==
  ASSUME NEW b, IsBody(b), NEW c
  PROVE  /\ IsBody(MergeUnsent(b, c))
         /\ Given(MergeUnsent(b, c).pairs, {}) = Given(b.pairs, c.pairs)
         /\ Given(MergeUnsent(b, c).rules, <<>>) = Given(b.rules, c.rules)
         /\ Given(MergeUnsent(b, c).edges, {}) = Given(b.edges, c.edges)
         /\ Given(MergeUnsent(b, c).zones, <<>>) = Given(b.zones, c.zones)
         /\ MergeUnsent(b, c).intra = b.intra /\ MergeUnsent(b, c).observe = b.observe
<1>1. PICK m : m = MergeUnsent(b, c)
  OBVIOUS
<1>2. /\ DOMAIN m = BodyFields /\ m.intra = b.intra /\ m.observe = b.observe
      /\ m.pairs = <<Given(b.pairs, c.pairs)>> /\ m.rules = <<Given(b.rules, c.rules)>>
      /\ m.edges = <<Given(b.edges, c.edges)>> /\ m.zones = <<Given(b.zones, c.zones)>>
  BY <1>1 DEF MergeUnsent, IsBody, BodyFields, RuleFields
<1>4. IsBody(m)
  BY <1>2 DEF IsBody
<1>5. /\ Given(m.pairs, {}) = Given(b.pairs, c.pairs)
      /\ Given(m.rules, <<>>) = Given(b.rules, c.rules)
      /\ Given(m.edges, {}) = Given(b.edges, c.edges)
      /\ Given(m.zones, <<>>) = Given(b.zones, c.zones)
  BY Zenon, <1>2, GivenOne
<1> QED BY Zenon, <1>1, <1>2, <1>4, <1>5

LEMMA SegStart == SegInit => SegInv
<1> SUFFICES ASSUME SegInit PROVE SegInv
  OBVIOUS
<1>1. DOMAIN eastFile = {"ok", "cfg"} /\ eastFile.cfg = FirstFile
  BY DEF SegInit, Whole
<1>2. IsRuleset(eastFile.cfg)
  BY <1>1, BodiesAssumption DEF IsRuleset
<1>3. IsRuleset(live) /\ live = intent /\ (paths.east => SameRules(eastFile.cfg, intent, unsaid))
  BY Zenon, <1>2, StartRules DEF SegInit
<1>4. \A w \in Savers : savers[w] = [pc |-> "idle", body |-> <<>>]
  BY DEF SegInit, NotSaving
<1>5. SegTypes
  BY <1>1, <1>2, <1>3, <1>4 DEF SegTypes, SegInit, Busy
<1>6. QuietInv
  BY <1>3, <1>4 DEF QuietInv, Busy, SameRules
<1> QED BY <1>5, <1>6 DEF SegInv

LEMMA ViewIsBody == IsBody(SegmentationView)
  BY DEF SegmentationView, IsBody, BodyFields, RuleFields

LEMMA SaveBeginStep ==
  ASSUME SegInv, NEW w \in Savers, NEW sent \in SaveBodies \cup {SegmentationView},
         SaveBegin(w, sent)
  PROVE  SegInv'
<1>1. IsBody(sent)
  BY Zenon, ViewIsBody, BodiesAssumption DEF IsBody
<1>2. PICK b : b = normalise(sent) /\ IsBody(b)
  BY Zenon, <1>1, Normalised
<1>3. PICK m, p : m = (IF paths.guard THEN MergeUnsent(b, live) ELSE b)
                  /\ p = IF paths.east THEN "east" ELSE "scope"
  OBVIOUS
<1>4. /\ savers' = [savers EXCEPT ![w] = [pc |-> p, body |-> <<m>>]]
      /\ quiet' = (quiet /\ \A v \in Savers : ~Busy(v))
      /\ intent' = [Ruleset(b, NoName) EXCEPT
                  !.pairs = Given(b.pairs, intent.pairs), !.rules = Given(b.rules, intent.rules),
                  !.edges = Given(b.edges, intent.edges), !.zones = Given(b.zones, intent.zones),
                  !.intra = IF "intra" \in SaidFlags(sent) THEN @ ELSE intent.intra,
                  !.observe = IF "observe" \in SaidFlags(sent) THEN @ ELSE intent.observe]
      /\ unsaid' = Flags \ SaidFlags(sent)
      /\ UNCHANGED <<live, eastFile, paths>>
  BY Zenon, <1>2, <1>3 DEF SaveBegin
<1>5. IsBody(m)
  BY Zenon, <1>2, <1>3, Merged
<1>6. /\ DOMAIN savers' = Savers /\ DOMAIN savers'[w] = {"pc", "body"}
      /\ savers'[w].pc = p /\ savers'[w].body[1] = m
      /\ \A v \in Savers : v # w => savers'[v] = savers[v]
  BY <1>4 DEF SegInv, SegTypes
<1>7. SegTypes'
  BY <1>3, <1>4, <1>5, <1>6 DEF SegInv, SegTypes, Busy
<1>8. ASSUME quiet', paths.guard'
      PROVE  /\ \A v \in Savers : ~Busy(v)
             /\ SameRules(Ruleset(m, NoName), intent', unsaid')
  <2>1. quiet /\ paths.guard /\ \A v \in Savers : ~Busy(v)
    BY Zenon, <1>4, <1>8
  <2>2. SameRules(live, intent, unsaid)
    BY Zenon, <2>1 DEF SegInv, QuietInv
  <2>3. PICK r, i, c, d : r = Ruleset(m, NoName) /\ i = intent' /\ c = live /\ d = intent
    OBVIOUS
  <2>4. m = MergeUnsent(b, c)
    BY Zenon, <1>3, <2>1, <2>3
  <2>5. /\ r.pairs = Given(b.pairs, c.pairs) /\ r.rules = Given(b.rules, c.rules)
        /\ r.edges = Given(b.edges, c.edges) /\ r.zones = Given(b.zones, c.zones)
        /\ r.intra = Given(b.intra, FALSE) /\ r.observe = Given(b.observe, FALSE)
    <3>1. /\ Given(m.pairs, {}) = Given(b.pairs, c.pairs)
          /\ Given(m.rules, <<>>) = Given(b.rules, c.rules)
          /\ Given(m.edges, {}) = Given(b.edges, c.edges)
          /\ Given(m.zones, <<>>) = Given(b.zones, c.zones)
          /\ m.intra = b.intra /\ m.observe = b.observe
      BY Zenon, <1>2, <2>4, Merged
    <3>2. /\ r.pairs = Given(m.pairs, {}) /\ r.rules = Given(m.rules, <<>>)
          /\ r.edges = Given(m.edges, {}) /\ r.zones = Given(m.zones, <<>>)
          /\ r.intra = Given(m.intra, FALSE) /\ r.observe = Given(m.observe, FALSE)
      BY <2>3 DEF Ruleset
    <3> QED BY Zenon, <3>1, <3>2
  <2>6. i = [Ruleset(b, NoName) EXCEPT
               !.pairs = Given(b.pairs, d.pairs), !.rules = Given(b.rules, d.rules),
               !.edges = Given(b.edges, d.edges), !.zones = Given(b.zones, d.zones),
               !.intra = IF "intra" \in SaidFlags(sent) THEN @ ELSE d.intra,
               !.observe = IF "observe" \in SaidFlags(sent) THEN @ ELSE d.observe]
    BY Zenon, <1>4, <2>3
  <2>7. /\ i.pairs = Given(b.pairs, d.pairs) /\ i.rules = Given(b.rules, d.rules)
        /\ i.edges = Given(b.edges, d.edges) /\ i.zones = Given(b.zones, d.zones)
        /\ "intra" \in SaidFlags(sent) => i.intra = Given(b.intra, FALSE)
        /\ "observe" \in SaidFlags(sent) => i.observe = Given(b.observe, FALSE)
    BY <2>6 DEF Ruleset
  <2>8. \A f \in Flags : f \notin unsaid' => f \in SaidFlags(sent)
    BY Zenon, <1>4
  <2>9. SameRules(r, i, unsaid')
    BY Zenon, <2>2, <2>3, <2>5, <2>7, <2>8 DEF SameRules, Flags
  <2> QED BY Zenon, <2>1, <2>3, <2>9
<1>9. QuietInv'
  <2> SUFFICES ASSUME quiet', paths.guard' PROVE QuietInv'
    BY Zenon DEF QuietInv
  <2>1. \A v \in Savers : Busy(v)' <=> v = w
    BY <1>3, <1>6, <1>8 DEF Busy
  <2>2. SameRules(Ruleset(savers[w].body[1], NoName), intent, unsaid)'
    BY Zenon, <1>6, <1>8
  <2>3. ~(paths.east' /\ savers'[w].pc # "east")
    BY Zenon, <1>3, <1>4, <1>6
  <2> QED BY Zenon, <2>1, <2>2, <2>3 DEF QuietInv
<1> QED BY Zenon, <1>7, <1>9 DEF SegInv

LEMMA SaveEastStep ==
  ASSUME SegInv, NEW w \in Savers, SaveEast(w)
  PROVE  SegInv'
<1>1. PICK b, p, q : /\ b = savers[w].body[1]
                     /\ p = (IF Sent(b.prefix) THEN b.prefix[1] ELSE DefaultPrefix)
                     /\ q = IF paths.scope THEN "scope" ELSE "apply"
  OBVIOUS
<1>2. /\ savers[w].pc = "east" /\ eastFile' = Whole(Ruleset(b, p))
      /\ savers' = [savers EXCEPT ![w].pc = q]
      /\ UNCHANGED <<live, paths, quiet, intent, unsaid>>
  BY Zenon, <1>1 DEF SaveEast
<1>3. IsBody(b) /\ Busy(w)
  BY Zenon, <1>1, <1>2 DEF SegInv, SegTypes, Busy
<1>4. DOMAIN eastFile' = {"ok", "cfg"} /\ eastFile'.cfg = Ruleset(b, p)
  BY <1>2 DEF Whole
<1>5. /\ DOMAIN savers' = Savers /\ DOMAIN savers'[w] = {"pc", "body"}
      /\ savers'[w].pc = q /\ savers'[w].body = savers[w].body
      /\ \A v \in Savers : v # w => savers'[v] = savers[v]
  BY <1>2 DEF SegInv, SegTypes
<1>6. IsRuleset(eastFile'.cfg)
  BY Zenon, <1>3, <1>4, RulesetParts
<1>7. SegTypes'
  BY Zenon, <1>1, <1>2, <1>3, <1>4, <1>5, <1>6 DEF SegInv, SegTypes, Busy
<1>8. QuietInv'
  <2> SUFFICES ASSUME quiet', paths.guard' PROVE QuietInv'
    BY Zenon DEF QuietInv
  <2>1. \A v \in Savers : Busy(v)' <=> v = w
    BY <1>1, <1>2, <1>3, <1>5 DEF SegInv, QuietInv, Busy
  <2>2. SameRules(Ruleset(b, NoName), intent, unsaid)
    BY Zenon, <1>1, <1>2, <1>3 DEF SegInv, QuietInv
  <2>3. SameRules(Ruleset(b, p), Ruleset(b, NoName), unsaid)
    BY Zenon, PrefixApart
  <2>4. SameRules(eastFile.cfg, intent, unsaid)'
    BY Zenon, <1>2, <1>4, <2>2, <2>3 DEF SameRules
  <2>5. SameRules(Ruleset(savers[w].body[1], NoName), intent, unsaid)'
    BY Zenon, <1>1, <1>2, <1>5, <2>2
  <2> QED BY Zenon, <2>1, <2>4, <2>5 DEF QuietInv
<1> QED BY Zenon, <1>7, <1>8 DEF SegInv

LEMMA SaveScopesStep ==
  ASSUME SegInv, NEW w \in Savers, SaveScopes(w)
  PROVE  SegInv'
<1>1. /\ savers[w].pc = "scope" /\ savers' = [savers EXCEPT ![w].pc = "apply"]
      /\ UNCHANGED <<live, eastFile, paths, quiet, intent, unsaid>>
  BY Zenon DEF SaveScopes
<1>2. /\ DOMAIN savers' = Savers /\ DOMAIN savers'[w] = {"pc", "body"}
      /\ savers'[w].pc = "apply" /\ savers'[w].body = savers[w].body
      /\ \A v \in Savers : v # w => savers'[v] = savers[v]
  BY <1>1 DEF SegInv, SegTypes
<1>3. \A v \in Savers : (Busy(v)' <=> Busy(v)) /\ savers'[v].body = savers[v].body
                        /\ (savers'[v].pc = "east" <=> savers[v].pc = "east")
  BY <1>1, <1>2 DEF Busy
<1>4. SegTypes'
  BY <1>1, <1>2, <1>3 DEF SegInv, SegTypes
<1>5. QuietInv'
  BY <1>1, <1>3 DEF SegInv, QuietInv
<1> QED BY Zenon, <1>4, <1>5 DEF SegInv

\* A request that is over leaves the others as they were.
LEMMA SaverDone ==
  ASSUME SegInv, NEW w \in Savers, savers' = [savers EXCEPT ![w] = NotSaving]
  PROVE  /\ DOMAIN savers' = Savers /\ ~Busy(w)'
         /\ \A v \in Savers : v # w => savers'[v] = savers[v]
         /\ \A v \in Savers :
              /\ DOMAIN savers'[v] = {"pc", "body"}
              /\ Busy(v)' => savers'[v].pc \in {"east", "scope", "apply"}
                             /\ IsBody(savers'[v].body[1])
  BY DEF SegInv, SegTypes, NotSaving, Busy

LEMMA SaveFailsStep ==
  ASSUME SegInv, NEW w \in Savers, SaveFails(w)
  PROVE  SegInv'
<1>1. /\ eastFile' \in {eastFile, CutShort(eastFile)} /\ ~quiet'
      /\ savers' = [savers EXCEPT ![w] = NotSaving] /\ UNCHANGED live
  BY DEF SaveFails
<1>2. DOMAIN eastFile' = {"ok", "cfg"} /\ eastFile'.cfg = eastFile.cfg
  BY <1>1 DEF SegInv, SegTypes, CutShort
<1>3. SegTypes'
  BY Zenon, <1>1, <1>2, SaverDone DEF SegInv, SegTypes
<1> QED BY Zenon, <1>1, <1>3 DEF SegInv, QuietInv

LEMMA SaveApplyStep ==
  ASSUME SegInv, NEW w \in Savers, SaveApply(w)
  PROVE  SegInv'
<1>1. PICK b, p : b = savers[w].body[1] /\ p = Given(b.prefix, live.prefix)
  OBVIOUS
<1>2. /\ savers[w].pc = "apply" /\ live' = (IF paths.guard THEN Ruleset(b, p) ELSE live)
      /\ savers' = [savers EXCEPT ![w] = NotSaving]
      /\ UNCHANGED <<eastFile, paths, quiet, intent, unsaid>>
  BY Zenon, <1>1 DEF SaveApply
<1>3. IsBody(b) /\ Busy(w)
  BY Zenon, <1>1, <1>2 DEF SegInv, SegTypes, Busy
<1>4. IsRuleset(live')
  BY Zenon, <1>2, <1>3, RulesetParts DEF SegInv, SegTypes
<1>5. SegTypes'
  BY Zenon, <1>2, <1>4, SaverDone DEF SegInv, SegTypes
<1>6. QuietInv'
  <2> SUFFICES ASSUME quiet', paths.guard' PROVE QuietInv'
    BY Zenon DEF QuietInv
  <2>1. \A v \in Savers : ~Busy(v)'
    BY Zenon, <1>2, <1>3, SaverDone DEF SegInv, QuietInv, Busy
  <2>2. /\ SameRules(Ruleset(b, NoName), intent, unsaid)
        /\ paths.east => SameRules(eastFile.cfg, intent, unsaid)
    BY Zenon, <1>1, <1>2, <1>3 DEF SegInv, QuietInv
  <2>3. SameRules(live, intent, unsaid)'
    <3>1. SameRules(Ruleset(b, p), Ruleset(b, NoName), unsaid)
      BY Zenon, PrefixApart
    <3> QED BY Zenon, <1>2, <2>2, <3>1 DEF SameRules
  <2>4. (paths.east => SameRules(eastFile.cfg, intent, unsaid))'
    BY Zenon, <1>2, <2>2
  <2> QED BY Zenon, <2>1, <2>3, <2>4 DEF QuietInv
<1> QED BY Zenon, <1>5, <1>6 DEF SegInv

LEMMA RestartStep == SegInv /\ Restart => SegInv'
<1> SUFFICES ASSUME SegInv, Restart PROVE SegInv'
  OBVIOUS
<1>1. /\ live' = StartGuard /\ intent' = StartGuard
      /\ savers' = [w \in Savers |-> NotSaving] /\ UNCHANGED <<eastFile, paths>>
  BY Zenon DEF Restart
<1>2. IsRuleset(StartGuard) /\ (paths.east => \A u : SameRules(eastFile.cfg, StartGuard, u))
  BY Zenon, StartRules DEF SegInv, SegTypes
<1>3. /\ DOMAIN savers' = Savers
      /\ \A w \in Savers : DOMAIN savers'[w] = {"pc", "body"} /\ ~Busy(w)'
  BY <1>1 DEF NotSaving, Busy
<1>4. SegTypes'
  BY Zenon, <1>1, <1>2, <1>3 DEF SegInv, SegTypes
<1>5. QuietInv'
  BY Zenon, <1>1, <1>2, <1>3 DEF QuietInv, SameRules
<1> QED BY Zenon, <1>4, <1>5 DEF SegInv

LEMMA SegStep == SegInv /\ [SegNext]_segVars => SegInv'
<1> SUFFICES ASSUME SegInv, [SegNext]_segVars PROVE SegInv'
  OBVIOUS
<1>1. CASE SegTick
  BY <1>1 DEF SegTick, SegInv, SegTypes, QuietInv, Busy
<1>2. CASE UNCHANGED segVars
  BY <1>2 DEF segVars, SegInv, SegTypes, QuietInv, Busy
<1> QED BY Zenon, <1>1, <1>2, SaveBeginStep, SaveEastStep, SaveScopesStep, SaveFailsStep,
           SaveApplyStep, RestartStep DEF SegNext

\* Saves that neither overlap nor fail stick, in the guard and in the file,
\* whatever lists and maps the clients left out, and so do the flags the last
\* of them sent (NewAdminSegmentationWriteHandler), for every set of bodies, of
\* requests in flight and of restarts in between.
THEOREM SavesStick == SegSpec => []SavedRulesStick
<1>1. SegInv => SavedRulesStick
  <2> SUFFICES ASSUME SegInv, Settled, NEW f \in RuleFields \ unsaid
               PROVE  InForce(f)
    BY Zenon DEF SavedRulesStick
  <2>1. SameRules(live, intent, unsaid) /\ (paths.east => SameRules(eastFile.cfg, intent, unsaid))
    BY Zenon DEF SegInv, QuietInv, Settled
  <2>2. SameRules(LoadEast(eastFile), eastFile.cfg, unsaid)
    BY Zenon, LoadFields DEF SegInv, SegTypes
  <2> QED BY <2>1, <2>2 DEF SameRules, RuleFields, InForce
<1> QED BY <1>1, SegStart, SegStep, PTL DEF SegSpec

-----------------------------------------------------------------------------
(* The breaker and the bulkhead. *)

INSTANCE FiniteSetTheorems

\* Attendance alone is not inductive: when a probe meets a full bulkhead it
\* leaves, and that somebody else is still pending follows from the count.
IInv == TypeOK /\ PermitsCounted /\ HalfOpenAttended

-----------------------------------------------------------------------------
\* applyDefaults leaves positive values, whatever the operator configured.
LEMMA ConfigPositive ==
  /\ Capacity \in Nat \ {0}
  /\ Threshold \in Nat \ {0}
  /\ CooldownTicks \in Nat \ {0}
BY ConfigAssumption DEF Capacity, Threshold, CooldownTicks

\* The permit holders of a tool are finitely many.
LEMMA HoldersFinite ==
  ASSUME NEW t \in Tools
  PROVE  IsFiniteSet(Holders(t)) /\ Cardinality(Holders(t)) \in Nat
<1>1. Holders(t) \in SUBSET Calls
  BY DEF Holders
<1>2. IsFiniteSet(Holders(t))
  BY <1>1, CallsAssumption, FS_Subset
<1> QED BY <1>2, FS_CardinalityType

\* A step in which no call starts or stops forwarding keeps every holder.
LEMMA HoldersKept ==
  ASSUME TypeOK, NEW c \in Calls,
         pc[c] # "forward", pc'[c] # "forward",
         \A d \in Calls \ {c} : pc'[d] = pc[d] /\ tool'[d] = tool[d]
  PROVE  \A t \in Tools : Holders(t)' = Holders(t)
BY DEF Holders, TypeOK

\* The state of the breaker is the only thing attendance depends on when the
\* pending calls stay.
LEMMA PendingKept ==
  ASSUME TypeOK, HalfOpenAttended, NEW t \in Tools,
         state'[t] = "half_open" => state[t] = "half_open",
         Pending(t) \subseteq Pending(t)'
  PROVE  state'[t] = "half_open" => Pending(t)' # {}
BY DEF HalfOpenAttended

-----------------------------------------------------------------------------
LEMMA InitIInv == Init => IInv
<1> SUFFICES ASSUME Init PROVE IInv
  OBVIOUS
<1>1. TypeOK
  BY ConfigPositive DEF Init, TypeOK, AllReplies
<1>2. PermitsCounted
  <2> SUFFICES ASSUME NEW t \in Tools PROVE inFlight[t] = Cardinality(Holders(t))
    BY DEF PermitsCounted
  <2>1. Holders(t) = {}
    BY DEF Holders, Init
  <2> QED BY <2>1, FS_EmptySet DEF Init
<1>3. HalfOpenAttended
  BY DEF HalfOpenAttended, Init
<1> QED BY <1>1, <1>2, <1>3 DEF IInv

LEMMA BreakerClosedIInv ==
  ASSUME IInv, NEW c \in Calls, NEW t \in Tools, BreakerClosed(c, t)
  PROVE  IInv'
<1> USE DEF IInv, BreakerClosed
<1>1. TypeOK'
  BY DEF TypeOK
<1>2. PermitsCounted'
  <2>1. \A u \in Tools : Holders(u)' = Holders(u)
    BY HoldersKept DEF TypeOK
  <2> QED BY <2>1 DEF PermitsCounted
<1>3. HalfOpenAttended'
  <2> SUFFICES ASSUME NEW u \in Tools PROVE state'[u] = "half_open" => Pending(u)' # {}
    BY DEF HalfOpenAttended
  <2>1. Pending(u) \subseteq Pending(u)'
    BY DEF Pending, TypeOK
  <2> QED BY <2>1, PendingKept
<1> QED BY <1>1, <1>2, <1>3

LEMMA BreakerProbeIInv ==
  ASSUME IInv, NEW c \in Calls, NEW t \in Tools, BreakerProbe(c, t)
  PROVE  IInv'
<1> USE DEF IInv, BreakerProbe
<1>1. TypeOK'
  BY DEF TypeOK
<1>2. PermitsCounted'
  <2>1. \A u \in Tools : Holders(u)' = Holders(u)
    BY Zenon, HoldersKept DEF TypeOK
  <2> QED BY <2>1 DEF PermitsCounted
<1>3. HalfOpenAttended'
  <2> SUFFICES ASSUME NEW u \in Tools PROVE state'[u] = "half_open" => Pending(u)' # {}
    BY DEF HalfOpenAttended
  <2>1. CASE u = t
    \* the probe itself is pending
    <3>1. c \in Pending(u)'
      BY <2>1 DEF Pending, TypeOK
    <3> QED BY <3>1
  <2>2. CASE u # t
    <3>1. Pending(u) \subseteq Pending(u)' /\ state'[u] = state[u]
      BY <2>2 DEF Pending, TypeOK
    <3> QED BY Zenon, <3>1, PendingKept
  <2> QED BY <2>1, <2>2
<1> QED BY Zenon, <1>1, <1>2, <1>3

\* The crucial step: a call refused by the bulkhead saw inFlight at Capacity,
\* so at least one other call holds a permit and is still to record.
LEMMA BulkheadLoadIInv ==
  ASSUME IInv, NEW c \in Calls, BulkheadLoad(c)
  PROVE  IInv'
<1> USE DEF IInv, BulkheadLoad
<1>1. TypeOK'
  BY ConfigPositive DEF TypeOK
<1>2. PermitsCounted'
  <2>1. pc[c] # "forward" /\ pc'[c] # "forward"
    BY DEF TypeOK
  <2>2. \A d \in Calls \ {c} : pc'[d] = pc[d] /\ tool'[d] = tool[d]
    BY DEF TypeOK
  <2>3. \A u \in Tools : Holders(u)' = Holders(u)
    BY Zenon, <2>1, <2>2, HoldersKept
  <2> QED BY <2>3 DEF PermitsCounted
<1>3. HalfOpenAttended'
  <2> SUFFICES ASSUME NEW u \in Tools, state'[u] = "half_open" PROVE Pending(u)' # {}
    BY DEF HalfOpenAttended
  <2>1. CASE inFlight[tool[c]] >= Capacity /\ u = tool[c]
    <3>1. Cardinality(Holders(u)) # 0
      BY <2>1, ConfigPositive DEF PermitsCounted, TypeOK
    <3>2. PICK d \in Calls : d \in Holders(u)
      BY Zenon, <3>1, FS_EmptySet DEF Holders
    <3>3. d # c /\ d \in Pending(u)'
      BY <3>2 DEF Holders, Pending, TypeOK
    <3> QED BY <3>3
  <2>2. CASE ~(inFlight[tool[c]] >= Capacity /\ u = tool[c])
    <3>1. Pending(u) \subseteq Pending(u)'
      BY <2>2 DEF Pending, TypeOK
    <3> QED BY Zenon, <3>1, PendingKept
  <2> QED BY Zenon, <2>1, <2>2
<1> QED BY Zenon, <1>1, <1>2, <1>3

LEMMA BulkheadSwapIInv ==
  ASSUME IInv, NEW c \in Calls, BulkheadSwap(c)
  PROVE  IInv'
<1> USE DEF IInv, BulkheadSwap
<1>1. TypeOK'
  BY ConfigPositive DEF TypeOK
<1>2. PermitsCounted'
  <2>1. CASE inFlight[tool[c]] = cur[c]
    <3> SUFFICES ASSUME NEW u \in Tools PROVE inFlight'[u] = Cardinality(Holders(u)')
      BY DEF PermitsCounted
    <3>1. CASE u = tool[c]
      <4>1. Holders(u)' = Holders(u) \cup {c} /\ c \notin Holders(u)
        BY <2>1, <3>1 DEF Holders, TypeOK
      <4>2. Cardinality(Holders(u)') = Cardinality(Holders(u)) + 1
        BY Zenon, <4>1, HoldersFinite, FS_AddElement
      <4> QED BY <4>2, <2>1, <3>1 DEF PermitsCounted, TypeOK
    <3>2. CASE u # tool[c]
      <4>1. Holders(u)' = Holders(u) /\ inFlight'[u] = inFlight[u]
        BY <2>1, <3>2 DEF Holders, TypeOK
      <4> QED BY Zenon, <4>1 DEF PermitsCounted
    <3> QED BY Zenon, <3>1, <3>2
  <2>2. CASE inFlight[tool[c]] # cur[c]
    <3>1. pc[c] # "forward" /\ pc'[c] # "forward"
      BY <2>2 DEF TypeOK
    <3>2. \A d \in Calls \ {c} : pc'[d] = pc[d] /\ tool'[d] = tool[d]
      BY <2>2 DEF TypeOK
    <3>3. \A u \in Tools : Holders(u)' = Holders(u)
      BY Zenon, <3>1, <3>2, HoldersKept
    <3> QED BY Zenon, <2>2, <3>3 DEF PermitsCounted
  <2> QED BY Zenon, <2>1, <2>2
<1>3. HalfOpenAttended'
  <2> SUFFICES ASSUME NEW u \in Tools PROVE state'[u] = "half_open" => Pending(u)' # {}
    BY DEF HalfOpenAttended
  <2>1. Pending(u) \subseteq Pending(u)'
    BY DEF Pending, TypeOK
  <2> QED BY <2>1, PendingKept
<1> QED BY <1>1, <1>2, <1>3

LEMMA ForwardReturnsIInv ==
  ASSUME IInv, NEW c \in Calls, NEW r \in Replies, ForwardReturns(c, r)
  PROVE  IInv'
<1> USE DEF IInv, ForwardReturns
<1>1. c \in Holders(tool[c])
  BY Zenon DEF Holders
<1>2. \A u \in Tools : Cardinality(Holders(u)') = IF u = tool[c]
                                                    THEN Cardinality(Holders(u)) - 1
                                                    ELSE Cardinality(Holders(u))
  <2> SUFFICES ASSUME NEW u \in Tools
               PROVE  Cardinality(Holders(u)') = IF u = tool[c]
                                                   THEN Cardinality(Holders(u)) - 1
                                                   ELSE Cardinality(Holders(u))
    BY Zenon
  <2>1. Holders(u)' = IF u = tool[c] THEN Holders(u) \ {c} ELSE Holders(u)
    BY DEF Holders, TypeOK
  <2> QED BY Zenon, <2>1, <1>1, HoldersFinite, FS_RemoveElement
<1>3. Cardinality(Holders(tool[c])) # 0 /\ tool[c] \in Tools
  BY Zenon, <1>1, HoldersFinite, FS_EmptySet DEF TypeOK
<1>4. TypeOK'
  <2>1. inFlight[tool[c]] # 0 /\ r \in AllReplies
    BY Zenon, <1>3, RepliesAssumption DEF PermitsCounted
  <2> QED BY <2>1, ConfigPositive DEF TypeOK
<1>5. PermitsCounted'
  BY Zenon, <1>2 DEF TypeOK, PermitsCounted
<1>6. HalfOpenAttended'
  <2> SUFFICES ASSUME NEW u \in Tools PROVE state'[u] = "half_open" => Pending(u)' # {}
    BY Zenon DEF HalfOpenAttended
  <2>1. Pending(u) \subseteq Pending(u)'
    BY DEF Pending, TypeOK
  <2> QED BY Zenon, <2>1, PendingKept
<1> QED BY Zenon, <1>4, <1>5, <1>6

\* Recording an outcome, of whichever call, takes the breaker out of
\* half-open, so the recording call is no longer needed.
LEMMA RecordIInv ==
  ASSUME IInv, NEW c \in Calls, RecordSuccess(c) \/ RecordFailure(c)
  PROVE  IInv'
<1> USE DEF IInv, RecordSuccess, RecordFailure
<1>1. TypeOK'
  BY ConfigPositive DEF TypeOK, AllReplies
<1>2. PermitsCounted'
  <2>1. \A u \in Tools : Holders(u)' = Holders(u)
    BY HoldersKept DEF TypeOK
  <2> QED BY Zenon, <2>1 DEF PermitsCounted
<1>3. HalfOpenAttended'
  <2> SUFFICES ASSUME NEW u \in Tools, state'[u] = "half_open" PROVE Pending(u)' # {}
    BY Zenon DEF HalfOpenAttended
  <2>1. u # tool[c] /\ state[u] = "half_open"
    BY DEF TypeOK, Trips
  <2>2. Pending(u) \subseteq Pending(u)'
    BY <2>1 DEF Pending, TypeOK
  <2> QED BY Zenon, <2>1, <2>2, PendingKept
<1> QED BY Zenon, <1>1, <1>2, <1>3

\* Steps that leave the calls and the breakers alone.
LEMMA QuietIInv ==
  ASSUME IInv, Tick \/ UNCHANGED vars
  PROVE  IInv'
<1> USE DEF IInv
<1>1. TypeOK'
  BY ConfigPositive DEF TypeOK, Tick, vars
<1>2. PermitsCounted'
  BY Zenon DEF PermitsCounted, Holders, Tick, vars
<1>3. HalfOpenAttended'
  BY DEF HalfOpenAttended, Pending, Tick, vars
<1> QED BY <1>1, <1>2, <1>3

LEMMA NextIInv == IInv /\ [Next]_vars => IInv'
<1> SUFFICES ASSUME IInv, [Next]_vars PROVE IInv'
  OBVIOUS
<1>1. CASE Tick \/ UNCHANGED vars
  BY <1>1, QuietIInv
<1>2. ASSUME NEW c \in Calls, Acquire(c) PROVE IInv'
  <2>1. PICK t \in Tools : \/ BreakerClosed(c, t)
                           \/ BreakerProbe(c, t)
                           \/ BreakerRefuses(c, t)
    BY Zenon, <1>2 DEF Acquire
  <2>2. CASE BreakerRefuses(c, t)
    BY Zenon, <2>2, QuietIInv DEF BreakerRefuses
  <2> QED BY Zenon, <2>1, <2>2, BreakerClosedIInv, BreakerProbeIInv
<1>3. ASSUME NEW c \in Calls, Proceed(c) PROVE IInv'
  BY Zenon, <1>3, BulkheadLoadIInv, BulkheadSwapIInv, ForwardReturnsIInv, RecordIInv DEF Proceed
<1> QED BY <1>1, <1>2, <1>3 DEF Next

-----------------------------------------------------------------------------
\* Every variable keeps its type; inFlight stays within 0..Capacity.
THEOREM TypeCorrect == Spec => []TypeOK
<1>1. IInv => TypeOK
  BY DEF IInv
<1> QED BY <1>1, InitIInv, NextIInv, PTL DEF Spec

\* inFlight always equals the number of calls holding a permit.
THEOREM PermitsAlwaysCounted == Spec => []PermitsCounted
<1>1. IInv => PermitsCounted
  BY DEF IInv
<1> QED BY <1>1, InitIInv, NextIInv, PTL DEF Spec

\* A half-open breaker always has a call that will still record an outcome.
THEOREM HalfOpenNeverOrphaned == Spec => []HalfOpenAttended
<1>1. IInv => HalfOpenAttended
  BY DEF IInv
<1> QED BY <1>1, InitIInv, NextIInv, PTL DEF Spec

-----------------------------------------------------------------------------
(* The bulkhead implements Semaphore: a won swap is Enter, a returning     *)
(* forward is Leave, and every other step stutters.                        *)

LEMMA InitSemaphore == Init => Sem!Init
BY DEF Init, Sem!Init, Holders

\* The instance's copy of Cardinality is Cardinality.
LEMMA SemCardinality == \A S : Sem!Cardinality(S) = Cardinality(S)
BY Zenon DEF Sem!Cardinality, Cardinality

LEMMA HoldersKeptStutters ==
  ASSUME \A t \in Tools : Holders(t)' = Holders(t)
  PROVE  UNCHANGED [t \in Tools |-> Holders(t)]
OBVIOUS

LEMMA SwapEnters ==
  ASSUME IInv, NEW c \in Calls, BulkheadSwap(c), inFlight[tool[c]] = cur[c]
  PROVE  Sem!Enter(c, tool[c])
<1> USE DEF IInv, BulkheadSwap
<1>1. tool[c] \in Tools
  BY DEF TypeOK
<1>2. \A u \in Tools : c \notin Holders(u)
  BY DEF Holders, TypeOK
<1>3. Cardinality(Holders(tool[c])) < Capacity
  BY <1>1, ConfigPositive DEF PermitsCounted, TypeOK
<1>4. \A u \in Tools : Holders(u)' = IF u = tool[c] THEN Holders(u) \cup {c} ELSE Holders(u)
  BY DEF Holders, TypeOK
<1> QED BY Zenon, <1>1, <1>2, <1>3, <1>4, SemCardinality DEF Sem!Enter

LEMMA ReturnLeaves ==
  ASSUME IInv, NEW c \in Calls, NEW r \in Replies, ForwardReturns(c, r)
  PROVE  Sem!Leave(c, tool[c])
<1> USE DEF IInv, ForwardReturns
<1>1. tool[c] \in Tools /\ c \in Holders(tool[c])
  BY Zenon DEF TypeOK, Holders
<1>2. \A u \in Tools : Holders(u)' = IF u = tool[c] THEN Holders(u) \ {c} ELSE Holders(u)
  BY DEF Holders, TypeOK
<1> QED BY Zenon, <1>1, <1>2 DEF Sem!Leave

LEMMA NextSemaphore ==
  IInv /\ [Next]_vars => [Sem!Next]_[t \in Tools |-> Holders(t)]
<1> SUFFICES ASSUME IInv, [Next]_vars
             PROVE  [Sem!Next]_[t \in Tools |-> Holders(t)]
  OBVIOUS
<1> USE DEF IInv
<1>1. CASE Tick \/ UNCHANGED vars
  <2>1. \A t \in Tools : Holders(t)' = Holders(t)
    BY Zenon, <1>1 DEF Tick, vars, Holders
  <2> QED BY <2>1, HoldersKeptStutters
<1>2. ASSUME NEW c \in Calls, Acquire(c)
      PROVE  [Sem!Next]_[t \in Tools |-> Holders(t)]
  <2>1. \A t \in Tools : Holders(t)' = Holders(t)
    BY <1>2 DEF Acquire, BreakerClosed, BreakerProbe, BreakerRefuses, vars, Holders, TypeOK
  <2> QED BY <2>1, HoldersKeptStutters
<1>3. ASSUME NEW c \in Calls, Proceed(c)
      PROVE  [Sem!Next]_[t \in Tools |-> Holders(t)]
  <2>1. tool[c] \in Tools
    BY Zenon DEF TypeOK
  <2>2. CASE BulkheadSwap(c) /\ inFlight[tool[c]] = cur[c]
    BY Zenon, <2>1, <2>2, SwapEnters DEF Sem!Next
  <2>3. ASSUME NEW r \in Replies, ForwardReturns(c, r)
        PROVE  [Sem!Next]_[t \in Tools |-> Holders(t)]
    BY Zenon, <2>1, <2>3, ReturnLeaves DEF Sem!Next
  <2>4. CASE \/ BulkheadLoad(c)
             \/ BulkheadSwap(c) /\ inFlight[tool[c]] # cur[c]
             \/ RecordSuccess(c)
             \/ RecordFailure(c)
    <3>1. pc[c] # "forward" /\ pc'[c] # "forward"
      BY <2>4 DEF BulkheadLoad, BulkheadSwap, RecordSuccess, RecordFailure, TypeOK
    <3>2. \A d \in Calls \ {c} : pc'[d] = pc[d] /\ tool'[d] = tool[d]
      BY <2>4 DEF BulkheadLoad, BulkheadSwap, RecordSuccess, RecordFailure, TypeOK
    <3> QED BY Zenon, <3>1, <3>2, HoldersKept, HoldersKeptStutters
  <2> QED BY Zenon, <1>3, <2>2, <2>3, <2>4 DEF Proceed
<1> QED BY Zenon, <1>1, <1>2, <1>3 DEF Next

\* Every behaviour of the isolator is, seen through the permit holders, a
\* behaviour of a counting semaphore with Capacity permits per tool.
THEOREM BulkheadIsSemaphore == Spec => ImplementsSemaphore
<1>1. Init => Sem!Init
  BY InitSemaphore
<1> QED BY <1>1, InitIInv, NextIInv, NextSemaphore, PTL
        DEF Spec, ImplementsSemaphore, Sem!Spec
=============================================================================
