------------------------------- MODULE Decoys --------------------------------
(***************************************************************************)
(* The decoy detector (internal/deception): a set of decoys read from a    *)
(* file, replaced by what the console exports, and the match of a call     *)
(* against it.  Folding of names and containment of markers are data:      *)
(* Fold and Inside.                                                        *)
(***************************************************************************)
EXTENDS Naturals, Sequences

CONSTANTS
  Fold,        \* norm: each spelling to its folded form
  Inside,      \* strings.Contains: pairs of a folded text and a folded marker
  MarkerRank,  \* folded markers in scan order: longest first, then lexical
  FileSets,    \* contents of the config file, <<>>: none or unreadable
  Exports,     \* what the console may export: sequences of decoys
  Touches,     \* what calls present: [token, tool, credential, values, zone, content]
  MaxSyncs     \* polls of the console

VARIABLES
  exported,  \* what the console has now
  registry,  \* the decoys in force, or <<>> when there is no detector
  lastGood,  \* history: the last set the process was given
  syncing,   \* INTENTGATE_DECEPTION_SYNC_URL is set
  asked,     \* a poll is under way: what its answer will carry
  syncs

decoyVars == <<exported, registry, lastGood, syncing, asked, syncs>>

\* The start: a file that cannot be read is skipped; without file and sync
\* the detector stays off.
DecoyInit ==
  /\ syncing \in BOOLEAN
  /\ \E file \in FileSets : /\ registry = IF syncing /\ file = <<>> THEN << <<>> >> ELSE file
                            /\ lastGood = registry
  /\ exported \in Exports
  /\ asked = <<>>
  /\ syncs = 0

ConsoleEdits(set) ==
  /\ syncing
  /\ exported' = set
  /\ UNCHANGED <<registry, lastGood, syncing, asked, syncs>>

SyncAsks ==
  /\ syncing /\ asked = <<>> /\ syncs < MaxSyncs
  /\ asked' = <<exported>>
  /\ syncs' = syncs + 1
  /\ UNCHANGED <<exported, registry, lastGood, syncing>>

\* FetchDecoys and set: the whole set is replaced.
SyncAnswers ==
  /\ asked # <<>>
  /\ registry' = asked
  /\ lastGood' = asked
  /\ asked' = <<>>
  /\ UNCHANGED <<exported, syncing, syncs>>

\* Mutant: the error is not looked at.
SyncFailsEmpty ==
  /\ asked # <<>>
  /\ registry' = << <<>> >>
  /\ asked' = <<>>
  /\ UNCHANGED <<exported, lastGood, syncing, syncs>>

\* No connection, another status or a body that does not decode.
SyncFails ==
  /\ asked # <<>>
  /\ asked' = <<>>
  /\ UNCHANGED <<exported, registry, lastGood, syncing, syncs>>

DecoyNext == (\E set \in Exports : ConsoleEdits(set)) \/ SyncAsks \/ SyncAnswers \/ SyncFails

-----------------------------------------------------------------------------
\* NewStaticRegistry: an index per kind, in which a later decoy replaces an
\* earlier one with the same key; a decoy without a key is not indexed.
\* Tokens and credential ids are compared as they are, the rest folded.
Indexed(decoys, kinds, key) ==
  LET hits == {k \in DOMAIN decoys : decoys[k].kind \in kinds /\ decoys[k].key # ""
                                     /\ decoys[k].key \in DOMAIN key}
      At(x) == {k \in hits : key[decoys[k].key] = x} IN
  [x \in {key[decoys[k].key] : k \in hits} |->
     decoys[CHOOSE k \in At(x) : \A j \in At(x) : j <= k]]

Same == [x \in DOMAIN Fold |-> x]
tools(d) == Indexed(d, {"honey_tool"}, Fold)
tokens(d) == Indexed(d, {"decoy_token"}, Same)
zones(d) == Indexed(d, {"decoy_zone"}, Fold)
creds(d) == Indexed(d, {"honey_credential"}, Same)
values(d) == Indexed(d, {"honey_credential", "honey_record"}, Fold)
canaries(d) == {decoys \in {d[k] : k \in DOMAIN d} : decoys.kind = "injection_canary"
                                                    /\ decoys.key # ""}

Hit(index, x) == IF x \in DOMAIN index THEN {index[x]} ELSE {}
FoldedHit(index, x) == IF x = "" THEN {} ELSE Hit(index, Fold[x])

\* The canaries whose marker is in the content or in a value: the first in
\* scan order is reported.
CanaryHits(d, in) ==
  LET texts == {Fold[x] : x \in ({in.content} \cup in.values) \ {""}}
      hits == {c \in canaries(d) : \E x \in texts : <<x, Fold[c.key]>> \in Inside} IN
  {c \in hits : \A o \in hits : MarkerRank[Fold[c.key]] <= MarkerRank[Fold[o.key]]}

\* Match: the decoys it may return.  The values of the arguments come from a
\* Go map, so of several that hit any may be the first.
Match(d, in) ==
  LET byToken == IF in.token = "" THEN {} ELSE Hit(tokens(d), in.token)
      byTool == FoldedHit(tools(d), in.tool)
      byCred == IF in.credential = "" THEN {} ELSE Hit(creds(d), in.credential)
      byValue == UNION {FoldedHit(values(d), v) : v \in in.values}
      byZone == FoldedHit(zones(d), in.zone) IN
  CASE byToken # {} -> byToken
    [] byToken = {} /\ byTool # {} -> byTool
    [] byToken \cup byTool = {} /\ byCred # {} -> byCred
    [] byToken \cup byTool \cup byCred = {} /\ byValue # {} -> byValue
    [] byToken \cup byTool \cup byCred \cup byValue = {} /\ byZone # {} -> byZone
    [] OTHER -> CanaryHits(d, in)

\* outcome
outcome(onTrip) ==
  CASE onTrip = "contain" -> [severity |-> "critical", action |-> "contained", contain |-> TRUE]
    [] onTrip = "hold" -> [severity |-> "high", action |-> "held", contain |-> FALSE]
    [] onTrip = "sandbox" -> [severity |-> "critical", action |-> "alerted", contain |-> FALSE]
    [] OTHER -> [severity |-> "medium", action |-> "alerted", contain |-> FALSE]

\* Check: the possible results, none when nothing trips.
DecoyCheck(in) ==
  IF registry = <<>> THEN {}
  ELSE {[decoy |-> d, response |-> outcome(d.on_trip), sandbox |-> d.on_trip = "sandbox"] :
          d \in Match(registry[1], in)}

-----------------------------------------------------------------------------
\* What touching means, one decoy at a time.
Touched(d, in) ==
  LET key == d.key IN
  /\ key # ""
  /\ \/ d.kind = "honey_tool" /\ in.tool # "" /\ Fold[in.tool] = Fold[key]
     \/ d.kind = "decoy_token" /\ in.token = key
     \/ d.kind = "decoy_zone" /\ in.zone # "" /\ Fold[in.zone] = Fold[key]
     \/ d.kind = "honey_credential" /\ in.credential = key
     \/ d.kind \in {"honey_credential", "honey_record"}
          /\ \E v \in in.values \ {""} : Fold[v] = Fold[key]
     \/ d.kind = "injection_canary"
          /\ \E x \in ({in.content} \cup in.values) \ {""} : <<Fold[x], Fold[key]>> \in Inside

\* sync.go: "a failed refresh keeps the last-known-good set, so a console blip
\* never opens a detection gap."  After any polls, answered or failed, a call
\* trips exactly when it touches a decoy of the last set the process was given,
\* and trips on a decoy it touches.
LastGoodSetTrips ==
  IF lastGood = <<>> THEN registry = <<>>
  ELSE \A in \in Touches :
         LET touched == {d \in {lastGood[1][k] : k \in DOMAIN lastGood[1]} : Touched(d, in)}
             found == {r.decoy : r \in DecoyCheck(in)} IN
         /\ found \subseteq touched
         /\ touched # {} => found # {}
=============================================================================
