--------------------------- MODULE PipelineProofs ---------------------------
(***************************************************************************)
(* What handleToolsCall promises of every request, for every set of calls, *)
(* tokens, tenants and deployments and any number of operator actions and  *)
(* of failed look-ups.                                                     *)
(***************************************************************************)
EXTENDS Pipeline, TLAPS

StageNames == {"intent", "task", "provenance", "bundle", "action", "refverify",
               "eastwest", "zonescope", "policy", "budget", "pii", "tenantscope"}

\* The places of a handler: before the capability verdict counts, up to the
\* forward, and with the upstream's answer.
Vetting == {"kill", "revoke", "caveats", "decoy", "contain"}
Behind == StageNames \cup {"wait", "acquire"}
Answering == {"answer", "response_pii", "schema"}

Places == {"idle", "done"} \cup Vetting \cup Behind \cup Answering

Decisions == {"allow", "block", "escalate"}
Checks == StageNames \cup {"capability", "deception", "fault_isolation", "upstream",
                           "output_schema", "none"}
Events == Decisions \X Checks

PipeTypes ==
  /\ pc \in [Calls -> Places]
  /\ tok \in [Calls -> Tokens \cup {NoToken}]
  /\ capErr \in [Calls -> BOOLEAN]
  /\ held \in [Calls -> SUBSET Asked] /\ granted \in [Calls -> SUBSET Asked]
  /\ sent \in [Calls -> SUBSET {{}}]
  /\ log \in [Calls -> Seq(Events)]
  /\ reply \in [Calls -> {"none", "invalid", "result", "error", "pending"}]
  /\ barred = [c \in Calls |-> barred[c]]

\* A handler that has not returned has not replied, and the body goes out
\* with the step to the answer.
Progress ==
  \A c \in Calls :
     /\ pc[c] # "done" => reply[c] = "none"
     /\ pc[c] \notin Answering \cup {"done"} => sent[c] = {}
     /\ pc[c] \in Answering => sent[c] # {}

\* What b stands for is in force against token t.
InForce(b, t) ==
  \/ b \in halts /\ Covers(b, t)
  \/ b.type = "revoked" /\ IsRevoked(t)
  \/ b.type = "trip" /\ <<b.tenant, b.value>> \in trips /\ b.tenant = Tenant[t] /\ b.value = Agent[t]

\* An answered trip is a kill of its agent, in the agent's tenant.
TripsHalted ==
  \A p \in trips : /\ p = <<p[1], p[2]>> /\ p[1] # Untenanted
                   /\ [type |-> "agent", tenant |-> p[1], value |-> p[2]] \in halts

\* What bars a call is still in force; past the kill switch only a
\* revocation is left of it, and past the capability verdict nothing.
BarredInv ==
  \A c \in Calls :
     /\ \A b \in barred[c] : tok[c] \in Tokens /\ InForce(b, tok[c])
     /\ pc[c] = "revoke" => \A b \in barred[c] : b.type = "revoked"
     /\ pc[c] \in {"caveats"} \cup Behind \cup Answering \/ sent[c] # {} => barred[c] = {}
     /\ pc[c] = "decoy" /\ capErr[c] = FALSE => barred[c] = {}
     /\ pc[c] = "kill" => tok[c] \in Tokens
     /\ pc[c] = "idle" => barred[c] = {}

\* A call waits for one approval, and past the wait none is outstanding.
HeldInv ==
  \A c \in Calls :
     /\ pc[c] \notin {"wait", "done"} => held[c] \subseteq granted[c]
     /\ pc[c] \in {"idle"} \cup Vetting => held[c] = {}
     /\ pc[c] = "wait" => \A s, r \in held[c] \ granted[c] : s = r
     /\ reply[c] = "result" \/ sent[c] # {} => held[c] \subseteq granted[c]

\* Everything AuditTellsReply says except for what a held call waits for.
TrailInv ==
  \A c \in Calls :
     /\ \A i \in 1 .. Len(log[c]) - 1 : log[c][i][1] # "block" /\ log[c][i][2] \notin {"upstream", "none"}
     /\ reply[c] \in {"none", "invalid", "pending"} =>
           Len(log[c]) = 0 \/ (Final(c)[1] # "block" /\ Final(c)[2] \notin {"upstream", "none"})
     /\ reply[c] = "error" => Len(log[c]) > 0 /\ Final(c)[1] = "block"
     /\ reply[c] = "result" =>
           /\ Len(log[c]) > 0
           /\ Final(c) = IF sent[c] # {} THEN <<"allow", "upstream">>
                         ELSE IF "upstream" \in Enabled THEN <<"escalate", "deception">>
                         ELSE IF Final(c)[1] = "escalate" THEN <<"escalate", "deception">>
                         ELSE <<"allow", "none">>

PipeInv == PipeTypes /\ Progress /\ TripsHalted /\ BarredInv /\ HeldInv /\ TrailInv

-----------------------------------------------------------------------------
(* The order of the stages. *)

LEMMA StageOrder ==
  /\ Len(Order) = 12 /\ \A i \in 1 .. 12 : Order[i] \in StageNames
  /\ \A s \in StageNames : \E i \in 1 .. 12 : Order[i] = s
  BY DEF Order, StageNames

LEMMA AskedStages ==
  /\ Asked = StageNames \ {"budget"}
  /\ \A s \in Asked : Label(s) \in StageNames /\ Origin(s) \in StageNames
  BY DEF Asked, Verdicts, StageNames, Label, Origin

\* A set of positions has a first one.
LEMMA LeastPosition ==
  ASSUME NEW T \in SUBSET (1 .. 12), T # {}
  PROVE  \E x \in T : \A y \in T : x <= y
<1> SUFFICES ASSUME \A x \in T : \E y \in T : y < x PROVE FALSE
  OBVIOUS
<1>1. \A x \in T : x > 6
  OBVIOUS
<1>2. \A x \in T : x > 12
  BY <1>1
<1>3. PICK x \in T : TRUE
  BY Zenon
<1> QED BY <1>2, <1>3

\* The handler goes on to a stage, or to the forward.
LEMMA NextIsStage ==
  ASSUME NEW i \in 0 .. 12, NEW c
  PROVE  NextAfter(i, c) \in StageNames \cup {"acquire"}
<1> DEFINE rest == {j \in i + 1 .. Len(Order) : Runs(Order[j], c)}
<1>1. CASE rest = {}
  BY Zenon, <1>1 DEF NextAfter
<1>2. CASE rest # {}
  <2>1. rest \in SUBSET (1 .. 12)
    BY StageOrder
  <2>2. \E j \in rest : \A k \in rest : j <= k
    BY Zenon, <1>2, <2>1, LeastPosition
  <2>3. PICK m \in rest : m = CHOOSE j \in rest : \A k \in rest : j <= k
    BY Zenon, <2>2
  <2>4. NextAfter(i, c) = Order[m]
    BY Zenon, <1>2, <2>3 DEF NextAfter
  <2> QED BY <2>1, <2>4, StageOrder
<1> QED BY <1>1, <1>2

LEMMA PositionInOrder ==
  ASSUME NEW s \in StageNames PROVE Position(s) \in 0 .. 12
  BY StageOrder DEF Position

-----------------------------------------------------------------------------
(* The audit events of a call. *)

\* An event after which the handler may go on.
Interim(e) == e[1] # "block" /\ e[2] \notin {"upstream", "none"}

\* The trail of a call that has not been answered.
Open(c) == \A i \in 1 .. Len(log[c]) : Interim(log[c][i])

LEMMA OpenTrail ==
  ASSUME PipeTypes, TrailInv, NEW c \in Calls, reply[c] \in {"none", "invalid", "pending"}
  PROVE  Open(c)
<1>1. log[c] \in Seq(Events)
  BY DEF PipeTypes
<1>2. Len(log[c]) \in Nat
  BY <1>1
<1> QED BY <1>1, <1>2 DEF TrailInv, Open, Interim, Final

\* The trails of the other calls stay as they are.
LEMMA OtherTrails ==
  ASSUME PipeTypes, TrailInv, NEW c \in Calls, cfg' = cfg,
         \A d \in Calls \ {c} : log'[d] = log[d] /\ reply'[d] = reply[d] /\ sent'[d] = sent[d],
         /\ \A i \in 1 .. Len(log'[c]) - 1 : Interim(log'[c][i])
         /\ reply'[c] \in {"none", "invalid", "pending"} => Len(log'[c]) = 0 \/ Interim(log'[c][Len(log'[c])])
         /\ reply'[c] = "error" => Len(log'[c]) > 0 /\ log'[c][Len(log'[c])][1] = "block"
         /\ reply'[c] = "result" =>
              /\ Len(log'[c]) > 0
              /\ \/ sent'[c] # {} /\ log'[c][Len(log'[c])] = <<"allow", "upstream">>
                 \/ sent'[c] = {} /\ log'[c][Len(log'[c])] = <<"escalate", "deception">>
                 \/ /\ sent'[c] = {} /\ "upstream" \notin Enabled
                    /\ log'[c][Len(log'[c])] = <<"allow", "none">>
  PROVE  TrailInv'
<1> SUFFICES ASSUME NEW d \in Calls
             PROVE  /\ \A i \in 1 .. Len(log'[d]) - 1 :
                          log'[d][i][1] # "block" /\ log'[d][i][2] \notin {"upstream", "none"}
                    /\ reply'[d] \in {"none", "invalid", "pending"} =>
                          Len(log'[d]) = 0 \/ (Final(d)'[1] # "block" /\ Final(d)'[2] \notin {"upstream", "none"})
                    /\ reply'[d] = "error" => Len(log'[d]) > 0 /\ Final(d)'[1] = "block"
                    /\ reply'[d] = "result" =>
                          /\ Len(log'[d]) > 0
                          /\ Final(d)' = IF sent'[d] # {} THEN <<"allow", "upstream">>
                                         ELSE IF "upstream" \in Enabled THEN <<"escalate", "deception">>
                                         ELSE IF Final(d)'[1] = "escalate" THEN <<"escalate", "deception">>
                                         ELSE <<"allow", "none">>
  BY DEF TrailInv, Final, Enabled
<1>1. CASE d = c
  BY <1>1 DEF Final, Interim
<1>2. CASE d # c
  BY <1>2 DEF Final, TrailInv
<1> QED BY Zenon, <1>1, <1>2

\* One more event at the end of an open trail.
LEMMA EventAppended ==
  ASSUME PipeTypes, NEW c \in Calls, Open(c), NEW e \in Events,
         log' = [log EXCEPT ![c] = Append(@, e)]
  PROVE  /\ log' \in [Calls -> Seq(Events)]
         /\ Len(log'[c]) > 0 /\ log'[c][Len(log'[c])] = e
         /\ \A i \in 1 .. Len(log'[c]) - 1 : Interim(log'[c][i])
         /\ \A d \in Calls \ {c} : log'[d] = log[d]
<1>1. log[c] \in Seq(Events) /\ log'[c] = Append(log[c], e)
  BY DEF PipeTypes
<1>2. Len(log'[c]) = Len(log[c]) + 1 /\ log'[c][Len(log[c]) + 1] = e /\ Len(log[c]) \in Nat
  BY <1>1
<1>3. \A i \in 1 .. Len(log[c]) : log'[c][i] = log[c][i]
  BY <1>1
<1>4. log' \in [Calls -> Seq(Events)]
  BY DEF PipeTypes
<1> QED BY <1>2, <1>3, <1>4 DEF Open, PipeTypes

-----------------------------------------------------------------------------
(* The kinds of steps of a handler. *)

\* What the stores hold against the calls only grows.
Shared ==
  /\ UNCHANGED <<cfg, tok, barred>>
  /\ halts \subseteq halts' /\ revoked \subseteq revoked' /\ trips \subseteq trips'
  /\ TripsHalted => TripsHalted'

\* Whatever is in force stays in force.
LEMMA ForceKept ==
  ASSUME PipeTypes, BarredInv, Shared
  PROVE  \A d \in Calls : \A b \in barred'[d] : tok'[d] \in Tokens /\ InForce(b, tok[d])'
<1> TAKE d \in Calls
<1> TAKE b \in barred'[d]
<1>1. b \in barred[d] /\ tok[d] \in Tokens /\ InForce(b, tok[d])
  BY DEF BarredInv, Shared
<1>2. PICK t \in Tokens : t = tok[d] /\ t = tok'[d]
  BY <1>1 DEF Shared
<1>3. InForce(b, t)
  BY <1>1, <1>2
<1>4. IsRevoked(t) => IsRevoked(t)'
  BY DEF IsRevoked, Shared
<1>5. InForce(b, t)'
  BY Zenon, <1>3, <1>4 DEF InForce, Covers, Shared
<1> QED BY Zenon, <1>2, <1>5

\* A block is an error with a block event at the end of the trail.
LEMMA BlockKeeps ==
  ASSUME PipeInv, NEW c \in Calls, NEW check \in Checks, Blocks(c, check),
         pc[c] # "done", Shared, UNCHANGED <<capErr, held, granted, sent>>
  PROVE  PipeInv'
<1> USE DEF PipeInv, Shared
<1>1. /\ pc' = [pc EXCEPT ![c] = "done"] /\ reply' = [reply EXCEPT ![c] = "error"]
      /\ log' = [log EXCEPT ![c] = Append(@, <<"block", check>>)]
  BY DEF Blocks, Emits, Returns
<1>2. Open(c)
  BY Zenon, OpenTrail DEF Progress
<1>3. <<"block", check>> \in Events
  BY DEF Events, Decisions
<1>4. /\ log' \in [Calls -> Seq(Events)]
      /\ Len(log'[c]) > 0 /\ log'[c][Len(log'[c])] = <<"block", check>>
      /\ \A i \in 1 .. Len(log'[c]) - 1 : Interim(log'[c][i])
      /\ \A d \in Calls \ {c} : log'[d] = log[d]
  BY Zenon, <1>1, <1>2, <1>3, EventAppended
<1>5. PipeTypes'
  BY Zenon, <1>1, <1>4 DEF PipeTypes, Places
<1>6. Progress'
  BY <1>1 DEF Progress, PipeTypes, Answering
<1>7. TripsHalted' /\ BarredInv'
  <2>1. \A d \in Calls : \A b \in barred'[d] : tok'[d] \in Tokens /\ InForce(b, tok[d])'
    BY Zenon, ForceKept
  <2>2. BarredInv'
    BY <1>1, <2>1 DEF BarredInv, PipeTypes, Behind, Answering, StageNames
  <2> QED BY Zenon, <2>2 DEF TripsHalted
<1>8. HeldInv'
  BY <1>1 DEF HeldInv, PipeTypes, Vetting
<1>9. TrailInv'
  <2>1. \A d \in Calls \ {c} : reply'[d] = reply[d]
    BY <1>1 DEF PipeTypes
  <2>2. reply'[c] = "error"
    BY <1>1 DEF PipeTypes
  <2> QED BY <1>4, <2>1, <2>2, OtherTrails
<1> QED BY Zenon, <1>5, <1>6, <1>7, <1>8, <1>9

\* The trail of a call that goes on is left alone or gets an interim event.
Notes(c) ==
  \/ log' = log
  \/ \E d \in {"allow", "escalate"}, check \in Checks \ {"upstream", "none"} : Emits(c, d, check)

LEMMA NoteTaken ==
  ASSUME PipeTypes, TrailInv, NEW c \in Calls, Notes(c), reply[c] = "none"
  PROVE  /\ log' \in [Calls -> Seq(Events)]
         /\ \A i \in 1 .. Len(log'[c]) : Interim(log'[c][i])
         /\ \A d \in Calls \ {c} : log'[d] = log[d]
<1>1. Open(c)
  BY Zenon, OpenTrail
<1>2. CASE log' = log
  BY Zenon, <1>1, <1>2 DEF PipeTypes, Open
<1>3. CASE log' # log
  <2>1. PICK d \in {"allow", "escalate"}, check \in Checks \ {"upstream", "none"} :
            log' = [log EXCEPT ![c] = Append(@, <<d, check>>)]
    BY Zenon, <1>3 DEF Notes, Emits
  <2>2. <<d, check>> \in Events /\ Interim(<<d, check>>)
    BY Zenon DEF Events, Decisions, Interim
  <2>3. /\ log' \in [Calls -> Seq(Events)]
        /\ Len(log'[c]) > 0 /\ log'[c][Len(log'[c])] = <<d, check>>
        /\ \A i \in 1 .. Len(log'[c]) - 1 : Interim(log'[c][i])
        /\ \A x \in Calls \ {c} : log'[x] = log[x]
    BY Zenon, <1>1, <2>1, <2>2, EventAppended
  <2>4. Len(log'[c]) \in Nat
    BY <2>3
  <2>5. \A i \in 1 .. Len(log'[c]) : i \in 1 .. Len(log'[c]) - 1 \/ i = Len(log'[c])
    BY <2>4
  <2> QED BY Zenon, <2>2, <2>3, <2>5
<1> QED BY Zenon, <1>2, <1>3

LEMMA NotesKeeps ==
  ASSUME PipeTypes, TrailInv, NEW c \in Calls, Notes(c), reply[c] = "none",
         UNCHANGED <<cfg, reply>>, \A d \in Calls \ {c} : sent'[d] = sent[d]
  PROVE  log' \in [Calls -> Seq(Events)] /\ TrailInv'
<1>1. /\ log' \in [Calls -> Seq(Events)]
      /\ \A i \in 1 .. Len(log'[c]) : Interim(log'[c][i])
      /\ \A d \in Calls \ {c} : log'[d] = log[d]
  BY Zenon, NoteTaken
<1>2. log'[c] \in Seq(Events) /\ Len(log'[c]) \in Nat
  BY <1>1
<1>3. /\ \A i \in 1 .. Len(log'[c]) - 1 : Interim(log'[c][i])
      /\ Len(log'[c]) = 0 \/ Interim(log'[c][Len(log'[c])])
  BY <1>1, <1>2
<1> QED BY Zenon, <1>1, <1>3, OtherTrails

\* Going on from a passed capability check, a passed stage or an answer.
LEMMA MoveKeeps ==
  ASSUME PipeInv, NEW c \in Calls, NEW l, Goes(c, l), Notes(c),
         \/ /\ (pc[c] = "decoy" /\ capErr[c] = FALSE) \/ pc[c] \in StageNames
            /\ l \in StageNames \cup {"acquire"}
         \/ pc[c] \in Answering /\ l \in Answering,
         Shared, UNCHANGED <<reply, capErr, held, granted, sent>>
  PROVE  PipeInv'
<1> USE DEF PipeInv
<1>1. pc' = [pc EXCEPT ![c] = l] /\ l \in Places /\ pc[c] # "done" /\ pc[c] # "wait"
  BY DEF Goes, Places, Behind, Answering, StageNames
<1>2. log' \in [Calls -> Seq(Events)] /\ TrailInv'
  BY Zenon, <1>1, NotesKeeps DEF Progress, Shared
<1>3. PipeTypes'
  BY Zenon, <1>1, <1>2 DEF PipeTypes, Shared
<1>4. Progress'
  BY <1>1 DEF Progress, PipeTypes, Answering, StageNames
<1>5. \A d \in Calls : \A b \in barred'[d] : tok'[d] \in Tokens /\ InForce(b, tok[d])'
  BY Zenon, ForceKept
<1>6. barred[c] = {}
  BY Zenon DEF BarredInv, Behind
<1>7. BarredInv'
  BY <1>1, <1>5, <1>6 DEF BarredInv, PipeTypes, Shared, Answering, StageNames
<1>8. held[c] \subseteq granted[c]
  BY Zenon, <1>1 DEF HeldInv
<1>9. HeldInv'
  BY <1>1, <1>8 DEF HeldInv, PipeTypes, Vetting, StageNames, Answering
<1> QED BY <1>2, <1>3, <1>4, <1>7, <1>9 DEF TripsHalted, Shared

\* Going on within the capability check and the decoy check.
LEMMA VettingKeeps ==
  ASSUME PipeInv, NEW c \in Calls, NEW l \in Vetting, Goes(c, l), pc[c] \in Vetting,
         capErr' = [capErr EXCEPT ![c] = capErr'[c]], capErr'[c] \in BOOLEAN,
         l = "revoke" => \A b \in barred[c] : b.type = "revoked",
         l = "caveats" => barred[c] = {},
         l = "decoy" /\ capErr'[c] = FALSE => barred[c] = {},
         l # "kill", Shared, UNCHANGED <<reply, held, granted, sent, log>>
  PROVE  PipeInv'
<1> USE DEF PipeInv
<1>1. pc' = [pc EXCEPT ![c] = l] /\ l \in Places /\ pc[c] # "done" /\ pc[c] # "wait"
  BY Zenon DEF Goes, Places, Vetting
<1>2. TrailInv'
  BY Zenon, <1>1, NotesKeeps DEF Progress, Shared, Notes
<1>3. PipeTypes'
  BY Zenon, <1>1, <1>2 DEF PipeTypes, Shared
<1>4. Progress'
  BY <1>1 DEF Progress, PipeTypes, Answering, Vetting
<1>5. \A d \in Calls : \A b \in barred'[d] : tok'[d] \in Tokens /\ InForce(b, tok[d])'
  BY Zenon, ForceKept
<1>6. sent[c] = {}
  BY Zenon DEF Progress, Vetting, Answering
<1>7. BarredInv'
  BY <1>1, <1>5, <1>6 DEF BarredInv, PipeTypes, Shared, Answering, StageNames, Behind, Vetting
<1>8. held[c] = {}
  BY Zenon, <1>1 DEF HeldInv
<1>9. HeldInv'
  BY <1>1, <1>8 DEF HeldInv, PipeTypes, Vetting
<1> QED BY Zenon, <1>2, <1>3, <1>4, <1>7, <1>9 DEF TripsHalted, Shared

\* An answer is the end of a trail that says where it came from.
LEMMA ResultKeeps ==
  ASSUME PipeInv, NEW c \in Calls, Returns(c, "result"), pc[c] \notin {"wait", "done"},
         log' \in [Calls -> Seq(Events)], Len(log'[c]) > 0,
         \A i \in 1 .. Len(log'[c]) - 1 : Interim(log'[c][i]),
         \A d \in Calls \ {c} : log'[d] = log[d],
         \/ sent[c] # {} /\ log'[c][Len(log'[c])] = <<"allow", "upstream">>
         \/ sent[c] = {} /\ log'[c][Len(log'[c])] = <<"escalate", "deception">>
         \/ /\ sent[c] = {} /\ "upstream" \notin Enabled
            /\ log'[c][Len(log'[c])] = <<"allow", "none">>,
         Shared, UNCHANGED <<capErr, held, granted, sent>>
  PROVE  PipeInv'
<1> USE DEF PipeInv
<1>1. pc' = [pc EXCEPT ![c] = "done"] /\ reply' = [reply EXCEPT ![c] = "result"]
  BY Zenon DEF Returns
<1>2. PipeTypes'
  BY Zenon, <1>1 DEF PipeTypes, Places, Shared
<1>3. Progress'
  BY Zenon, <1>1 DEF Progress, PipeTypes, Answering
<1>4. TrailInv'
  <2>1. \A d \in Calls \ {c} : reply'[d] = reply[d] /\ sent'[d] = sent[d]
    BY <1>1 DEF PipeTypes
  <2>2. reply'[c] = "result" /\ sent'[c] = sent[c]
    BY <1>1 DEF PipeTypes
  <2> QED BY Zenon, <2>1, <2>2, OtherTrails DEF Shared
<1>5. \A d \in Calls : \A b \in barred'[d] : tok'[d] \in Tokens /\ InForce(b, tok[d])'
  BY Zenon, ForceKept
<1>6. BarredInv'
  BY Zenon, <1>1, <1>5 DEF BarredInv, PipeTypes, Shared, Answering, StageNames, Behind
<1>7. HeldInv'
  BY <1>1 DEF HeldInv, PipeTypes, Vetting
<1> QED BY Zenon, <1>2, <1>3, <1>4, <1>6, <1>7 DEF TripsHalted, Shared

-----------------------------------------------------------------------------
(* The capability check and deception. *)

\* A request starts barred by exactly what is in force against its token.
LEMMA StartKeeps ==
  ASSUME PipeInv, NEW c \in Calls, NEW t \in Tokens \cup {NoToken}, Start(c, t)
  PROVE  PipeInv'
<1> USE DEF PipeInv
<1>1. /\ pc[c] = "idle" /\ pc' = [pc EXCEPT ![c] = IF t = NoToken THEN "decoy" ELSE "kill"]
      /\ tok' = [tok EXCEPT ![c] = t]
      /\ capErr' = [capErr EXCEPT ![c] = capErr'[c]] /\ capErr'[c] \in BOOLEAN
      /\ barred' = [barred EXCEPT ![c] = AgainstIt(t)]
      /\ UNCHANGED <<cfg, held, granted, sent, log, reply, halts, revoked, trips>>
  BY DEF Start, Goes, stores, PipeTypes
<1>2. PipeTypes'
  BY Zenon, <1>1 DEF PipeTypes, Places, Vetting
<1>3. Progress'
  BY Zenon, <1>1 DEF Progress, PipeTypes, Answering
<1>4. TrailInv'
  BY Zenon, <1>1, NotesKeeps DEF Progress, Notes
<1>5. HeldInv'
  BY <1>1 DEF HeldInv, PipeTypes, Vetting
<1>6. \A b \in AgainstIt(t) : t \in Tokens /\ InForce(b, t)'
  <2> SUFFICES ASSUME NEW b \in AgainstIt(t) PROVE t \in Tokens /\ InForce(b, t)'
    BY Zenon
  <2>1. t \in Tokens
    BY Zenon DEF AgainstIt
  <2>2. CASE b \in halts /\ Covers(b, t)
    BY Zenon, <1>1, <2>1, <2>2 DEF InForce, Covers
  <2>3. CASE b = [type |-> "revoked"] /\ IsRevoked(t)
    BY Zenon, <1>1, <2>1, <2>3 DEF InForce, IsRevoked
  <2>4. CASE \E p \in trips \cap {<<Tenant[t], Agent[t]>>} :
                b = [type |-> "trip", tenant |-> p[1], value |-> p[2]]
    BY <1>1, <2>1, <2>4 DEF InForce
  <2> QED BY Zenon, <2>1, <2>2, <2>3, <2>4, TokenAssumption DEF AgainstIt
<1>7. t = NoToken => AgainstIt(t) = {}
  BY Zenon DEF AgainstIt
<1>8. BarredInv'
  <2> SUFFICES ASSUME NEW d \in Calls
               PROVE  /\ \A b \in barred'[d] : tok'[d] \in Tokens /\ InForce(b, tok[d])'
                      /\ pc'[d] = "revoke" => \A b \in barred'[d] : b.type = "revoked"
                      /\ pc'[d] \in {"caveats"} \cup Behind \cup Answering \/ sent'[d] # {}
                           => barred'[d] = {}
                      /\ pc'[d] = "decoy" /\ capErr'[d] = FALSE => barred'[d] = {}
                      /\ pc'[d] = "kill" => tok'[d] \in Tokens
                      /\ pc'[d] = "idle" => barred'[d] = {}
    BY Zenon DEF BarredInv
  <2>1. CASE d = c
    <3>1. tok'[d] = t /\ barred'[d] = AgainstIt(t) /\ pc'[d] = IF t = NoToken THEN "decoy" ELSE "kill"
      BY Zenon, <1>1, <2>1 DEF PipeTypes
    <3>2. sent'[d] = {}
      BY Zenon, <1>1, <2>1 DEF Progress, Answering
    <3> QED BY Zenon, <3>1, <3>2, <1>6, <1>7 DEF Behind, Answering, StageNames
  <2>2. CASE d # c
    <3>1. /\ tok'[d] = tok[d] /\ barred'[d] = barred[d] /\ pc'[d] = pc[d]
          /\ capErr'[d] = capErr[d] /\ sent'[d] = sent[d]
      BY Zenon, <1>1, <2>2 DEF PipeTypes
    <3>2. PICK x : x = tok[d] /\ x = tok'[d]
      BY Zenon, <3>1
    <3>3. \A b \in barred[d] : InForce(b, x)
      BY Zenon, <3>2 DEF BarredInv
    <3>4. \A b \in barred[d] : InForce(b, x)'
      BY Zenon, <3>3, <1>1 DEF InForce, Covers, IsRevoked
    <3> QED BY Zenon, <3>1, <3>2, <3>4 DEF BarredInv
  <2> QED BY Zenon, <2>1, <2>2
<1> QED BY Zenon, <1>1, <1>2, <1>3, <1>4, <1>5, <1>8 DEF TripsHalted

LEMMA StartInvalidKeeps ==
  ASSUME PipeInv, NEW c \in Calls, StartInvalid(c)
  PROVE  PipeInv'
<1> USE DEF PipeInv
<1>1. /\ pc[c] = "idle" /\ pc' = [pc EXCEPT ![c] = "done"] /\ reply' = [reply EXCEPT ![c] = "invalid"]
      /\ Shared /\ UNCHANGED <<log, capErr, held, granted, sent>>
  BY Zenon DEF StartInvalid, Returns, request, stores, history, Shared, TripsHalted
<1>2. PipeTypes'
  BY Zenon, <1>1 DEF PipeTypes, Places, Shared
<1>3. Progress'
  BY Zenon, <1>1 DEF Progress, PipeTypes, Answering
<1>4. TrailInv'
  <2>1. Open(c)
    BY Zenon, <1>1, OpenTrail DEF Progress
  <2>2. log[c] \in Seq(Events) /\ Len(log[c]) \in Nat
    BY DEF PipeTypes
  <2>3. /\ \A i \in 1 .. Len(log'[c]) - 1 : Interim(log'[c][i])
        /\ Len(log'[c]) = 0 \/ Interim(log'[c][Len(log'[c])])
    BY <1>1, <2>1, <2>2 DEF Open
  <2>4. \A d \in Calls \ {c} : reply'[d] = reply[d]
    BY <1>1 DEF PipeTypes
  <2>5. reply'[c] = "invalid"
    BY <1>1 DEF PipeTypes
  <2> QED BY Zenon, <1>1, <2>3, <2>4, <2>5, OtherTrails DEF Shared
<1>5. \A d \in Calls : \A b \in barred'[d] : tok'[d] \in Tokens /\ InForce(b, tok[d])'
  BY Zenon, <1>1, ForceKept
<1>6. BarredInv'
  BY <1>1, <1>5 DEF BarredInv, PipeTypes, Shared, Answering, StageNames, Behind
<1>7. HeldInv'
  BY <1>1 DEF HeldInv, PipeTypes, Vetting
<1> QED BY Zenon, <1>1, <1>2, <1>3, <1>4, <1>6, <1>7 DEF TripsHalted, Shared

\* Past the kill switch no kill and no answered trip is left, past the
\* revocation list nothing; a failure is remembered until the decoy check.
LEMMA CapabilityKeeps ==
  ASSUME PipeInv, NEW c \in Calls,
         \/ \E l \in {"kill", "revoke"} : LookupFails(c, l)
         \/ KillCheck(c) \/ RevocationCheck(c) \/ CaveatCheck(c)
  PROVE  PipeInv'
<1> USE DEF PipeInv
<1>1. /\ pc[c] \in {"kill", "revoke", "caveats"} /\ Shared
      /\ UNCHANGED <<reply, held, granted, sent, log>>
  BY Zenon
     DEF LookupFails, KillCheck, RevocationCheck, CaveatCheck, request, stores, history, Shared, TripsHalted
<1>2. CASE CapFails(c)
  <2>1. Goes(c, "decoy") /\ capErr' = [capErr EXCEPT ![c] = TRUE] /\ capErr'[c] = TRUE
    BY <1>2 DEF CapFails, PipeTypes
  <2> QED BY Zenon, <1>1, <2>1, VettingKeeps DEF Vetting
<1>3. CASE ~CapFails(c)
  <2>0. capErr' = capErr /\ capErr' = [capErr EXCEPT ![c] = capErr'[c]] /\ capErr'[c] \in BOOLEAN
    BY Zenon, <1>3 DEF LookupFails, KillCheck, RevocationCheck, CaveatCheck, PipeTypes
  <2>1. CASE pc[c] = "kill"
    <3>1. Goes(c, "revoke") /\ ~ \E e \in halts : Covers(e, tok[c])
      BY Zenon, <1>3, <2>1 DEF LookupFails, KillCheck, RevocationCheck, CaveatCheck
    <3>2. ASSUME NEW b \in barred[c] PROVE b.type = "revoked"
      <4>1. tok[c] \in Tokens /\ InForce(b, tok[c])
        BY Zenon DEF BarredInv
      <4>2. PICK t \in Tokens : t = tok[c]
        BY Zenon, <4>1
      <4>3. ASSUME b.type = "trip", <<b.tenant, b.value>> \in trips,
                   b.tenant = Tenant[t], b.value = Agent[t]
            PROVE  FALSE
        <5>1. PICK e : e = [type |-> "agent", tenant |-> b.tenant, value |-> b.value]
          BY Zenon
        <5>2. e \in halts /\ b.tenant # Untenanted
          BY Zenon, <4>3, <5>1 DEF TripsHalted
        <5>3. Covers(e, t)
          BY Zenon, <4>3, <5>1, <5>2 DEF Covers
        <5> QED BY Zenon, <3>1, <4>2, <5>2, <5>3
      <4> QED BY Zenon, <3>1, <4>1, <4>2, <4>3 DEF InForce
    <3> QED BY Zenon, <1>1, <2>0, <2>1, <3>1, <3>2, VettingKeeps DEF Vetting
  <2>2. CASE pc[c] = "revoke"
    <3>1. Goes(c, "caveats") /\ ~IsRevoked(tok[c])
      BY Zenon, <1>3, <2>2 DEF LookupFails, KillCheck, RevocationCheck, CaveatCheck
    <3>2. barred[c] = {}
      BY Zenon, <2>2, <3>1 DEF BarredInv, InForce, Covers
    <3> QED BY Zenon, <1>1, <2>0, <2>2, <3>1, <3>2, VettingKeeps DEF Vetting
  <2>3. CASE pc[c] = "caveats"
    <3>1. Goes(c, "decoy")
      BY Zenon, <1>3, <2>3 DEF LookupFails, KillCheck, RevocationCheck, CaveatCheck
    <3>2. barred[c] = {}
      BY Zenon, <2>3 DEF BarredInv
    <3> QED BY Zenon, <1>1, <2>0, <2>3, <3>1, <3>2, VettingKeeps DEF Vetting
  <2> QED BY Zenon, <1>1, <2>1, <2>2, <2>3
<1> QED BY Zenon, <1>2, <1>3

\* The decoy check: the capability verdict counts, or the decoy answers.
LEMMA DecoyKeeps ==
  ASSUME PipeInv, NEW c \in Calls,
         NoDecoy(c) \/ Sandboxed(c) \/ Tripped(c) \/ ContainEngage(c) \/ ContainRevoke(c)
  PROVE  PipeInv'
<1> USE DEF PipeInv
<1>1. CASE NoDecoy(c)
  <2>1. /\ pc[c] = "decoy" /\ Shared /\ UNCHANGED <<capErr, held, granted, sent>>
    BY Zenon, <1>1 DEF NoDecoy, request, stores, history, Shared, TripsHalted
  <2>2. CASE capErr[c] = TRUE
    <3>1. Blocks(c, "capability")
      BY Zenon, <1>1, <2>2 DEF NoDecoy
    <3> QED BY Zenon, <2>1, <3>1, BlockKeeps DEF Checks
  <2>3. CASE capErr[c] = FALSE
    <3>1. Proceeds(c, 0) /\ log' = log
      BY Zenon, <1>1, <2>3 DEF NoDecoy
    <3>2. PICK l \in StageNames \cup {"acquire"} : l = NextAfter(0, c)
      BY NextIsStage
    <3>3. Goes(c, l) /\ reply' = reply /\ Notes(c)
      BY Zenon, <3>1, <3>2 DEF Proceeds, Goes, Notes
    <3> QED BY Zenon, <2>1, <2>3, <3>3, MoveKeeps
  <2> QED BY Zenon, <2>2, <2>3 DEF PipeTypes
<1>2. CASE Sandboxed(c)
  <2>1. /\ pc[c] = "decoy" /\ Shared /\ UNCHANGED <<capErr, held, granted, sent>>
        /\ Returns(c, "result") /\ log' = [log EXCEPT ![c] = Append(@, <<"escalate", "deception">>)]
    BY Zenon, <1>2 DEF Sandboxed, Emits, request, stores, history, Shared, TripsHalted
  <2>2. sent[c] = {} /\ Open(c)
    BY Zenon, <2>1, OpenTrail DEF Progress, Answering
  <2>3. <<"escalate", "deception">> \in Events
    BY Zenon DEF Events, Decisions, Checks
  <2>4. /\ log' \in [Calls -> Seq(Events)]
        /\ Len(log'[c]) > 0 /\ log'[c][Len(log'[c])] = <<"escalate", "deception">>
        /\ \A i \in 1 .. Len(log'[c]) - 1 : Interim(log'[c][i])
        /\ \A d \in Calls \ {c} : log'[d] = log[d]
    BY Zenon, <2>1, <2>2, <2>3, EventAppended
  <2> QED BY Zenon, <2>1, <2>2, <2>4, ResultKeeps
<1>3. CASE Tripped(c)
  <2>1. /\ pc[c] = "decoy" /\ Shared /\ UNCHANGED <<capErr, held, granted, sent>>
        /\ Blocks(c, "deception")
    BY Zenon, <1>3 DEF Tripped, request, stores, history, Shared, TripsHalted
  <2> QED BY Zenon, <2>1, BlockKeeps DEF Checks
<1>4. CASE ContainEngage(c)
  <2>1. PICK e : e = [type |-> "agent", tenant |-> Tenant[tok[c]], value |-> Agent[tok[c]]]
    BY Zenon
  <2>2. /\ pc[c] = "decoy" /\ Goes(c, "contain")
        /\ UNCHANGED <<cfg, tok, barred, capErr, held, granted, sent, log, reply, revoked>>
        /\ \/ e.tenant # Untenanted /\ halts' = halts \cup {e} /\ trips' = trips \cup {<<e.tenant, e.value>>}
           \/ UNCHANGED <<halts, trips>>
    BY Zenon, <1>4, <2>1 DEF ContainEngage, Validate, request
  <2>3. TripsHalted'
    <3> SUFFICES ASSUME NEW p \in trips'
                 PROVE  /\ p = <<p[1], p[2]>> /\ p[1] # Untenanted
                        /\ [type |-> "agent", tenant |-> p[1], value |-> p[2]] \in halts'
      BY Zenon DEF TripsHalted
    <3>1. CASE p \in trips
      BY Zenon, <2>2, <3>1 DEF TripsHalted
    <3>2. CASE p \notin trips
      <4>1. /\ p = <<e.tenant, e.value>> /\ e.tenant # Untenanted /\ e \in halts'
        BY Zenon, <2>2, <3>2
      <4>2. p[1] = e.tenant /\ p[2] = e.value
        BY Zenon, <4>1
      <4>3. e = [type |-> "agent", tenant |-> e.tenant, value |-> e.value]
        BY Zenon, <2>1
      <4> QED BY Zenon, <4>1, <4>2, <4>3
    <3> QED BY Zenon, <3>1, <3>2
  <2>4. Shared
    BY Zenon, <2>2, <2>3 DEF Shared
  <2>5. capErr' = [capErr EXCEPT ![c] = capErr'[c]] /\ capErr'[c] \in BOOLEAN
    BY Zenon, <2>2 DEF PipeTypes
  <2> QED BY Zenon, <2>2, <2>4, <2>5, VettingKeeps DEF Vetting
<1>5. CASE ContainRevoke(c)
  <2>1. /\ pc[c] = "contain" /\ Shared /\ UNCHANGED <<capErr, held, granted, sent>>
        /\ Blocks(c, "deception")
    BY Zenon, <1>5 DEF ContainRevoke, request, history, Shared, TripsHalted
  <2> QED BY <2>1, BlockKeeps DEF Checks
<1> QED BY Zenon, <1>1, <1>2, <1>3, <1>4, <1>5

-----------------------------------------------------------------------------
(* The stages up to the forward. *)

LEMMA StageKeeps ==
  ASSUME PipeInv, NEW c \in Calls, NEW s \in Asked, Stage(c, s)
  PROVE  PipeInv'
<1> USE DEF PipeInv
<1>1. /\ pc[c] = s /\ Shared /\ UNCHANGED <<capErr, held, granted, sent>>
      /\ s \in StageNames /\ Label(s) \in StageNames
  BY Zenon, AskedStages DEF Stage, request, stores, history, Shared, TripsHalted
<1>2. CASE Blocks(c, Label(s))
  <2>1. PICK k \in Checks : k = Label(s)
    BY <1>1 DEF Checks
  <2>2. Blocks(c, k) /\ pc[c] # "done"
    BY Zenon, <1>1, <1>2, <2>1 DEF StageNames
  <2> QED BY Zenon, <1>1, <2>2, BlockKeeps
<1>3. CASE Proceeds(c, Position(s)) /\ (log' = log \/ Emits(c, "allow", Label(s)))
  <2>1. PICK p \in 0 .. 12 : p = Position(s)
    BY <1>1, PositionInOrder
  <2>2. PICK l \in StageNames \cup {"acquire"} : l = NextAfter(p, c)
    BY NextIsStage
  <2>3. Goes(c, l) /\ reply' = reply
    BY <1>3, <2>1, <2>2 DEF Proceeds, Goes
  <2>4. Notes(c)
    BY <1>1, <1>3 DEF Notes, Checks, StageNames
  <2> QED BY Zenon, <1>1, <2>3, <2>4, MoveKeeps
<1> QED BY Zenon, <1>2, <1>3 DEF Stage

\* A call that is told to wait returns with an open trail.
LEMMA HoldKeeps ==
  ASSUME PipeInv, NEW c \in Calls, Returns(c, "pending"), pc[c] \in StageNames, Notes(c),
         held' \in [Calls -> SUBSET Asked], \A d \in Calls \ {c} : held'[d] = held[d],
         Shared, UNCHANGED <<capErr, granted, sent>>
  PROVE  PipeInv'
<1> USE DEF PipeInv
<1>1. pc' = [pc EXCEPT ![c] = "done"] /\ reply' = [reply EXCEPT ![c] = "pending"]
  BY Zenon DEF Returns
<1>2. sent[c] = {} /\ reply[c] = "none" /\ pc[c] # "done"
  BY DEF Progress, StageNames, Answering
<1>3. /\ log' \in [Calls -> Seq(Events)]
      /\ \A i \in 1 .. Len(log'[c]) : Interim(log'[c][i])
      /\ \A d \in Calls \ {c} : log'[d] = log[d]
  BY Zenon, <1>2, NoteTaken
<1>4. PipeTypes'
  BY Zenon, <1>1, <1>3 DEF PipeTypes, Places, Shared
<1>5. Progress'
  BY Zenon, <1>1, <1>2 DEF Progress, PipeTypes, Answering
<1>6. TrailInv'
  <2>1. \A d \in Calls \ {c} : reply'[d] = reply[d] /\ sent'[d] = sent[d]
    BY <1>1 DEF PipeTypes
  <2>2. reply'[c] = "pending"
    BY <1>1 DEF PipeTypes
  <2>3. log'[c] \in Seq(Events) /\ Len(log'[c]) \in Nat
    BY <1>3
  <2>4. /\ \A i \in 1 .. Len(log'[c]) - 1 : Interim(log'[c][i])
        /\ Len(log'[c]) = 0 \/ Interim(log'[c][Len(log'[c])])
    BY <1>3, <2>3
  <2> QED BY Zenon, <1>3, <2>1, <2>2, <2>4, OtherTrails DEF Shared
<1>7. \A d \in Calls : \A b \in barred'[d] : tok'[d] \in Tokens /\ InForce(b, tok[d])'
  BY Zenon, ForceKept
<1>8. BarredInv'
  BY Zenon, <1>1, <1>2, <1>7 DEF BarredInv, PipeTypes, Shared, Answering, StageNames, Behind
<1>9. HeldInv'
  BY <1>1, <1>2 DEF HeldInv, PipeTypes, Vetting
<1> QED BY Zenon, <1>4, <1>5, <1>6, <1>8, <1>9 DEF TripsHalted, Shared

\* A stage that asks for a human is held until the approval, or refuses.
LEMMA EscalateKeeps ==
  ASSUME PipeInv, NEW c \in Calls, NEW s \in Asked, Escalate(c, s)
  PROVE  PipeInv'
<1> USE DEF PipeInv
<1>1. /\ pc[c] = s /\ Shared /\ UNCHANGED <<capErr, granted, sent>>
      /\ s \in StageNames /\ Origin(s) \in StageNames
  BY Zenon, AskedStages DEF Escalate, request, stores, history, Shared, TripsHalted
<1>2. CASE Blocks(c, Origin(s)) /\ held' = held
  <2>1. PICK k \in Checks : k = Origin(s)
    BY Zenon, <1>1 DEF Checks
  <2>2. Blocks(c, k) /\ pc[c] # "done"
    BY Zenon, <1>1, <1>2, <2>1 DEF StageNames
  <2> QED BY Zenon, <1>1, <1>2, <2>2, BlockKeeps
<1>3. CASE Files(c, s) /\ ~cfg.async
  <2>0. /\ held' = [held EXCEPT ![c] = @ \cup {s}] /\ Emits(c, "escalate", Origin(s))
        /\ pc' = [pc EXCEPT ![c] = "wait"] /\ reply' = reply
    BY Zenon, <1>3 DEF Files, Goes
  <2>1. Notes(c) /\ reply[c] = "none" /\ pc[c] \notin {"wait", "done"} \cup Answering
    BY <1>1, <2>0 DEF Notes, Checks, StageNames, Progress, Answering
  <2>2. log' \in [Calls -> Seq(Events)] /\ TrailInv'
    BY Zenon, <1>1, <2>0, <2>1, NotesKeeps DEF Shared
  <2>3. PipeTypes'
    BY Zenon, <1>1, <2>0, <2>2 DEF PipeTypes, Shared, Places, Behind
  <2>4. Progress'
    BY <1>1, <2>0, <2>1 DEF Progress, PipeTypes, Answering
  <2>5. \A d \in Calls : \A b \in barred'[d] : tok'[d] \in Tokens /\ InForce(b, tok[d])'
    BY Zenon, <1>1, ForceKept
  <2>6. barred[c] = {}
    BY Zenon, <1>1 DEF BarredInv, Behind
  <2>7. BarredInv'
    BY <1>1, <2>0, <2>5, <2>6 DEF BarredInv, PipeTypes, Shared
  <2>8. held[c] \subseteq granted[c] /\ sent[c] = {}
    BY Zenon, <2>1 DEF HeldInv, Progress
  <2>9. HeldInv'
    BY <1>1, <2>0, <2>1, <2>8 DEF HeldInv, PipeTypes, Vetting
  <2> QED BY Zenon, <1>1, <2>2, <2>3, <2>4, <2>7, <2>9 DEF Shared
<1>4. CASE Files(c, s) /\ cfg.async
  <2>1. /\ held' = [held EXCEPT ![c] = @ \cup {s}] /\ Emits(c, "escalate", Origin(s))
        /\ Returns(c, "pending")
    BY Zenon, <1>4 DEF Files
  <2>2. Notes(c)
    BY <1>1, <2>1 DEF Notes, Checks, StageNames
  <2>3. held' \in [Calls -> SUBSET Asked] /\ \A d \in Calls \ {c} : held'[d] = held[d]
    BY <2>1 DEF PipeTypes
  <2> QED BY Zenon, <1>1, <2>1, <2>2, <2>3, HoldKeeps
<1> QED BY Zenon, <1>2, <1>3, <1>4 DEF Escalate

\* One approval lets a call past one stage.
LEMMA PassKeeps ==
  ASSUME PipeInv, NEW c \in Calls, NEW s \in Asked, Passes(c, s),
         pc[c] \in StageNames \cup {"wait"}, held[c] \subseteq granted[c] \cup {s},
         held' = held \/ held' = [held EXCEPT ![c] = @ \cup {s}],
         Shared, UNCHANGED <<capErr, sent>>
  PROVE  PipeInv'
<1> USE DEF PipeInv
<1>1. /\ s \in StageNames /\ Origin(s) \in StageNames /\ pc[c] \notin {"done"} \cup Answering
      /\ granted' = [granted EXCEPT ![c] = @ \cup {s}] /\ Emits(c, "allow", Origin(s))
      /\ Proceeds(c, Position(s))
  BY AskedStages DEF Passes, StageNames, Answering
<1>2. PICK p \in 0 .. 12 : p = Position(s)
  BY Zenon, <1>1, PositionInOrder
<1>3. PICK l \in StageNames \cup {"acquire"} : l = NextAfter(p, c)
  BY NextIsStage
<1>4. pc' = [pc EXCEPT ![c] = l] /\ reply' = reply
  BY <1>1, <1>2, <1>3 DEF Proceeds
<1>5. Notes(c) /\ reply[c] = "none" /\ sent[c] = {}
  BY Zenon, <1>1 DEF Notes, Checks, StageNames, Progress
<1>6. log' \in [Calls -> Seq(Events)] /\ TrailInv'
  BY Zenon, <1>4, <1>5, NotesKeeps DEF Shared
<1>7. held' \in [Calls -> SUBSET Asked] /\ granted' \in [Calls -> SUBSET Asked]
  <2>1. /\ [held EXCEPT ![c] = @ \cup {s}] \in [Calls -> SUBSET Asked]
        /\ [granted EXCEPT ![c] = @ \cup {s}] \in [Calls -> SUBSET Asked]
    BY DEF PipeTypes
  <2> QED BY Zenon, <1>1, <2>1 DEF PipeTypes
<1>8. PipeTypes'
  BY Zenon, <1>4, <1>6, <1>7 DEF PipeTypes, Shared, Places, Behind
<1>9. Progress'
  BY <1>1, <1>4 DEF Progress, PipeTypes, Answering, StageNames
<1>10. \A d \in Calls : \A b \in barred'[d] : tok'[d] \in Tokens /\ InForce(b, tok[d])'
  BY Zenon, ForceKept
<1>11. barred[c] = {}
  BY Zenon DEF BarredInv, Behind
<1>12. BarredInv'
  BY <1>1, <1>4, <1>10, <1>11 DEF BarredInv, PipeTypes, Shared, StageNames
<1>13. /\ held'[c] \subseteq granted'[c]
       /\ \A d \in Calls \ {c} : held'[d] = held[d] /\ granted'[d] = granted[d]
  BY <1>1 DEF PipeTypes
<1>14. HeldInv'
  BY <1>1, <1>4, <1>13 DEF HeldInv, PipeTypes, Vetting, StageNames
<1> QED BY Zenon, <1>6, <1>8, <1>9, <1>12, <1>14 DEF Shared

LEMMA WaitKeeps ==
  ASSUME PipeInv, NEW c \in Calls, NEW s \in Asked, WaitReturns(c, s)
  PROVE  PipeInv'
<1> USE DEF PipeInv
<1>1. /\ pc[c] = "wait" /\ s \in held[c] \ granted[c] /\ Shared /\ UNCHANGED <<capErr, held, sent>>
      /\ s \in StageNames /\ Origin(s) \in StageNames
  BY Zenon, AskedStages DEF WaitReturns, request, stores, history, Shared, TripsHalted
<1>2. CASE Blocks(c, Origin(s)) /\ granted' = granted
  <2>1. PICK k \in Checks : k = Origin(s)
    BY Zenon, <1>1 DEF Checks
  <2>2. Blocks(c, k) /\ pc[c] # "done"
    BY Zenon, <1>1, <1>2, <2>1
  <2> QED BY Zenon, <1>1, <1>2, <2>2, BlockKeeps
<1>3. CASE Passes(c, s)
  <2>1. held[c] \subseteq granted[c] \cup {s}
    BY Zenon, <1>1 DEF HeldInv
  <2> QED BY Zenon, <1>1, <1>3, <2>1, PassKeeps
<1> QED BY Zenon, <1>2, <1>3 DEF WaitReturns

LEMMA ResumeKeeps ==
  ASSUME PipeInv, NEW c \in Calls, NEW s \in Asked, Resume(c, s)
  PROVE  PipeInv'
<1> USE DEF PipeInv
<1>1. /\ pc[c] = s /\ Shared /\ UNCHANGED <<capErr, sent>>
      /\ s \in StageNames /\ Origin(s) \in StageNames
  BY Zenon, AskedStages DEF Resume, request, stores, history, Shared, TripsHalted
<1>2. pc[c] \notin {"wait", "done"} /\ held \in [Calls -> SUBSET Asked]
  BY <1>1 DEF StageNames, PipeTypes
<1>3. CASE Blocks(c, Origin(s)) /\ UNCHANGED <<held, granted>>
  <2>1. PICK k \in Checks : k = Origin(s)
    BY Zenon, <1>1 DEF Checks
  <2>2. Blocks(c, k)
    BY Zenon, <1>3, <2>1
  <2> QED BY Zenon, <1>1, <1>2, <1>3, <2>2, BlockKeeps
<1>4. CASE Passes(c, s) /\ held' = [held EXCEPT ![c] = @ \cup {s}]
  <2>1. held[c] \subseteq granted[c] \cup {s}
    BY Zenon, <1>2 DEF HeldInv
  <2> QED BY Zenon, <1>1, <1>4, <2>1, PassKeeps
<1>5. CASE Returns(c, "pending") /\ UNCHANGED <<log, held, granted>>
  <2>1. Notes(c) /\ held' \in [Calls -> SUBSET Asked] /\ \A d \in Calls \ {c} : held'[d] = held[d]
    BY Zenon, <1>2, <1>5 DEF Notes
  <2> QED BY Zenon, <1>1, <1>5, <2>1, HoldKeeps
<1> QED BY Zenon, <1>3, <1>4, <1>5 DEF Resume

LEMMA BudgetKeeps ==
  ASSUME PipeInv, NEW c \in Calls, BudgetCheck(c) \/ BudgetFails(c)
  PROVE  PipeInv'
<1> USE DEF PipeInv
<1>1. /\ pc[c] = "budget" /\ Shared /\ UNCHANGED <<capErr, held, granted, sent>>
  BY Zenon DEF BudgetCheck, BudgetFails, request, history, Shared, TripsHalted
<1>2. CASE Blocks(c, "budget")
  BY Zenon, <1>1, <1>2, BlockKeeps DEF Checks, StageNames
<1>3. CASE Proceeds(c, Position("budget")) /\ log' = log
  <2>1. PICK p \in 0 .. 12 : p = Position("budget")
    BY Zenon, PositionInOrder DEF StageNames
  <2>2. PICK l \in StageNames \cup {"acquire"} : l = NextAfter(p, c)
    BY Zenon, NextIsStage
  <2>3. Goes(c, l) /\ reply' = reply /\ Notes(c) /\ pc[c] \in StageNames
    BY Zenon, <1>1, <1>3, <2>1, <2>2 DEF Proceeds, Goes, Notes, StageNames
  <2> QED BY Zenon, <1>1, <2>3, MoveKeeps
<1> QED BY Zenon, <1>2, <1>3 DEF BudgetCheck, BudgetFails

-----------------------------------------------------------------------------
(* forwardToUpstream. *)

\* The end of the trail of a call that is answered.
LEMMA AnswerKeeps ==
  ASSUME PipeInv, NEW c \in Calls, NEW check \in {"none", "upstream"},
         Emits(c, "allow", check), Returns(c, "result"),
         \/ pc[c] \in Answering /\ check = "upstream"
         \/ pc[c] = "acquire" /\ check = "none" /\ "upstream" \notin Enabled,
         Shared, UNCHANGED <<capErr, held, granted, sent>>
  PROVE  PipeInv'
<1> USE DEF PipeInv
<1>1. log' = [log EXCEPT ![c] = Append(@, <<"allow", check>>)] /\ Open(c)
  BY Zenon, OpenTrail DEF Emits, Progress, Answering
<1>2. <<"allow", check>> \in Events
  BY Zenon DEF Events, Decisions, Checks
<1>3. /\ log' \in [Calls -> Seq(Events)]
      /\ Len(log'[c]) > 0 /\ log'[c][Len(log'[c])] = <<"allow", check>>
      /\ \A i \in 1 .. Len(log'[c]) - 1 : Interim(log'[c][i])
      /\ \A d \in Calls \ {c} : log'[d] = log[d]
  BY Zenon, <1>1, <1>2, EventAppended
<1>4. /\ pc[c] \notin {"wait", "done"}
      /\ \/ sent[c] # {} /\ check = "upstream"
         \/ sent[c] = {} /\ check = "none" /\ "upstream" \notin Enabled
  BY Zenon DEF Progress, Answering
<1> QED BY Zenon, <1>3, <1>4, ResultKeeps

LEMMA ForwardKeeps ==
  ASSUME PipeInv, NEW c \in Calls, Forward(c)
  PROVE  PipeInv'
<1> USE DEF PipeInv
<1>1. /\ pc[c] = "acquire" /\ pc' = [pc EXCEPT ![c] = "answer"] /\ sent' = [sent EXCEPT ![c] = {{}}]
      /\ Shared /\ UNCHANGED <<log, reply, capErr, held, granted>>
  BY Zenon DEF Forward, Goes, Body, request, stores, history, Shared, TripsHalted
<1>2. PipeTypes'
  BY Zenon, <1>1 DEF PipeTypes, Places, Answering, Shared
<1>3. Progress'
  BY Zenon, <1>1 DEF Progress, PipeTypes, Answering
<1>4. TrailInv'
  <2>1. \A d \in Calls \ {c} : sent'[d] = sent[d]
    BY <1>1 DEF PipeTypes
  <2> QED BY Zenon, <1>1, <2>1, NotesKeeps DEF Progress, Notes, Shared
<1>5. \A d \in Calls : \A b \in barred'[d] : tok'[d] \in Tokens /\ InForce(b, tok[d])'
  BY Zenon, <1>1, ForceKept
<1>6. barred[c] = {}
  BY Zenon, <1>1 DEF BarredInv, Behind
<1>7. BarredInv'
  BY <1>1, <1>5, <1>6 DEF BarredInv, PipeTypes, Shared
<1>8. held[c] \subseteq granted[c]
  BY Zenon, <1>1 DEF HeldInv
<1>9. HeldInv'
  <2>1. /\ held'[c] \subseteq granted'[c] /\ pc'[c] = "answer"
        /\ \A d \in Calls \ {c} : pc'[d] = pc[d] /\ sent'[d] = sent[d]
    BY <1>1, <1>8 DEF PipeTypes
  <2>2. \A d \in Calls : held'[d] = held[d] /\ granted'[d] = granted[d] /\ reply'[d] = reply[d]
    BY Zenon, <1>1
  <2>3. pc'[c] \notin {"idle", "wait"} \cup Vetting
    BY Zenon, <2>1 DEF Vetting
  <2> SUFFICES ASSUME NEW d \in Calls
               PROVE  /\ pc'[d] \notin {"wait", "done"} => held'[d] \subseteq granted'[d]
                      /\ pc'[d] \in {"idle"} \cup Vetting => held'[d] = {}
                      /\ pc'[d] = "wait" => \A s, r \in held'[d] \ granted'[d] : s = r
                      /\ reply'[d] = "result" \/ sent'[d] # {} => held'[d] \subseteq granted'[d]
    BY Zenon DEF HeldInv
  <2>4. CASE d = c
    BY Zenon, <1>8, <2>1, <2>2, <2>3, <2>4
  <2>5. CASE d # c
    <3>1. PICK p, h, g, y, n : /\ p = pc[d] /\ h = held[d] /\ g = granted[d] /\ y = reply[d] /\ n = sent[d]
                               /\ p = pc'[d] /\ h = held'[d] /\ g = granted'[d]
                               /\ y = reply'[d] /\ n = sent'[d]
      BY Zenon, <2>1, <2>2, <2>5
    <3>2. /\ p \notin {"wait", "done"} => h \subseteq g
          /\ p \in {"idle"} \cup Vetting => h = {}
          /\ p = "wait" => \A s, r \in h \ g : s = r
          /\ y = "result" \/ n # {} => h \subseteq g
      BY Zenon, <3>1 DEF HeldInv
    <3> QED BY Zenon, <3>1, <3>2
  <2> QED BY Zenon, <2>4, <2>5
<1> QED BY Zenon, <1>1, <1>2, <1>3, <1>4, <1>7, <1>9 DEF Shared

\* Two events at the end of an open trail: what the output schema found and
\* the answer.
LEMMA TwoEventsAppended ==
  ASSUME PipeTypes, NEW c \in Calls, Open(c),
         NEW e \in Events, Interim(e), NEW f \in Events,
         log' = [log EXCEPT ![c] = @ \o <<e, f>>]
  PROVE  /\ log' \in [Calls -> Seq(Events)]
         /\ Len(log'[c]) > 0 /\ log'[c][Len(log'[c])] = f
         /\ \A i \in 1 .. Len(log'[c]) - 1 : Interim(log'[c][i])
         /\ \A d \in Calls \ {c} : log'[d] = log[d]
<1>1. log[c] \in Seq(Events) /\ log'[c] = log[c] \o <<e, f>> /\ <<e, f>> \in Seq(Events)
  BY DEF PipeTypes
<1>2. /\ Len(log'[c]) = Len(log[c]) + 2 /\ Len(log[c]) \in Nat
      /\ log'[c][Len(log[c]) + 1] = e /\ log'[c][Len(log[c]) + 2] = f
  BY <1>1
<1>3. \A i \in 1 .. Len(log[c]) : log'[c][i] = log[c][i]
  BY <1>1
<1>4. log' \in [Calls -> Seq(Events)]
  BY <1>1 DEF PipeTypes
<1>5. \A i \in 1 .. Len(log'[c]) - 1 : Interim(log'[c][i])
  <2> TAKE i \in 1 .. Len(log'[c]) - 1
  <2>1. i \in 1 .. Len(log[c]) \/ i = Len(log[c]) + 1
    BY <1>2
  <2> QED BY Zenon, <1>2, <1>3, <2>1 DEF Open
<1> QED BY <1>2, <1>4, <1>5 DEF PipeTypes

LEMMA UpstreamKeeps ==
  ASSUME PipeInv, NEW c \in Calls,
         \/ StubAllow(c) \/ AcquireRefused(c) \/ UpstreamFails(c) \/ UpstreamAnswers(c)
         \/ ResponsePII(c) \/ OutputSchema(c)
  PROVE  PipeInv'
<1> USE DEF PipeInv
<1>0. /\ Shared /\ UNCHANGED <<capErr, held, granted, sent>>
      /\ pc[c] \in Answering \cup {"acquire"} /\ pc[c] # "done"
  BY Zenon DEF StubAllow, AcquireRefused, UpstreamFails, UpstreamAnswers, ResponsePII, OutputSchema,
         request, stores, history, Shared, TripsHalted, Answering
<1>1. CASE StubAllow(c)
  BY Zenon, <1>0, <1>1, AnswerKeeps DEF StubAllow
<1>2. CASE AcquireRefused(c)
  BY Zenon, <1>0, <1>2, BlockKeeps DEF AcquireRefused, Checks
<1>3. CASE UpstreamFails(c)
  BY Zenon, <1>0, <1>3, BlockKeeps DEF UpstreamFails, Checks
<1>4. CASE Forwarded(c) /\ pc[c] \in Answering
  BY Zenon, <1>0, <1>4, AnswerKeeps DEF Forwarded
<1>5. CASE UpstreamAnswers(c) /\ ~Forwarded(c)
  BY Zenon, <1>0, <1>5, MoveKeeps DEF UpstreamAnswers, Answering, Notes
<1>6. CASE ResponsePII(c)
  <2>1. CASE Blocks(c, "pii")
    BY Zenon, <1>0, <2>1, BlockKeeps DEF Checks, StageNames
  <2>2. CASE Goes(c, "schema") /\ reply' = reply /\ (log' = log \/ Emits(c, "allow", "pii"))
    <3>1. Notes(c)
      BY Zenon, <2>2 DEF Notes, Checks, StageNames
    <3> QED BY Zenon, <1>0, <1>6, <2>2, <3>1, MoveKeeps DEF ResponsePII, Answering
  <2> QED BY Zenon, <1>6, <2>1, <2>2 DEF ResponsePII
<1>7. CASE OutputSchema(c) /\ ~Forwarded(c)
  <2>1. CASE Blocks(c, "output_schema")
    BY Zenon, <1>0, <2>1, BlockKeeps DEF Checks
  <2>2. CASE ~Blocks(c, "output_schema")
    <3>1. /\ pc[c] = "schema" /\ Returns(c, "result")
          /\ log' = [log EXCEPT ![c] = @ \o << <<"allow", "output_schema">>, <<"allow", "upstream">> >>]
      BY Zenon, <1>7, <2>2 DEF OutputSchema
    <3>2. Open(c) /\ sent[c] # {}
      BY Zenon, <3>1, OpenTrail DEF Progress, Answering
    <3>3. PICK e, f : e = <<"allow", "output_schema">> /\ f = <<"allow", "upstream">>
      BY Zenon
    <3>4. e \in Events /\ f \in Events /\ Interim(e)
      BY Zenon, <3>3 DEF Events, Decisions, Checks, Interim
    <3>6. log' = [log EXCEPT ![c] = @ \o <<e, f>>]
      BY Zenon, <3>1, <3>3
    <3>5. /\ log' \in [Calls -> Seq(Events)]
          /\ Len(log'[c]) > 0 /\ log'[c][Len(log'[c])] = f
          /\ \A i \in 1 .. Len(log'[c]) - 1 : Interim(log'[c][i])
          /\ \A d \in Calls \ {c} : log'[d] = log[d]
      BY Zenon, <3>2, <3>4, <3>6, TwoEventsAppended
    <3> QED BY Zenon, <1>0, <3>1, <3>2, <3>3, <3>5, ResultKeeps
  <2> QED BY Zenon, <2>1, <2>2
<1> QED BY Zenon, <1>1, <1>2, <1>3, <1>4, <1>5, <1>6, <1>7
        DEF UpstreamAnswers, OutputSchema, Answering

-----------------------------------------------------------------------------
(* Operators, and what they leave of the invariant. *)

LEMMA GrowsKeeps ==
  ASSUME PipeInv, Shared, UNCHANGED call
  PROVE  PipeInv'
<1> USE DEF PipeInv, call, request
<1>1. PipeTypes' /\ Progress' /\ HeldInv'
  <2>1. PipeTypes'
    BY Zenon DEF PipeTypes, Shared
  <2>2. Progress'
    BY Zenon DEF Progress, Shared
  <2>3. HeldInv'
    BY Zenon DEF HeldInv, Shared
  <2> QED BY Zenon, <2>1, <2>2, <2>3
<1>2. TrailInv'
  BY Zenon DEF TrailInv, Final, Enabled
<1>3. \A d \in Calls : \A b \in barred'[d] : tok'[d] \in Tokens /\ InForce(b, tok[d])'
  BY Zenon, ForceKept
<1>4. BarredInv'
  BY Zenon, <1>3 DEF BarredInv, Shared
<1> QED BY Zenon, <1>1, <1>2, <1>4 DEF Shared

\* A release takes away what was in force because of the entry, and no more.
LEMMA ReleaseKeeps ==
  ASSUME PipeInv, NEW e \in Entries, Release(e)
  PROVE  PipeInv'
<1> USE DEF PipeInv, call, request
<1>1. /\ UNCHANGED call /\ revoked' = revoked /\ e \in halts /\ halts' = halts \ {e}
      /\ trips' = {p \in trips : e.type # "agent" \/ p # <<e.tenant, e.value>>}
      /\ barred' = [c \in Calls |->
            {b \in barred[c] : /\ b # e
                               /\ e.type = "agent" /\ b.type = "trip"
                                    => <<b.tenant, b.value>> # <<e.tenant, e.value>>}]
  BY Zenon DEF Release
<1>2. PipeTypes' /\ Progress' /\ HeldInv'
  <2>1. barred' = [c \in Calls |-> barred'[c]]
    BY Zenon, <1>1
  <2>2. PipeTypes'
    BY Zenon, <1>1, <2>1 DEF PipeTypes
  <2>3. Progress'
    BY Zenon, <1>1 DEF Progress
  <2>4. HeldInv'
    BY Zenon, <1>1 DEF HeldInv
  <2> QED BY Zenon, <2>2, <2>3, <2>4
<1>3. TrailInv'
  BY Zenon, <1>1 DEF TrailInv, Final, Enabled
<1>4. TripsHalted'
  <2> SUFFICES ASSUME NEW p \in trips'
               PROVE  /\ p = <<p[1], p[2]>> /\ p[1] # Untenanted
                      /\ [type |-> "agent", tenant |-> p[1], value |-> p[2]] \in halts'
    BY Zenon DEF TripsHalted
  <2>1. PICK x : x = [type |-> "agent", tenant |-> p[1], value |-> p[2]]
    BY Zenon
  <2>2. /\ p \in trips /\ (e.type # "agent" \/ p # <<e.tenant, e.value>>)
        /\ p = <<p[1], p[2]>> /\ p[1] # Untenanted /\ x \in halts
    BY Zenon, <1>1, <2>1 DEF TripsHalted
  <2>3. x.type = "agent" /\ x.tenant = p[1] /\ x.value = p[2]
    BY Zenon, <2>1
  <2>4. x # e
    BY Zenon, <2>2, <2>3
  <2> QED BY Zenon, <1>1, <2>1, <2>2, <2>4
<1>5. BarredInv'
  <2> SUFFICES ASSUME NEW d \in Calls
               PROVE  /\ \A b \in barred'[d] : tok'[d] \in Tokens /\ InForce(b, tok[d])'
                      /\ barred'[d] \subseteq barred[d]
    BY Zenon, <1>1 DEF BarredInv
  <2>1. barred'[d] \subseteq barred[d]
    BY Zenon, <1>1
  <2> SUFFICES ASSUME NEW b \in barred'[d] PROVE tok'[d] \in Tokens /\ InForce(b, tok[d])'
    BY Zenon, <2>1
  <2>2. tok[d] \in Tokens /\ InForce(b, tok[d])
    BY Zenon, <2>1 DEF BarredInv
  <2>3. PICK t \in Tokens : t = tok[d] /\ t = tok'[d]
    BY Zenon, <1>1, <2>2
  <2>4. b # e /\ (e.type = "agent" /\ b.type = "trip" => <<b.tenant, b.value>> # <<e.tenant, e.value>>)
    BY Zenon, <1>1
  <2>5. InForce(b, t)'
    <3>1. CASE b \in halts /\ Covers(b, t)
      BY Zenon, <1>1, <2>4, <3>1 DEF InForce, Covers
    <3>2. CASE b.type = "revoked" /\ IsRevoked(t)
      BY Zenon, <1>1, <3>2 DEF InForce, IsRevoked
    <3>3. CASE /\ b.type = "trip" /\ <<b.tenant, b.value>> \in trips
               /\ b.tenant = Tenant[t] /\ b.value = Agent[t]
      <4>1. <<b.tenant, b.value>> \in trips'
        BY Zenon, <1>1, <2>4, <3>3
      <4> QED BY Zenon, <3>3, <4>1 DEF InForce
    <3> QED BY Zenon, <2>2, <2>3, <3>1, <3>2, <3>3 DEF InForce
  <2> QED BY Zenon, <2>3, <2>5
<1> QED BY Zenon, <1>2, <1>3, <1>4, <1>5

LEMMA OperatorKeeps ==
  ASSUME PipeInv, OperatorStep
  PROVE  PipeInv'
<1>1. ASSUME NEW e \in Entries, Engage(e) PROVE PipeInv'
  <2>1. Shared /\ UNCHANGED call
    BY Zenon, <1>1 DEF Engage, Shared, TripsHalted, history, call, request
  <2> QED BY <2>1, GrowsKeeps
<1>2. ASSUME NEW t \in Tokens, NEW n \in {Tenant[t], Untenanted}, Revoke(t, n) PROVE PipeInv'
  <2>1. Shared /\ UNCHANGED call
    BY Zenon, <1>2 DEF Revoke, Shared, TripsHalted, history, call, request
  <2> QED BY <2>1, GrowsKeeps
<1>3. ASSUME NEW i \in Ids, NEW v \in {"approved", "rejected"}, Decide(i, v) PROVE PipeInv'
  <2>1. Shared /\ UNCHANGED call
    BY Zenon, <1>3 DEF Decide, Shared, TripsHalted, history, call, request
  <2> QED BY <2>1, GrowsKeeps
<1> QED BY <1>1, <1>2, <1>3, ReleaseKeeps DEF OperatorStep

LEMMA PipeInvariant == Spec => []PipeInv
<1>1. ASSUME Init PROVE PipeInv
  <2> USE <1>1 DEF Init
  <2>1. PipeTypes
    BY DEF PipeTypes, Places
  <2>2. Progress /\ TripsHalted /\ HeldInv
    BY Zenon DEF Progress, TripsHalted, HeldInv, Answering
  <2>3. BarredInv
    BY Zenon DEF BarredInv
  <2>4. TrailInv
    BY DEF TrailInv
  <2> QED BY Zenon, <2>1, <2>2, <2>3, <2>4 DEF PipeInv
<1>2. ASSUME PipeInv, [Next]_vars PROVE PipeInv'
  <2> USE <1>2
  <2>1. ASSUME NEW c \in Calls, CallStep(c) PROVE PipeInv'
    BY Zenon, <2>1, StartKeeps, StartInvalidKeeps, CapabilityKeeps, DecoyKeeps, StageKeeps, EscalateKeeps,
       WaitKeeps, ResumeKeeps, BudgetKeeps, UpstreamKeeps, ForwardKeeps DEF CallStep
  <2>2. CASE UNCHANGED vars
    <3>1. Shared /\ UNCHANGED call
      BY Zenon, <2>2 DEF vars, call, request, Shared, TripsHalted
    <3> QED BY <3>1, GrowsKeeps
  <2> QED BY <2>1, <2>2, OperatorKeeps DEF Next
<1> QED BY <1>1, <1>2, PTL DEF Spec

-----------------------------------------------------------------------------
(* The approval requests, and the calls that go by them. *)

Statuses == {"none", "pending", "approved", "rejected", "timeout"}

\* Stage s of call c went by an approval of the same call.
GoesBy(c, s) ==
  /\ ApprovalOf(c, s) \in Ids
  /\ rows[ApprovalOf(c, s)] = "approved"
  /\ sameApprovalCall(ApprovalOf(c, s), c)

\* Call c waits for a request that was filed for the same call.
WaitsFor(c) == \E i \in Ids : rows[i] # "none" /\ sameApprovalCall(i, c)

RowsInv ==
  /\ rows \in [Ids -> Statuses]
  /\ act = [c \in Calls |-> act[c]]
  /\ carried \in [Calls -> Ids \cup {NoId}]
  /\ \A i \in Ids : rows[i] # "none" => pc[i[1]] # "idle" /\ OnTrail(i)
  /\ \A c \in Calls : \A s \in granted[c] : pc[c] # "idle" /\ GoesBy(c, s)
  /\ \A c \in Calls : reply[c] = "pending" => WaitsFor(c)
  /\ \A c \in Calls : pc[c] = "wait" => ~cfg.async

\* A call is what it is once it has started, its trail only grows, and an
\* approval stands.
Advances ==
  /\ cfg' = cfg
  /\ act' = [c \in Calls |-> act'[c]]
  /\ \A d \in Calls : pc[d] # "idle" =>
        pc'[d] # "idle" /\ tok'[d] = tok[d] /\ act'[d] = act[d] /\ carried'[d] = carried[d]
  /\ \A d \in Calls : \A k \in 1 .. Len(log[d]) : k \in 1 .. Len(log'[d]) /\ log'[d][k] = log[d][k]
  /\ \A i \in Ids : /\ rows[i] # "none" => rows'[i] # "none"
                    /\ rows[i] = "approved" => rows'[i] = "approved"

LEMMA IdParts ==
  ASSUME NEW i \in Ids PROVE i[1] \in Calls /\ i[2] \in Asked
  BY DEF Ids

LEMMA SameCallKept ==
  ASSUME Advances, NEW i \in Ids, NEW c \in Calls, pc[i[1]] # "idle", pc[c] # "idle",
         sameApprovalCall(i, c)
  PROVE  sameApprovalCall(i, c)'
<1>1. PICK d \in Calls : d = i[1]
  BY Zenon, IdParts
<1>2. tok'[d] = tok[d] /\ tok'[c] = tok[c] /\ act'[d] = act[d] /\ act'[c] = act[c]
  BY Zenon, <1>1 DEF Advances
<1> QED BY Zenon, <1>1, <1>2 DEF sameApprovalCall, Caller

LEMMA RowsKept ==
  ASSUME PipeInv, RowsInv, Advances
  PROVE  /\ \A i \in Ids : rows[i] # "none" => pc'[i[1]] # "idle" /\ OnTrail(i)'
         /\ \A c \in Calls : \A s \in granted[c] : pc'[c] # "idle" /\ GoesBy(c, s)'
         /\ \A c \in Calls : reply[c] = "pending" => WaitsFor(c)'
<1>1. ASSUME NEW i \in Ids, rows[i] # "none" PROVE pc'[i[1]] # "idle" /\ OnTrail(i)'
  <2>1. PICK d \in Calls : d = i[1]
    BY Zenon, IdParts
  <2>2. pc[d] # "idle" /\ OnTrail(i)
    BY Zenon, <1>1, <2>1 DEF RowsInv
  <2>3. PICK k \in 1 .. Len(log[d]) : log[d][k] = <<"escalate", Origin(i[2])>>
    BY Zenon, <2>1, <2>2 DEF OnTrail
  <2>4. k \in 1 .. Len(log'[d]) /\ log'[d][k] = <<"escalate", Origin(i[2])>> /\ pc'[d] # "idle"
    BY Zenon, <2>2, <2>3 DEF Advances
  <2> QED BY Zenon, <2>1, <2>4 DEF OnTrail, Origin, Label
<1>2. ASSUME NEW c \in Calls, NEW s \in granted[c] PROVE pc'[c] # "idle" /\ GoesBy(c, s)'
  <2>1. PICK i \in Ids : i = ApprovalOf(c, s) /\ rows[i] = "approved" /\ sameApprovalCall(i, c)
    BY Zenon DEF RowsInv, GoesBy
  <2>2. pc[c] # "idle" /\ rows[i] # "none"
    BY <2>1 DEF RowsInv
  <2>3. pc[i[1]] # "idle"
    BY Zenon, <2>2 DEF RowsInv
  <2>4. sameApprovalCall(i, c)'
    BY Zenon, <2>1, <2>2, <2>3, SameCallKept
  <2>5. i = ApprovalOf(c, s)'
    BY Zenon, <2>1, <2>2 DEF ApprovalOf, Advances
  <2>6. rows'[i] = "approved" /\ pc'[c] # "idle"
    BY Zenon, <2>1, <2>2 DEF Advances
  <2> QED BY Zenon, <2>4, <2>5, <2>6 DEF GoesBy, Ids
<1>3. ASSUME NEW c \in Calls, reply[c] = "pending" PROVE WaitsFor(c)'
  <2>1. PICK i \in Ids : rows[i] # "none" /\ sameApprovalCall(i, c)
    BY Zenon, <1>3 DEF RowsInv, WaitsFor
  <2>2. pc[i[1]] # "idle"
    BY Zenon, <2>1 DEF RowsInv
  <2>3. pc[c] # "idle"
    BY <1>3 DEF PipeInv, Progress
  <2>4. sameApprovalCall(i, c)' /\ rows'[i] # "none"
    BY Zenon, <2>1, <2>2, <2>3, SameCallKept DEF Advances
  <2> QED BY Zenon, <2>4 DEF WaitsFor, Ids
<1> QED BY Zenon, <1>1, <1>2, <1>3

\* A trail that gets one or two events, or none, only grows.
LEMMA TrailGrows ==
  ASSUME PipeTypes, NEW c \in Calls,
         \/ log' = log
         \/ \E e : log' = [log EXCEPT ![c] = Append(@, e)]
         \/ \E e, f : log' = [log EXCEPT ![c] = @ \o <<e, f>>]
  PROVE  \A d \in Calls : \A k \in 1 .. Len(log[d]) : k \in 1 .. Len(log'[d]) /\ log'[d][k] = log[d][k]
<1>1. CASE log' = log
  BY Zenon, <1>1
<1>2. ASSUME NEW e, log' = [log EXCEPT ![c] = Append(@, e)]
      PROVE  \A d \in Calls : \A k \in 1 .. Len(log[d]) : k \in 1 .. Len(log'[d]) /\ log'[d][k] = log[d][k]
  BY <1>2 DEF PipeTypes
<1>3. ASSUME NEW e, NEW f, log' = [log EXCEPT ![c] = @ \o <<e, f>>]
      PROVE  \A d \in Calls : \A k \in 1 .. Len(log[d]) : k \in 1 .. Len(log'[d]) /\ log'[d][k] = log[d][k]
  BY <1>3 DEF PipeTypes
<1> QED BY Zenon, <1>1, <1>2, <1>3

\* A step of a handler that touches no approval request.
Steps(c) ==
  /\ \E x : x # "idle" /\ x # "wait" /\ pc' = [pc EXCEPT ![c] = x]
  /\ \/ log' = log
     \/ \E e : log' = [log EXCEPT ![c] = Append(@, e)]
     \/ \E e, f : log' = [log EXCEPT ![c] = @ \o <<e, f>>]
  /\ reply' = reply \/ \E y : y # "pending" /\ reply' = [reply EXCEPT ![c] = y]
Quiet == UNCHANGED <<cfg, tok, act, carried, rows, granted>>

LEMMA StepAdvances ==
  ASSUME PipeInv, RowsInv, NEW c \in Calls, UNCHANGED <<cfg, tok, act, carried>>,
         \E x : x # "idle" /\ pc' = [pc EXCEPT ![c] = x],
         \/ log' = log
         \/ \E e : log' = [log EXCEPT ![c] = Append(@, e)]
         \/ \E e, f : log' = [log EXCEPT ![c] = @ \o <<e, f>>],
         \A i \in Ids : /\ rows[i] # "none" => rows'[i] # "none"
                        /\ rows[i] = "approved" => rows'[i] = "approved"
  PROVE  Advances
<1>1. PICK x : x # "idle" /\ pc' = [pc EXCEPT ![c] = x]
  BY Zenon
<1>2. \A d \in Calls : pc[d] # "idle" => pc'[d] # "idle"
  BY <1>1 DEF PipeInv, PipeTypes
<1>3. \A d \in Calls : \A k \in 1 .. Len(log[d]) : k \in 1 .. Len(log'[d]) /\ log'[d][k] = log[d][k]
  BY Zenon, TrailGrows DEF PipeInv
<1> QED BY Zenon, <1>2, <1>3 DEF Advances, RowsInv

LEMMA QuietKeeps ==
  ASSUME PipeInv, RowsInv, NEW c \in Calls, Steps(c), Quiet
  PROVE  RowsInv'
<1>1. Advances
  BY Zenon, StepAdvances DEF Steps, Quiet
<1>2. \A d \in Calls : reply'[d] = "pending" => reply[d] = "pending"
  BY DEF Steps, PipeInv, PipeTypes
<1>3. \A d \in Calls : pc'[d] = "wait" => pc[d] = "wait"
  BY DEF Steps, PipeInv, PipeTypes
<1> QED BY Zenon, <1>1, <1>2, <1>3, RowsKept DEF RowsInv, Quiet, Ids

LEMMA StartRows ==
  ASSUME PipeInv, RowsInv, NEW c \in Calls, NEW t \in Tokens \cup {NoToken}, Start(c, t)
  PROVE  RowsInv'
<1>0. PICK a : act' = [act EXCEPT ![c] = a]
  BY Zenon DEF Start
<1>1. PICK i \in Ids \cup {NoId}, x \in {"decoy", "kill"} :
        /\ pc[c] = "idle" /\ pc' = [pc EXCEPT ![c] = x]
        /\ tok' = [tok EXCEPT ![c] = t]
        /\ carried' = [carried EXCEPT ![c] = i]
        /\ UNCHANGED <<cfg, granted, log, reply, rows>>
  <2>1. PICK i \in Ids \cup {NoId} : carried' = [carried EXCEPT ![c] = i]
    BY Zenon DEF Start
  <2>2. PICK x \in {"decoy", "kill"} : pc' = [pc EXCEPT ![c] = x]
    BY Zenon DEF Start, Goes
  <2> QED BY Zenon, <2>1, <2>2 DEF Start, stores
<1>2. Advances
  <2>1. act' = [d \in Calls |-> act'[d]]
    BY <1>0 DEF RowsInv
  <2>2. \A d \in Calls : pc[d] # "idle" =>
          pc'[d] # "idle" /\ tok'[d] = tok[d] /\ act'[d] = act[d] /\ carried'[d] = carried[d]
    BY <1>0, <1>1 DEF RowsInv, PipeInv, PipeTypes
  <2> QED BY Zenon, <1>1, <2>1, <2>2 DEF Advances
<1>3. carried' \in [Calls -> Ids \cup {NoId}]
  BY Zenon, <1>1 DEF RowsInv
<1>4. \A d \in Calls : pc'[d] = "wait" => pc[d] = "wait"
  BY <1>1 DEF PipeInv, PipeTypes
<1> QED BY Zenon, <1>1, <1>2, <1>3, <1>4, RowsKept DEF RowsInv, Advances, Ids

\* A request that is filed is pending and on the trail.
LEMMA FilesRows ==
  ASSUME PipeInv, RowsInv, NEW c \in Calls, NEW s \in Asked, Files(c, s), pc[c] = s,
         UNCHANGED <<cfg, tok, act, carried, granted>>
  PROVE  RowsInv'
<1>1. PICK x : /\ x # "idle" /\ (x = "wait" => ~cfg.async)
               /\ pc' = [pc EXCEPT ![c] = x]
  BY Zenon DEF Files, Returns, Goes
<1>2. /\ log' = [log EXCEPT ![c] = Append(@, <<"escalate", Origin(s)>>)]
      /\ rows' = [rows EXCEPT ![<<c, s>>] = "pending"] /\ <<c, s>> \in Ids
      /\ rows[<<c, s>>] = "none"
  BY Zenon DEF Files, Emits, Ids
<1>3. PICK n \in Ids : n = <<c, s>> /\ n[1] = c /\ n[2] = s
  BY Zenon, <1>2
<1>4. /\ rows' \in [Ids -> Statuses] /\ rows'[n] = "pending"
      /\ \A i \in Ids \ {n} : rows'[i] = rows[i]
  BY <1>2, <1>3 DEF RowsInv, Statuses
<1>5. Advances
  <2>1. \A i \in Ids : /\ rows[i] # "none" => rows'[i] # "none"
                       /\ rows[i] = "approved" => rows'[i] = "approved"
    BY <1>2, <1>3, <1>4
  <2> QED BY Zenon, <1>1, <1>2, <2>1, StepAdvances
<1>6. pc'[c] = x /\ \A d \in Calls \ {c} : pc'[d] = pc[d]
  BY <1>1 DEF PipeInv, PipeTypes
<1>7. OnTrail(n)'
  <2>1. PICK e : e = <<"escalate", Origin(s)>>
    BY Zenon
  <2>2. log[c] \in Seq(Events) /\ log'[c] = Append(log[c], e)
    BY Zenon, <1>2, <2>1 DEF PipeInv, PipeTypes
  <2>3. PICK k : k = Len(log[c]) + 1
    BY Zenon
  <2>4. k \in 1 .. Len(log'[c]) /\ log'[c][k] = e
    BY <2>2, <2>3
  <2> QED BY Zenon, <1>3, <2>1, <2>4 DEF OnTrail
<1>8. sameApprovalCall(n, c)'
  BY Zenon, <1>3 DEF sameApprovalCall
<1>9. \A d \in Calls : reply'[d] = "pending" => d = c \/ reply[d] = "pending"
  BY DEF Files, Returns, PipeInv, PipeTypes
<1>10. \A d \in Calls : reply'[d] = "pending" => WaitsFor(d)'
  <2>1. WaitsFor(c)'
    BY <1>4, <1>8 DEF WaitsFor
  <2> QED BY Zenon, <1>5, <1>9, <2>1, RowsKept
<1>11. \A i \in Ids : rows'[i] # "none" => pc'[i[1]] # "idle" /\ OnTrail(i)'
  <2> SUFFICES ASSUME NEW i \in Ids, rows'[i] # "none" PROVE pc'[i[1]] # "idle" /\ OnTrail(i)'
    BY Zenon
  <2>1. CASE i = n
    BY Zenon, <1>1, <1>3, <1>6, <1>7, <2>1
  <2>2. CASE i # n
    BY Zenon, <1>4, <1>5, <2>2, RowsKept
  <2> QED BY Zenon, <2>1, <2>2
<1>12. \A d \in Calls : pc'[d] = "wait" => ~cfg'.async
  BY Zenon, <1>1, <1>6 DEF RowsInv
<1> QED BY Zenon, <1>4, <1>5, <1>10, <1>11, <1>12, RowsKept DEF RowsInv, Ids

LEMMA EscalateRows ==
  ASSUME PipeInv, RowsInv, NEW c \in Calls, NEW s \in Asked, Escalate(c, s)
  PROVE  RowsInv'
<1>1. pc[c] = s /\ UNCHANGED <<cfg, tok, act, carried, granted>>
  BY Zenon DEF Escalate, request
<1>2. CASE Files(c, s)
  BY Zenon, <1>1, <1>2, FilesRows
<1>3. CASE Blocks(c, Origin(s)) /\ UNCHANGED <<held, rows>>
  BY Zenon, <1>1, <1>3, QuietKeeps DEF Blocks, Emits, Returns, Steps, Quiet
<1> QED BY Zenon, <1>2, <1>3 DEF Escalate

\* A stage that is passed went by an approval that stands.
LEMMA PassRows ==
  ASSUME PipeInv, RowsInv, NEW c \in Calls, NEW s \in Asked, Passes(c, s), GoesBy(c, s),
         pc[c] # "idle", UNCHANGED <<cfg, tok, act, carried, rows>>
  PROVE  RowsInv'
<1>1. PICK p \in 0 .. 12 : p = Position(s)
  BY Zenon, AskedStages, PositionInOrder
<1>2. PICK l \in StageNames \cup {"acquire"} : l = NextAfter(p, c)
  BY NextIsStage
<1>3. /\ pc' = [pc EXCEPT ![c] = l] /\ l # "idle" /\ l # "wait" /\ reply' = reply
      /\ granted' = [granted EXCEPT ![c] = @ \cup {s}]
      /\ log' = [log EXCEPT ![c] = Append(@, <<"allow", Origin(s)>>)]
  BY <1>1, <1>2 DEF Passes, Proceeds, Emits, StageNames
<1>4. Advances
  BY Zenon, <1>3, StepAdvances
<1>5. GoesBy(c, s)'
  BY Zenon DEF GoesBy, ApprovalOf, sameApprovalCall, Caller, Ids
<1>6. \A d \in Calls : granted'[d] \subseteq granted[d] \/ (d = c /\ granted'[d] \subseteq granted[d] \cup {s})
  BY <1>3 DEF PipeInv, PipeTypes
<1>7. \A d \in Calls : \A r \in granted'[d] : pc'[d] # "idle" /\ GoesBy(d, r)'
  <2>1. pc'[c] # "idle"
    BY Zenon, <1>4 DEF Advances
  <2> QED BY Zenon, <1>4, <1>5, <1>6, <2>1, RowsKept
<1>8. \A d \in Calls : pc'[d] = "wait" => pc[d] = "wait"
  BY <1>3 DEF PipeInv, PipeTypes
<1> QED BY Zenon, <1>3, <1>4, <1>7, <1>8, RowsKept DEF RowsInv, Ids

LEMMA WaitRows ==
  ASSUME PipeInv, RowsInv, NEW c \in Calls, NEW s \in Asked, WaitReturns(c, s)
  PROVE  RowsInv'
<1>1. pc[c] = "wait" /\ UNCHANGED <<cfg, tok, act, carried>>
  BY Zenon DEF WaitReturns, request
<1>2. PICK n \in Ids : n = <<c, s>> /\ n[1] = c
  <2>1. <<c, s>> \in Ids
    BY Zenon DEF Ids
  <2> QED BY Zenon, <2>1
<1>3. CASE rows[n] = "approved" /\ Passes(c, s) /\ UNCHANGED rows
  <2>1. ApprovalOf(c, s) = n
    BY Zenon, <1>1, <1>2 DEF ApprovalOf, RowsInv
  <2>2. GoesBy(c, s)
    BY Zenon, <1>2, <1>3, <2>1 DEF GoesBy, sameApprovalCall
  <2>3. pc[c] # "idle"
    BY <1>1
  <2> QED BY Zenon, <1>1, <1>3, <2>2, <2>3, PassRows
<1>4. CASE Blocks(c, Origin(s)) /\ UNCHANGED <<rows, granted>>
  BY Zenon, <1>1, <1>4, QuietKeeps DEF Blocks, Emits, Returns, Steps, Quiet
<1>5. CASE /\ Blocks(c, Origin(s)) /\ granted' = granted
           /\ rows[n] = "pending" /\ rows' = [rows EXCEPT ![n] = "timeout"]
  <2>1. /\ pc' = [pc EXCEPT ![c] = "done"] /\ reply' = [reply EXCEPT ![c] = "error"]
        /\ log' = [log EXCEPT ![c] = Append(@, <<"block", Origin(s)>>)]
    BY Zenon, <1>5 DEF Blocks, Emits, Returns
  <2>2. /\ rows' \in [Ids -> Statuses]
        /\ \A i \in Ids : /\ rows[i] # "none" <=> rows'[i] # "none"
                          /\ rows[i] = "approved" => rows'[i] = "approved"
    BY <1>5 DEF RowsInv, Statuses
  <2>3. Advances
    BY Zenon, <1>1, <2>1, <2>2, StepAdvances
  <2>4. \A d \in Calls : /\ reply'[d] = "pending" => reply[d] = "pending"
                         /\ pc'[d] = "wait" => pc[d] = "wait"
    BY <2>1 DEF PipeInv, PipeTypes
  <2> QED BY Zenon, <1>1, <1>5, <2>2, <2>3, <2>4, RowsKept DEF RowsInv, Ids
<1> QED BY Zenon, <1>2, <1>3, <1>4, <1>5 DEF WaitReturns

LEMMA ResumeRows ==
  ASSUME PipeInv, RowsInv, NEW c \in Calls, NEW s \in Asked, Resume(c, s)
  PROVE  RowsInv'
<1>1. /\ pc[c] = s /\ cfg.async /\ carried[c] \in Ids
      /\ UNCHANGED <<cfg, tok, act, carried, rows>>
  BY Zenon DEF Resume, Resumes, request, stores, RowsInv
<1>2. ApprovalOf(c, s) = carried[c] /\ pc[c] # "idle"
  <2>1. s # "idle"
    BY AskedStages DEF StageNames
  <2> QED BY Zenon, <1>1, <2>1 DEF ApprovalOf
<1>3. CASE Blocks(c, Origin(s)) /\ UNCHANGED <<held, granted>>
  BY Zenon, <1>1, <1>3, QuietKeeps DEF Blocks, Emits, Returns, Steps, Quiet
<1>4. CASE sameApprovalCall(carried[c], c) /\ rows[carried[c]] = "approved" /\ Passes(c, s)
  <2>1. GoesBy(c, s)
    BY Zenon, <1>1, <1>2, <1>4 DEF GoesBy
  <2> QED BY Zenon, <1>1, <1>2, <1>4, <2>1, PassRows
<1>5. CASE /\ sameApprovalCall(carried[c], c) /\ rows[carried[c]] = "pending"
           /\ Returns(c, "pending") /\ UNCHANGED <<log, held, granted>>
  <2>1. pc' = [pc EXCEPT ![c] = "done"] /\ reply' = [reply EXCEPT ![c] = "pending"]
    BY Zenon, <1>5 DEF Returns
  <2>2. Advances
    BY Zenon, <1>1, <1>5, <2>1, StepAdvances
  <2>3. \A d \in Calls : /\ reply'[d] = "pending" => d = c \/ reply[d] = "pending"
                         /\ pc'[d] = "wait" => pc[d] = "wait"
    BY <2>1 DEF PipeInv, PipeTypes
  <2>4. WaitsFor(c)'
    <3>1. rows[carried[c]] # "none"
      BY <1>5
    <3>2. WaitsFor(c)
      BY Zenon, <1>1, <1>5, <3>1 DEF WaitsFor
    <3> QED BY Zenon, <1>1, <3>2 DEF WaitsFor, sameApprovalCall, Caller, Ids
  <2> QED BY Zenon, <1>1, <1>5, <2>2, <2>3, <2>4, RowsKept DEF RowsInv, Ids
<1> QED BY Zenon, <1>3, <1>4, <1>5 DEF Resume

LEMMA DecideRows ==
  ASSUME PipeInv, RowsInv, NEW n \in Ids, NEW v \in {"approved", "rejected"}, Decide(n, v)
  PROVE  RowsInv'
<1>1. /\ rows[n] = "pending" /\ rows' = [rows EXCEPT ![n] = v]
      /\ UNCHANGED <<cfg, pc, tok, act, carried, granted, log, reply>>
  BY Zenon DEF Decide, call, request
<1>2. /\ rows' \in [Ids -> Statuses]
      /\ \A i \in Ids : /\ rows[i] # "none" <=> rows'[i] # "none"
                        /\ rows[i] = "approved" => rows'[i] = "approved"
  BY <1>1 DEF RowsInv, Statuses
<1>3. Advances
  BY Zenon, <1>1, <1>2 DEF Advances, RowsInv
<1> QED BY Zenon, <1>1, <1>2, <1>3, RowsKept DEF RowsInv, Ids

\* Every other step of a handler is quiet.
LEMMA HandlerRows ==
  ASSUME PipeInv, RowsInv, NEW c \in Calls, CallStep(c)
  PROVE  RowsInv'
<1> USE DEF Emits, Returns, Blocks, Goes, Steps, Quiet, request, stores
<1>1. CASE \/ StartInvalid(c) \/ \E l \in {"kill", "revoke"} : LookupFails(c, l)
           \/ KillCheck(c) \/ RevocationCheck(c) \/ CaveatCheck(c)
  <2>1. Steps(c) /\ Quiet
    BY Zenon, <1>1 DEF StartInvalid, LookupFails, KillCheck, RevocationCheck, CaveatCheck, CapFails
  <2> QED BY Zenon, <2>1, QuietKeeps
<1>2. CASE \/ Sandboxed(c) \/ Tripped(c) \/ ContainEngage(c) \/ ContainRevoke(c)
  <2>1. Steps(c) /\ Quiet
    BY Zenon, <1>2 DEF Sandboxed, Tripped, ContainEngage, ContainRevoke
  <2> QED BY Zenon, <2>1, QuietKeeps
<1>3. CASE \/ StubAllow(c) \/ AcquireRefused(c) \/ Forward(c)
           \/ UpstreamFails(c) \/ UpstreamAnswers(c) \/ ResponsePII(c) \/ OutputSchema(c)
  <2>1. Steps(c) /\ Quiet
    BY Zenon, <1>3 DEF StubAllow, AcquireRefused, Forward, UpstreamFails, UpstreamAnswers,
                       ResponsePII, OutputSchema, Forwarded
  <2> QED BY Zenon, <2>1, QuietKeeps
<1>4. ASSUME NEW p \in 0 .. 12, Proceeds(c, p)
      PROVE  \E x : x # "idle" /\ x # "wait" /\ pc' = [pc EXCEPT ![c] = x] /\ reply' = reply
  <2>1. PICK l \in StageNames \cup {"acquire"} : l = NextAfter(p, c)
    BY NextIsStage
  <2>2. l # "idle" /\ l # "wait"
    BY DEF StageNames
  <2> QED BY Zenon, <1>4, <2>1, <2>2 DEF Proceeds
<1>5. CASE NoDecoy(c) \/ BudgetCheck(c) \/ BudgetFails(c)
  <2>1. PICK p \in 0 .. 12 : p = Position("budget")
    BY Zenon, PositionInOrder DEF StageNames
  <2>2. 0 \in 0 .. 12
    OBVIOUS
  <2>3. Steps(c) /\ Quiet
    BY Zenon, <1>4, <1>5, <2>1, <2>2 DEF NoDecoy, BudgetCheck, BudgetFails
  <2> QED BY Zenon, <2>3, QuietKeeps
<1>6. ASSUME NEW s \in Asked, Stage(c, s) PROVE RowsInv'
  <2>1. PICK p \in 0 .. 12 : p = Position(s)
    BY Zenon, AskedStages, PositionInOrder
  <2>2. Steps(c) /\ Quiet
    BY Zenon, <1>4, <1>6, <2>1 DEF Stage
  <2> QED BY Zenon, <2>2, QuietKeeps
<1> QED BY Zenon, <1>1, <1>2, <1>3, <1>5, <1>6, StartRows, EscalateRows, WaitRows, ResumeRows
        DEF CallStep

LEMMA RowsInvariant == Spec => []RowsInv
<1>1. ASSUME Init PROVE RowsInv
  BY <1>1 DEF Init, RowsInv, Statuses
<1>2. ASSUME PipeInv, RowsInv, [Next]_vars PROVE RowsInv'
  <2> USE <1>2
  <2>1. ASSUME UNCHANGED <<call, rows>> PROVE RowsInv'
    <3>1. UNCHANGED <<cfg, pc, tok, act, carried, granted, log, reply, rows>>
      BY Zenon, <2>1 DEF call, request
    <3>2. Advances
      BY Zenon, <3>1 DEF Advances, RowsInv
    <3> QED BY Zenon, <3>1, <3>2, RowsKept DEF RowsInv, Ids
  <2>2. CASE OperatorStep
    BY Zenon, <2>1, <2>2, DecideRows DEF OperatorStep, Engage, Release, Revoke
  <2>3. CASE UNCHANGED vars
    BY Zenon, <2>1, <2>3 DEF vars
  <2> QED BY Zenon, <2>2, <2>3, HandlerRows DEF Next
<1> QED BY <1>1, <1>2, PipeInvariant, PTL DEF Spec

-----------------------------------------------------------------------------
(* The results. *)

\* A request that a kill switch, a revocation or an answered decoy trip bars
\* from before it arrived, and without a pause since, is never forwarded by
\* handleToolsCall, whatever look-ups fail and whatever operators and other
\* calls do meanwhile.
THEOREM BarredCallsStopped == Spec => []BarredNeverForwarded
<1>1. PipeInv => BarredNeverForwarded
  BY Zenon DEF PipeInv, BarredInv, BarredNeverForwarded
<1> QED BY <1>1, PipeInvariant, PTL

\* No call passes runApprovalFlow to the upstream, or to the stub's answer,
\* with an approval of one of its stages outstanding: a call that waited has
\* an approved request of its own for each of them, a retry goes by an
\* approved request of the same caller, tool and arguments.
THEOREM ApprovalsPrecedeForward == Spec => []EscalatedOnlyApproved
<1>1. PipeInv /\ RowsInv => EscalatedOnlyApproved
  BY Zenon DEF PipeInv, RowsInv, HeldInv, EscalatedOnlyApproved, GoesBy
<1> QED BY <1>1, PipeInvariant, RowsInvariant, PTL

\* Whatever path the handler takes, emitAudit leaves one terminal event, at
\* the end, that tells what the caller got; a call that is told to wait has
\* none, and waits for a request whose escalation is on a trail.
THEOREM TrailTellsReply == Spec => []AuditTellsReply
<1>1. PipeInv /\ RowsInv => AuditTellsReply
  BY Zenon DEF PipeInv, RowsInv, TrailInv, WaitsFor, AuditTellsReply
<1> QED BY <1>1, PipeInvariant, RowsInvariant, PTL
=============================================================================
