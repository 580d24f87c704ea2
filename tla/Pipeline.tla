------------------------------ MODULE Pipeline ------------------------------
(***************************************************************************)
(* One tools/call request through the gateway: handleToolsCall and         *)
(* forwardToUpstream in internal/handlers/mcp.go, with the shared state    *)
(* the stages consult - kill switch, revocation list, budget counters -    *)
(* changed meanwhile by operators and by the containment of other calls.   *)
(*                                                                         *)
(* Every call is a process.  A stage that calls out (stores, extractor,    *)
(* policy engine, upstream, a human) is a step of its own, so that any     *)
(* other process may run between two stages.  What a detector, engine or   *)
(* guard answers is a choice over its verdicts; the handler's reaction to  *)
(* the verdict, which is what this module is about, is the code's.         *)
(***************************************************************************)
EXTENDS Naturals, Sequences, FiniteSets

CONSTANTS
    Calls,              \* the requests of one behaviour
    Tokens,             \* capability tokens (their JTI)
    NoToken,            \* a request without an Authorization header
    Agent,              \* token -> subject of the token
    Tenant,             \* token -> tenant of the token
    Untenanted,         \* the empty tenant
    MaxCalls,           \* token -> strictest max_calls caveat; 0: no caveat
    Deployments,        \* the configurations of a gateway that are looked at:
                        \* enabled (optional stages), requireCapability,
                        \* requireBudget, async (ApprovalAsync); and two
                        \* bounds, calls: those that arrive, and actions:
                        \* the tools and arguments they ask for
    MaxOps,             \* bound on operator actions (engage, release, revoke)
    MaxFaults,          \* bound on failed store lookups
    MaxLost             \* bound on failed containment writes

ASSUME TokenAssumption ==
    /\ NoToken \notin Tokens
    /\ DOMAIN Agent = Tokens /\ DOMAIN Tenant = Tokens
    /\ MaxCalls \in [Tokens -> Nat]

\* The optional stages between the capability check and the forward, in
\* the order handleToolsCall runs them.
Order == << "intent", "task", "provenance", "bundle", "action", "refverify",
            "eastwest", "zonescope", "policy", "budget", "pii", "tenantscope" >>

\* runIntentCheck: an extractor error, or a missing prompt where one is
\* required, is a block like a tool outside the declared intent.
IntentVerdicts == {"pass", "block"}

\* runPolicyCheck: escalate beats allow and block; an engine error is a block.
PolicyVerdicts == {"pass", "block", "escalate"}

\* The verdicts the handler tells apart at each of the stages it merely
\* asks.  "flag" is an allow that leaves an audit event behind, "rewrite"
\* one that also changes params.Arguments.
Verdicts ==
    [ intent      |-> IntentVerdicts,
      task        |-> {"pass", "flag", "block"},
      provenance  |-> {"pass", "block"},
      bundle      |-> {"pass", "block", "escalate"},
      action      |-> {"pass", "block", "escalate"},
      refverify   |-> {"pass", "block", "escalate"},
      eastwest    |-> {"pass", "block"},
      zonescope   |-> {"pass", "block"},
      policy      |-> PolicyVerdicts,
      pii         |-> {"pass", "block", "rewrite"},
      tenantscope |-> {"pass", "block", "rewrite"} ]

Asked == DOMAIN Verdicts

\* The audit.Check an event of the stage carries.
Label(s) ==
    CASE s = "task" -> "intent"
      [] s = "bundle" -> "policy"
      [] OTHER -> s

\* The origin check of the approval a stage asks for: the action guard's
\* holds are filed under the policy check.
Origin(s) == IF s = "action" THEN "policy" ELSE Label(s)

\* Kill-switch entries: everything, one tenant, one agent of one tenant.
Entries ==
    {[type |-> "global"]}
      \cup {[type |-> "tenant", tenant |-> Tenant[t]] : t \in Tokens}
      \cup {[type |-> "agent", tenant |-> Tenant[t], value |-> Agent[t]] : t \in Tokens}

\* Entry.Validate: tenant and agent entries name a tenant.
Validate(e) == e.type # "global" => e.tenant # Untenanted

\* Pending ids: a call files at most one approval request per stage.
Ids == Calls \X Asked
NoId == <<>>

VARIABLES
    cfg,        \* the configuration, read once from the environment
    pc,         \* call -> where its handler is
    tok,        \* call -> the token it presents
    eastWest,   \* call -> TRUE iff its tool is an agent
    act,        \* call -> its tool and arguments
    carried,    \* call -> the pending id in its X-IntentGate-Approval-Id header
    capErr,     \* call -> TRUE iff runCapabilityCheck returned an error
    held,       \* call -> the stages that asked for an approval
    granted,    \* call -> the stages it passed on an approval
    args,       \* call -> the rewrites applied to params.Arguments
    sent,       \* call -> the bodies forwarded (none or one): the rewrites in each
    log,        \* call -> its audit events <<decision, check>>, in order
    reply,      \* call -> "none", "invalid", "result", "error" or "pending"
    halts,      \* kill-switch entries engaged
    revoked,    \* revocation rows <<jti, tenant>>
    used,       \* token -> budget counter
    rows,       \* pending id -> status of the approval request
    ops, faults, lost, \* operator actions, failed lookups and failed
                \* containment writes so far
    barred,     \* history: call -> what was in force against it when it started
                \* and has been since: kills, a revocation, a contained trip
    trips       \* history: agents a contained trip has killed and no operator
                \* has released since

Enabled == cfg.enabled

request == <<tok, eastWest, act, carried>>
call == <<cfg, pc, request, capErr, held, granted, args, sent, log, reply>>
vars == <<call, halts, revoked, used, rows, ops, faults, lost, barred, trips>>

-----------------------------------------------------------------------------
(* The stores the capability check consults. *)

\* killswitch Store.Active for a verified token.  An entry that names a
\* tenant never matches a token without one.
Covers(e, t) ==
    \/ e.type = "global"
    \/ e.type = "tenant" /\ Tenant[t] # Untenanted /\ e.tenant = Tenant[t]
    \/ /\ e.type = "agent"
       /\ Tenant[t] # Untenanted /\ e.tenant = Tenant[t]
       /\ e.value = Agent[t]

\* revocation Store.IsRevoked: the token's own tenant, or the superadmin.
IsRevoked(t) == {<<t, Tenant[t]>>, <<t, Untenanted>>} \cap revoked # {}

-----------------------------------------------------------------------------
(* Moving along the pipeline. *)

\* Intent and zone scope are skipped for an agent-to-agent call, the
\* east-west guard for every other.
Runs(s, c) ==
    /\ s \in Enabled \cup {"budget"}
    /\ s \in {"intent", "zonescope"} => ~eastWest[c]
    /\ s = "eastwest" => eastWest[c]

\* The stage after position i of Order: the first one that runs, or the
\* forward once every stage has passed.
NextAfter(i, c) ==
    LET rest == {j \in i + 1 .. Len(Order) : Runs(Order[j], c)}
    IN  IF rest = {} THEN "acquire"
        ELSE Order[CHOOSE j \in rest : \A k \in rest : j <= k]

Position(s) == CHOOSE i \in 1 .. Len(Order) : Order[i] = s

\* emitAudit and emitApprovalAudit.
Emits(c, decision, check) == log' = [log EXCEPT ![c] = Append(@, <<decision, check>>)]

\* The handler returns.
Returns(c, kind) ==
    /\ pc' = [pc EXCEPT ![c] = "done"]
    /\ reply' = [reply EXCEPT ![c] = kind]

\* A block: one event, one error.
Blocks(c, check) == Emits(c, "block", check) /\ Returns(c, "error")

Proceeds(c, i) == pc' = [pc EXCEPT ![c] = NextAfter(i, c)] /\ UNCHANGED reply

Goes(c, l) == pc' = [pc EXCEPT ![c] = l]

stores == <<halts, revoked, used, rows, ops, faults, lost>>
history == <<barred, trips>>

-----------------------------------------------------------------------------
(* The capability check and deception. *)

\* What is in force against a request that presents token t: the kills that
\* cover it, its revocation, and an answered trip of its agent.
AgainstIt(t) ==
    IF t = NoToken THEN {} ELSE
    {e \in halts : Covers(e, t)}
      \cup {[type |-> "revoked"] : x \in {y \in {t} : IsRevoked(t)}}
      \cup {[type |-> "trip", tenant |-> p[1], value |-> p[2]] :
               p \in trips \cap {<<Tenant[t], Agent[t]>>}}

\* ServeHTTP and the head of handleToolsCall: parameters, the east-west
\* test on the tool name, the Authorization header, the approval header
\* (any id that was handed out; it is read in the asynchronous mode only).
\* A token that cannot be decoded or verified leaves no token in the
\* result, only an error.
Start(c, t) ==
    /\ pc[c] = "idle" /\ c \in cfg.calls
    /\ tok' = [tok EXCEPT ![c] = t]
    /\ \E ew \in BOOLEAN : (ew => "eastwest" \in Enabled) /\ eastWest' = [eastWest EXCEPT ![c] = ew]
    /\ \E bad \in BOOLEAN :
          /\ t # NoToken => ~bad
          /\ cfg.requireCapability /\ t = NoToken => bad
          /\ capErr' = [capErr EXCEPT ![c] = bad]
    /\ \E a \in cfg.actions : act' = [act EXCEPT ![c] = a]
    /\ \E i \in {NoId} \cup {j \in Ids : cfg.async /\ rows[j] # "none"} :
          carried' = [carried EXCEPT ![c] = i]
    /\ Goes(c, IF t = NoToken THEN "decoy" ELSE "kill")
    /\ barred' = [barred EXCEPT ![c] = AgainstIt(t)]
    /\ UNCHANGED <<cfg, held, granted, args, sent, log, reply, stores, trips>>

\* Parameters that do not parse, or no tool name: an error, no decision.
StartInvalid(c) ==
    /\ pc[c] = "idle" /\ c \in cfg.calls
    /\ Returns(c, "invalid")
    /\ UNCHANGED <<cfg, request, capErr, held, granted, args, sent, log, stores, history>>

\* A capability failure is carried to the decoy check before it is acted on.
CapFails(c) == capErr' = [capErr EXCEPT ![c] = TRUE] /\ Goes(c, "decoy")

\* Mutant of LookupFails: an unavailable store reads as "not halted".
LookupFailsOpen(c, l) ==
    /\ pc[c] = l
    /\ faults < MaxFaults
    /\ faults' = faults + 1
    /\ Goes(c, IF l = "kill" THEN "revoke" ELSE "caveats")
    /\ UNCHANGED <<cfg, request, capErr, held, granted, args, sent, log, reply,
                   halts, revoked, used, rows, ops, lost, history>>

\* A look-up that errors rejects the request (fail closed).
LookupFails(c, l) ==
    /\ pc[c] = l
    /\ faults < MaxFaults
    /\ faults' = faults + 1
    /\ CapFails(c)
    /\ UNCHANGED <<cfg, request, held, granted, args, sent, log, reply,
                   halts, revoked, used, rows, ops, lost, history>>

KillCheck(c) ==
    /\ pc[c] = "kill"
    /\ IF \E e \in halts : Covers(e, tok[c])
       THEN CapFails(c)
       ELSE Goes(c, "revoke") /\ UNCHANGED capErr
    /\ UNCHANGED <<cfg, request, held, granted, args, sent, log, reply, stores, history>>

RevocationCheck(c) ==
    /\ pc[c] = "revoke"
    /\ IF IsRevoked(tok[c])
       THEN CapFails(c)
       ELSE Goes(c, "caveats") /\ UNCHANGED capErr
    /\ UNCHANGED <<cfg, request, held, granted, args, sent, log, reply, stores, history>>

\* The on-behalf-of token and the caveats of the capability itself.
CaveatCheck(c) ==
    /\ pc[c] = "caveats"
    /\ \/ CapFails(c)
       \/ Goes(c, "decoy") /\ UNCHANGED capErr
    /\ UNCHANGED <<cfg, request, held, granted, args, sent, log, reply, stores, history>>

\* Mutant of NoDecoy: a capability error answered without an audit event.
NoDecoyUnaudited(c) ==
    /\ pc[c] = "decoy"
    /\ IF capErr[c] THEN Returns(c, "error") ELSE Proceeds(c, 0)
    /\ UNCHANGED <<cfg, request, capErr, held, granted, args, sent, log, stores, history>>

\* No decoy touched: now the capability verdict counts.
NoDecoy(c) ==
    /\ pc[c] = "decoy"
    /\ IF capErr[c]
       THEN Blocks(c, "capability")
       ELSE Proceeds(c, 0) /\ UNCHANGED log
    /\ UNCHANGED <<cfg, request, capErr, held, granted, args, sent, stores, history>>

\* A decoy in sandbox mode: the caller is served a synthetic result.
Sandboxed(c) ==
    /\ pc[c] = "decoy" /\ "deception" \in Enabled
    /\ Emits(c, "escalate", "deception")
    /\ Returns(c, "result")
    /\ UNCHANGED <<cfg, request, capErr, held, granted, args, sent, stores, history>>

\* A decoy with on_trip other than contain, or one nobody can be named for.
Tripped(c) ==
    /\ pc[c] = "decoy" /\ "deception" \in Enabled
    /\ Blocks(c, "deception")
    /\ UNCHANGED <<cfg, request, capErr, held, granted, args, sent, stores, history>>

\* Containment, first half: kill the agent.  The store refuses an entry
\* without a tenant, or fails; the handler ignores both.  trips keeps the
\* agents whose kill was accepted.
ContainEngage(c) ==
    /\ pc[c] = "decoy" /\ "deception" \in Enabled
    /\ tok[c] # NoToken
    /\ LET e == [type |-> "agent", tenant |-> Tenant[tok[c]], value |-> Agent[tok[c]]]
       IN  \/ /\ Validate(e)
              /\ halts' = halts \cup {e}
              /\ trips' = trips \cup {<<e.tenant, e.value>>}
              /\ UNCHANGED lost
           \/ ~Validate(e) /\ UNCHANGED <<halts, trips, lost>>
           \/ lost < MaxLost /\ lost' = lost + 1 /\ UNCHANGED <<halts, trips>>
    /\ Goes(c, "contain")
    /\ UNCHANGED <<cfg, request, capErr, held, granted, args, sent, log, reply,
                   revoked, used, rows, ops, faults, barred>>

\* Second half: revoke the token, then answer.
ContainRevoke(c) ==
    /\ pc[c] = "contain"
    /\ \/ revoked' = revoked \cup {<<tok[c], Tenant[tok[c]]>>} /\ UNCHANGED lost
       \/ lost < MaxLost /\ lost' = lost + 1 /\ UNCHANGED revoked
    /\ Blocks(c, "deception")
    /\ UNCHANGED <<cfg, request, capErr, held, granted, args, sent,
                   halts, used, rows, ops, faults, history>>

-----------------------------------------------------------------------------
(* The stages up to the forward. *)

\* A stage that answers a verdict: go on, go on with an audit event (the
\* filters also rewriting params.Arguments), or refuse.
Stage(c, s) ==
    /\ pc[c] = s
    /\ \E v \in Verdicts[s] \ {"escalate"} :
          /\ IF v = "block"
             THEN Blocks(c, Label(s))
             ELSE /\ Proceeds(c, Position(s))
                  /\ IF v = "pass" THEN UNCHANGED log ELSE Emits(c, "allow", Label(s))
          /\ args' = [args EXCEPT ![c] = @ \cup {x \in {s} : v = "rewrite"}]
    /\ UNCHANGED <<cfg, request, capErr, held, granted, sent, stores, history>>

\* The caller as an approval request names it: agent and tenant of the
\* verified token, nothing without one.
Caller(c) == IF tok[c] = NoToken THEN NoToken ELSE <<Agent[tok[c]], Tenant[tok[c]]>>

\* Actor, tenant, tool and arguments; not the stage that asked.
sameApprovalCall(i, c) == Caller(i[1]) = Caller(c) /\ act[i[1]] = act[c]

\* A retry of a held call.
Resumes(c) == cfg.async /\ carried[c] # NoId

\* Escalate: the queue is there and takes the request, under a new id.  The call
\* waits for the human, or in the asynchronous mode returns with the pending id.
Files(c, s) ==
    /\ "approvals" \in Enabled
    /\ rows[<<c, s>>] = "none"
    /\ held' = [held EXCEPT ![c] = @ \cup {s}]
    /\ rows' = [rows EXCEPT ![<<c, s>>] = "pending"]
    /\ Emits(c, "escalate", Origin(s))
    /\ IF cfg.async THEN Returns(c, "pending") ELSE Goes(c, "wait") /\ UNCHANGED reply

\* Mutant of Escalate: a queue that cannot take the request lets it through.
EscalateOpen(c, s) ==
    /\ pc[c] = s
    /\ "escalate" \in Verdicts[s]
    /\ ~Resumes(c)
    /\ \/ Files(c, s)
       \/ /\ held' = [held EXCEPT ![c] = @ \cup {s}]
          /\ Emits(c, "escalate", Origin(s))
          /\ Goes(c, NextAfter(Position(s), c))
          /\ UNCHANGED <<rows, reply>>
    /\ UNCHANGED <<cfg, request, capErr, granted, args, sent,
                   halts, revoked, used, ops, faults, lost, history>>

\* runApprovalFlow for a call that is no retry: file the request, or refuse
\* when there is no queue or the queue cannot take it.
Escalate(c, s) ==
    /\ pc[c] = s
    /\ "escalate" \in Verdicts[s]
    /\ ~Resumes(c)
    /\ \/ Files(c, s)
       \/ Blocks(c, Origin(s)) /\ UNCHANGED <<held, rows>>
    /\ UNCHANGED <<cfg, request, capErr, granted, args, sent,
                   halts, revoked, used, ops, faults, lost, history>>

\* The call goes on past stage s on an approval.
Passes(c, s) ==
    /\ granted' = [granted EXCEPT ![c] = @ \cup {s}]
    /\ Emits(c, "allow", Origin(s))
    /\ Proceeds(c, Position(s))

\* Wait answers: approved; or rejected, expired (the row becomes a timeout)
\* or failed.
WaitReturns(c, s) ==
    /\ pc[c] = "wait" /\ s \in held[c] \ granted[c]
    /\ \/ rows[<<c, s>>] = "approved" /\ Passes(c, s) /\ UNCHANGED rows
       \/ /\ Blocks(c, Origin(s))
          /\ \/ rows[<<c, s>>] = "pending" /\ rows' = [rows EXCEPT ![<<c, s>>] = "timeout"]
             \/ UNCHANGED rows
          /\ UNCHANGED granted
    /\ UNCHANGED <<cfg, request, capErr, held, args, sent,
                   halts, revoked, used, ops, faults, lost, history>>

\* resumeApproval: the recorded decision of the id the retry carries.  An
\* approved one lets the call past, a pending one tells it to wait, without
\* an event; an id that is not found, is another call's or was rejected or
\* expired refuses it.  Whether Get finds the row is a choice.
Resume(c, s) ==
    /\ pc[c] = s
    /\ "escalate" \in Verdicts[s]
    /\ Resumes(c)
    /\ \/ /\ "approvals" \in Enabled
          /\ sameApprovalCall(carried[c], c)
          /\ \/ /\ rows[carried[c]] = "approved"
                /\ held' = [held EXCEPT ![c] = @ \cup {s}]
                /\ Passes(c, s)
             \/ /\ rows[carried[c]] = "pending"
                /\ Returns(c, "pending")
                /\ UNCHANGED <<log, held, granted>>
       \/ Blocks(c, Origin(s)) /\ UNCHANGED <<held, granted>>
    /\ UNCHANGED <<cfg, request, capErr, args, sent, stores, history>>

\* budget.Check: one atomic increment, then the comparison with the caps.
BudgetCheck(c) ==
    LET t == tok[c] IN
    /\ pc[c] = "budget"
    /\ IF t = NoToken
       THEN /\ IF cfg.requireBudget
               THEN Blocks(c, "budget")
               ELSE Proceeds(c, Position("budget")) /\ UNCHANGED log
            /\ UNCHANGED used
       ELSE IF MaxCalls[t] = 0
       THEN Proceeds(c, Position("budget")) /\ UNCHANGED <<log, used>>
       ELSE /\ used' = [used EXCEPT ![t] = @ + 1]
            /\ IF used[t] + 1 > MaxCalls[t]
               THEN Blocks(c, "budget")
               ELSE Proceeds(c, Position("budget")) /\ UNCHANGED log
    /\ UNCHANGED <<cfg, request, capErr, held, granted, args, sent,
                   halts, revoked, rows, ops, faults, lost, history>>

\* The counter store is unavailable: refuse.
BudgetFails(c) ==
    /\ pc[c] = "budget" /\ tok[c] # NoToken /\ MaxCalls[tok[c]] # 0
    /\ faults < MaxFaults
    /\ faults' = faults + 1
    /\ Blocks(c, "budget")
    /\ UNCHANGED <<cfg, request, capErr, held, granted, args, sent,
                   halts, revoked, used, rows, ops, lost, history>>

-----------------------------------------------------------------------------
(* forwardToUpstream. *)

\* json.Marshal(req): req.Params still holds the bytes of the request, so
\* the body carries none of the rewrites of params.Arguments.
Body(c) == {}

\* No upstream configured: authorise and answer.
StubAllow(c) ==
    /\ pc[c] = "acquire" /\ "upstream" \notin Enabled
    /\ Emits(c, "allow", "none")
    /\ Returns(c, "result")
    /\ UNCHANGED <<cfg, request, capErr, held, granted, args, sent, stores, history>>

\* The fault-isolation gate refuses (open circuit, full bulkhead).
AcquireRefused(c) ==
    /\ pc[c] = "acquire" /\ {"upstream", "isolation"} \subseteq Enabled
    /\ Blocks(c, "fault_isolation")
    /\ UNCHANGED <<cfg, request, capErr, held, granted, args, sent, stores, history>>

Forward(c) ==
    /\ pc[c] = "acquire" /\ "upstream" \in Enabled
    /\ sent' = [sent EXCEPT ![c] = {Body(c)}]
    /\ Goes(c, "answer")
    /\ UNCHANGED <<cfg, request, capErr, held, granted, args, log, reply, stores, history>>

\* Forward returned an error, or a body that is not JSON-RPC.
UpstreamFails(c) ==
    /\ pc[c] = "answer"
    /\ Blocks(c, "upstream")
    /\ UNCHANGED <<cfg, request, capErr, held, granted, args, sent, stores, history>>

\* The final allow: metadata, capture, event, answer.
Forwarded(c) == Emits(c, "allow", "upstream") /\ Returns(c, "result")

\* An answer.  One without a result (a tool's own error) skips the filters.
UpstreamAnswers(c) ==
    /\ pc[c] = "answer"
    /\ \/ Goes(c, "response_pii") /\ UNCHANGED <<log, reply>>
       \/ Forwarded(c)
    /\ UNCHANGED <<cfg, request, capErr, held, granted, args, sent, stores, history>>

ResponsePII(c) ==
    /\ pc[c] = "response_pii"
    /\ \/ Goes(c, "schema") /\ UNCHANGED <<log, reply>>
       \/ "response_pii" \in Enabled /\ Blocks(c, "pii")
       \/ /\ "response_pii" \in Enabled
          /\ Emits(c, "allow", "pii") /\ Goes(c, "schema") /\ UNCHANGED reply
    /\ UNCHANGED <<cfg, request, capErr, held, granted, args, sent, stores, history>>

\* Violations block the answer, or leave an event (stripped or only
\* logged) before the final one.
OutputSchema(c) ==
    /\ pc[c] = "schema"
    /\ \/ Forwarded(c)
       \/ "schema" \in Enabled /\ Blocks(c, "output_schema")
       \/ /\ "schema" \in Enabled
          /\ log' = [log EXCEPT ![c] = @ \o << <<"allow", "output_schema">>, <<"allow", "upstream">> >>]
          /\ Returns(c, "result")
    /\ UNCHANGED <<cfg, request, capErr, held, granted, args, sent, stores, history>>

-----------------------------------------------------------------------------
(* Operators. *)

\* POST /v1/admin/kill-switch.
Engage(e) ==
    /\ ops < MaxOps /\ Validate(e) /\ e \notin halts
    /\ ops' = ops + 1
    /\ halts' = halts \cup {e}
    /\ UNCHANGED <<call, revoked, used, rows, faults, lost, history>>

\* POST /v1/admin/kill-switch/release.  What was in force against a call
\* because of the entry no longer is.
Release(e) ==
    /\ ops < MaxOps /\ Validate(e) /\ e \in halts
    /\ ops' = ops + 1
    /\ halts' = halts \ {e}
    /\ trips' = {p \in trips : e.type # "agent" \/ p # <<e.tenant, e.value>>}
    /\ barred' = [c \in Calls |->
          {b \in barred[c] : /\ b # e
                             /\ e.type = "agent" /\ b.type = "trip"
                                  => <<b.tenant, b.value>> # <<e.tenant, e.value>>}]
    /\ UNCHANGED <<call, revoked, used, rows, faults, lost>>

\* POST /v1/admin/revoke, by the superadmin or by the token's tenant.
Revoke(t, n) ==
    /\ ops < MaxOps /\ <<t, n>> \notin revoked
    /\ ops' = ops + 1
    /\ revoked' = revoked \cup {<<t, n>>}
    /\ UNCHANGED <<call, halts, used, rows, faults, lost, history>>

\* POST /v1/admin/approvals/{id}/decide (the queue itself: Approvals).
Decide(i, v) ==
    /\ rows[i] = "pending"
    /\ rows' = [rows EXCEPT ![i] = v]
    /\ UNCHANGED <<call, halts, revoked, used, ops, faults, lost, history>>

Init ==
    /\ cfg \in Deployments
    /\ pc = [c \in Calls |-> "idle"]
    /\ tok = [c \in Calls |-> NoToken]
    /\ eastWest = [c \in Calls |-> FALSE]
    /\ act = [c \in Calls |-> "none"]
    /\ carried = [c \in Calls |-> NoId]
    /\ capErr = [c \in Calls |-> FALSE]
    /\ held = [c \in Calls |-> {}]
    /\ granted = [c \in Calls |-> {}]
    /\ args = [c \in Calls |-> {}]
    /\ sent = [c \in Calls |-> {}]
    /\ log = [c \in Calls |-> <<>>]
    /\ reply = [c \in Calls |-> "none"]
    /\ halts = {} /\ revoked = {}
    /\ used = [t \in Tokens |-> 0]
    /\ rows = [i \in Ids |-> "none"]
    /\ ops = 0 /\ faults = 0 /\ lost = 0
    /\ barred = [c \in Calls |-> {}]
    /\ trips = {}

CallStep(c) ==
    \/ \E t \in Tokens \cup {NoToken} : Start(c, t)
    \/ StartInvalid(c)
    \/ \E l \in {"kill", "revoke"} : LookupFails(c, l)
    \/ KillCheck(c) \/ RevocationCheck(c) \/ CaveatCheck(c)
    \/ NoDecoy(c) \/ Sandboxed(c) \/ Tripped(c) \/ ContainEngage(c) \/ ContainRevoke(c)
    \/ \E s \in Asked : Stage(c, s) \/ Escalate(c, s) \/ WaitReturns(c, s) \/ Resume(c, s)
    \/ BudgetCheck(c) \/ BudgetFails(c)
    \/ StubAllow(c) \/ AcquireRefused(c) \/ Forward(c)
    \/ UpstreamFails(c) \/ UpstreamAnswers(c) \/ ResponsePII(c) \/ OutputSchema(c)

OperatorStep ==
    \/ \E e \in Entries : Engage(e) \/ Release(e)
    \/ \E t \in Tokens : \E n \in {Tenant[t], Untenanted} : Revoke(t, n)
    \/ \E i \in Ids, v \in {"approved", "rejected"} : Decide(i, v)

Next == (\E c \in Calls : CallStep(c)) \/ OperatorStep

Spec == Init /\ [][Next]_vars

-----------------------------------------------------------------------------
(* Properties. *)

\* A request whose token a kill switch covered, or that was revoked, before
\* it arrived and ever since never reaches the upstream, whatever look-ups
\* fail on the way: runCapabilityCheck fails closed, and the decoy check
\* that runs between it and the block does not lose its verdict.  Nor does
\* a later request of an agent with a decoy trip whose kill was accepted,
\* with whatever token, until an operator releases the agent (mcp.go: "A
\* trip fires the kill switch for the agent and revokes its token in the
\* same second, then blocks").
BarredNeverForwarded == \A c \in Calls : sent[c] # {} => barred[c] = {}

\* The approval a stage of a call goes by: the request it filed itself, or
\* in the asynchronous mode the one its header names.
ApprovalOf(c, s) == IF cfg.async THEN carried[c] ELSE <<c, s>>

\* A call is forwarded, or answered by the stub, only if every stage that
\* asked for a human has its approval.  A call that waits needs one of its
\* own for each stage: none stands in for that of another stage or call.
\* A retry needs the approval it names to be of the same caller, tool and
\* arguments (resumeApproval: "an approval can never be replayed against a
\* different action"); sameApprovalCall does not look at the stage, so that
\* one approval then answers for all of them.
EscalatedOnlyApproved ==
    \A c \in Calls :
       sent[c] # {} \/ (reply[c] = "result" /\ capErr[c] = FALSE) =>
          /\ held[c] \subseteq granted[c]
          /\ \A s \in held[c] : /\ rows[ApprovalOf(c, s)] = "approved"
                                /\ sameApprovalCall(ApprovalOf(c, s), c)

Final(c) == log[c][Len(log[c])]

\* The escalation that filed approval request i is on the trail of its call.
OnTrail(i) == \E k \in 1 .. Len(log[i[1]]) : log[i[1]][k] = <<"escalate", Origin(i[2])>>

\* The audit trail of a call ends with exactly one terminal event and that
\* event tells what the caller got: a block for an error, whatever allow
\* events the filters left before; an allow of the upstream check iff a
\* forwarded answer was returned.  No event follows a block.  A call that
\* is told to wait (CodeApprovalPending) has no terminal event, nor, when it
\* is a retry, any event of the approval: what it waits for is on the trail
\* of the call that filed it, the same call made before or this one.
AuditTellsReply ==
    \A c \in Calls :
       /\ \A i \in 1 .. Len(log[c]) - 1 : log[c][i][1] # "block" /\ log[c][i][2] \notin {"upstream", "none"}
       /\ reply[c] \in {"none", "invalid", "pending"} =>
             Len(log[c]) = 0 \/ (Final(c)[1] # "block" /\ Final(c)[2] \notin {"upstream", "none"})
       /\ reply[c] = "pending" => \E i \in Ids : sameApprovalCall(i, c) /\ OnTrail(i)
       /\ reply[c] = "error" => Len(log[c]) > 0 /\ Final(c)[1] = "block"
       /\ reply[c] = "result" =>
             /\ Len(log[c]) > 0
             /\ Final(c) = IF sent[c] # {} THEN <<"allow", "upstream">>
                           ELSE IF "upstream" \in Enabled THEN <<"escalate", "deception">>
                           ELSE IF Final(c)[1] = "escalate" THEN <<"escalate", "deception">>
                           ELSE <<"allow", "none">>

\* What the request filters did to the arguments is what the upstream gets
\* (mcp.go, request PII filter: "argument values are rewritten in place").
ForwardsRewrittenArguments == \A c \in Calls : sent[c] \subseteq {args[c]}
=============================================================================
