----------------------------- MODULE IntentGrant -----------------------------
(***************************************************************************)
(* The IntentGrant enforcement endpoint, POST /v1/mcp/ig                   *)
(* (internal/handlers/mcp_intentgrant.go): every tools/call is authorized  *)
(* by the control plane (internal/intentauthz) before it is forwarded      *)
(* (internal/upstream), observed (internal/observations), and its          *)
(* execution outcome recorded (internal/executionoutcome).                 *)
(*                                                                         *)
(* The control plane and the tool server are outside the repository; both  *)
(* may act on a request whose answer the gateway no longer waits for.      *)
(***************************************************************************)
EXTENDS Naturals

CONSTANT IGCalls   \* calls in flight at a time

VARIABLES
  igUpstream,  \* an upstream is configured
  igReq,       \* [method, agent, tool, id]: what arrived; id: decisions carry one
  igStep,      \* idle, authorize, forward, done
  igReply,     \* what the caller was told
  decided,     \* the control plane's decision on the call, answered or not
  atTool,      \* the tool server: none, received, ran, refused
  emitting,    \* <<outcome>> on its detached goroutine
  outcomes,    \* outcomes the control plane holds: [call, status, http]
  observing,   \* the call's observation is on its goroutine
  observed     \* calls the control plane holds an observation of

igVars == <<igUpstream, igReq, igStep, igReply, decided, atTool, emitting,
            outcomes, observing, observed>>

IGRequests == [method : {"tools/call", "tools/list", "unreadable"},
               agent : {"", "agent"}, tool : {"", "tool"}, id : BOOLEAN]

IGInit ==
  /\ igUpstream \in BOOLEAN
  /\ igReq \in [IGCalls -> IGRequests]
  /\ igStep = [c \in IGCalls |-> "idle"]
  /\ igReply = [c \in IGCalls |-> "none"]
  /\ decided = [c \in IGCalls |-> "none"]
  /\ atTool = [c \in IGCalls |-> "none"]
  /\ emitting = [c \in IGCalls |-> <<>>]
  /\ outcomes = {}
  /\ observing = {} /\ observed = {}

Consequential(c) == igReq[c].method = "tools/call"

\* The handler up to the authorization: parse errors and missing fields are
\* answered, other methods forwarded, a tools/call observed and authorized.
Receive(c) ==
  LET refusal == CASE igReq[c].method = "unreadable" -> "parse error"
                   [] Consequential(c) /\ igReq[c].agent = "" -> "missing agent"
                   [] Consequential(c) /\ igReq[c].agent # "" /\ igReq[c].tool = "" -> "missing tool"
                   [] OTHER -> "none" IN
  /\ igStep[c] = "idle"
  /\ igReply' = [igReply EXCEPT ![c] = refusal]
  /\ igStep' = [igStep EXCEPT ![c] = IF refusal # "none" THEN "done"
                                     ELSE IF Consequential(c) THEN "authorize" ELSE "forward"]
  /\ observing' = IF Consequential(c) /\ refusal = "none" THEN observing \cup {c} ELSE observing
  /\ UNCHANGED <<igUpstream, igReq, decided, atTool, emitting, outcomes, observed>>

\* Collector.Emit: one post, its failure only logged.
Observe(c) ==
  /\ c \in observing
  /\ observing' = observing \ {c}
  /\ observed' \in {observed, observed \cup {c}}
  /\ UNCHANGED <<igUpstream, igReq, igStep, igReply, decided, atTool, emitting, outcomes>>

\* The control plane decides on a request that reached it.
PlaneDecides(c) ==
  /\ igStep[c] = "authorize" /\ decided[c] = "none"
  /\ \E d \in {"ALLOW", "DENY", "OTHER"} : decided' = [decided EXCEPT ![c] = d]
  /\ UNCHANGED <<igUpstream, igReq, igStep, igReply, atTool, emitting, outcomes, observing, observed>>

\* Authorize: the decision, or an error: unreachable, too late, not 200,
\* undecodable, an unknown verdict.
Authorize(c) ==
  {"error"} \cup (IF decided[c] \in {"ALLOW", "DENY"} THEN {decided[c]} ELSE {})

\* emitOutcome: nothing without a decision id or a status.
Emitted(c, o) == IF igReq[c].id THEN <<o>> ELSE <<>>

\* Mutant: an unreachable control plane lets the call through.
AnsweredFailOpen(c, answer) ==
  /\ igStep' = [igStep EXCEPT ![c] = IF answer \in {"ALLOW", "error"} THEN "forward" ELSE "done"]
  /\ igReply' = [igReply EXCEPT ![c] = IF answer = "DENY" THEN "denied" ELSE "none"]
  /\ emitting' = [emitting EXCEPT ![c] = IF answer = "DENY"
                    THEN Emitted(c, [call |-> c, status |-> "BLOCKED", http |-> 0]) ELSE <<>>]

\* What the handler does with the answer.
Answered(c, answer) ==
  /\ igStep' = [igStep EXCEPT ![c] = IF answer = "ALLOW" THEN "forward" ELSE "done"]
  /\ igReply' = [igReply EXCEPT ![c] = CASE answer = "error" -> "authorization unavailable"
                                         [] answer = "DENY" -> "denied"
                                         [] OTHER -> "none"]
  /\ emitting' = [emitting EXCEPT ![c] = IF answer = "DENY"
                    THEN Emitted(c, [call |-> c, status |-> "BLOCKED", http |-> 0]) ELSE <<>>]

AuthorizeReturns(c) ==
  /\ igStep[c] = "authorize"
  /\ \E answer \in Authorize(c) : Answered(c, answer)
  /\ UNCHANGED <<igUpstream, igReq, decided, atTool, outcomes, observing, observed>>

\* The tool server receives the request, and runs it or not, at any time
\* after it was sent.
ToolReceives(c) ==
  /\ igStep[c] = "forward" /\ igUpstream /\ atTool[c] = "none"
  /\ atTool' = [atTool EXCEPT ![c] = "received"]
  /\ UNCHANGED <<igUpstream, igReq, igStep, igReply, decided, emitting, outcomes, observing, observed>>

ToolRuns(c) ==
  /\ atTool[c] = "received"
  /\ \E end \in {"ran", "refused"} : atTool' = [atTool EXCEPT ![c] = end]
  /\ UNCHANGED <<igUpstream, igReq, igStep, igReply, decided, emitting, outcomes, observing, observed>>

\* Client.Forward: the HTTP status of an answer below 400, else an error of
\* its kind, with the status if one was read.
Forward(c) ==
  {[ok |-> FALSE, kind |-> k, http |-> 0] : k \in {"transport", "timeout"}}
  \cup (IF atTool[c] = "ran"
          THEN {[ok |-> TRUE, kind |-> "none", http |-> 200],
                [ok |-> FALSE, kind |-> "transport", http |-> 200]} ELSE {})
  \cup (IF atTool[c] \in {"ran", "refused"}
          THEN {[ok |-> FALSE, kind |-> "upstream_http", http |-> 500],
                [ok |-> TRUE, kind |-> "none", http |-> 304]} ELSE {})

\* igForward: the caller's answer and the outcome.
ForwardReturns(c) ==
  /\ igStep[c] = "forward"
  /\ \E r \in IF igUpstream THEN Forward(c) ELSE {[ok |-> FALSE, kind |-> "no_upstream", http |-> 0]} :
       /\ igReply' = [igReply EXCEPT ![c] = IF r.ok THEN "result" ELSE r.kind]
       /\ emitting' = [emitting EXCEPT ![c] =
            IF ~Consequential(c) THEN <<>>
            ELSE Emitted(c, [call |-> c, status |-> IF r.ok THEN "EXECUTED" ELSE "FAILED",
                             http |-> r.http])]
  /\ igStep' = [igStep EXCEPT ![c] = "done"]
  /\ UNCHANGED <<igUpstream, igReq, decided, atTool, outcomes, observing, observed>>

\* Emit: one post of the outcome, its failure only logged.
EmitOutcome(c) ==
  /\ emitting[c] # <<>>
  /\ outcomes' \in {outcomes, outcomes \cup {emitting[c][1]}}
  /\ emitting' = [emitting EXCEPT ![c] = <<>>]
  /\ UNCHANGED <<igUpstream, igReq, igStep, igReply, decided, atTool, observing, observed>>

IGNext ==
  \E c \in IGCalls :
    \/ Receive(c) \/ Observe(c) \/ PlaneDecides(c) \/ AuthorizeReturns(c)
    \/ ToolReceives(c) \/ ToolRuns(c) \/ ForwardReturns(c) \/ EmitOutcome(c)

IGSpec == IGInit /\ [][IGNext]_igVars

-----------------------------------------------------------------------------
\* NewIntentGrantMCPHandler and igForward: a tools/call reaches the tool server
\* only after the control plane answered ALLOW, however late its answer or the
\* tool's run.  An outcome the control plane holds agrees with what happened:
\* BLOCKED only for a call it denied and the tool server never saw, EXECUTED
\* with a 2xx only for one that ran, FAILED only for one that was allowed, one
\* outcome at most for a decision, and none for a call that failed closed.
OutcomesTellTheTruth ==
  /\ \A c \in IGCalls : Consequential(c) /\ atTool[c] # "none" => decided[c] = "ALLOW"
  /\ \A o \in outcomes :
       /\ o.status = "BLOCKED" => decided[o.call] = "DENY" /\ atTool[o.call] = "none"
       /\ o.status = "EXECUTED" /\ o.http < 300 => atTool[o.call] = "ran"
       /\ o.status = "FAILED" => decided[o.call] = "ALLOW"
       /\ igReply[o.call] # "authorization unavailable"
       /\ \A p \in outcomes : p.call = o.call => p = o
=============================================================================
