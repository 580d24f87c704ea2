------------------------------- MODULE Bundles -------------------------------
(***************************************************************************)
(* Compiled policy bundles: the subscriber that brings them from the       *)
(* control plane into the registry of a node (internal/bundle/loader.go,   *)
(* subscriber.go), and the evaluation of a call against the active one     *)
(* (internal/bundle/evaluator.go, internal/bundleadapter, mcp_bundle.go).  *)
(*                                                                         *)
(* The control plane is outside the repository: it answers a baseline      *)
(* request with what is published and sends what is published while a      *)
(* stream is open.                                                         *)
(***************************************************************************)
EXTENDS Integers, Sequences, FiniteSets

CONSTANTS
  Grants,        \* bundles; signed: is it, over what Canonical gives, or "none"
  GrantRequests, \* calls: [subject, tool, cents, counterparty]
  MaxPublished,  \* bundles the control plane publishes
  MaxBreaks,     \* lost streams, failed requests and unreadable events
  MaxGrantTime   \* bound on the clock

\* Amounts and times are integers.
ASSUME GrantsAssumption ==
  /\ \A b \in Grants : b.max \in Int /\ b.until \in Int
  /\ \A req \in GrantRequests : req.cents \in Int

VARIABLES
  trust,      \* [key, lab]: INTENTGRANT_VERIFY_KEY is usable, AllowUnsigned
  published,  \* the bundles of the control plane, one per subject
  active,     \* BundleRegistry.bySubject
  link,       \* of the subscriber: baseline, apply, connect, watch
  pending,    \* bundles of the baseline still to apply, events of the stream
  missed,     \* history: subjects whose publication neither the last baseline nor
              \* the stream since has brought
  publications, breaks, grantNow

bundleVars == <<trust, published, active, link, pending, missed, publications, breaks, grantNow>>

Subjects == {g.subject : g \in Grants} \ {""}

BundleInit ==
  /\ trust \in [key : BOOLEAN, lab : BOOLEAN]
  /\ published = {}
  /\ active = {}
  /\ link = "baseline"
  /\ pending = <<>>
  /\ missed = {}
  /\ publications = 0 /\ breaks = 0 /\ grantNow = 0

Others(set, subject) == {b \in set : b.subject # subject}

\* The control plane publishes a bundle, or withdraws one without a word.
Publish(b) ==
  /\ publications < MaxPublished
  /\ publications' = publications + 1
  /\ published' = Others(published, b.subject) \cup {b}
  /\ pending' = IF link = "watch" THEN Append(pending, b) ELSE pending
  /\ missed' = CASE link = "watch" -> missed \ {b.subject}
                 [] link \in {"apply", "connect"} -> missed \cup {b.subject}
                 [] OTHER -> missed
  /\ UNCHANGED <<trust, active, link, breaks, grantNow>>

Withdraw(s) ==
  /\ published' = Others(published, s)
  /\ published' # published
  /\ UNCHANGED <<trust, active, link, pending, missed, publications, breaks, grantNow>>

-----------------------------------------------------------------------------
(* The subscriber.                                                         *)

Breaks == breaks < MaxBreaks /\ breaks' = breaks + 1

\* FetchBaseline.  A failed one is not fatal: Run goes on to the stream with
\* the bundles it has.
FetchBaseline ==
  /\ link = "baseline"
  /\ \/ \E order \in [1..Cardinality(published) -> published] :
          /\ \A b \in published : \E k \in DOMAIN order : order[k] = b
          /\ pending' = order /\ link' = "apply" /\ missed' = {}
          /\ UNCHANGED breaks
     \/ /\ Breaks
        /\ link' = "connect" /\ pending' = <<>>
        /\ missed' = {b.subject : b \in published \ active}
  /\ UNCHANGED <<trust, published, active, publications, grantNow>>

\* Watch: connect to the stream.
Connect ==
  /\ (link = "apply" /\ pending = <<>>) \/ link = "connect"
  /\ \/ link' = "watch" /\ UNCHANGED <<missed, breaks>>
     \/ Breaks /\ link' = "baseline" /\ UNCHANGED missed
  /\ UNCHANGED <<trust, published, active, pending, publications, grantNow>>

\* Mutant: a reconnect goes back to the stream without a baseline.
StreamResumes ==
  /\ link = "watch"
  /\ Breaks
  /\ pending' = <<>> /\ link' = "connect"
  /\ UNCHANGED <<trust, published, active, missed, publications, grantNow>>

\* The stream ends; Run waits and starts over with the baseline.
StreamEnds ==
  /\ link = "watch"
  /\ Breaks
  /\ pending' = <<>> /\ link' = "baseline"
  /\ UNCHANGED <<trust, published, active, missed, publications, grantNow>>

\* What is signed: of the magnitude check only its bound.
Canonical(b) == [b EXCEPT !.enabled = FALSE, !.signed = "none"]

\* Verify
Verify(b) ==
  IF b.signed = "none" THEN trust.lab
  ELSE trust.key /\ b.signed = "good"

\* LoadAndSwap
Installs(b) == b.subject # "" /\ Verify(b)

\* apply; its ack tells the control plane the outcome and changes nothing here.
Apply ==
  LET b == Head(pending) IN
  /\ link \in {"apply", "watch"}
  /\ pending # <<>>
  /\ pending' = Tail(pending)
  /\ active' = IF Installs(b) THEN Others(active, b.subject) \cup {b} ELSE active
  /\ UNCHANGED <<trust, published, link, missed, publications, breaks, grantNow>>

\* An event that does not decode is passed over.
SkipEvent ==
  /\ link = "watch" /\ pending # <<>>
  /\ Breaks
  /\ missed' = missed \cup {Head(pending).subject}
  /\ pending' = Tail(pending)
  /\ UNCHANGED <<trust, published, active, link, publications, grantNow>>

GrantClock ==
  /\ grantNow < MaxGrantTime
  /\ grantNow' = grantNow + 1
  /\ UNCHANGED <<trust, published, active, link, pending, missed, publications, breaks>>

BundleNext ==
  \/ \E b \in Grants : Publish(b)
  \/ \E s \in Subjects : Withdraw(s)
  \/ FetchBaseline \/ Connect \/ StreamEnds \/ Apply \/ SkipEvent \/ GrantClock

BundleSpec == BundleInit /\ [][BundleNext]_bundleVars

-----------------------------------------------------------------------------
(* The evaluation of a call.                                               *)

\* ActionGuardAdapter.Escalate
Escalate(b, req) ==
  /\ b.max > 0 /\ req.cents > 0
  /\ req.tool \in b.irreversible
  /\ req.cents > b.max

\* RefVerifyAdapter as main wires it: without a vendor master and not failing
\* closed, every counterparty is approved.
VendorApproved(counterparty) == TRUE

\* The two paths of Evaluate: decision and the check that made it.
Paths(b, req) ==
  CASE b.until # 0 /\ grantNow > b.until -> <<"DENY", "capability">>
    [] (b.until = 0 \/ grantNow <= b.until) /\ b.tools # {} /\ req.tool \notin b.tools ->
         <<"DENY", "capability">>
    [] OTHER -> IF b.guard /\ b.enabled /\ Escalate(b, req)
                  THEN <<"ESCALATE", "actionguard_magnitude">>
                ELSE IF b.vendor /\ req.counterparty # "" /\ ~VendorApproved(req.counterparty)
                  THEN <<"ESCALATE", "refverify_vendor_master">>
                ELSE <<"PERMIT", "policy">>

\* decide: observe-only turns a refusal into a permit that says so; finish
\* emits the proof.
decide(b, path) ==
  LET monitor == b.observe /\ path[1] # "PERMIT" IN
  [decision |-> IF monitor THEN "PERMIT" ELSE path[1], check |-> path[2], monitor |-> monitor,
   digest |-> Canonical(b), proof |-> b.proof]

\* bundleDecision: a subject without a bundle is not governed.
bundleDecision(req) ==
  {decide(b, Paths(b, req)) : b \in {a \in active : a.subject = req.subject}}

-----------------------------------------------------------------------------
WithinGrant(b, req) ==
  /\ b.until = 0 \/ grantNow <= b.until
  /\ b.tools = {} \/ req.tool \in b.tools
  /\ b.guard /\ b.enabled /\ b.max > 0 /\ req.tool \in b.irreversible => req.cents <= b.max

\* subscriber.go: "a dropped stream never leaves a node stale silently."  On a
\* node whose stream is open and read to the end, a call that is permitted and
\* enforced lies within the grant that is published now, through lost streams
\* and rejected bundles, unless that grant does not verify or reached the node
\* neither way: it was published between a baseline and its stream, its event
\* was unreadable, or the baseline after a break failed and it was not
\* published again since.
PermitsWithinPublished ==
  link = "watch" /\ pending = <<>> =>
    \A req \in GrantRequests, b \in published :
      b.subject = req.subject /\ Installs(b) /\ b.subject \notin missed =>
        /\ bundleDecision(req) # {}
        /\ \A r \in bundleDecision(req) :
             r.decision = "PERMIT" /\ ~r.monitor => WithinGrant(b, req)
=============================================================================
