----------------------------- MODULE Federation ------------------------------
(***************************************************************************)
(* A node of a federation: it polls the control plane for a directive and  *)
(* applies it to its kill switch (runFederationDirectivePoll), and it      *)
(* reports what it decided, window by window (runFederationPush).  Both    *)
(* are loops of cmd/gateway/main.go over internal/federation.              *)
(*                                                                         *)
(* A signature either verifies or does not; a window is read at once.      *)
(***************************************************************************)
EXTENDS Naturals, FiniteSets

CONSTANTS
  Pollers,        \* the gateway processes of the node
  MaxIssued,      \* directives the control plane issues
  MaxPollerStops, \* restarts of a process
  Shared,         \* the kill switch in Postgres; otherwise each process has its own
  Decisions,      \* what is reported of an event, as [decision, agent]
  Reports,        \* names of audit events
  RollupInterval, \* INTENTGATE_FEDERATION_INTERVAL
  HardCap,        \* hardCap: rows of a window that are read
  MaxFedTime      \* bound on the clock of the rollups

ASSUME RollupAssumption == RollupInterval \in Nat

VARIABLES
  killStore,  \* "postgres" or "memory"
  issued,     \* what the control plane answers, with the number of the directive
  killed,     \* the row of the global scope, per kill switch
  poll,       \* per process: a directive it has fetched, and fedEngaged
  seen,       \* history: the newest directive each process has acted on
  overruled,  \* history: the last change of the switch is an operator's release
  pollerStops

directiveVars == <<killStore, issued, killed, poll, seen, overruled, pollerStops>>

Switches == Pollers \cup {Shared}
SwitchOf(p) == IF killStore = "postgres" THEN Shared ELSE p

\* What a poll can get: the directive of this node, one that is not for it or
\* does not verify, 204, or no answer.
Answers == {"directive", "other node", "unverified", "204", "failed"}
NoDirective == [answer |-> "204", stop |-> FALSE, number |-> 0]
FreshPoll == [pc |-> "wait", got |-> NoDirective, fedEngaged |-> FALSE]

DirectiveInit ==
  /\ killStore \in {"postgres", "memory"}
  /\ issued = NoDirective
  /\ killed = [s \in Switches |-> FALSE]
  /\ poll = [p \in Pollers |-> FreshPoll]
  /\ seen = [p \in Pollers |-> 0]
  /\ overruled = [s \in Switches |-> FALSE]
  /\ pollerStops = 0

\* An operator of the control plane stops the node or clears the stop.
IssueDirective(stop) ==
  /\ issued.number < MaxIssued
  /\ issued' = [answer |-> "directive", stop |-> stop, number |-> issued.number + 1]
  /\ UNCHANGED <<killStore, killed, poll, seen, overruled, pollerStops>>

\* FetchDirective: whatever has no directive in it decodes to the zero value.
FetchDirective(p, answer) ==
  /\ poll[p].pc = "wait"
  /\ answer \in {"directive", "other node", "unverified"} => issued.number > 0
  /\ poll' = [poll EXCEPT ![p].pc = "apply",
                          ![p].got = IF answer = "directive" THEN issued
                                     ELSE [NoDirective EXCEPT !.answer = answer]]
  /\ UNCHANGED <<killStore, issued, killed, seen, overruled, pollerStops>>

\* Mutant: no directive is the zero directive, which does not stop.
ObeysZero(d) == d.answer \in {"directive", "204"}

\* The early returns of poll: a failure, 204, another node's, VerifyDirective.
Obeys(d) == d.answer = "directive"

\* ks.Engage and ks.Release: one row for the global scope.
SetSwitch(s, on, byOperator) ==
  /\ killed' = [killed EXCEPT ![s] = on]
  /\ overruled' = [overruled EXCEPT ![s] = byOperator /\ ~on]

\* The rest of poll.  A stop that this process has engaged is not engaged
\* again; a store that fails leaves fedEngaged as it was.
ApplyDirective(p) ==
  LET d == poll[p].got
      s == SwitchOf(p)
      acted == IF d.answer = "directive" THEN [seen EXCEPT ![p] = d.number] ELSE seen IN
  /\ poll[p].pc = "apply"
  /\ IF Obeys(d) /\ d.stop # poll[p].fedEngaged
       THEN \/ /\ SetSwitch(s, d.stop, FALSE)
               /\ poll' = [poll EXCEPT ![p] = [FreshPoll EXCEPT !.fedEngaged = d.stop]]
               /\ seen' = acted
            \/ /\ killStore = "postgres"
               /\ poll' = [poll EXCEPT ![p].pc = "wait", ![p].got = NoDirective]
               /\ UNCHANGED <<killed, seen, overruled>>
       ELSE /\ poll' = [poll EXCEPT ![p].pc = "wait", ![p].got = NoDirective]
            /\ seen' = acted
            /\ UNCHANGED <<killed, overruled>>
  /\ UNCHANGED <<killStore, issued, pollerStops>>

\* The kill-switch handlers, called by an operator of this node.
OperatorEngages(s) ==
  /\ s \in {SwitchOf(p) : p \in Pollers}
  /\ SetSwitch(s, TRUE, TRUE)
  /\ UNCHANGED <<killStore, issued, poll, seen, pollerStops>>

OperatorReleases(s) ==
  /\ s \in {SwitchOf(p) : p \in Pollers}
  /\ SetSwitch(s, FALSE, TRUE)
  /\ UNCHANGED <<killStore, issued, poll, seen, pollerStops>>

\* A process restarts and polls anew: fedEngaged is a local variable, and so
\* is the switch in memory.
PollerRestarts(p) ==
  /\ pollerStops < MaxPollerStops
  /\ pollerStops' = pollerStops + 1
  /\ poll' = [poll EXCEPT ![p] = FreshPoll]
  /\ seen' = [seen EXCEPT ![p] = 0]
  /\ killed' = [killed EXCEPT ![p] = FALSE]
  /\ overruled' = [overruled EXCEPT ![p] = FALSE]
  /\ UNCHANGED <<killStore, issued>>

DirectiveNext ==
  \/ \E stop \in BOOLEAN : IssueDirective(stop)
  \/ \E p \in Pollers : \/ \E answer \in Answers : FetchDirective(p, answer)
                        \/ ApplyDirective(p) \/ PollerRestarts(p)
  \/ \E s \in Switches : OperatorEngages(s) \/ OperatorReleases(s)

DirectiveSpec == DirectiveInit /\ [][DirectiveNext]_directiveVars

-----------------------------------------------------------------------------
(* The rollups.                                                            *)

VARIABLES
  fedNow,      \* the clock
  logged,      \* the audit events: when they happened, and are they stored yet
  windowStart, \* of runFederationPush
  sending,     \* the rollup that is built and not yet pushed, or <<>>
  taken,       \* rollups the control plane has, with the events behind them
  given        \* history: events of windows that failed, that were stored after
               \* their window was read, were beyond the cap of a window, or that
               \* a long stop left out

rollupVars == <<fedNow, logged, windowStart, sending, taken, given>>

RollupInit ==
  /\ fedNow = RollupInterval
  /\ logged = [r \in {} |-> 0]
  /\ windowStart = 0
  /\ sending = <<>>
  /\ taken = {}
  /\ given = {}

RollupClock ==
  /\ fedNow < MaxFedTime
  /\ fedNow' = fedNow + 1
  /\ UNCHANGED <<logged, windowStart, sending, taken, given>>

\* A decision is made and stamped; the store emitter writes it later.
Decided(r, what) ==
  /\ r \notin DOMAIN logged
  /\ logged' = [e \in DOMAIN logged \cup {r} |->
                  IF e = r THEN [ts |-> fedNow, stored |-> FALSE, what |-> what] ELSE logged[e]]
  /\ UNCHANGED <<fedNow, windowStart, sending, taken, given>>

Stored(r) ==
  /\ r \in DOMAIN logged /\ ~logged[r].stored
  /\ logged' = [logged EXCEPT ![r].stored = TRUE]
  /\ given' = IF logged[r].ts < windowStart \/ (sending # <<>> /\ logged[r].ts <= sending[1].to)
                THEN given \cup {r} ELSE given
  /\ UNCHANGED <<fedNow, windowStart, sending, taken>>

\* The store's filter takes both ends.
WindowRows(from, to) ==
  {r \in DOMAIN logged : logged[r].stored /\ logged[r].ts \in from..to}

\* collectFederationSamples: pages of the newest rows first, up to hardCap of
\* them; rows of one time come in any order.
Samples(from, to) ==
  LET rows == WindowRows(from, to) IN
  IF Cardinality(rows) <= HardCap THEN {rows}
  ELSE {s \in SUBSET rows :
          /\ Cardinality(s) = HardCap
          /\ \A r \in s, e \in rows \ s : logged[r].ts >= logged[e].ts}

\* Summarize: counts, and counts of distinct names.
Summarize(samples) ==
  LET Of(d) == {r \in samples : logged[r].what.decision = d} IN
  [total |-> Cardinality(samples), allow |-> Cardinality(Of("allow")),
   hold |-> Cardinality(Of("escalate")), deny |-> Cardinality(Of("block")),
   agents |-> Cardinality({logged[r].what.agent : r \in samples} \ {""})]

\* Build; the window digest stands for the events themselves.
Build(from, to, samples) ==
  [from |-> from, to |-> to, counts |-> Summarize(samples), digest |-> samples]

\* Mutant: the next window starts when the push has ended.
NextWindowAtReturn(to) == fedNow

\* windowStart = to
NextWindow(to) == to

\* The ticker fires and the store is read; a window that cannot be read is
\* given up.
WindowEnds(ok) ==
  /\ sending = <<>>
  /\ fedNow > windowStart
  /\ IF ok
       THEN \E samples \in Samples(windowStart, fedNow) :
              LET rows == WindowRows(windowStart, fedNow) IN
              /\ sending' = <<Build(windowStart, fedNow, samples)>>
              /\ given' = IF Cardinality(rows) <= HardCap THEN given
                                                          ELSE given \cup (rows \ samples)
              /\ UNCHANGED windowStart
       ELSE /\ windowStart' = NextWindow(fedNow)
            /\ given' = given \cup {r \in DOMAIN logged : logged[r].ts \in windowStart..fedNow}
            /\ UNCHANGED sending
  /\ UNCHANGED <<fedNow, logged, taken>>

\* Push, and the file for an offline import: either may fail, nothing is
\* tried again.
PushRollup(ok) ==
  /\ sending # <<>>
  /\ sending' = <<>>
  /\ windowStart' = NextWindow(sending[1].to)
  /\ IF ok THEN taken' = taken \cup {sending[1]} /\ UNCHANGED given
           ELSE given' = given \cup sending[1].digest /\ UNCHANGED taken
  /\ UNCHANGED <<fedNow, logged>>

\* The loop starts over, one interval back.
PusherRestarts ==
  /\ sending' = <<>>
  /\ windowStart' = fedNow - RollupInterval
  /\ windowStart' # windowStart
  /\ given' = given \cup {r \in DOMAIN logged : logged[r].ts < windowStart'}
  /\ UNCHANGED <<fedNow, logged, taken>>

RollupNext ==
  \/ RollupClock
  \/ \E r \in Reports : (\E what \in Decisions : Decided(r, what)) \/ Stored(r)
  \/ \E ok \in BOOLEAN : WindowEnds(ok) \/ PushRollup(ok)
  \/ PusherRestarts

RollupSpec == RollupInit /\ [][RollupNext]_rollupVars

-----------------------------------------------------------------------------
(* Properties.                                                             *)

\* directive.go: "When a directive says stop, the node engages its LOCAL kill
\* switch"; main.go: "losing the control plane must never silently release a
\* stop".  Once every process of the node has acted on the newest directive
\* and it is a stop, the switch of each is engaged, unless an operator has
\* released it, whatever older directives, failed polls, failed writes and
\* restarts went before.
StopReachesSwitch ==
  (issued.stop /\ \A p \in Pollers : seen[p] = issued.number) =>
    \A p \in Pollers : killed[SwitchOf(p)] \/ overruled[SwitchOf(p)]

\* "on any failure the window still advances": what is left out of the
\* rollups is only what was in a failed window, was stored after its window
\* was read, was among the oldest rows of a window with more than hardCap of
\* them, or was lost by a restart; everything else that lies behind the
\* current window has been reported.
NoWindowGap ==
  \A r \in DOMAIN logged :
    logged[r].stored /\ logged[r].ts < windowStart =>
      r \in given \/ \E w \in taken : r \in w.digest
=============================================================================
