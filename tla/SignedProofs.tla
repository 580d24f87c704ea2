---------------------------- MODULE SignedProofs ----------------------------
(***************************************************************************)
(* What signed documents bring about.  Delegation of a token only narrows, *)
(* and a revocation reaches exactly the delegates of the tokens it is      *)
(* about, for every set of tenants, tools, caveats and mint requests and   *)
(* every length of the delegation chain.  A directive of the control plane *)
(* reaches every switch, and the signed rollups leave no gap.              *)
(***************************************************************************)
EXTENDS Capability, Federation, TLAPS

(* The directives of a federation. *)

GotTypes(d) == d.number \in Nat /\ d.stop \in BOOLEAN

DirectiveTypes ==
  /\ GotTypes(issued)
  /\ DOMAIN killed = Switches /\ DOMAIN overruled = Switches
  /\ seen \in [Pollers -> Nat]
  /\ DOMAIN poll = Pollers
  /\ \A p \in Pollers : /\ DOMAIN poll[p] = {"pc", "got", "fedEngaged"}
                        /\ poll[p].fedEngaged \in BOOLEAN /\ GotTypes(poll[p].got)

\* Nobody is ahead of the control plane, a directive under way with the newest
\* number is the newest, and a process that has acted on it is as it says.
Acted(n, got, on) ==
  /\ n <= issued.number /\ got.number <= issued.number
  /\ got.answer = "directive" =>
       got.number > 0 /\ (got.number = issued.number => got.stop = issued.stop)
  /\ n = issued.number /\ issued.number > 0 => on = issued.stop

ActedAsTold ==
  /\ issued.number = 0 => ~issued.stop
  /\ \A p \in Pollers : Acted(seen[p], poll[p].got, poll[p].fedEngaged)

\* A switch that is neither engaged nor released by an operator is one that
\* a process has still to engage.
SomeoneToEngage ==
  \A p \in Pollers :
    \/ killed[SwitchOf(p)] \/ overruled[SwitchOf(p)]
    \/ \E q \in Pollers : SwitchOf(q) = SwitchOf(p) /\ ~poll[q].fedEngaged

DirectiveInv == DirectiveTypes /\ ActedAsTold /\ SomeoneToEngage

\* What a step does to a process: what it has fetched and whether it has
\* engaged; the other processes stay as they are.
Sets(p, got, on) ==
  /\ DOMAIN poll' = Pollers
  /\ DOMAIN poll'[p] = {"pc", "got", "fedEngaged"}
  /\ poll'[p].got = got /\ poll'[p].fedEngaged = on
  /\ \A q \in Pollers \ {p} : poll'[q] = poll[q]

LEMMA PollEffects ==
  ASSUME DirectiveTypes, NEW p \in Pollers
  PROVE  /\ \A a, d : poll' = [poll EXCEPT ![p].pc = a, ![p].got = d] => Sets(p, d, poll[p].fedEngaged)
         /\ \A on : poll' = [poll EXCEPT ![p] = [FreshPoll EXCEPT !.fedEngaged = on]] =>
              Sets(p, NoDirective, on)
         /\ poll' = [poll EXCEPT ![p] = FreshPoll] => Sets(p, NoDirective, FALSE)
  BY DEF DirectiveTypes, Sets, FreshPoll

\* A step of one process that leaves it as told leaves all as told.
LEMMA ProcessMoves ==
  ASSUME DirectiveTypes, ActedAsTold, issued' = issued, NEW p \in Pollers,
         NEW n \in Nat, NEW got, GotTypes(got), NEW on \in BOOLEAN, Acted(n, got, on),
         seen' = [seen EXCEPT ![p] = n], Sets(p, got, on),
         DOMAIN killed' = Switches, DOMAIN overruled' = Switches
  PROVE  DirectiveTypes' /\ ActedAsTold'
<1>1. seen' \in [Pollers -> Nat] /\ seen'[p] = n /\ \A q \in Pollers \ {p} : seen'[q] = seen[q]
  BY DEF DirectiveTypes
<1>2. DirectiveTypes'
  BY <1>1 DEF DirectiveTypes, GotTypes, Sets
<1>3. ASSUME NEW q \in Pollers PROVE Acted(seen[q], poll[q].got, poll[q].fedEngaged)'
  <2>1. CASE q = p
    BY <1>1, <2>1 DEF Sets, Acted
  <2>2. CASE q # p
    BY <1>1, <2>2 DEF Sets, Acted, ActedAsTold
  <2> QED BY <2>1, <2>2
<1>4. (issued.number = 0 => ~issued.stop)'
  BY DEF ActedAsTold
<1> QED BY <1>2, <1>3, <1>4 DEF ActedAsTold

LEMMA DirectiveStep == DirectiveInv /\ [DirectiveNext]_directiveVars => DirectiveInv'
<1> SUFFICES ASSUME DirectiveInv, [DirectiveNext]_directiveVars PROVE DirectiveInv'
  OBVIOUS
<1> USE DEF DirectiveInv
<1>0. GotTypes(NoDirective) /\ NoDirective.answer # "directive" /\ NoDirective.number = 0
  BY DEF GotTypes, NoDirective
<1>1. ASSUME NEW stop \in BOOLEAN, IssueDirective(stop) PROVE DirectiveInv'
  <2>1. /\ issued'.number = issued.number + 1 /\ issued'.stop = stop /\ poll' = poll /\ seen' = seen
        /\ killed' = killed /\ overruled' = overruled /\ killStore' = killStore
    BY <1>1 DEF IssueDirective
  <2>2. DirectiveTypes' /\ ActedAsTold'
    BY <2>1 DEF DirectiveTypes, GotTypes, ActedAsTold, Acted
  <2>3. SomeoneToEngage'
    BY <2>1 DEF SomeoneToEngage, SwitchOf
  <2> QED BY <2>2, <2>3
<1>2. ASSUME NEW p \in Pollers, NEW answer \in Answers, FetchDirective(p, answer)
      PROVE  DirectiveInv'
  <2>1. PICK d : d = IF answer = "directive" THEN issued ELSE [NoDirective EXCEPT !.answer = answer]
    BY Zenon
  <2>2. /\ GotTypes(d)
        /\ (d = issued /\ issued.number > 0) \/ (d.answer # "directive" /\ d.number = 0)
    BY Zenon, <1>2, <2>1 DEF FetchDirective, NoDirective, DirectiveTypes, GotTypes
  <2>3. Sets(p, d, poll[p].fedEngaged)
    BY Zenon, <1>2, <2>1, PollEffects DEF FetchDirective
  <2>4. /\ seen' = seen /\ issued' = issued /\ killed' = killed /\ overruled' = overruled
        /\ killStore' = killStore
    BY Zenon, <1>2 DEF FetchDirective
  <2>5. DirectiveTypes' /\ ActedAsTold'
    <3>1. PICK n \in Nat, on \in BOOLEAN : n = seen[p] /\ on = poll[p].fedEngaged
      BY DEF DirectiveTypes
    <3>2. Acted(n, d, on)
      BY <2>2, <3>1 DEF DirectiveTypes, GotTypes, ActedAsTold, Acted
    <3>3. seen' = [seen EXCEPT ![p] = n] /\ DOMAIN killed' = Switches /\ DOMAIN overruled' = Switches
      BY <2>4, <3>1 DEF DirectiveTypes
    <3>4. Sets(p, d, on) /\ GotTypes(d) /\ issued' = issued
      BY <2>2, <2>3, <2>4, <3>1, Zenon
    <3> QED BY <3>2, <3>3, <3>4, ProcessMoves, Zenon DEF DirectiveInv
  <2>6. SomeoneToEngage'
    <3>1. \A q \in Pollers : poll'[q].fedEngaged = poll[q].fedEngaged
      BY <2>3 DEF Sets
    <3> QED BY <2>4, <3>1 DEF SomeoneToEngage, SwitchOf
  <2> QED BY <2>5, <2>6
<1>3. ASSUME NEW p \in Pollers, ApplyDirective(p) PROVE DirectiveInv'
  <2> DEFINE d == poll[p].got
  <2>0. issued' = issued /\ killStore' = killStore
    BY Zenon, <1>3 DEF ApplyDirective
  <2>1. CASE /\ d.answer = "directive" /\ d.stop # poll[p].fedEngaged
             /\ SetSwitch(SwitchOf(p), d.stop, FALSE)
             /\ Sets(p, NoDirective, d.stop) /\ seen' = [seen EXCEPT ![p] = d.number]
    <3>1. DirectiveTypes' /\ ActedAsTold'
      <4>1. PICK n \in Nat, on \in BOOLEAN : n = d.number /\ on = d.stop
        BY DEF DirectiveTypes, GotTypes
      <4>2. Acted(n, NoDirective, on)
        BY <1>0, <2>1, <4>1 DEF DirectiveTypes, GotTypes, ActedAsTold, Acted
      <4>3. DOMAIN killed' = Switches /\ DOMAIN overruled' = Switches
        BY Zenon, <2>1 DEF SetSwitch, DirectiveTypes
      <4>4. Sets(p, NoDirective, on) /\ seen' = [seen EXCEPT ![p] = n]
        BY <2>1, <4>1, Zenon
      <4> QED BY <1>0, <2>0, <4>2, <4>3, <4>4, ProcessMoves, Zenon DEF DirectiveInv
    <3>2. SomeoneToEngage'
      <4>0. \A q \in Pollers : SwitchOf(q)' = SwitchOf(q) /\ SwitchOf(q) \in Switches
        BY <2>0 DEF SwitchOf, Switches
      <4>1. CASE d.stop
        <5>1. killed'[SwitchOf(p)] /\ \A s \in Switches \ {SwitchOf(p)} :
                 killed'[s] = killed[s] /\ overruled'[s] = overruled[s]
          BY Zenon, <2>1, <4>1 DEF SetSwitch, DirectiveTypes, Switches, SwitchOf
        <5> QED BY <2>1, <4>0, <5>1 DEF Sets, SomeoneToEngage
      <4>2. CASE ~d.stop
        <5>1. ~poll'[p].fedEngaged /\ \A s \in Switches \ {SwitchOf(p)} :
                 killed'[s] = killed[s] /\ overruled'[s] = overruled[s]
          BY Zenon, <2>1, <4>2 DEF SetSwitch, DirectiveTypes, Sets
        <5> QED BY <2>1, <4>0, <5>1 DEF Sets, SomeoneToEngage
      <4> QED BY <4>1, <4>2
    <3> QED BY <3>1, <3>2
  <2>2. CASE /\ killed' = killed /\ overruled' = overruled /\ Sets(p, NoDirective, poll[p].fedEngaged)
             /\ \/ seen' = seen
                \/ /\ d.answer = "directive" /\ d.stop = poll[p].fedEngaged
                   /\ seen' = [seen EXCEPT ![p] = d.number]
    <3>1. DirectiveTypes' /\ ActedAsTold'
      <4>1. PICK n \in Nat, on \in BOOLEAN : n = seen'[p] /\ on = poll[p].fedEngaged
        BY <2>2 DEF DirectiveTypes, GotTypes
      <4>2. /\ seen' = [seen EXCEPT ![p] = n] /\ DOMAIN killed' = Switches /\ DOMAIN overruled' = Switches
            /\ n = seen[p] \/ (n = d.number /\ d.answer = "directive" /\ d.stop = on)
        BY <2>2, <4>1 DEF DirectiveTypes
      <4>3. Acted(n, NoDirective, on)
        BY <1>0, <4>1, <4>2 DEF DirectiveTypes, GotTypes, ActedAsTold, Acted
      <4>4. Sets(p, NoDirective, on)
        BY <2>2, <4>1, Zenon
      <4> QED BY <1>0, <2>0, <4>2, <4>3, <4>4, ProcessMoves, Zenon DEF DirectiveInv
    <3>2. SomeoneToEngage'
      <4>1. \A q \in Pollers : poll'[q].fedEngaged = poll[q].fedEngaged
        BY Zenon, <2>2 DEF Sets
      <4> QED BY <2>0, <2>2, <4>1 DEF SomeoneToEngage, SwitchOf
    <3> QED BY <3>1, <3>2
  <2>3. \/ /\ d.answer = "directive" /\ d.stop # poll[p].fedEngaged
           /\ SetSwitch(SwitchOf(p), d.stop, FALSE)
           /\ poll' = [poll EXCEPT ![p] = [FreshPoll EXCEPT !.fedEngaged = d.stop]]
           /\ seen' = [seen EXCEPT ![p] = d.number]
        \/ /\ killed' = killed /\ overruled' = overruled
           /\ poll' = [poll EXCEPT ![p].pc = "wait", ![p].got = NoDirective]
           /\ \/ seen' = seen
              \/ /\ d.answer = "directive" /\ d.stop = poll[p].fedEngaged
                 /\ seen' = [seen EXCEPT ![p] = d.number]
    BY <1>3, Zenon DEF ApplyDirective, Obeys
  <2> QED BY Zenon, <2>1, <2>2, <2>3, PollEffects
<1>4. ASSUME NEW p \in Pollers, PollerRestarts(p) PROVE DirectiveInv'
  <2>1. Sets(p, NoDirective, FALSE)
    BY Zenon, <1>4, PollEffects DEF PollerRestarts
  <2>2. /\ seen' = [seen EXCEPT ![p] = 0] /\ issued' = issued /\ killStore' = killStore
        /\ killed' = [killed EXCEPT ![p] = FALSE] /\ overruled' = [overruled EXCEPT ![p] = FALSE]
    BY <1>4 DEF PollerRestarts
  <2>3. DirectiveTypes' /\ ActedAsTold'
    <3>1. Acted(0, NoDirective, FALSE)
      BY <1>0 DEF DirectiveTypes, GotTypes, Acted
    <3>2. DOMAIN killed' = Switches /\ DOMAIN overruled' = Switches
      BY Zenon, <2>2 DEF DirectiveTypes
    <3>3. 0 \in Nat /\ FALSE \in BOOLEAN
      OBVIOUS
    <3> QED BY <1>0, <2>1, <2>2, <3>1, <3>2, <3>3, ProcessMoves, Zenon DEF DirectiveInv
  <2>4. SomeoneToEngage'
    BY <2>1, <2>2 DEF Sets, SomeoneToEngage, SwitchOf, DirectiveTypes, Switches
  <2> QED BY <2>3, <2>4
<1>5. ASSUME NEW s \in Switches, NEW on \in BOOLEAN, SetSwitch(s, on, TRUE),
             UNCHANGED <<killStore, issued, poll, seen>>
      PROVE  DirectiveInv'
  <2>1. DirectiveTypes' /\ ActedAsTold'
    BY <1>5 DEF SetSwitch, DirectiveTypes, ActedAsTold, Acted
  <2>2. killed'[s] \/ overruled'[s]
    BY Zenon, <1>5 DEF SetSwitch, DirectiveTypes
  <2>3. \A r \in Switches \ {s} : killed'[r] = killed[r] /\ overruled'[r] = overruled[r]
    BY Zenon, <1>5 DEF SetSwitch, DirectiveTypes
  <2>4. SomeoneToEngage'
    BY <1>5, <2>2, <2>3 DEF SomeoneToEngage, SwitchOf, Switches
  <2> QED BY <2>1, <2>4
<1>6. CASE UNCHANGED directiveVars
  <2>1. DirectiveTypes' /\ ActedAsTold'
    BY <1>6 DEF directiveVars, DirectiveTypes, ActedAsTold, Acted
  <2>2. SomeoneToEngage'
    BY Zenon, <1>6 DEF directiveVars, SomeoneToEngage, SwitchOf
  <2> QED BY <2>1, <2>2
<1>7. ASSUME NEW s \in Switches, OperatorEngages(s) \/ OperatorReleases(s) PROVE DirectiveInv'
  BY Zenon, <1>5, <1>7 DEF OperatorEngages, OperatorReleases
<1> QED BY <1>1, <1>2, <1>3, <1>4, <1>6, <1>7 DEF DirectiveNext

\* runFederationDirectivePoll: a stop that every process of the node has acted
\* on holds its switches, shared or not, whatever was fetched before it, failed
\* or was restarted in between.
THEOREM StopHolds == DirectiveSpec => []StopReachesSwitch
<1>1. DirectiveInit => DirectiveInv
  <2> SUFFICES ASSUME DirectiveInit PROVE DirectiveInv
    BY DEF DirectiveInit
  <2>1. \A p \in Pollers : poll[p] = FreshPoll
    BY DEF DirectiveInit
  <2>2. /\ DOMAIN FreshPoll = {"pc", "got", "fedEngaged"}
        /\ FreshPoll.fedEngaged = FALSE /\ FreshPoll.got = NoDirective
    BY DEF FreshPoll
  <2>3. NoDirective.number = 0 /\ NoDirective.stop = FALSE /\ NoDirective.answer # "directive"
    BY DEF NoDirective
  <2>4. DirectiveTypes
    <3>1. GotTypes(NoDirective) /\ issued = NoDirective
      BY DEF GotTypes, NoDirective, DirectiveInit
    <3>2. /\ DOMAIN killed = Switches /\ DOMAIN overruled = Switches /\ DOMAIN poll = Pollers
          /\ seen \in [Pollers -> Nat]
      BY DEF DirectiveInit
    <3> QED BY Zenon, <2>1, <2>2, <3>1, <3>2 DEF DirectiveTypes
  <2>5. ActedAsTold
    BY <2>1, <2>2, <2>3 DEF DirectiveInit, ActedAsTold, Acted
  <2>6. SomeoneToEngage
    BY Zenon, <2>1, <2>2 DEF SomeoneToEngage
  <2> QED BY <2>4, <2>5, <2>6 DEF DirectiveInv
<1>2. DirectiveInv /\ [DirectiveNext]_directiveVars => DirectiveInv'
  BY DirectiveStep
<1>3. DirectiveInv => StopReachesSwitch
  <2> SUFFICES ASSUME DirectiveInv, issued.stop, \A q \in Pollers : seen[q] = issued.number,
                      NEW p \in Pollers
               PROVE  killed[SwitchOf(p)] \/ overruled[SwitchOf(p)]
    BY DEF StopReachesSwitch
  <2>1. \A q \in Pollers : poll[q].fedEngaged = issued.stop
    <3>1. issued.number > 0
      <4>1. issued.number # 0
        BY Zenon DEF DirectiveInv, ActedAsTold
      <4>2. issued.number \in Nat
        BY Zenon DEF DirectiveInv, DirectiveTypes, GotTypes
      <4> QED BY <4>1, <4>2
    <3> QED BY Zenon, <3>1 DEF DirectiveInv, ActedAsTold, Acted
  <2>2. \A q \in Pollers : poll[q].fedEngaged
    BY <2>1, Zenon
  <2> QED BY <2>2, Zenon DEF DirectiveInv, SomeoneToEngage
<1> QED BY <1>1, <1>2, <1>3, PTL DEF DirectiveSpec

-----------------------------------------------------------------------------
(* The rollups of a federation. *)

RollupTypes ==
  /\ fedNow \in Nat /\ RollupInterval <= fedNow
  /\ windowStart \in Nat /\ windowStart <= fedNow
  /\ \A r \in DOMAIN logged : /\ DOMAIN logged[r] = {"ts", "stored", "what"}
                              /\ logged[r].ts \in Nat /\ logged[r].ts <= fedNow
  /\ sending # <<>> => /\ sending[1].to \in Nat /\ sending[1].to <= fedNow

\* What is stored of the window that is being pushed is in it, was stored too
\* late or was beyond the cap.
WindowRead ==
  sending # <<>> =>
    \A r \in DOMAIN logged :
      logged[r].stored /\ windowStart <= logged[r].ts /\ logged[r].ts <= sending[1].to =>
        r \in sending[1].digest \/ r \in given

RollupInv == RollupTypes /\ WindowRead /\ NoWindowGap

LEMMA RollupStep == RollupInv /\ [RollupNext]_rollupVars => RollupInv'
<1> SUFFICES ASSUME RollupInv, [RollupNext]_rollupVars PROVE RollupInv'
  OBVIOUS
<1> USE DEF RollupInv
<1>1. CASE RollupClock
  <2>1. fedNow' = fedNow + 1 /\ UNCHANGED <<logged, windowStart, sending, taken, given>>
    BY Zenon, <1>1 DEF RollupClock
  <2>2. RollupTypes'
    BY <2>1, RollupAssumption DEF RollupTypes
  <2> QED BY Zenon, <2>1, <2>2 DEF WindowRead, NoWindowGap
<1>2. ASSUME NEW r \in Reports, NEW what \in Decisions, Decided(r, what) PROVE RollupInv'
  <2>1. /\ DOMAIN logged' = DOMAIN logged \cup {r} /\ r \notin DOMAIN logged
        /\ \A e \in DOMAIN logged : logged'[e] = logged[e]
        /\ DOMAIN logged'[r] = {"ts", "stored", "what"}
        /\ logged'[r].ts = fedNow /\ logged'[r].stored = FALSE
        /\ UNCHANGED <<fedNow, windowStart, sending, taken, given>>
    BY Zenon, <1>2 DEF Decided
  <2>2. RollupTypes'
    BY <2>1 DEF RollupTypes
  <2>3. WindowRead'
    BY Zenon, <2>1 DEF WindowRead
  <2>4. NoWindowGap'
    BY Zenon, <2>1 DEF NoWindowGap
  <2> QED BY Zenon, <2>2, <2>3, <2>4
<1>3. ASSUME NEW r \in Reports, Stored(r) PROVE RollupInv'
  <2>1. RollupTypes'
    BY <1>3 DEF Stored, RollupTypes
  <2>2. WindowRead'
    BY <1>3 DEF Stored, RollupTypes, WindowRead
  <2>3. NoWindowGap'
    BY <1>3 DEF Stored, RollupTypes, NoWindowGap
  <2> QED BY <2>1, <2>2, <2>3
<1>4. ASSUME NEW ok \in BOOLEAN, WindowEnds(ok) PROVE RollupInv'
  <2>1. CASE ok
    <3> DEFINE rows == WindowRows(windowStart, fedNow)
    <3>1. PICK samples \in Samples(windowStart, fedNow) :
            /\ sending' = <<Build(windowStart, fedNow, samples)>>
            /\ given' = IF Cardinality(rows) <= HardCap THEN given
                                                        ELSE given \cup (rows \ samples)
            /\ UNCHANGED <<fedNow, logged, windowStart, taken>>
      BY Zenon, <1>4, <2>1 DEF WindowEnds
    <3>2. sending'[1].to = fedNow /\ sending'[1].digest = samples
      BY Zenon, <3>1 DEF Build
    <3>3. given \subseteq given' /\ rows \subseteq samples \cup given'
      BY Zenon, <3>1 DEF Samples
    <3>4. RollupTypes'
      BY <3>1, <3>2 DEF RollupTypes
    <3>5. \A r \in DOMAIN logged :
            logged[r].stored /\ windowStart <= logged[r].ts /\ logged[r].ts <= fedNow =>
              r \in rows
      BY DEF WindowRows, RollupTypes
    <3>6. WindowRead'
      BY Zenon, <3>1, <3>2, <3>3, <3>5 DEF WindowRead
    <3> QED BY Zenon, <3>1, <3>3, <3>4, <3>6 DEF NoWindowGap
  <2>2. CASE ~ok
    <3>1. /\ sending = <<>> /\ windowStart' = fedNow
          /\ given' = given \cup {r \in DOMAIN logged : logged[r].ts \in windowStart..fedNow}
          /\ UNCHANGED <<fedNow, logged, sending, taken>>
      BY Zenon, <1>4, <2>2 DEF WindowEnds, NextWindow
    <3>2. RollupTypes' /\ WindowRead'
      BY <3>1 DEF RollupTypes, WindowRead
    <3> QED BY <3>1, <3>2 DEF NoWindowGap, RollupTypes
  <2> QED BY <2>1, <2>2
<1>5. ASSUME NEW ok \in BOOLEAN, PushRollup(ok) PROVE RollupInv'
  <2>1. /\ sending # <<>> /\ sending' = <<>> /\ windowStart' = sending[1].to
        /\ taken \subseteq taken' /\ given \subseteq given'
        /\ sending[1] \in taken' \/ sending[1].digest \subseteq given'
        /\ UNCHANGED <<fedNow, logged>>
    BY Zenon, <1>5 DEF PushRollup, NextWindow
  <2>2. RollupTypes' /\ WindowRead'
    BY Zenon, <2>1 DEF RollupTypes, WindowRead
  <2>3. NoWindowGap'
    BY <2>1 DEF NoWindowGap, RollupTypes, WindowRead
  <2> QED BY Zenon, <2>2, <2>3
<1>6. CASE PusherRestarts
  <2>1. /\ sending' = <<>> /\ windowStart' = fedNow - RollupInterval
        /\ given' = given \cup {r \in DOMAIN logged : logged[r].ts < windowStart'}
        /\ UNCHANGED <<fedNow, logged, taken>>
    BY Zenon, <1>6 DEF PusherRestarts
  <2>2. RollupTypes'
    BY <2>1, RollupAssumption DEF RollupTypes
  <2> QED BY Zenon, <2>1, <2>2 DEF WindowRead, NoWindowGap
<1>7. CASE UNCHANGED rollupVars
  BY Zenon, <1>7 DEF rollupVars, RollupTypes, WindowRead, NoWindowGap
<1> QED BY <1>1, <1>2, <1>3, <1>4, <1>5, <1>6, <1>7 DEF RollupNext

\* runFederationPush: the windows leave no gap.  A stored event that lies
\* behind the current window was reported, unless its window failed, it was
\* stored late, its window had more than hardCap rows and it was not among
\* the newest of them, or a restart left it out.
THEOREM WindowsLeaveNoGap == RollupSpec => []NoWindowGap
<1>1. RollupInit => RollupInv
  BY RollupAssumption DEF RollupInit, RollupInv, RollupTypes, WindowRead, NoWindowGap
<1>2. RollupInv /\ [RollupNext]_rollupVars => RollupInv'
  BY RollupStep
<1>3. RollupInv => NoWindowGap
  BY DEF RollupInv
<1> QED BY <1>1, <1>2, <1>3, PTL DEF RollupSpec

-----------------------------------------------------------------------------
(* Capability tokens. *)

Extends(q, base) == \A i \in DOMAIN base : i \in DOMAIN q /\ q[i] = base[i]

\* Every signature outside the gateway extends the chain of a minted token.
KnownDescends ==
  \A s \in known : \E m \in minted : m.payload = s.payload /\ Extends(s.chain, m.caveats)

\* Identifiers are never reused, and the rows of the store tell which tokens
\* were stopped.
RowsTellStopped ==
  /\ \A m, n \in minted : m.payload.id = n.payload.id => m = n
  /\ \A row \in revoked : \E m \in minted : m.payload.id = row[1]
  /\ \A m \in minted : m \in stopped <=> IsRevoked(m.payload.id, m.payload.tenant)

CapabilityInv == CapabilityTypeOK /\ KnownDescends /\ RowsTellStopped

OptsSet == [sub : Names, tenant : Names, zone : Names, expiry : Int,
            caveats : Seq(CaveatSet)]

\* A caveat of the right fields is a caveat.
LEMMA CaveatType ==
  ASSUME NEW type \in CaveatTypes, NEW names \in NameSets, NEW zones \in NameSets,
         NEW value \in Int
  PROVE  Caveat(type, names, zones, value) \in CaveatSet
  BY Zenon DEF Caveat, CaveatSet

\* The sets of names Mint uses by itself.
LEMMA NoNames == {} \in NameSets /\ \A x \in Names : {x} \in NameSets
  BY DEF NameSets

\* Optional caveats make a chain.
LEMMA OptType ==
  ASSUME NEW present, NEW c \in CaveatSet
  PROVE  Opt(present, c) \in Seq(CaveatSet)
  BY DEF Opt

\* The caveats of the mint bodies are caveats.
LEMMA BodyCaveats ==
  ASSUME NEW names \in NameSets, NEW zones \in NameSets, NEW value \in Int
  PROVE  /\ Caveat("tool_allow", names, {}, 0) \in CaveatSet
         /\ Caveat("tool_deny", names, {}, 0) \in CaveatSet
         /\ Caveat("mcp_allow", names, {}, 0) \in CaveatSet
         /\ Caveat("callee_allow", names, zones, 0) \in CaveatSet
         /\ Caveat("max_calls", {}, {}, value) \in CaveatSet
         /\ Caveat("rate_limit", {}, {}, value) \in CaveatSet
         /\ Caveat("max_cost", {}, {}, value) \in CaveatSet
         /\ Caveat("risk_max", {}, {}, value) \in CaveatSet
         /\ Caveat("step_up", {}, {}, value) \in CaveatSet
  BY CaveatType, NoNames DEF CaveatTypes

\* Chains concatenate.
LEMMA ConcatType ==
  ASSUME NEW p \in Seq(CaveatSet), NEW q \in Seq(CaveatSet)
  PROVE  p \o q \in Seq(CaveatSet)
  OBVIOUS

\* Mint makes a token out of its options.
LEMMA NewTokenType ==
  ASSUME NEW id \in Names, NEW opts \in OptsSet, now \in Nat
  PROVE  /\ NewToken(id, opts) \in [payload : PayloadSet, caveats : Seq(CaveatSet)]
         /\ NewToken(id, opts).payload.id = id
<1>1. <<Caveat("agent_lock", {opts.sub}, {}, 0)>> \in Seq(CaveatSet)
  <2>1. opts.sub \in Names
    BY DEF OptsSet
  <2>2. Caveat("agent_lock", {opts.sub}, {}, 0) \in CaveatSet
    BY <2>1, CaveatType, NoNames DEF CaveatTypes
  <2> QED BY <2>2
<1>2. (IF opts.expiry = 0 THEN <<>> ELSE <<Caveat("exp", {}, {}, opts.expiry)>>)
         \in Seq(CaveatSet)
  <2>1. Caveat("exp", {}, {}, opts.expiry) \in CaveatSet
    BY Zenon, CaveatType, NoNames DEF OptsSet, CaveatTypes
  <2> QED BY <2>1
<1>3. opts.caveats \in Seq(CaveatSet)
  BY DEF OptsSet
<1>4. NewToken(id, opts).caveats \in Seq(CaveatSet)
  BY Zenon, <1>1, <1>2, <1>3, ConcatType DEF NewToken
<1>5. NewToken(id, opts).payload \in PayloadSet
  BY Zenon, CapabilityAssumption
     DEF NewToken, PayloadSet, OptsSet, SchemaVersion, DefaultTenant, DefaultZone
<1> QED BY Zenon, <1>4, <1>5 DEF NewToken

\* The time to live becomes an absolute expiry.
LEMMA ExpiryType ==
  ASSUME NEW ttl \in Int, now \in Nat
  PROVE  Expiry(ttl) \in Int
  BY DEF Expiry

\* The options of the mint handler are well formed.
LEMMA AdminOptionsType ==
  ASSUME now \in Nat, NEW admin \in Admins, NEW b \in MintBodies
  PROVE  AdminOptions(admin, b) \in OptsSet
<1> DEFINE cs == Opt(b.tools # {}, Caveat("tool_allow", b.tools, {}, 0))
                 \o Opt(b.maxCalls > 0, Caveat("max_calls", {}, {}, b.maxCalls))
                 \o Opt(b.servers # {}, Caveat("mcp_allow", b.servers, {}, 0))
                 \o Opt(b.rate > 0, Caveat("rate_limit", {}, {}, b.rate))
                 \o Opt(b.cents > 0, Caveat("max_cost", {}, {}, b.cents))
                 \o Opt(b.risk > 0, Caveat("risk_max", {}, {}, b.risk))
                 \o Opt(b.stepUp, Caveat("step_up", {}, {}, now))
                 \o Opt(b.callees # {} \/ b.calleeZones # {},
                        Caveat("callee_allow", b.callees, b.calleeZones, 0))
<1>1. /\ b.sub \in Names /\ b.tenant \in Names /\ b.zone \in Names /\ b.ttl \in Int
      /\ b.tools \in NameSets /\ b.servers \in NameSets
      /\ b.callees \in NameSets /\ b.calleeZones \in NameSets
      /\ b.maxCalls \in Int /\ b.rate \in Int /\ b.cents \in Int /\ b.risk \in Int
      /\ b.stepUp \in BOOLEAN
  BY Zenon, CapabilityAssumption
<1>2. /\ Opt(b.tools # {}, Caveat("tool_allow", b.tools, {}, 0)) \in Seq(CaveatSet)
      /\ Opt(b.maxCalls > 0, Caveat("max_calls", {}, {}, b.maxCalls)) \in Seq(CaveatSet)
      /\ Opt(b.servers # {}, Caveat("mcp_allow", b.servers, {}, 0)) \in Seq(CaveatSet)
      /\ Opt(b.rate > 0, Caveat("rate_limit", {}, {}, b.rate)) \in Seq(CaveatSet)
  BY Zenon, <1>1, BodyCaveats, OptType
<1>3. /\ Opt(b.cents > 0, Caveat("max_cost", {}, {}, b.cents)) \in Seq(CaveatSet)
      /\ Opt(b.risk > 0, Caveat("risk_max", {}, {}, b.risk)) \in Seq(CaveatSet)
      /\ Opt(b.stepUp, Caveat("step_up", {}, {}, now)) \in Seq(CaveatSet)
      /\ Opt(b.callees # {} \/ b.calleeZones # {},
             Caveat("callee_allow", b.callees, b.calleeZones, 0)) \in Seq(CaveatSet)
  <2>1. now \in Int
    OBVIOUS
  <2>2. Opt(b.stepUp, Caveat("step_up", {}, {}, now)) \in Seq(CaveatSet)
    BY Zenon, <2>1, BodyCaveats, OptType, NoNames
  <2> QED BY Zenon, <1>1, <2>2, BodyCaveats, OptType
<1>4. cs \in Seq(CaveatSet)
  BY <1>2, <1>3, ConcatType
<1>5. Scope(admin, b.tenant) \in Names
  BY Zenon, <1>1, CapabilityAssumption DEF Scope, Admins
<1>6. Expiry(b.ttl) \in Int
  BY Zenon, <1>1, ExpiryType
<1> DEFINE o == [sub |-> b.sub, tenant |-> Scope(admin, b.tenant), zone |-> b.zone,
                 expiry |-> Expiry(b.ttl), caveats |-> cs]
<1>7. o \in OptsSet
  <2> HIDE DEF cs
  <2> QED BY Zenon, <1>1, <1>4, <1>5, <1>6 DEF OptsSet
<1> QED BY Zenon, <1>7 DEF AdminOptions

\* The options of the exception handler are well formed.
LEMMA ExceptionOptionsType ==
  ASSUME now \in Nat, NEW admin \in Admins, NEW b \in ExceptionBodies
  PROVE  ExceptionOptions(admin, b) \in OptsSet
<1> DEFINE cs == <<Caveat("tool_allow", b.tools, {}, 0)>>
<1> DEFINE o == [sub |-> b.sub, tenant |-> Scope(admin, b.tenant), zone |-> b.zone,
                 expiry |-> Expiry(b.ttl),
                 caveats |-> cs]
<1>1. /\ b.sub \in Names /\ b.tenant \in Names /\ b.zone \in Names /\ b.ttl \in Int
      /\ b.tools \in NameSets
  BY Zenon, CapabilityAssumption
<1>2. cs \in Seq(CaveatSet)
  <2>1. Caveat("tool_allow", b.tools, {}, 0) \in CaveatSet
    BY Zenon, <1>1, BodyCaveats
  <2> QED BY <2>1
<1>3. Scope(admin, b.tenant) \in Names
  BY Zenon, <1>1, CapabilityAssumption DEF Scope, Admins
<1>4. Expiry(b.ttl) \in Int
  BY Zenon, <1>1, ExpiryType
<1>5. o \in OptsSet
  <2> HIDE DEF cs
  <2> QED BY Zenon, <1>1, <1>2, <1>3, <1>4 DEF OptsSet
<1> QED BY Zenon, <1>5 DEF ExceptionOptions

\* The options of igctl are well formed.
LEMMA IgctlOptionsType ==
  ASSUME now \in Nat, NEW b \in IgctlFlags
  PROVE  IgctlOptions(b) \in OptsSet
<1> DEFINE cs == Opt(b.tools # {}, Caveat("tool_allow", b.tools, {}, 0))
                 \o Opt(b.forbidden # {}, Caveat("tool_deny", b.forbidden, {}, 0))
                 \o Opt(b.maxCalls > 0, Caveat("max_calls", {}, {}, b.maxCalls))
                 \o Opt(b.callees # {} \/ b.calleeZones # {},
                        Caveat("callee_allow", b.callees, b.calleeZones, 0))
<1> DEFINE o == [sub |-> b.sub, tenant |-> None, zone |-> b.zone, expiry |-> Expiry(b.ttl),
                 caveats |-> cs]
<1>1. /\ b.sub \in Names /\ b.zone \in Names /\ b.ttl \in Int /\ b.maxCalls \in Int
      /\ b.tools \in NameSets /\ b.forbidden \in NameSets
      /\ b.callees \in NameSets /\ b.calleeZones \in NameSets
  BY Zenon, CapabilityAssumption
<1>2. cs \in Seq(CaveatSet)
  <2>1. /\ Opt(b.tools # {}, Caveat("tool_allow", b.tools, {}, 0)) \in Seq(CaveatSet)
        /\ Opt(b.forbidden # {}, Caveat("tool_deny", b.forbidden, {}, 0)) \in Seq(CaveatSet)
        /\ Opt(b.maxCalls > 0, Caveat("max_calls", {}, {}, b.maxCalls)) \in Seq(CaveatSet)
        /\ Opt(b.callees # {} \/ b.calleeZones # {},
               Caveat("callee_allow", b.callees, b.calleeZones, 0)) \in Seq(CaveatSet)
    BY Zenon, <1>1, BodyCaveats, OptType
  <2> QED BY Zenon, <2>1, ConcatType
<1>3. Expiry(b.ttl) \in Int
  BY Zenon, <1>1, ExpiryType
<1>4. o \in OptsSet
  <2> HIDE DEF cs
  <2> QED BY Zenon, <1>1, <1>2, <1>3, CapabilityAssumption DEF OptsSet
<1> QED BY Zenon, <1>4 DEF IgctlOptions

(***************************************************************************)
(* The inductive invariant.                                                *)
(***************************************************************************)
\* A chain extends itself, and stays an extension when a holder appends.
LEMMA ExtendsAppend ==
  ASSUME NEW q \in Seq(CaveatSet), NEW base, NEW c \in CaveatSet, Extends(q, base)
  PROVE  Extends(Append(q, c), base) /\ Append(q, c) \in Seq(CaveatSet)
  BY DEF Extends

\* Minting keeps the invariant: the new chain is its own base, and a fresh
\* identifier has no revocation row.
LEMMA MintKeeps ==
  ASSUME CapabilityInv, NEW opts \in OptsSet, NEW event, Mint(opts, event)
  PROVE  CapabilityInv'
<1>1. PICK id \in Jtis \ {m.payload.id : m \in minted} :
        /\ minted' = minted \cup {NewToken(id, opts)}
        /\ known' = known \cup {computeSignature(NewToken(id, opts))}
        /\ UNCHANGED <<revoked, stopped, now>>
  BY Zenon DEF Mint
<1>2. PICK t : t = NewToken(id, opts)
  BY Zenon
<1>3. /\ t \in [payload : PayloadSet, caveats : Seq(CaveatSet)]
      /\ t.payload.id = id
  <2>1. id \in Names /\ now \in Nat
    BY Zenon, CapabilityAssumption DEF CapabilityInv, CapabilityTypeOK
  <2> QED BY Zenon, <1>2, <2>1, NewTokenType
<1>4. /\ minted' = minted \cup {t}
      /\ known' = known \cup {[payload |-> t.payload, chain |-> t.caveats]}
      /\ revoked' = revoked /\ stopped' = stopped /\ now' = now
  BY Zenon, <1>1, <1>2 DEF computeSignature
<1>5. CapabilityTypeOK'
  <2>1. [payload |-> t.payload, chain |-> t.caveats] \in [payload : PayloadSet, chain : Seq(CaveatSet)]
    BY Zenon, <1>3
  <2> QED BY <1>3, <1>4, <2>1, Zenon DEF CapabilityInv, CapabilityTypeOK
<1>6. KnownDescends'
  <2>1. Extends(t.caveats, t.caveats)
    BY Zenon DEF Extends
  <2> SUFFICES ASSUME NEW s \in known'
               PROVE  \E m \in minted' : m.payload = s.payload /\ Extends(s.chain, m.caveats)
    BY Zenon DEF KnownDescends, Extends
  <2>2. CASE s \in known
    BY Zenon, <2>2, <1>4 DEF CapabilityInv, KnownDescends
  <2>3. CASE s = [payload |-> t.payload, chain |-> t.caveats]
    BY Zenon, <2>1, <2>3, <1>4
  <2> QED BY Zenon, <2>2, <2>3, <1>4
<1>7. RowsTellStopped'
  <2>1. \A m \in minted : m.payload.id # id
    BY Zenon, <1>1
  <2>2. \A row \in revoked : row[1] # id
    BY Zenon, <2>1 DEF CapabilityInv, RowsTellStopped
  <2>3. ~IsRevoked(t.payload.id, t.payload.tenant)
    BY Zenon, <1>3, <2>2 DEF IsRevoked
  <2>4. t \notin stopped
    BY Zenon, <2>1, <1>3 DEF CapabilityInv, CapabilityTypeOK
  <2> QED BY <2>1, <2>3, <2>4, <1>3, <1>4 DEF CapabilityInv, RowsTellStopped, IsRevoked
<1> QED BY Zenon, <1>5, <1>6, <1>7 DEF CapabilityInv

\* Delegation keeps the invariant: the child's chain extends its parent's.
LEMMA AttenuateKeeps ==
  ASSUME CapabilityInv, NEW s \in known, NEW c \in HolderCaveats, Attenuate(s, c)
  PROVE  CapabilityInv'
<1>1. c \in CaveatSet
  BY Zenon, CapabilityAssumption
<1>2. /\ s.payload \in PayloadSet /\ s.chain \in Seq(CaveatSet)
  BY Zenon DEF CapabilityInv, CapabilityTypeOK
<1>3. PICK d : d = [payload |-> s.payload, chain |-> Append(s.chain, c)]
  BY Zenon
<1>4. /\ known' = known \cup {d}
      /\ minted' = minted /\ revoked' = revoked /\ stopped' = stopped /\ now' = now
  BY Zenon, <1>3 DEF Attenuate, hmacOnce
<1>5. PICK m \in minted : m.payload = s.payload /\ Extends(s.chain, m.caveats)
  BY Zenon DEF CapabilityInv, KnownDescends
<1>6. Extends(d.chain, m.caveats) /\ d.chain \in Seq(CaveatSet)
  BY Zenon, <1>1, <1>2, <1>3, <1>5, ExtendsAppend
<1>7. CapabilityTypeOK'
  <2>1. d \in [payload : PayloadSet, chain : Seq(CaveatSet)]
    BY Zenon, <1>2, <1>3, <1>6
  <2> QED BY Zenon, <2>1, <1>4 DEF CapabilityInv, CapabilityTypeOK
<1>8. KnownDescends'
  <2> SUFFICES ASSUME NEW x \in known'
               PROVE  \E n \in minted' : n.payload = x.payload /\ Extends(x.chain, n.caveats)
    BY Zenon DEF KnownDescends, Extends
  <2>1. CASE x \in known
    BY Zenon, <2>1, <1>4 DEF CapabilityInv, KnownDescends
  <2>2. CASE x = d
    BY Zenon, <2>2, <1>3, <1>4, <1>5, <1>6
  <2> QED BY Zenon, <2>1, <2>2, <1>4
<1>9. RowsTellStopped'
  BY Zenon, <1>4 DEF CapabilityInv, RowsTellStopped, IsRevoked
<1> QED BY Zenon, <1>7, <1>8, <1>9 DEF CapabilityInv

\* Revoking keeps the invariant: the new row stops exactly the tokens of that
\* identifier the administrator answers for.
LEMMA RevokeKeeps ==
  ASSUME CapabilityInv, NEW a \in Admins, NEW n \in minted, Revoke(a, n.payload.id)
  PROVE  CapabilityInv'
<1>1. PICK jti : jti = n.payload.id
  OBVIOUS
<1>2. /\ revoked' = revoked \cup {<<jti, a>>}
      /\ stopped' = stopped \cup {m \in minted : m.payload.id = jti
                                                /\ a \in {None, m.payload.tenant}}
      /\ minted' = minted /\ known' = known /\ now' = now
  BY Zenon, <1>1 DEF Revoke
<1>3. CapabilityTypeOK' /\ KnownDescends'
  BY Zenon, <1>2 DEF CapabilityInv, CapabilityTypeOK, KnownDescends, Extends
<1>4. RowsTellStopped'
  <2>1. \A row \in revoked' : \E m \in minted' : m.payload.id = row[1]
    BY <1>1, <1>2 DEF CapabilityInv, RowsTellStopped
  <2>2. ASSUME NEW m \in minted
        PROVE  (\E row \in revoked' : row[1] = m.payload.id /\ row[2] \in {m.payload.tenant, None})
                 <=> \/ \E row \in revoked : row[1] = m.payload.id
                                           /\ row[2] \in {m.payload.tenant, None}
                     \/ m.payload.id = jti /\ a \in {None, m.payload.tenant}
    <3>1. PICK new : new = <<jti, a>>
      BY Zenon
    <3>2. new[1] = jti /\ new[2] = a /\ revoked' = revoked \cup {new}
      BY Zenon, <1>2, <3>1
    <3> QED BY Zenon, <3>2
  <2>3. \A m \in minted : m \in stopped' <=>
          \E row \in revoked' : row[1] = m.payload.id /\ row[2] \in {m.payload.tenant, None}
    BY Zenon, <2>2, <1>2 DEF CapabilityInv, RowsTellStopped, IsRevoked
  <2> QED BY <2>1, <2>3, <1>2 DEF CapabilityInv, RowsTellStopped, IsRevoked
<1> QED BY Zenon, <1>3, <1>4 DEF CapabilityInv

\* Every step keeps the invariant.
LEMMA CapabilityStep ==
  ASSUME CapabilityInv, [CapabilityNext]_capabilityVars
  PROVE  CapabilityInv'
<1>1. now \in Nat
  BY DEF CapabilityInv, CapabilityTypeOK
<1>2. CASE \E a \in Admins, b \in MintBodies : AdminMint(a, b)
  <2>1. PICK a \in Admins, b \in MintBodies : Mint(AdminOptions(a, b), {"admin/mint"})
    BY Zenon, <1>2 DEF AdminMint
  <2> QED BY Zenon, <1>1, <2>1, AdminOptionsType, MintKeeps
<1>3. CASE \E a \in Admins, b \in ExceptionBodies : ExceptionGrant(a, b)
  <2>1. PICK a \in Admins, b \in ExceptionBodies :
          Mint(ExceptionOptions(a, b), {"admin/exception-grant"})
    BY Zenon, <1>3 DEF ExceptionGrant
  <2> QED BY Zenon, <1>1, <2>1, ExceptionOptionsType, MintKeeps
<1>4. CASE \E b \in IgctlFlags : cmdMint(b)
  <2>1. PICK b \in IgctlFlags : Mint(IgctlOptions(b), {})
    BY <1>4 DEF cmdMint
  <2> QED BY Zenon, <1>1, <2>1, IgctlOptionsType, MintKeeps
<1>5. CASE \E s \in known, c \in HolderCaveats : Attenuate(s, c)
  BY Zenon, <1>5, AttenuateKeeps
<1>6. CASE \E a \in Admins, m \in minted : Revoke(a, m.payload.id)
  BY Zenon, <1>6, RevokeKeeps
<1>7. CASE CapabilityTick
  <2>1. CapabilityTypeOK'
    BY <1>7 DEF CapabilityTick, CapabilityInv, CapabilityTypeOK
  <2>2. KnownDescends'
    BY Zenon, <1>7 DEF CapabilityTick, CapabilityInv, KnownDescends
  <2>3. RowsTellStopped'
    BY Zenon, <1>7 DEF CapabilityTick, CapabilityInv, RowsTellStopped, IsRevoked
  <2> QED BY Zenon, <2>1, <2>2, <2>3 DEF CapabilityInv
<1>8. CASE UNCHANGED capabilityVars
  <2>1. CapabilityTypeOK'
    BY Zenon, <1>8 DEF capabilityVars, CapabilityInv, CapabilityTypeOK
  <2>2. KnownDescends'
    BY Zenon, <1>8 DEF capabilityVars, CapabilityInv, KnownDescends
  <2>3. RowsTellStopped'
    BY Zenon, <1>8 DEF capabilityVars, CapabilityInv, RowsTellStopped, IsRevoked
  <2> QED BY Zenon, <2>1, <2>2, <2>3 DEF CapabilityInv
<1> QED BY Zenon, <1>2, <1>3, <1>4, <1>5, <1>6, <1>7, <1>8 DEF CapabilityNext

\* The invariant holds at the start and so for ever.
LEMMA CapabilityAlways == CapabilitySpec => []CapabilityInv
<1>1. CapabilityInit => CapabilityInv
  BY DEF CapabilityInit, CapabilityInv, CapabilityTypeOK, KnownDescends, RowsTellStopped
<1> QED BY <1>1, CapabilityStep, PTL DEF CapabilitySpec

\* A token grants no more than a token whose caveats it extends.
LEMMA ExtensionGrantsLess ==
  ASSUME NEW t, NEW m, m.payload = t.payload, Extends(t.caveats, m.caveats),
         NEW tool, NEW eastWest, NEW callee, NEW zone,
         Grants(t, tool, eastWest, callee, zone)
  PROVE  Grants(m, tool, eastWest, callee, zone)
  BY Zenon DEF Grants, Check, CanCall, Extends

\* For every set of tenants, agents, tools and caveats, and however often
\* tokens are delegated, a token that verifies grants only what a token minted
\* with its payload grants (Attenuate, Verify, Check, CanCall).
THEOREM DelegationAlwaysNarrows == CapabilitySpec => []DelegationOnlyNarrows
<1>1. CapabilityInv => DelegationOnlyNarrows
  <2> SUFFICES ASSUME CapabilityInv, NEW s \in known, NEW p, NEW q,
                      Verify(Token(p, q, s))
               PROVE  \E m \in minted :
                        /\ m.payload = Token(p, q, s).payload
                        /\ \A tool \in Tools, eastWest \in BOOLEAN, callee \in Agents, zone \in Zones :
                             Grants(Token(p, q, s), tool, eastWest, callee, zone)
                               => Grants(m, tool, eastWest, callee, zone)
    BY DEF DelegationOnlyNarrows
  <2>1. PICK t : t = Token(p, q, s)
    BY Zenon
  <2>2. t.payload = s.payload /\ t.caveats = s.chain
    BY <2>1 DEF Token, Verify, computeSignature
  <2>3. PICK m \in minted : m.payload = s.payload /\ Extends(s.chain, m.caveats)
    BY Zenon DEF CapabilityInv, KnownDescends
  <2>4. \A tool \in Tools, eastWest \in BOOLEAN, callee \in Agents, zone \in Zones :
          Grants(t, tool, eastWest, callee, zone) => Grants(m, tool, eastWest, callee, zone)
    BY Zenon, <2>2, <2>3, ExtensionGrantsLess
  <2> QED BY Zenon, <2>1, <2>2, <2>3, <2>4
<1> QED BY <1>1, CapabilityAlways, PTL

\* For every set of tenants and tokens, a verified token is refused as revoked
\* exactly when the token it descends from was revoked by the superadmin or by
\* an administrator of its tenant (Revoke, IsRevoked).
THEOREM RevocationAlwaysReaches == CapabilitySpec => []RevocationReachesDelegates
<1>1. CapabilityInv => RevocationReachesDelegates
  <2> SUFFICES ASSUME CapabilityInv, NEW s \in known, NEW p, NEW q, NEW m \in minted,
                      NEW tool, NEW eastWest, Verify(Token(p, q, s)), m.payload = p
               PROVE  (runCapabilityCheck(Token(p, q, s), tool, eastWest) = "revoked")
                        <=> m \in stopped
    BY DEF RevocationReachesDelegates
  <2>1. Token(p, q, s).payload = p
    BY Zenon DEF Token
  <2>2. (runCapabilityCheck(Token(p, q, s), tool, eastWest) = "revoked")
          <=> IsRevoked(p.id, p.tenant)
    BY Zenon, <2>1 DEF runCapabilityCheck
  <2>3. m \in stopped <=> IsRevoked(p.id, p.tenant)
    BY Zenon DEF CapabilityInv, RowsTellStopped
  <2> QED BY Zenon, <2>2, <2>3
<1> QED BY <1>1, CapabilityAlways, PTL
=============================================================================
