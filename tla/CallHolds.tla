------------------------------ MODULE CallHolds ------------------------------
(***************************************************************************)
(* The two stages of the pipeline that hold a call: an escalation waits    *)
(* for a human, a forward needs a permit of its tool.  Each is a protocol  *)
(* of its own between concurrent calls and shares no state with the other, *)
(* so that one specification takes each in turn: hold is chosen once.      *)
(***************************************************************************)
EXTENDS FaultIsolation, ApprovalModes

VARIABLE hold  \* "permit" or "approval"

holdVars == <<hold, vars, modesVars>>

\* Where the calls of the part that is not looked at begin.
PermitOff == tool = [c \in Calls |-> CHOOSE t \in Tools : TRUE]
ApprovalOff == /\ mode = "postgres" /\ backend = "postgres"
               /\ home = [i \in Ids |-> CHOOSE r \in Replicas : TRUE]

HoldsInit ==
  /\ hold \in {"permit", "approval"}
  /\ hold = "permit" \/ PermitOff
  /\ hold = "approval" \/ ApprovalOff
  /\ Init /\ ModesInit

InPermit(step) == hold = "permit" /\ step /\ UNCHANGED <<hold, modesVars>>
InApproval(step) == hold = "approval" /\ step /\ UNCHANGED <<hold, vars>>

HoldsNext == InPermit(Next) \/ InApproval(ModesNext)

\* The fairness of either; see FaultIsolation and ApprovalModes.
HoldsSpec ==
  /\ HoldsInit /\ [][HoldsNext]_holdVars
  /\ WF_holdVars(InPermit(Tick))
  /\ \A c \in Calls : WF_holdVars(InPermit(Proceed(c)))
  /\ \A i \in Ids : WF_holdVars(InApproval(WaiterRuns(i)))

=============================================================================
