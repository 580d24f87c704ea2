------------------------------- MODULE Services ------------------------------
(***************************************************************************)
(* The parts of a gateway process around its pipeline: the three limiters, *)
(* the two loops of a federation node, the upstream credentials, the decoy *)
(* set, the policy bundles, the IntentGrant endpoint, and the boot of the  *)
(* process.  They share no state, so one specification takes each in turn: *)
(* part is chosen once and the others stay in one initial state.           *)
(***************************************************************************)
EXTENDS Budget, Velocity, TaskBinding, Federation, Credentials, Decoys, Bundles, IntentGrant,
        Startup

VARIABLE part   \* the part that is looked at

limiterVars == <<budgetVars, velocityVars, taskVars>>
nodeVars == <<directiveVars, rollupVars, credVars>>
grantVars == <<decoyVars, bundleVars, igVars>>
servicesVars == <<part, limiterVars, nodeVars, grantVars, startVars>>

\* One initial state of a part that is not looked at.
BudgetOff == store = "memory"
VelocityOff ==
  /\ limits = CHOOSE l \in Limits : TRUE
  /\ attempt = [a \in Attempts |-> [pc |-> "idle", now |-> 0, cents |-> Min(Cents),
                                    calls |-> 0, sum |-> 0]]
TaskOff ==
  /\ taskBackend = "memory"
  /\ binding = [c \in TaskCalls |-> [pc |-> "new", tool |-> CHOOSE t \in TaskTools : TRUE,
                                     plan |-> {}, task |-> NoTask]]
DirectiveOff == killStore = "memory"
DecoysOff == syncing = FALSE /\ registry = <<>> /\ exported = <<>>
BundlesOff == trust = [key |-> TRUE, lab |-> FALSE]
IntentGrantOff ==
  /\ igUpstream = TRUE
  /\ igReq = [c \in IGCalls |-> [method |-> "unreadable", agent |-> "", tool |-> "", id |-> FALSE]]
StartupOff == config = CHOOSE c \in Configs : TRUE

ServicesInit ==
  /\ part \in {"budget", "velocity", "task", "directives", "rollups", "credentials", "decoys",
               "bundles", "intentgrant", "startup"}
  /\ part = "budget" \/ BudgetOff
  /\ part = "velocity" \/ VelocityOff
  /\ part = "task" \/ TaskOff
  /\ part = "directives" \/ DirectiveOff
  /\ part = "decoys" \/ DecoysOff
  /\ part = "bundles" \/ BundlesOff
  /\ part = "intentgrant" \/ IntentGrantOff
  /\ part = "startup" \/ StartupOff
  /\ BudgetInit /\ VelocityInit /\ TaskInit /\ DirectiveInit /\ RollupInit /\ CredInit
  /\ DecoyInit /\ BundleInit /\ IGInit /\ StartInit

LimitersNext ==
  /\ \/ part = "budget" /\ BudgetNext /\ UNCHANGED <<velocityVars, taskVars>>
     \/ part = "velocity" /\ VelocityNext /\ UNCHANGED <<budgetVars, taskVars>>
     \/ part = "task" /\ TaskNext /\ UNCHANGED <<budgetVars, velocityVars>>
  /\ UNCHANGED <<nodeVars, grantVars, startVars>>

NodeNext ==
  /\ \/ part = "directives" /\ DirectiveNext /\ UNCHANGED <<rollupVars, credVars>>
     \/ part = "rollups" /\ RollupNext /\ UNCHANGED <<directiveVars, credVars>>
     \/ part = "credentials" /\ CredNext /\ UNCHANGED <<directiveVars, rollupVars>>
  /\ UNCHANGED <<limiterVars, grantVars, startVars>>

GrantsNext ==
  /\ \/ part = "decoys" /\ DecoyNext /\ UNCHANGED <<bundleVars, igVars>>
     \/ part = "bundles" /\ BundleNext /\ UNCHANGED <<decoyVars, igVars>>
     \/ part = "intentgrant" /\ IGNext /\ UNCHANGED <<decoyVars, bundleVars>>
  /\ UNCHANGED <<limiterVars, nodeVars, startVars>>

BootNext ==
  /\ part = "startup" /\ StartNext
  /\ UNCHANGED <<limiterVars, nodeVars, grantVars>>

ServicesNext ==
  /\ LimitersNext \/ NodeNext \/ GrantsNext \/ BootNext
  /\ UNCHANGED part

ServicesSpec == ServicesInit /\ [][ServicesNext]_servicesVars
=============================================================================
