---------------------------- MODULE PolicyBackends ----------------------------
(***************************************************************************)
(* The policy store of one deployment: the PostgreSQL store, or the        *)
(* in-process one, whose operations are those of PolicyStore as they are.  *)
(***************************************************************************)
EXTENDS PolicyStorePostgres, TLC

VARIABLE backend  \* "memory" or "postgres"

allVars == <<backend, vars>>

BackendsInit == backend \in {"memory", "postgres"} /\ Init

BackendsNext ==
  /\ \/ backend = "postgres" /\ Next
     \/ backend = "memory" /\ Store!Next /\ UNCHANGED <<rows, tx, lock, overlapped>>
  /\ UNCHANGED backend

BackendsSpec == BackendsInit /\ [][BackendsNext]_allVars

Symmetry == Permutations(Drafts) \cup Permutations(Operators) \cup Permutations(Txs)
=============================================================================
