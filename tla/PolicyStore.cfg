SPECIFICATION BackendsSpec
CONSTANTS
  Drafts = {d1, d2, d3}
  Operators = {o1, o2}
  Tenants = {t1}
  Default = t0
  None = None
  Txs = {x1, x2}
SYMMETRY Symmetry
INVARIANT TwoPersonRule
PROPERTIES ApprovesWhatIsProposed QuietTransactionsAtomic
CHECK_DEADLOCK FALSE
