CONSTANTS
  Nids = {n1, n2}
  Crons = {c1, c2}
  Futures = {f1, f2, f3}
  Adders = {a1}
  NoCron = NoCron
  NoNid = NoNid
  NoFuture = NoFuture
SPECIFICATION Spec
SYMMETRY Symmetry
INVARIANT EnabledIsScheduled
