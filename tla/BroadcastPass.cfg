\* Two processors, as in the crawler, and three links.
SPECIFICATION Spec
CONSTANTS
  None = None
  Links = {l1, l2}
  Objs = {o1, o2, o3, o4, o5}
  NumFifos = 2
  MaxLinks = 3
SYMMETRY Symmetric
INVARIANTS TypeOK ExclusiveOwner FirstFifoUnmixed CountIsExact
\* The iterator ends and the pipeline is idle.
CHECK_DEADLOCK FALSE
