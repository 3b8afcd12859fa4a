\* Two processors and two links: what the second one gets.
SPECIFICATION Spec
CONSTANTS
  None = None
  Links = {l1, l2}
  Objs = {o1, o2, o3, o4, o5}
  NumFifos = 2
  MaxLinks = 2
INVARIANT EveryFifoGetsCopy
\* The iterator ends and the pipeline is idle.
CHECK_DEADLOCK FALSE
