\* The crawler's pipeline, called twice, and one with a dynamic pool, called once.
SPECIFICATION FairSpec
CONSTANTS
  a = a
  b = b
  c = c
  d = d
  Shapes <- Pipelines
INVARIANTS TypeOK NoSendOnClosed NilMeansComplete ErrorsSurface TokensConserved
PROPERTY ProcessEnds
\* After the last call the program stops.
CHECK_DEADLOCK FALSE
