\* A FIFO and a dynamic pool of two, Process called again on the same pipeline.
SPECIFICATION FairSpec
CONSTANTS
  a = a
  b = b
  c = c
  d = d
  Shapes <- Reused
PROPERTY ProcessEnds
\* After the last call the program stops.
CHECK_DEADLOCK FALSE
