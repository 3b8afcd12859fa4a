\* Two workers, two vertices, three supersteps, any sequence of runs.  v2 can be
\* reached through the relayer while it is not a vertex of this graph.
SPECIFICATION FairSpec
CONSTANTS
  VertexIds = {v1, v2}
  NoVertex = NoVertex
  Workers = {w1, w2}
  Relayed = {v2}
  RunLengths <- Lengths
  MaxSends = 1
  MaxQueued = 1
  MaxSuperstep = 2
INVARIANTS TypeOK Barrier OneSignal QueueIsolation ErrorSurfaces
PROPERTIES ImplementsSync CallsReturn
