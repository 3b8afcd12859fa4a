------------------------------ MODULE BspRelay ------------------------------
(***************************************************************************)
(* Graphs that hold parts of one graph (bsp/graph.go) and are run in       *)
(* lockstep: the callbacks of their executors (executor.go) wait for each  *)
(* other before and after every step, and their relayers hand a message    *)
(* for a vertex of another graph to SendMessage of that graph, as in       *)
(* TestMessageRelay of graph_test.go.                                      *)
(*                                                                         *)
(* Inside a step a graph is what BspSync says it is, and BspGraph shows:   *)
(* vertices take turns.  What is modelled here is what the graphs share: a *)
(* queue that turns of any graph write to, under the index that its        *)
(* owner's superstep counter gives at that moment.                         *)
(***************************************************************************)
EXTENDS Integers, Sequences, FiniteSets

CONSTANTS
  VertexIds,   \* every vertex of the whole graph
  Graphs,      \* the bsp.Graph instances
  Owner,       \* the instance each vertex is added to
  NumSteps,    \* RunSteps of every executor
  MaxSends,    \* bound: messages sent in one turn
  MaxQueued    \* bound: messages waiting for a vertex in one buffer

ASSUME OwnerAssumption == Owner \in [VertexIds -> Graphs]
ASSUME GraphsAssumption == IsFiniteSet(Graphs) /\ Graphs # {}
ASSUME BoundsAssumption == {NumSteps, MaxSends, MaxQueued} \subseteq Nat

VARIABLES
  vertices,   \* the vertices that were added
  active,     \* Vertex.active
  msgQueue,   \* Vertex.msgQueue, both buffers: senders and when they sent
  sends,      \* messages sent in the turn of each vertex
  todo,       \* vertices whose turn in the step is to come
  computing,  \* vertices whose turn goes on
  superstep,  \* of each graph
  failed,     \* graphs in whose step a compute function failed
  execPc      \* building, pre, step, post, next, done: each graph's executor

graphVars == <<vertices, active, msgQueue, sends>>
stepVars  == <<todo, computing, failed>>
vars == <<graphVars, stepVars, superstep, execPc>>

Of(g)   == {v \in VertexIds : Owner[v] = g}

(* The buffer the owner of a vertex reads, and the one it sends into.      *)
current(v) == superstep[Owner[v]] % 2
next(v)    == (superstep[Owner[v]] + 1) % 2

Init ==
  /\ vertices = {} /\ active = [v \in VertexIds |-> FALSE]
  /\ msgQueue = [v \in VertexIds |-> [b \in {0, 1} |-> <<>>]]
  /\ sends = [v \in VertexIds |-> 0]
  /\ todo = {} /\ computing = {} /\ failed = {}
  /\ superstep = [g \in Graphs |-> 0]
  /\ execPc = [g \in Graphs |-> "building"]

-----------------------------------------------------------------------------
(* Each graph is built, then run.                                          *)
AddVertex(v) ==
  /\ execPc[Owner[v]] = "building" /\ v \notin vertices
  /\ vertices' = vertices \cup {v} /\ active' = [active EXCEPT ![v] = TRUE]
  /\ UNCHANGED <<msgQueue, sends, stepVars, superstep, execPc>>

(* NewExecutor and RunSteps.                                               *)
RunSteps(g) ==
  /\ execPc[g] = "building"
  /\ execPc' = [execPc EXCEPT ![g] = IF NumSteps = 0 THEN "done" ELSE "pre"]
  /\ superstep' = [superstep EXCEPT ![g] = 0]
  /\ UNCHANGED <<graphVars, stepVars>>

-----------------------------------------------------------------------------
(* The executors.                                                          *)

(* PreStep waits until every graph is there; the steps begin.              *)
PreStep ==
  /\ \A g \in Graphs : execPc[g] = "pre"
  /\ execPc' = [g \in Graphs |-> "step"]
  /\ todo' = vertices /\ failed' = {}
  /\ UNCHANGED <<graphVars, computing, superstep>>

(* The context expired, or the callback returned an error.                 *)
StepRefused(g) ==
  /\ execPc[g] = "pre"
  /\ execPc' = [execPc EXCEPT ![g] = "done"]
  /\ UNCHANGED <<graphVars, stepVars, superstep>>

(* step() returned; a failed one ends the run without PostStep.            *)
StepEnd(g) ==
  /\ execPc[g] = "step" /\ (todo \cup computing) \cap Of(g) = {}
  /\ execPc' = [execPc EXCEPT ![g] = IF g \in failed THEN "done" ELSE "post"]
  /\ UNCHANGED <<graphVars, stepVars, superstep>>

(* Variant with a bug: only PreStep waits for the other graphs.            *)
PostStepAlone ==
  \E g \in Graphs :
    /\ execPc[g] = "post"
    /\ execPc' = [execPc EXCEPT ![g] = "next"]
    /\ UNCHANGED <<graphVars, stepVars, superstep>>

(* PostStep waits until every graph has ended the step.                    *)
PostStep ==
  /\ \A g \in Graphs : execPc[g] = "post"
  /\ execPc' = [g \in Graphs |-> "next"]
  /\ UNCHANGED <<graphVars, stepVars, superstep>>

(* PostStepKeepRunning, then the post statement of the loop.               *)
KeepRunning(g) ==
  /\ execPc[g] = "next"
  /\ superstep' = [superstep EXCEPT ![g] = @ + 1]
  /\ execPc' = [execPc EXCEPT ![g] = IF superstep'[g] = NumSteps THEN "done" ELSE "pre"]
  /\ UNCHANGED <<graphVars, stepVars>>

StopRunning(g) ==
  /\ execPc[g] = "next"
  /\ execPc' = [execPc EXCEPT ![g] = "done"]
  /\ UNCHANGED <<graphVars, stepVars, superstep>>

-----------------------------------------------------------------------------
(* The turns of the vertices.                                              *)
Begin(v) ==
  /\ v \in todo /\ execPc[Owner[v]] = "step"
  /\ todo' = todo \ {v}
  /\ IF active[v] \/ msgQueue[v][current(v)] # <<>>
       THEN /\ computing' = computing \cup {v}
            /\ active' = [active EXCEPT ![v] = TRUE]
       ELSE UNCHANGED <<computing, active>>
  /\ sends' = [sends EXCEPT ![v] = 0]
  /\ UNCHANGED <<vertices, msgQueue, failed, superstep, execPc>>

(* SendMessage of the graph that has the vertex, called by a turn of this  *)
(* graph or by the relayer of another one.  An ID nobody has is refused    *)
(* and changes nothing.                                                    *)
SendMessage(v, dst) ==
  /\ v \in computing /\ sends[v] < MaxSends
  /\ dst \in vertices /\ Len(msgQueue[dst][next(dst)]) < MaxQueued
  /\ msgQueue' = [msgQueue EXCEPT ![dst][next(dst)] =
                    Append(@, [from |-> v, sent |-> superstep[Owner[v]]])]
  /\ sends' = [sends EXCEPT ![v] = @ + 1]
  /\ UNCHANGED <<vertices, active, stepVars, superstep, execPc>>

Receive(v) ==
  LET q == msgQueue[v][current(v)] IN
  /\ v \in computing /\ q # <<>>
  /\ msgQueue' = [msgQueue EXCEPT ![v][current(v)] = SubSeq(q, 1, Len(q) - 1)]
  /\ UNCHANGED <<vertices, active, sends, stepVars, superstep, execPc>>

Freeze(v) ==
  /\ v \in computing /\ active[v]
  /\ active' = [active EXCEPT ![v] = FALSE]
  /\ UNCHANGED <<vertices, msgQueue, sends, stepVars, superstep, execPc>>

ComputeOK(v) ==
  /\ v \in computing /\ computing' = computing \ {v}
  /\ msgQueue' = [msgQueue EXCEPT ![v][current(v)] = <<>>]
  /\ UNCHANGED <<vertices, active, sends, todo, failed, superstep, execPc>>

ComputeFailed(v) ==
  /\ v \in computing /\ computing' = computing \ {v}
  /\ failed' = failed \cup {Owner[v]}
  /\ UNCHANGED <<graphVars, todo, superstep, execPc>>

-----------------------------------------------------------------------------
Next ==
  \/ PreStep \/ PostStep
  \/ \E g \in Graphs :
       \/ RunSteps(g) \/ StepRefused(g) \/ StepEnd(g)
       \/ KeepRunning(g) \/ StopRunning(g)
  \/ \E v \in VertexIds :
       \/ AddVertex(v) \/ Begin(v) \/ Receive(v) \/ Freeze(v)
       \/ ComputeOK(v) \/ ComputeFailed(v)
       \/ \E dst \in VertexIds : SendMessage(v, dst)

Spec == Init /\ [][Next]_vars

-----------------------------------------------------------------------------
(* Refinement.  A graph that is ahead waits for the slowest.               *)
Slowest == CHOOSE g \in Graphs : \A h \in Graphs : superstep[g] <= superstep[h]
Round   == superstep[Slowest]

Sync == INSTANCE BspSync WITH
  members <- vertices,
  awake   <- {v \in VertexIds : active[v]},
  inbox   <- [v \in VertexIds |-> msgQueue[v][Round % 2]],
  outbox  <- [v \in VertexIds |-> msgQueue[v][(Round + 1) % 2]],
  round   <- Round,
  waiting <- todo,
  busy    <- computing,
  broken  <- failed # {}

(* Compute functions cannot tell the parts from one graph: the relayed     *)
(* messages of a superstep are read in the next one, by vertices of a      *)
(* graph that may be ahead or behind, and none is read in a round in which *)
(* any part failed (graph.go 217-226, executor.go 83-97).                  *)
ImplementsOneGraph == Sync!Spec

=============================================================================
