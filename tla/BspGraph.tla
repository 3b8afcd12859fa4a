------------------------------ MODULE BspGraph ------------------------------
(***************************************************************************)
(* The bulk-synchronous graph processor of bsp/: Graph (graph.go) with its *)
(* pool of step workers and double-buffered vertex queues                  *)
(* (memory_queue.go), driven by an Executor (executor.go).                 *)
(*                                                                         *)
(* Threads: the goroutine that calls the Graph and the Executor ("the      *)
(* caller", program counter execPc) and ComputeWorkers step workers        *)
(* (program counters workerPc).  vertexCh and stepCompletedCh are          *)
(* unbuffered, so a send and its receive are one action.  The compute      *)
(* function is any function that sends at most MaxSends messages, reads    *)
(* some of its input, may freeze its vertex and may fail.                  *)
(***************************************************************************)
EXTENDS Integers, Sequences, FiniteSets

CONSTANTS
  VertexIds,      \* every vertex ID a client may name
  NoVertex,       \* a worker holds no vertex
  Workers,        \* the step workers (GraphConfig.ComputeWorkers of them)
  Relayed,        \* the IDs the registered Relayer delivers elsewhere
  RunLengths,     \* the maxSteps arguments of Executor.run; -1: no limit
  MaxSends,       \* bound: messages one invocation of the compute function sends
  MaxQueued,      \* bound: messages waiting for a vertex in one buffer
  MaxSuperstep    \* bound: the superstep after which the callbacks stop a run

ASSUME VertexIdsAssumption == IsFiniteSet(VertexIds) /\ NoVertex \notin VertexIds
ASSUME WorkersAssumption == IsFiniteSet(Workers) /\ Workers # {}
ASSUME RunLengthsAssumption == RunLengths \subseteq Int
ASSUME BoundsAssumption == MaxSends \in Nat /\ MaxQueued \in Nat /\ MaxSuperstep \in Nat

(* A message remembers its sender and the superstep it was sent in: the    *)
(* payload does not matter to the delivery guarantees.                     *)
Message == [from : VertexIds, sent : Nat]

VARIABLES
  vertices,       \* Graph.vertices: the IDs that were added
  active,         \* Vertex.active
  msgQueue,       \* Vertex.msgQueue, both buffers
  superstep,      \* Graph.superstep
  errCh,          \* Graph.errCh, at most one error: the vertex that failed
  activeInStep,   \* Graph.activeInStep
  pendingInStep,  \* Graph.pendingInStep
  toDispatch,     \* vertices step() has not sent on vertexCh yet
  execPc,         \* where the caller is
  stepsLeft,      \* maxSteps of the current run; negative: no limit
  result,         \* what the last run returned
  workerPc,       \* where each step worker is
  workerVertex,   \* the vertex each worker took from vertexCh
  sends,          \* messages sent by the compute call in progress
  failed          \* history: vertices whose compute call failed in this step

graphVars  == <<vertices, active, msgQueue>>
stepVars   == <<activeInStep, pendingInStep, toDispatch, errCh, failed>>
execVars   == <<execPc, stepsLeft, result, superstep>>
workerVars == <<workerPc, workerVertex, sends>>
vars == <<graphVars, stepVars, execVars, workerVars>>

ExecPcs   == {"idle", "top", "dispatch", "await", "collect", "post",
              "closing", "closed"}
WorkerPcs == {"idle", "got", "compute", "counting", "signal", "exited"}
Results   == {"none", "ok", "ctxErr", "stepErr", "callbackErr"}

NoMessages == [v \in VertexIds |-> [b \in {0, 1} |-> <<>>]]

current == superstep % 2          \* the buffer this superstep reads
next    == (superstep + 1) % 2    \* the buffer it sends into

TypeOK ==
  /\ vertices \subseteq VertexIds
  /\ active \in [VertexIds -> BOOLEAN]
  /\ msgQueue \in [VertexIds -> [{0, 1} -> Seq(Message)]]
  /\ superstep \in Nat
  /\ errCh \in Seq(VertexIds) /\ Len(errCh) <= 1
  /\ activeInStep \in Nat
  /\ pendingInStep \in Int
  /\ toDispatch \subseteq vertices
  /\ execPc \in ExecPcs
  /\ stepsLeft \in Int
  /\ result \in Results
  /\ workerPc \in [Workers -> WorkerPcs]
  /\ workerVertex \in [Workers -> VertexIds \cup {NoVertex}]
  /\ sends \in [Workers -> Nat]
  /\ failed \subseteq VertexIds

(***************************************************************************)
(* NewGraph: an empty graph whose workers already poll vertexCh.           *)
(***************************************************************************)
EmptyGraph ==
  /\ vertices = {}
  /\ active = [v \in VertexIds |-> FALSE]
  /\ msgQueue = NoMessages

Init ==
  /\ EmptyGraph
  /\ superstep = 0
  /\ errCh = <<>> /\ activeInStep = 0 /\ pendingInStep = 0
  /\ toDispatch = {} /\ failed = {}
  /\ execPc = "idle" /\ stepsLeft = 0 /\ result = "none"
  /\ workerPc = [w \in Workers |-> "idle"]
  /\ workerVertex = [w \in Workers |-> NoVertex]
  /\ sends = [w \in Workers |-> 0]

-----------------------------------------------------------------------------
(* The caller, between runs.                                               *)

(* AddVertex on an ID that exists only overwrites the value, which is not  *)
(* modelled, so only new IDs are added.                                    *)
AddVertex(v) ==
  /\ execPc = "idle"
  /\ v \notin vertices
  /\ vertices' = vertices \cup {v}
  /\ active' = [active EXCEPT ![v] = TRUE]
  /\ UNCHANGED <<msgQueue, stepVars, execVars, workerVars>>

ClearGraph ==
  /\ vertices' = {}
  /\ active' = [v \in VertexIds |-> FALSE]
  /\ msgQueue' = NoMessages
  /\ superstep' = 0
  /\ failed' = {}

(* Graph.Reset, as the PageRank service calls it between two passes.       *)
Reset ==
  /\ execPc = "idle"
  /\ ClearGraph
  /\ result' = "none"
  /\ UNCHANGED <<activeInStep, pendingInStep, toDispatch, errCh, execPc,
                 stepsLeft, workerVars>>

(* Graph.Close closes vertexCh, waits for the workers, then resets.        *)
CloseBegin ==
  /\ execPc = "idle"
  /\ execPc' = "closing"
  /\ UNCHANGED <<graphVars, stepVars, stepsLeft, result, superstep, workerVars>>

CloseEnd ==
  /\ execPc = "closing"
  /\ \A w \in Workers : workerPc[w] = "exited"
  /\ ClearGraph
  /\ execPc' = "closed"
  /\ UNCHANGED <<activeInStep, pendingInStep, toDispatch, errCh, stepsLeft,
                 result, workerVars>>

(* A client that closed its graph may create a new one.                    *)
NewGraph ==
  /\ execPc = "closed"
  /\ ClearGraph
  /\ errCh' = <<>> /\ activeInStep' = 0 /\ pendingInStep' = 0
  /\ toDispatch' = {}
  /\ execPc' = "idle" /\ stepsLeft' = 0 /\ result' = "none"
  /\ workerPc' = [w \in Workers |-> "idle"]
  /\ workerVertex' = [w \in Workers |-> NoVertex]
  /\ sends' = [w \in Workers |-> 0]

-----------------------------------------------------------------------------
(* Executor.run.                                                           *)

(* RunSteps(n), or RunToCompletion when n = -1.  MaxSuperstep bounds the   *)
(* supersteps a client asks for.                                           *)
RunBegin(n) ==
  /\ execPc = "idle"
  /\ superstep + n <= MaxSuperstep
  /\ execPc' = "top"
  /\ stepsLeft' = n
  /\ result' = "none"
  /\ UNCHANGED <<graphVars, stepVars, superstep, workerVars>>

Return(r) ==
  /\ execPc' = "idle"
  /\ result' = r
  /\ stepsLeft' = 0

StepsExhausted ==
  /\ execPc = "top" /\ stepsLeft = 0
  /\ Return("ok")
  /\ UNCHANGED <<graphVars, stepVars, superstep, workerVars>>

(* The context expired, or PreStep failed.                                 *)
StepRefused ==
  /\ execPc = "top" /\ stepsLeft # 0
  /\ \E r \in {"ctxErr", "callbackErr"} : Return(r)
  /\ UNCHANGED <<graphVars, stepVars, superstep, workerVars>>

(* PreStep passed and step() sets its counters; with no vertices it        *)
(* returns 0 and nil at once.                                              *)
StepBegin ==
  /\ execPc = "top" /\ stepsLeft # 0
  /\ activeInStep' = 0
  /\ pendingInStep' = Cardinality(vertices)
  /\ toDispatch' = vertices
  /\ failed' = {}
  /\ execPc' = IF vertices = {} THEN "post" ELSE "dispatch"
  /\ UNCHANGED <<graphVars, errCh, stepsLeft, result, superstep, workerVars>>

(* One iteration of "for _, v := range g.vertices { g.vertexCh <- v }".    *)
Dispatch(w, v) ==
  /\ execPc = "dispatch" /\ workerPc[w] = "idle"
  /\ v \in toDispatch
  /\ toDispatch' = toDispatch \ {v}
  /\ workerPc' = [workerPc EXCEPT ![w] = "got"]
  /\ workerVertex' = [workerVertex EXCEPT ![w] = v]
  /\ execPc' = IF toDispatch' = {} THEN "await" ELSE "dispatch"
  /\ UNCHANGED <<graphVars, activeInStep, pendingInStep, errCh, failed,
                 stepsLeft, result, superstep, sends>>

(* The rendezvous on stepCompletedCh.                                      *)
StepCompleted(w) ==
  /\ execPc = "await" /\ workerPc[w] = "signal"
  /\ execPc' = "collect"
  /\ workerPc' = [workerPc EXCEPT ![w] = "idle"]
  /\ workerVertex' = [workerVertex EXCEPT ![w] = NoVertex]
  /\ UNCHANGED <<graphVars, stepVars, stepsLeft, result, superstep, sends>>

(* step() takes the error, if there is one, and run returns it.            *)
CollectError ==
  /\ execPc = "collect" /\ errCh # <<>>
  /\ errCh' = <<>>
  /\ Return("stepErr")
  /\ UNCHANGED <<graphVars, activeInStep, pendingInStep, toDispatch, failed,
                 superstep, workerVars>>

CollectNone ==
  /\ execPc = "collect" /\ errCh = <<>>
  /\ execPc' = "post"
  /\ UNCHANGED <<graphVars, stepVars, stepsLeft, result, superstep, workerVars>>

(* PostStep or PostStepKeepRunning stop the run: the superstep counter is  *)
(* not advanced.                                                           *)
StopAfterStep ==
  /\ execPc = "post"
  /\ \E r \in {"ok", "callbackErr"} : Return(r)
  /\ UNCHANGED <<graphVars, stepVars, superstep, workerVars>>

KeepRunning ==
  /\ execPc = "post"
  /\ superstep < MaxSuperstep
  /\ superstep' = superstep + 1
  /\ stepsLeft' = IF stepsLeft < 0 THEN stepsLeft ELSE stepsLeft - 1
  /\ execPc' = "top"
  /\ UNCHANGED <<graphVars, stepVars, result, workerVars>>

-----------------------------------------------------------------------------
(* The step workers.                                                       *)

(* A frozen vertex without messages is skipped; any other is counted, woken*)
(* up and handed to the compute function.                                  *)
WorkerStart(w) ==
  LET v == workerVertex[w] IN
  /\ workerPc[w] = "got"
  /\ IF active[v] \/ msgQueue[v][current] # <<>>
       THEN /\ workerPc' = [workerPc EXCEPT ![w] = "compute"]
            /\ activeInStep' = activeInStep + 1
            /\ active' = [active EXCEPT ![v] = TRUE]
       ELSE /\ workerPc' = [workerPc EXCEPT ![w] = "counting"]
            /\ UNCHANGED <<activeInStep, active>>
  /\ sends' = [sends EXCEPT ![w] = 0]
  /\ UNCHANGED <<vertices, msgQueue, pendingInStep, toDispatch, errCh, failed,
                 execVars, workerVertex>>

(* SendMessage to a local vertex appends to its next buffer.               *)
SendLocal(w, dst) ==
  /\ workerPc[w] = "compute" /\ sends[w] < MaxSends
  /\ dst \in vertices /\ Len(msgQueue[dst][next]) < MaxQueued
  /\ msgQueue' = [msgQueue EXCEPT ![dst][next] =
                    Append(@, [from |-> workerVertex[w], sent |-> superstep])]
  /\ sends' = [sends EXCEPT ![w] = @ + 1]
  /\ UNCHANGED <<vertices, active, stepVars, execVars, workerPc, workerVertex>>

(* SendMessage to an ID the relayer delivers to another graph.             *)
SendRelayed(w, dst) ==
  /\ workerPc[w] = "compute" /\ sends[w] < MaxSends
  /\ dst \notin vertices /\ dst \in Relayed
  /\ sends' = [sends EXCEPT ![w] = @ + 1]
  /\ UNCHANGED <<graphVars, stepVars, execVars, workerPc, workerVertex>>

(* Iterator.Next takes the last message of the current buffer.             *)
Receive(w) ==
  LET v == workerVertex[w]
      q == msgQueue[v][current] IN
  /\ workerPc[w] = "compute"
  /\ q # <<>>
  /\ msgQueue' = [msgQueue EXCEPT ![v][current] = SubSeq(q, 1, Len(q) - 1)]
  /\ UNCHANGED <<vertices, active, stepVars, execVars, workerVars>>

(* Vertex.Freeze.                                                          *)
Freeze(w) ==
  /\ workerPc[w] = "compute"
  /\ active[workerVertex[w]]
  /\ active' = [active EXCEPT ![workerVertex[w]] = FALSE]
  /\ UNCHANGED <<vertices, msgQueue, stepVars, execVars, workerVars>>

(* Variant with a bug: unread messages stay in the buffer.                 *)
ComputeOKKeeping(w) ==
  /\ workerPc[w] = "compute"
  /\ workerPc' = [workerPc EXCEPT ![w] = "counting"]
  /\ UNCHANGED <<graphVars, stepVars, execVars, workerVertex, sends>>

(* The compute function returned nil: the messages it did not read go.     *)
ComputeOK(w) ==
  /\ workerPc[w] = "compute"
  /\ msgQueue' = [msgQueue EXCEPT ![workerVertex[w]][current] = <<>>]
  /\ workerPc' = [workerPc EXCEPT ![w] = "counting"]
  /\ UNCHANGED <<vertices, active, stepVars, execVars, workerVertex, sends>>

(* Variants with a bug: errCh without a capacity; the error is lost.       *)
EmitUnbounded(v) == errCh' = Append(errCh, v)
EmitNothing(v)   == UNCHANGED errCh

(* tryEmitError: dropped when errCh already holds an error.                *)
TryEmitError(v) ==
  errCh' = IF errCh = <<>> THEN <<v>> ELSE errCh

(* The compute function returned an error, its own or the one SendMessage  *)
(* gives it for an ID that is neither local nor relayed.                   *)
ComputeFailed(w) ==
  /\ workerPc[w] = "compute"
  /\ TryEmitError(workerVertex[w])
  /\ failed' = failed \cup {workerVertex[w]}
  /\ workerPc' = [workerPc EXCEPT ![w] = "counting"]
  /\ UNCHANGED <<graphVars, activeInStep, pendingInStep, toDispatch, execVars,
                 workerVertex, sends>>

(* Variants with a bug: one vertex too early; compared before decrementing.*)
LastOrNearly == pendingInStep <= 2
LastMissed   == pendingInStep = 0

(* The decrement below brings the counter to 0.                            *)
LastOfStep == pendingInStep = 1

(* The atomic decrement; whoever brings the counter to 0 signals.          *)
VertexDone(w) ==
  /\ workerPc[w] = "counting"
  /\ pendingInStep' = pendingInStep - 1
  /\ workerPc' = [workerPc EXCEPT ![w] =
                    IF LastOfStep THEN "signal" ELSE "idle"]
  /\ workerVertex' = [workerVertex EXCEPT ![w] = NoVertex]
  /\ UNCHANGED <<graphVars, activeInStep, toDispatch, errCh, failed, execVars,
                 sends>>

(* Graph.Close closed vertexCh.                                            *)
VertexChClosed == execPc = "closing"

(* vertexCh is closed: the range loop ends and the worker exits.           *)
WorkerExit(w) ==
  /\ VertexChClosed /\ workerPc[w] = "idle"
  /\ workerPc' = [workerPc EXCEPT ![w] = "exited"]
  /\ UNCHANGED <<graphVars, stepVars, execVars, workerVertex, sends>>

-----------------------------------------------------------------------------
Client == \/ \E v \in VertexIds : AddVertex(v)
          \/ \E n \in RunLengths : RunBegin(n)
          \/ Reset \/ CloseBegin \/ NewGraph

ExecutorStep ==
  \/ CloseEnd
  \/ StepsExhausted \/ StepRefused \/ StepBegin
  \/ \E w \in Workers, v \in VertexIds : Dispatch(w, v)
  \/ \E w \in Workers : StepCompleted(w)
  \/ CollectError \/ CollectNone
  \/ StopAfterStep \/ KeepRunning

Compute(w) == \/ \E dst \in VertexIds : SendLocal(w, dst) \/ SendRelayed(w, dst)
              \/ Receive(w) \/ Freeze(w)

ComputeReturns(w) == ComputeOK(w) \/ ComputeFailed(w)

WorkerStep(w) == \/ WorkerStart(w) \/ ComputeReturns(w)
                 \/ VertexDone(w) \/ WorkerExit(w)

Next == \/ Client
        \/ ExecutorStep
        \/ \E w \in Workers : WorkerStep(w) \/ Compute(w)

Spec == Init /\ [][Next]_vars

(* The goroutines are scheduled fairly, and the compute function returns:  *)
(* it reads, sends and freezes a bounded number of times.  The client is   *)
(* free to stop calling.                                                   *)
Fairness == /\ WF_vars(ExecutorStep)
            /\ \A w \in Workers : WF_vars(WorkerStep(w))

FairSpec == Spec /\ Fairness

-----------------------------------------------------------------------------
(* Properties.                                                             *)

InsideStep == execPc \in {"dispatch", "await"}
Parked(w)  == workerPc[w] \in {"idle", "exited"}

(* The superstep barrier.  Whenever the caller is outside step()'s         *)
(* dispatch-and-wait section, in particular when it advances the superstep,*)
(* resets the graph or runs a callback, no worker holds a vertex and none  *)
(* is left to dispatch (graph.go 248-253).                                 *)
Barrier ==
  ~InsideStep => toDispatch = {} /\ \A w \in Workers : Parked(w)

(* A worker that signals the end of a step is alone in doing so, and every *)
(* vertex was dealt with: a second signal would block its worker for good  *)
(* and release a later step early (graph.go 293-295).                      *)
OneSignal ==
  \A w \in Workers : workerPc[w] = "signal" =>
    /\ toDispatch = {}
    /\ \A u \in Workers \ {w} : workerPc[u] = "idle"

(* The two buffers of a queue never mix: what a vertex reads in a superstep*)
(* was sent in the one before it, and what is sent in a superstep waits for*)
(* the next one, also after failed, refused and repeated steps (graph.go   *)
(* 217, 283).                                                              *)
QueueIsolation ==
  \A v \in VertexIds :
    /\ \A i \in DOMAIN msgQueue[v][current] :
         msgQueue[v][current][i].sent = superstep - 1
    /\ \A i \in DOMAIN msgQueue[v][next] :
         msgQueue[v][next][i].sent = superstep

(* step() returns an error exactly when a compute call of this very step   *)
(* failed: none is lost because errCh holds only one, and none is left to  *)
(* fail a later step or a later run (graph.go 255-262, 300-305).           *)
ErrorSurfaces ==
  /\ execPc = "collect" => (errCh # <<>> <=> failed # {})
  /\ ~InsideStep /\ execPc # "collect" => errCh = <<>>
  /\ \A i \in DOMAIN errCh : errCh[i] \in failed

(* RunSteps and Close return: every step ends, for the last vertex always  *)
(* finds the counter at 1 and the caller always gets its signal, and Close *)
(* gets every worker to exit (graph.go 106-111, 248-262, 281-297).         *)
CallsReturn ==
  execPc = "closing" \/ (execPc = "top" /\ stepsLeft >= 0) ~> execPc \in {"idle", "closed"}

(* The graph implements synchronous supersteps: BspSync, where a superstep *)
(* ends only when every vertex had its turn, a vertex with messages or     *)
(* still awake is never passed over, and all of what was sent, and nothing *)
(* else, is what the next superstep reads.                                 *)
Held(pcs) == {workerVertex[w] : w \in {u \in Workers : workerPc[u] \in pcs}}

Sync == INSTANCE BspSync WITH
  members <- vertices,
  awake   <- {x \in VertexIds : active[x]},
  inbox   <- [x \in VertexIds |-> msgQueue[x][current]],
  outbox  <- [x \in VertexIds |-> msgQueue[x][next]],
  round   <- superstep,
  waiting <- toDispatch \cup Held({"got"}),
  busy    <- Held({"compute"}),
  broken  <- failed # {}

ImplementsSync == Sync!Spec

=============================================================================
