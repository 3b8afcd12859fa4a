--------------------------- MODULE BspGraphProofs ---------------------------
(***************************************************************************)
(* Proofs about BspGraph, for every set of vertices, every number of       *)
(* workers and every bound, and, at the end, about BspRelay, for any       *)
(* number of graphs.                                                       *)
(***************************************************************************)
EXTENDS BspGraph, FiniteSetTheorems, TLAPS

(* Workers that hold a vertex they have not accounted for yet.             *)
Busy == {w \in Workers : workerPc[w] \in {"got", "compute", "counting"}}

(* The bookkeeping of a step: a worker with a vertex has a vertex of the   *)
(* graph, only a closing graph loses workers, and pendingInStep counts the *)
(* vertices still to be dealt with, so that it is 0 exactly while the last *)
(* worker signals.                                                         *)
CounterInv ==
  /\ Barrier
  /\ \A w \in Busy : workerVertex[w] \in vertices
  /\ \A w \in Workers : workerPc[w] = "exited" => execPc \in {"closing", "closed"}
  /\ InsideStep => /\ pendingInStep = Cardinality(toDispatch) + Cardinality(Busy)
                   /\ execPc = "await" <=> toDispatch = {}
  /\ \A w \in Workers : workerPc[w] = "signal" =>
       /\ pendingInStep = 0
       /\ \A u \in Workers \ {w} : workerPc[u] # "signal"

(* The error channel tells of this step's failures and of nothing else.    *)
ErrorInv ==
  /\ \A i \in DOMAIN errCh : errCh[i] \in failed
  /\ IF InsideStep \/ execPc = "collect"
       THEN errCh # <<>> <=> failed # {}
       ELSE errCh = <<>>
  /\ execPc = "post" => failed = {}

(* Where unread messages may be: only at vertices of the graph, and from   *)
(* the first dispatch of a step until the superstep advances only at       *)
(* vertices that wait for their turn, have it, or failed in it.            *)
QueueInv ==
  /\ QueueIsolation
  /\ \A v \in VertexIds \ vertices : msgQueue[v] = [b \in {0, 1} |-> <<>>]
  /\ InsideStep \/ execPc \in {"collect", "post"} =>
       \A v \in VertexIds : msgQueue[v][current] # <<>> =>
         v \in toDispatch \cup Held({"got", "compute"}) \cup failed

IInv == TypeOK /\ CounterInv /\ ErrorInv /\ QueueInv

-----------------------------------------------------------------------------
(* The two buffer indices are distinct, and advancing the superstep swaps  *)
(* them.                                                                   *)
LEMMA BufferIndices ==
  ASSUME NEW s \in Nat
  PROVE  /\ s % 2 \in {0, 1} /\ (s + 1) % 2 \in {0, 1}
         /\ s % 2 # (s + 1) % 2
         /\ (s + 1 + 1) % 2 = s % 2
  BY SMT

LEMMA InitIInv == Init => IInv
<1> SUFFICES ASSUME Init PROVE IInv
  OBVIOUS
<1> USE DEF Init, EmptyGraph, NoMessages
<1>1. TypeOK
  <2>1. msgQueue \in [VertexIds -> [{0, 1} -> Seq(Message)]]
    OBVIOUS
  <2> QED BY <2>1 DEF TypeOK, ExecPcs, WorkerPcs, Results
<1>2. CounterInv
  BY DEF CounterInv, Barrier, InsideStep, Parked, Busy
<1>3. ErrorInv
  BY DEF ErrorInv, InsideStep
<1>4. QueueInv
  <2>1. current \in {0, 1} /\ next \in {0, 1}
    BY BufferIndices DEF current, next
  <2>2. QueueIsolation
    BY <2>1 DEF QueueIsolation
  <2> QED BY <2>2 DEF QueueInv, InsideStep
<1> QED BY <1>1, <1>2, <1>3, <1>4 DEF IInv

-----------------------------------------------------------------------------
LEMMA TypeStep == IInv /\ [Next]_vars => TypeOK'
<1> SUFFICES ASSUME IInv, [Next]_vars PROVE TypeOK'
  OBVIOUS
<1> USE DEF IInv, TypeOK, ExecPcs, WorkerPcs, Results, graphVars, stepVars,
            execVars, workerVars
<1>0. current \in {0, 1} /\ next \in {0, 1}
  BY BufferIndices DEF current, next
<1>q. NoMessages \in [VertexIds -> [{0, 1} -> Seq(Message)]]
  BY DEF NoMessages
<1>b. \A w \in Workers : workerPc[w] \in {"got", "compute", "counting"} =>
        workerVertex[w] \in vertices
  BY DEF CounterInv, Busy
<1>r. ~InsideStep => toDispatch = {}
  BY DEF CounterInv, Barrier
<1>1. CASE Client
  <2>1. ASSUME NEW v \in VertexIds, AddVertex(v) PROVE TypeOK'
    BY <2>1 DEF AddVertex
  <2>2. ASSUME NEW n \in RunLengths, RunBegin(n) PROVE TypeOK'
    BY <2>2, RunLengthsAssumption DEF RunBegin
  <2>3. CASE Reset
    BY <2>3, <1>q, <1>r DEF Reset, ClearGraph, InsideStep
  <2>4. CASE CloseBegin
    BY <2>4 DEF CloseBegin
  <2>5. CASE NewGraph
    <3>1. <<>> \in Seq(VertexIds) /\ Len(<<>>) = 0
      OBVIOUS
    <3> QED BY <2>5, <3>1, <1>q DEF NewGraph, ClearGraph
  <2> QED BY <1>1, <2>1, <2>2, <2>3, <2>4, <2>5 DEF Client
<1>2. CASE ExecutorStep
  <2>1. CASE CloseEnd
    BY <2>1, <1>q, <1>r DEF CloseEnd, ClearGraph, InsideStep
  <2>2. CASE StepsExhausted \/ StepRefused \/ StopAfterStep
    BY <2>2 DEF StepsExhausted, StepRefused, StopAfterStep, Return
  <2>3. CASE StepBegin
    <3>1. Cardinality(vertices) \in Nat
      BY VertexIdsAssumption, FS_Subset, FS_CardinalityType
    <3> QED BY <2>3, <3>1 DEF StepBegin
  <2>4. ASSUME NEW w \in Workers, NEW v \in VertexIds, Dispatch(w, v) PROVE TypeOK'
    BY <2>4 DEF Dispatch
  <2>5. ASSUME NEW w \in Workers, StepCompleted(w) PROVE TypeOK'
    BY <2>5 DEF StepCompleted
  <2>6. CASE CollectError
    <3>1. <<>> \in Seq(VertexIds) /\ Len(<<>>) = 0
      OBVIOUS
    <3> QED BY <2>6, <3>1 DEF CollectError, Return
  <2>8. CASE CollectNone
    BY <2>8 DEF CollectNone
  <2>7. CASE KeepRunning
    BY <2>7 DEF KeepRunning
  <2> QED BY <1>2, <2>1, <2>2, <2>3, <2>4, <2>5, <2>6, <2>7, <2>8 DEF ExecutorStep
<1>3. ASSUME NEW w \in Workers, WorkerStep(w) PROVE TypeOK'
  <2>1. CASE WorkerStart(w)
    <3>1. workerVertex[w] \in VertexIds
      BY <2>1, <1>b DEF WorkerStart
    <3>2. workerPc' \in [Workers -> WorkerPcs] /\ active' \in [VertexIds -> BOOLEAN]
          /\ activeInStep' \in Nat /\ sends' \in [Workers -> Nat]
      <4>1. CASE active[workerVertex[w]] \/ msgQueue[workerVertex[w]][current] # <<>>
        <5>1. /\ workerPc' = [workerPc EXCEPT ![w] = "compute"]
              /\ activeInStep' = activeInStep + 1
              /\ active' = [active EXCEPT ![workerVertex[w]] = TRUE]
              /\ sends' = [sends EXCEPT ![w] = 0]
          BY <2>1, <4>1, Zenon DEF WorkerStart
        <5> QED BY <3>1, <5>1
      <4>2. CASE ~(active[workerVertex[w]] \/ msgQueue[workerVertex[w]][current] # <<>>)
        BY <2>1, <3>1, <4>2 DEF WorkerStart
      <4> QED BY <4>1, <4>2
    <3> QED BY <2>1, <3>2 DEF WorkerStart
  <2>2. CASE ComputeOK(w)
    <3>1. workerVertex[w] \in VertexIds
      BY <2>2, <1>b DEF ComputeOK
    <3> QED BY <2>2, <3>1, <1>0 DEF ComputeOK
  <2>3. CASE ComputeFailed(w)
    <3>1. workerVertex[w] \in VertexIds
      BY <2>3, <1>b DEF ComputeFailed
    <3> QED BY <2>3, <3>1 DEF ComputeFailed, TryEmitError
  <2>4. CASE VertexDone(w)
    BY <2>4 DEF VertexDone
  <2>5. CASE WorkerExit(w)
    BY <2>5 DEF WorkerExit
  <2> QED BY <1>3, <2>1, <2>2, <2>3, <2>4, <2>5 DEF WorkerStep, ComputeReturns
<1>4. ASSUME NEW w \in Workers, Compute(w) PROVE TypeOK'
  <2>1. ASSUME NEW dst \in VertexIds, SendLocal(w, dst) PROVE TypeOK'
    <3>1. [from |-> workerVertex[w], sent |-> superstep] \in Message
      BY <2>1, <1>b DEF SendLocal, Message
    <3>2. msgQueue' \in [VertexIds -> [{0, 1} -> Seq(Message)]]
      BY <2>1, <3>1, <1>0 DEF SendLocal
    <3> QED BY <2>1, <3>2 DEF SendLocal
  <2>2. ASSUME NEW dst \in VertexIds, SendRelayed(w, dst) PROVE TypeOK'
    BY <2>2 DEF SendRelayed
  <2>3. CASE Receive(w)
    <3> DEFINE v == workerVertex[w]
               q == msgQueue[v][current]
    <3>1. v \in VertexIds /\ q \in Seq(Message) /\ q # <<>>
      BY <2>3, <1>b, <1>0 DEF Receive
    <3>2. SubSeq(q, 1, Len(q) - 1) \in Seq(Message)
      BY <3>1
    <3> QED BY <2>3, <3>1, <3>2, <1>0 DEF Receive
  <2>4. CASE Freeze(w)
    BY <2>4, <1>b DEF Freeze
  <2> QED BY <1>4, <2>1, <2>2, <2>3, <2>4 DEF Compute
<1>5. CASE UNCHANGED vars
  BY <1>5 DEF vars
<1> QED BY <1>1, <1>2, <1>3, <1>4, <1>5 DEF Next

-----------------------------------------------------------------------------
(* Counting: taking an element out, or putting a new one in.               *)
LEMMA BusyFinite == IsFiniteSet(Busy) /\ Cardinality(Busy) \in Nat
  BY WorkersAssumption, FS_Subset, FS_CardinalityType DEF Busy

LEMMA ToDispatchFinite ==
  TypeOK => IsFiniteSet(toDispatch) /\ Cardinality(toDispatch) \in Nat
<1> SUFFICES ASSUME TypeOK PROVE IsFiniteSet(toDispatch) /\ Cardinality(toDispatch) \in Nat
  OBVIOUS
<1>1. toDispatch \in SUBSET VertexIds
  BY DEF TypeOK
<1> QED BY <1>1, VertexIdsAssumption, FS_Subset, FS_CardinalityType

(* While the caller waits, a signal means that nobody else is at work.     *)
LEMMA SignalIsLast ==
  ASSUME TypeOK, CounterInv, NEW w \in Workers, workerPc[w] = "signal"
  PROVE  toDispatch = {} /\ Busy = {} /\ InsideStep
         /\ \A u \in Workers \ {w} : workerPc[u] = "idle"
<1>1. InsideStep
  BY DEF CounterInv, Barrier, Parked
<1>2. Cardinality(toDispatch) = 0 /\ Cardinality(Busy) = 0
  BY <1>1, BusyFinite, ToDispatchFinite DEF CounterInv
<1>3. toDispatch = {} /\ Busy = {}
  BY <1>2, BusyFinite, ToDispatchFinite, FS_EmptySet
<1>4. \A u \in Workers \ {w} : workerPc[u] = "idle"
  BY <1>1, <1>3 DEF CounterInv, Busy, InsideStep, TypeOK, WorkerPcs
<1> QED BY <1>1, <1>3, <1>4

LEMMA CounterStep == IInv /\ [Next]_vars => CounterInv'
<1> SUFFICES ASSUME TypeOK, CounterInv, [Next]_vars PROVE CounterInv'
  BY DEF IInv
<1> USE DEF graphVars, stepVars, execVars, workerVars
<1>1. CASE Client
  <2> USE DEF CounterInv, Barrier, InsideStep, Parked, Busy
  <2>1. ASSUME NEW v \in VertexIds, AddVertex(v) PROVE CounterInv'
    BY <2>1 DEF AddVertex
  <2>2. ASSUME NEW n \in RunLengths, RunBegin(n) PROVE CounterInv'
    BY <2>2 DEF RunBegin
  <2>3. CASE Reset
    BY <2>3 DEF Reset, ClearGraph
  <2>4. CASE CloseBegin
    BY <2>4 DEF CloseBegin
  <2>5. CASE NewGraph
    BY <2>5 DEF NewGraph
  <2> QED BY <1>1, <2>1, <2>2, <2>3, <2>4, <2>5 DEF Client
<1>2. CASE ExecutorStep
  <2>1. CASE CloseEnd
    BY <2>1 DEF CloseEnd, ClearGraph, CounterInv, Barrier, InsideStep, Parked, Busy
  <2>2. CASE StepsExhausted \/ StepRefused \/ StopAfterStep
    BY <2>2 DEF StepsExhausted, StepRefused, StopAfterStep, Return,
                CounterInv, Barrier, InsideStep, Parked, Busy
  <2>3. CASE StepBegin
    <3>1. Busy = {} /\ Busy' = {}
      BY <2>3 DEF StepBegin, CounterInv, Barrier, InsideStep, Parked, Busy
    <3>2. /\ pendingInStep' = Cardinality(toDispatch') + Cardinality(Busy')
          /\ Cardinality(vertices) \in Nat
      BY <2>3, <3>1, FS_EmptySet, VertexIdsAssumption, FS_Subset, FS_CardinalityType
         DEF StepBegin, TypeOK
    <3> QED BY <2>3, <3>1, <3>2 DEF StepBegin, CounterInv, Barrier, InsideStep, Parked
  <2>4. ASSUME NEW w \in Workers, NEW v \in VertexIds, Dispatch(w, v) PROVE CounterInv'
    <3>1. Busy' = Busy \cup {w} /\ w \notin Busy
      BY <2>4 DEF Dispatch, Busy, TypeOK
    <3>2. /\ Cardinality(Busy') = Cardinality(Busy) + 1
          /\ Cardinality(toDispatch') = Cardinality(toDispatch) - 1
      BY <2>4, <3>1, BusyFinite, ToDispatchFinite, FS_AddElement, FS_RemoveElement
         DEF Dispatch
    <3>3. pendingInStep' = Cardinality(toDispatch') + Cardinality(Busy')
      BY <2>4, <3>2, BusyFinite, ToDispatchFinite DEF Dispatch, CounterInv, InsideStep
    <3>4. \A u \in Workers : workerPc[u] # "signal"
      BY <2>4, SignalIsLast DEF Dispatch
    <3>5. \A u \in Busy' : workerVertex'[u] \in vertices'
      BY <2>4, <3>1 DEF Dispatch, CounterInv, TypeOK, Busy
    <3>6. InsideStep' /\ (execPc' = "await" <=> toDispatch' = {})
      BY <2>4 DEF Dispatch, InsideStep
    <3>7. \A u \in Workers : workerPc'[u] # "signal" /\ workerPc'[u] # "exited"
      BY <2>4, <3>4 DEF Dispatch, CounterInv, TypeOK
    <3> QED BY <3>3, <3>5, <3>6, <3>7 DEF CounterInv, Barrier
  <2>5. ASSUME NEW w \in Workers, StepCompleted(w) PROVE CounterInv'
    <3>1. toDispatch = {} /\ Busy = {} /\ \A u \in Workers \ {w} : workerPc[u] = "idle"
      BY <2>5, SignalIsLast DEF StepCompleted
    <3>2. \A u \in Workers : workerPc'[u] = "idle"
      BY <2>5, <3>1 DEF StepCompleted, TypeOK
    <3> QED BY <2>5, <3>1, <3>2 DEF StepCompleted, CounterInv, Barrier, InsideStep, Parked, Busy
  <2>6. CASE CollectError \/ CollectNone
    BY <2>6 DEF CollectError, CollectNone, Return, CounterInv, Barrier, InsideStep, Parked, Busy
  <2>7. CASE KeepRunning
    BY <2>7 DEF KeepRunning, CounterInv, Barrier, InsideStep, Parked, Busy
  <2> QED BY <1>2, <2>1, <2>2, <2>3, <2>4, <2>5, <2>6, <2>7 DEF ExecutorStep
<1>3. ASSUME NEW w \in Workers, WorkerStep(w) PROVE CounterInv'
  <2>1. CASE WorkerStart(w)
    <3>1. w \in Busy /\ Busy' = Busy /\ workerPc'[w] \in {"compute", "counting"}
      BY <2>1 DEF WorkerStart, Busy, TypeOK
    <3>2. \A u \in Workers \ {w} : workerPc'[u] = workerPc[u]
      BY <2>1 DEF WorkerStart, TypeOK
    <3>3. InsideStep /\ InsideStep'
      BY <2>1, <3>1 DEF WorkerStart, CounterInv, Barrier, InsideStep, Parked, Busy
    <3> QED BY <2>1, <3>1, <3>2, <3>3 DEF WorkerStart, CounterInv, Barrier, InsideStep
  <2>2. CASE ComputeReturns(w)
    <3>1. w \in Busy /\ Busy' = Busy /\ workerPc' = [workerPc EXCEPT ![w] = "counting"]
      BY <2>2 DEF ComputeReturns, ComputeOK, ComputeFailed, Busy, TypeOK
    <3>2. UNCHANGED <<vertices, toDispatch, pendingInStep, execPc, workerVertex>>
      BY <2>2 DEF ComputeReturns, ComputeOK, ComputeFailed
    <3>3. InsideStep /\ InsideStep'
      BY <3>1, <3>2 DEF CounterInv, Barrier, InsideStep, Parked, Busy
    <3> QED BY <3>1, <3>2, <3>3 DEF CounterInv, Barrier, InsideStep, TypeOK
  <2>4. CASE VertexDone(w)
    <3>1. w \in Busy /\ Busy' = Busy \ {w}
      BY <2>4 DEF VertexDone, Busy, TypeOK
    <3>2. InsideStep /\ InsideStep'
      BY <2>4, <3>1 DEF VertexDone, CounterInv, Barrier, InsideStep, Parked, Busy
    <3>3. /\ Cardinality(Busy') = Cardinality(Busy) - 1
          /\ pendingInStep' = Cardinality(toDispatch') + Cardinality(Busy')
      <4>1. Cardinality(Busy') = Cardinality(Busy) - 1
        BY <3>1, BusyFinite, FS_RemoveElement
      <4>2. pendingInStep = Cardinality(toDispatch) + Cardinality(Busy)
        BY <3>2 DEF CounterInv
      <4> QED BY <2>4, <4>1, <4>2, BusyFinite, ToDispatchFinite DEF VertexDone
    <3>4. \A u \in Workers : workerPc[u] # "signal"
      BY <3>1, SignalIsLast
    <3>5. \A u \in Workers \ {w} : workerPc'[u] = workerPc[u] /\ workerVertex'[u] = workerVertex[u]
      BY <2>4 DEF VertexDone, TypeOK
    <3>6. /\ workerPc'[w] \in {"signal", "idle"}
          /\ workerPc'[w] = "signal" => pendingInStep' = 0
      BY <2>4 DEF VertexDone, TypeOK, LastOfStep
    <3>7. \A u \in Workers : workerPc'[u] = "signal" =>
            pendingInStep' = 0 /\ \A x \in Workers \ {u} : workerPc'[x] # "signal"
      BY <3>4, <3>5, <3>6
    <3>8. \A u \in Busy' : workerVertex'[u] \in vertices'
      BY <2>4, <3>1, <3>5 DEF VertexDone, CounterInv, Busy
    <3>9. \A u \in Workers : workerPc'[u] # "exited"
      BY <3>2, <3>5, <3>6 DEF CounterInv, InsideStep
    <3> QED BY <2>4, <3>2, <3>3, <3>7, <3>8, <3>9 DEF VertexDone, CounterInv, Barrier, InsideStep
  <2>5. CASE WorkerExit(w)
    BY <2>5 DEF WorkerExit, VertexChClosed, CounterInv, Barrier, InsideStep, Parked, Busy, TypeOK
  <2> QED BY <1>3, <2>1, <2>2, <2>4, <2>5 DEF WorkerStep
<1>4. ASSUME NEW w \in Workers, Compute(w) PROVE CounterInv'
  <2>1. UNCHANGED <<vertices, stepVars, execVars, workerPc, workerVertex>>
    BY <1>4 DEF Compute, SendLocal, SendRelayed, Receive, Freeze
  <2> QED BY <2>1 DEF CounterInv, Barrier, InsideStep, Parked, Busy
<1>5. CASE UNCHANGED vars
  BY <1>5 DEF vars, CounterInv, Barrier, InsideStep, Parked, Busy
<1> QED BY <1>1, <1>2, <1>3, <1>4, <1>5 DEF Next

-----------------------------------------------------------------------------
LEMMA ErrorStep == IInv /\ [Next]_vars => ErrorInv'
<1> SUFFICES ASSUME TypeOK, CounterInv, ErrorInv, [Next]_vars PROVE ErrorInv'
  BY DEF IInv
<1> USE DEF graphVars, stepVars, execVars, workerVars
<1>1. CASE Client
  BY <1>1 DEF Client, AddVertex, RunBegin, Reset, ClearGraph, CloseBegin, NewGraph,
              ErrorInv, InsideStep
<1>2. CASE ExecutorStep
  <2>1. CASE CloseEnd
    BY <2>1 DEF CloseEnd, ErrorInv, InsideStep
  <2>2. CASE StepsExhausted \/ StepRefused \/ StopAfterStep
    BY <2>2 DEF StepsExhausted, StepRefused, StopAfterStep, Return, ErrorInv, InsideStep
  <2>3. CASE StepBegin
    BY <2>3 DEF StepBegin, ErrorInv, InsideStep
  <2>4. ASSUME NEW w \in Workers, NEW v \in VertexIds, Dispatch(w, v) PROVE ErrorInv'
    BY <2>4 DEF Dispatch, ErrorInv, InsideStep
  <2>5. ASSUME NEW w \in Workers, StepCompleted(w) PROVE ErrorInv'
    BY <2>5 DEF StepCompleted, ErrorInv, InsideStep
  <2>6. CASE CollectError
    BY <2>6 DEF CollectError, Return, ErrorInv, InsideStep
  <2>7. CASE CollectNone
    BY <2>7 DEF CollectNone, ErrorInv, InsideStep
  <2>8. CASE KeepRunning
    BY <2>8 DEF KeepRunning, ErrorInv, InsideStep
  <2> QED BY <1>2, <2>1, <2>2, <2>3, <2>4, <2>5, <2>6, <2>7, <2>8 DEF ExecutorStep
<1>3. ASSUME NEW w \in Workers, WorkerStep(w) PROVE ErrorInv'
  <2>1. CASE WorkerStart(w) \/ ComputeOK(w) \/ VertexDone(w) \/ WorkerExit(w)
    BY <2>1 DEF WorkerStart, ComputeOK, VertexDone, WorkerExit, ErrorInv, InsideStep
  <2>2. CASE ComputeFailed(w)
    <3>1. InsideStep
      BY <2>2 DEF ComputeFailed, CounterInv, Barrier, Parked
    <3>2. \A i \in DOMAIN errCh' : errCh'[i] \in failed'
      BY <2>2 DEF ComputeFailed, TryEmitError, ErrorInv
    <3>3. errCh' # <<>> /\ failed' # {}
      BY <2>2 DEF ComputeFailed, TryEmitError
    <3> QED BY <2>2, <3>1, <3>2, <3>3 DEF ComputeFailed, ErrorInv, InsideStep
  <2> QED BY <1>3, <2>1, <2>2 DEF WorkerStep, ComputeReturns
<1>4. ASSUME NEW w \in Workers, Compute(w) PROVE ErrorInv'
  BY <1>4 DEF Compute, SendLocal, SendRelayed, Receive, Freeze, ErrorInv, InsideStep
<1>5. CASE UNCHANGED vars
  BY <1>5 DEF vars, ErrorInv, InsideStep
<1> QED BY <1>1, <1>2, <1>3, <1>4, <1>5 DEF Next

-----------------------------------------------------------------------------
(* Unread messages are accounted for.                                      *)
Unread == \A v \in VertexIds : msgQueue[v][current] # <<>> =>
            v \in toDispatch \cup Held({"got", "compute"}) \cup failed

LEMMA QueueStep == IInv /\ [Next]_vars => QueueInv'
<1> SUFFICES ASSUME TypeOK, CounterInv, ErrorInv, QueueInv, [Next]_vars PROVE QueueInv'
  BY DEF IInv
<1> USE DEF graphVars, stepVars, execVars, workerVars
<1>0. current \in {0, 1} /\ next \in {0, 1} /\ current # next
  BY BufferIndices DEF current, next, TypeOK
<1>b. ASSUME NEW w \in Workers, workerPc[w] \in {"got", "compute", "counting"}
      PROVE  InsideStep /\ workerVertex[w] \in vertices /\ workerVertex[w] \in VertexIds
  BY <1>b DEF CounterInv, Barrier, Parked, Busy, TypeOK
<1>n. QueueInv = /\ QueueIsolation
                 /\ \A v \in VertexIds \ vertices : msgQueue[v] = [b \in {0, 1} |-> <<>>]
                 /\ InsideStep \/ execPc \in {"collect", "post"} => Unread
  BY DEF QueueInv, Unread
<1>m. QueueInv' <=> /\ QueueIsolation'
                    /\ \A v \in VertexIds \ vertices' : msgQueue'[v] = [b \in {0, 1} |-> <<>>]
                    /\ InsideStep' \/ execPc' \in {"collect", "post"} => Unread'
  BY DEF QueueInv, Unread
(* Steps that clear the graph.                                             *)
<1>c. ASSUME ClearGraph, execPc' \notin {"dispatch", "await", "collect", "post"}
      PROVE  QueueInv'
  <2>1. current' \in {0, 1} /\ next' \in {0, 1}
    BY <1>c, BufferIndices DEF ClearGraph, current, next
  <2> QED BY <1>c, <1>m, <2>1 DEF ClearGraph, NoMessages, QueueIsolation, InsideStep
(* Steps that touch neither the queues nor the superstep.                  *)
<1>u. ASSUME UNCHANGED <<msgQueue, superstep>>, vertices \subseteq vertices',
             InsideStep' \/ execPc' \in {"collect", "post"} => Unread'
      PROVE  QueueInv'
  <2>1. QueueIsolation'
    BY <1>u DEF QueueInv, QueueIsolation, current, next
  <2> QED BY <1>u, <1>m, <2>1 DEF QueueInv
<1>1. CASE Client
  <2>1. ASSUME NEW v \in VertexIds, AddVertex(v) PROVE QueueInv'
    BY <2>1, <1>u DEF AddVertex, InsideStep
  <2>2. ASSUME NEW n \in RunLengths, RunBegin(n) PROVE QueueInv'
    BY <2>2, <1>u DEF RunBegin, InsideStep
  <2>3. CASE Reset
    BY <2>3, <1>c DEF Reset
  <2>4. CASE CloseBegin
    BY <2>4, <1>u DEF CloseBegin, InsideStep
  <2>5. CASE NewGraph
    BY <2>5, <1>c DEF NewGraph
  <2> QED BY <1>1, <2>1, <2>2, <2>3, <2>4, <2>5 DEF Client
<1>2. CASE ExecutorStep
  <2>1. CASE CloseEnd
    BY <2>1, <1>c DEF CloseEnd
  <2>2. CASE StepsExhausted \/ StepRefused \/ StopAfterStep
    BY <2>2, <1>u DEF StepsExhausted, StepRefused, StopAfterStep, Return, InsideStep
  <2>3. CASE StepBegin
    <3>1. Unread'
      <4>1. \A v \in VertexIds : msgQueue[v][current] # <<>> => v \in vertices
        BY <1>0 DEF QueueInv
      <4> QED BY <2>3, <4>1 DEF StepBegin, Unread, current
    <3> QED BY <2>3, <3>1, <1>u DEF StepBegin
  <2>4. ASSUME NEW w \in Workers, NEW v \in VertexIds, Dispatch(w, v) PROVE QueueInv'
    <3>1. Held({"got", "compute"})' = Held({"got", "compute"}) \cup {v}
      BY <2>4 DEF Dispatch, Held, TypeOK
    <3>2. Unread
      BY <2>4, <1>n DEF Dispatch, InsideStep
    <3>3. Unread'
      BY <2>4, <3>1, <3>2 DEF Dispatch, Unread, current
    <3> QED BY <2>4, <3>3, <1>u DEF Dispatch
  <2>5. ASSUME NEW w \in Workers, StepCompleted(w) PROVE QueueInv'
    <3>1. Held({"got", "compute"}) \subseteq Held({"got", "compute"})'
      BY <2>5 DEF StepCompleted, Held, TypeOK
    <3>2. Unread
      BY <2>5, <1>n DEF StepCompleted, InsideStep
    <3>3. Unread'
      BY <2>5, <3>1, <3>2 DEF StepCompleted, Unread, current
    <3> QED BY <2>5, <3>3, <1>u DEF StepCompleted
  <2>6. CASE CollectError
    BY <2>6, <1>u DEF CollectError, Return, InsideStep
  <2>7. CASE CollectNone
    <3>1. Unread /\ Held({"got", "compute"})' = Held({"got", "compute"})
      BY <2>7, <1>n DEF CollectNone, Held
    <3>2. Unread'
      BY <2>7, <3>1 DEF CollectNone, Unread, current
    <3> QED BY <2>7, <3>2, <1>u DEF CollectNone
  <2>8. CASE KeepRunning
    <3>1. toDispatch = {} /\ Held({"got", "compute"}) = {} /\ failed = {}
      BY <2>8 DEF KeepRunning, CounterInv, ErrorInv, Barrier, InsideStep, Parked, Held
    <3>2. \A v \in VertexIds : msgQueue[v][current] = <<>>
      BY <2>8, <3>1, <1>n DEF KeepRunning, Unread
    <3>3. current' = next /\ next' = current /\ superstep' - 1 = superstep
      BY <2>8, BufferIndices DEF KeepRunning, current, next, TypeOK
    <3>4. QueueIsolation'
      BY <2>8, <3>2, <3>3 DEF KeepRunning, QueueInv, QueueIsolation
    <3> QED BY <2>8, <3>4, <1>m DEF KeepRunning, QueueInv, InsideStep
  <2> QED BY <1>2, <2>1, <2>2, <2>3, <2>4, <2>5, <2>6, <2>7, <2>8 DEF ExecutorStep
<1>3. ASSUME NEW w \in Workers, WorkerStep(w) PROVE QueueInv'
  <2> DEFINE v == workerVertex[w]
  <2>h. ASSUME \A u \in Workers \ {w} : workerPc'[u] = workerPc[u]
               /\ workerVertex'[u] = workerVertex[u]
        PROVE  Held({"got", "compute"}) \subseteq Held({"got", "compute"})' \cup {v}
    BY <2>h DEF Held
  <2>1. CASE WorkerStart(w)
    <3>1. Unread /\ v \in VertexIds
      BY <2>1, <1>b, <1>n DEF WorkerStart
    <3>2. Held({"got", "compute"}) \subseteq Held({"got", "compute"})' \cup {v}
      BY <2>1, <2>h DEF WorkerStart, TypeOK
    <3>3. msgQueue[v][current] = <<>> \/ v \in Held({"got", "compute"})'
      <4>1. CASE active[v] \/ msgQueue[v][current] # <<>>
        BY <2>1, <4>1 DEF WorkerStart, Held, TypeOK
      <4> QED BY <4>1
    <3>4. UNCHANGED <<msgQueue, superstep, vertices, toDispatch, failed>>
      BY <2>1 DEF WorkerStart
    <3>5. Unread'
      BY <3>1, <3>2, <3>3, <3>4 DEF Unread, current
    <3> QED BY <3>4, <3>5, <1>u
  <2>2. CASE ComputeOK(w)
    <3>1. Unread /\ v \in VertexIds
      BY <2>2, <1>b, <1>n DEF ComputeOK
    <3>2. Held({"got", "compute"}) \subseteq Held({"got", "compute"})' \cup {v}
      BY <2>2, <2>h DEF ComputeOK, TypeOK
    <3>3. /\ msgQueue'[v][current] = <<>> /\ msgQueue'[v][next] = msgQueue[v][next]
          /\ \A x \in VertexIds \ {v} : msgQueue'[x] = msgQueue[x]
      BY <2>2, <3>1, <1>0 DEF ComputeOK, TypeOK
    <3>4. UNCHANGED <<superstep, vertices, toDispatch, failed, current, next>>
      BY <2>2 DEF ComputeOK, current, next
    <3>5. Unread'
      BY <3>1, <3>2, <3>3, <3>4 DEF Unread
    <3>6. QueueIsolation'
      BY <3>3, <3>4 DEF QueueInv, QueueIsolation
    <3>7. v \in vertices
      BY <2>2, <1>b DEF ComputeOK
    <3> QED BY <3>3, <3>4, <3>5, <3>6, <3>7, <1>m DEF QueueInv
  <2>3. CASE ComputeFailed(w)
    <3>1. Unread /\ v \in VertexIds
      BY <2>3, <1>b, <1>n DEF ComputeFailed
    <3>2. Held({"got", "compute"}) \subseteq Held({"got", "compute"})' \cup {v}
      BY <2>3, <2>h DEF ComputeFailed, TypeOK
    <3>3. failed' = failed \cup {v}
          /\ UNCHANGED <<msgQueue, superstep, vertices, toDispatch, current>>
      BY <2>3 DEF ComputeFailed, current
    <3>4. Unread'
      BY <3>1, <3>2, <3>3 DEF Unread
    <3> QED BY <3>3, <3>4, <1>u
  <2>4. CASE VertexDone(w) \/ WorkerExit(w)
    <3>0. /\ workerPc[w] \notin {"got", "compute"} /\ workerPc'[w] \notin {"got", "compute"}
          /\ \A u \in Workers \ {w} : workerPc'[u] = workerPc[u] /\ workerVertex'[u] = workerVertex[u]
      BY <2>4 DEF VertexDone, WorkerExit, TypeOK
    <3>1. Held({"got", "compute"})' = Held({"got", "compute"})
      BY <3>0 DEF Held
    <3>2. UNCHANGED <<msgQueue, superstep, vertices, toDispatch, failed, execPc, current>>
      BY <2>4 DEF VertexDone, WorkerExit, current
    <3>3. InsideStep \/ execPc \in {"collect", "post"} => Unread'
      BY <3>1, <3>2, <1>n DEF Unread
    <3> QED BY <3>2, <3>3, <1>u DEF InsideStep
  <2> QED BY <1>3, <2>1, <2>2, <2>3, <2>4 DEF WorkerStep, ComputeReturns
<1>4. ASSUME NEW w \in Workers, Compute(w) PROVE QueueInv'
  <2> DEFINE v == workerVertex[w]
  <2>0. Unread /\ v \in VertexIds /\ v \in vertices
    BY <1>4, <1>b, <1>n DEF Compute, SendLocal, SendRelayed, Receive, Freeze
  <2>1. /\ UNCHANGED <<superstep, vertices, toDispatch, failed, current, next>>
        /\ Held({"got", "compute"})' = Held({"got", "compute"})
        /\ v \in Held({"got", "compute"})
    BY <1>4 DEF Compute, SendLocal, SendRelayed, Receive, Freeze, current, next, Held
  <2>2. ASSUME NEW dst \in VertexIds, SendLocal(w, dst) PROVE QueueInv'
    <3> DEFINE m == [from |-> v, sent |-> superstep]
    <3>1. /\ msgQueue'[dst][next] = Append(msgQueue[dst][next], m)
          /\ msgQueue'[dst][current] = msgQueue[dst][current]
          /\ \A x \in VertexIds \ {dst} : msgQueue'[x] = msgQueue[x]
      BY <2>2, <1>0 DEF SendLocal, TypeOK
    <3>2. Unread'
      BY <3>1, <2>0, <2>1 DEF Unread
    <3>3. \A i \in DOMAIN Append(msgQueue[dst][next], m) :
            Append(msgQueue[dst][next], m)[i].sent = superstep
      BY <1>0 DEF QueueInv, QueueIsolation, TypeOK
    <3>4. QueueIsolation'
      <4> SUFFICES ASSUME NEW x \in VertexIds
                   PROVE  /\ \A i \in DOMAIN msgQueue'[x][current] :
                               msgQueue'[x][current][i].sent = superstep - 1
                          /\ \A i \in DOMAIN msgQueue'[x][next] :
                               msgQueue'[x][next][i].sent = superstep
        BY <2>1 DEF QueueIsolation
      <4>1. CASE x = dst
        BY <4>1, <3>1, <3>3 DEF QueueInv, QueueIsolation
      <4>2. CASE x # dst
        BY <4>2, <3>1 DEF QueueInv, QueueIsolation
      <4> QED BY <4>1, <4>2
    <3> QED BY <2>2, <3>1, <3>2, <3>4, <2>1, <1>m DEF QueueInv, SendLocal
  <2>3. ASSUME NEW dst \in VertexIds, SendRelayed(w, dst) PROVE QueueInv'
    BY <2>3, <2>0, <2>1, <1>u DEF SendRelayed, Unread
  <2>4. CASE Receive(w)
    <3> DEFINE q == msgQueue[v][current]
               r == SubSeq(q, 1, Len(q) - 1)
    <3>1. /\ msgQueue'[v][current] = r /\ msgQueue'[v][next] = msgQueue[v][next]
          /\ \A x \in VertexIds \ {v} : msgQueue'[x] = msgQueue[x]
      BY <2>4, <2>0, <1>0 DEF Receive, TypeOK
    <3>2. q \in Seq(Message) /\ q # <<>>
      BY <2>4, <2>0, <1>0 DEF Receive, TypeOK
    <3>3. \A i \in DOMAIN r : i \in DOMAIN q /\ r[i] = q[i]
      BY <3>2
    <3>4. QueueIsolation'
      <4> SUFFICES ASSUME NEW x \in VertexIds
                   PROVE  /\ \A i \in DOMAIN msgQueue'[x][current] :
                               msgQueue'[x][current][i].sent = superstep - 1
                          /\ \A i \in DOMAIN msgQueue'[x][next] :
                               msgQueue'[x][next][i].sent = superstep
        BY <2>1 DEF QueueIsolation
      <4>1. CASE x = v
        BY <4>1, <3>1, <3>3, <2>0 DEF QueueInv, QueueIsolation
      <4>2. CASE x # v
        BY <4>2, <3>1 DEF QueueInv, QueueIsolation
      <4> QED BY <4>1, <4>2
    <3>5. Unread'
      BY <3>1, <2>0, <2>1 DEF Unread
    <3> QED BY <3>1, <3>4, <3>5, <2>0, <2>1, <1>m DEF QueueInv
  <2>5. CASE Freeze(w)
    BY <2>5, <2>0, <2>1, <1>u DEF Freeze, Unread
  <2> QED BY <1>4, <2>2, <2>3, <2>4, <2>5 DEF Compute
<1>5. CASE UNCHANGED vars
  <2>1. Held({"got", "compute"})' = Held({"got", "compute"})
    BY <1>5 DEF vars, Held
  <2> QED BY <1>5, <2>1, <1>u, <1>n DEF vars, Unread, current, InsideStep
<1> QED BY <1>1, <1>2, <1>3, <1>4, <1>5 DEF Next

-----------------------------------------------------------------------------
(* IInv holds in every reachable state, whatever the vertices, the workers,*)
(* the compute function and the order in which the goroutines run.         *)
THEOREM InductiveInvariant == Spec => []IInv
<1>1. IInv /\ [Next]_vars => IInv'
  BY TypeStep, CounterStep, ErrorStep, QueueStep DEF IInv
<1> QED BY InitIInv, <1>1, PTL DEF Spec

(* Every variable of the graph keeps its type: the error channel never     *)
(* holds two errors and only vertices of the graph are dispatched.         *)
THEOREM TypeCorrect == Spec => []TypeOK
<1>1. IInv => TypeOK
  BY DEF IInv
<1> QED BY InductiveInvariant, <1>1, PTL

(* The barrier of graph.go 248-253: outside the dispatch-and-wait section  *)
(* of step() no worker is at a vertex.                                     *)
THEOREM BarrierHolds == Spec => []Barrier
<1>1. IInv => Barrier
  BY DEF IInv, CounterInv
<1> QED BY InductiveInvariant, <1>1, PTL

(* stepCompletedCh is signalled by one worker, after all the others.       *)
THEOREM OneSignalHolds == Spec => []OneSignal
<1>1. IInv => OneSignal
  BY SignalIsLast DEF IInv, OneSignal
<1> QED BY InductiveInvariant, <1>1, PTL

(* What is read in a superstep was sent in the one before (graph.go 217,   *)
(* 283), for every number of supersteps, runs and failures.                *)
THEOREM QueueIsolationHolds == Spec => []QueueIsolation
<1>1. IInv => QueueIsolation
  BY DEF IInv, QueueInv
<1> QED BY InductiveInvariant, <1>1, PTL

(* step() reports an error exactly when a compute call of the step failed. *)
THEOREM ErrorSurfacesHolds == Spec => []ErrorSurfaces
<1>1. IInv => ErrorSurfaces
  BY DEF IInv, ErrorInv, ErrorSurfaces, InsideStep
<1> QED BY InductiveInvariant, <1>1, PTL

-----------------------------------------------------------------------------
(* Refinement: the graph processor implements the synchronous rounds of    *)
(* BspSync; every step of a goroutine is a step of a round, or invisible.  *)

InTurn(w) == workerPc[w] \in {"got", "compute"}

(* No vertex is dealt with by two workers, or by one while it still waits  *)
(* to be dispatched.                                                       *)
OwnerInv ==
  \A w \in Workers : InTurn(w) =>
    /\ workerVertex[w] \notin toDispatch
    /\ \A u \in Workers \ {w} : InTurn(u) => workerVertex[u] # workerVertex[w]

LEMMA OwnerInit == Init => OwnerInv
  BY DEF Init, OwnerInv, InTurn

LEMMA OwnerStep == IInv /\ OwnerInv /\ [Next]_vars => OwnerInv'
<1> SUFFICES ASSUME TypeOK, CounterInv, OwnerInv, [Next]_vars PROVE OwnerInv'
  BY DEF IInv
<1> USE DEF graphVars, stepVars, execVars, workerVars
<1>u. ASSUME UNCHANGED <<toDispatch, workerPc, workerVertex>> PROVE OwnerInv'
  BY <1>u DEF OwnerInv, InTurn
<1>o. ASSUME ~InsideStep PROVE \A w \in Workers : ~InTurn(w)
  BY <1>o DEF CounterInv, Barrier, Parked, InTurn
<1>1. CASE Client
  BY <1>1, <1>u, <1>o DEF Client, AddVertex, RunBegin, Reset, ClearGraph, CloseBegin, NewGraph,
                    OwnerInv, InTurn
<1>2. CASE ExecutorStep
  <2>1. CASE StepBegin
    BY <2>1, <1>o DEF StepBegin, InsideStep, OwnerInv, InTurn
  <2>2. ASSUME NEW w \in Workers, NEW v \in VertexIds, Dispatch(w, v) PROVE OwnerInv'
    <3>1. \A u \in Workers \ {w} : workerPc'[u] = workerPc[u] /\ workerVertex'[u] = workerVertex[u]
      BY <2>2 DEF Dispatch, TypeOK
    <3>2. workerVertex'[w] = v /\ v \in toDispatch /\ toDispatch' = toDispatch \ {v}
      BY <2>2 DEF Dispatch, TypeOK
    <3> QED BY <3>1, <3>2 DEF OwnerInv, InTurn
  <2>3. ASSUME NEW w \in Workers, StepCompleted(w) PROVE OwnerInv'
    BY <2>3 DEF StepCompleted, OwnerInv, InTurn, TypeOK
  <2>4. CASE CloseEnd \/ StepsExhausted \/ StepRefused \/ CollectError \/ CollectNone
             \/ StopAfterStep \/ KeepRunning
    BY <2>4, <1>u DEF CloseEnd, StepsExhausted, StepRefused, CollectError, CollectNone,
                      StopAfterStep, KeepRunning
  <2> QED BY <1>2, <2>1, <2>2, <2>3, <2>4 DEF ExecutorStep
<1>3. ASSUME NEW w \in Workers, WorkerStep(w) PROVE OwnerInv'
  <2>1. /\ toDispatch' = toDispatch
        /\ \A u \in Workers \ {w} : workerPc'[u] = workerPc[u] /\ workerVertex'[u] = workerVertex[u]
        /\ InTurn(w)' => InTurn(w) /\ workerVertex'[w] = workerVertex[w]
    <3>1. CASE WorkerStart(w)
      BY <3>1 DEF WorkerStart, InTurn, TypeOK
    <3>2. CASE ComputeReturns(w)
      BY <3>2 DEF ComputeReturns, ComputeOK, ComputeFailed, InTurn, TypeOK
    <3>3. CASE VertexDone(w)
      BY <3>3 DEF VertexDone, InTurn, TypeOK
    <3>4. CASE WorkerExit(w)
      BY <3>4 DEF WorkerExit, InTurn, TypeOK
    <3> QED BY <1>3, <3>1, <3>2, <3>3, <3>4 DEF WorkerStep
  <2> QED BY <2>1 DEF OwnerInv, InTurn
<1>4. ASSUME NEW w \in Workers, Compute(w) PROVE OwnerInv'
  BY <1>4, <1>u DEF Compute, SendLocal, SendRelayed, Receive, Freeze
<1>5. CASE UNCHANGED vars
  BY <1>5, <1>u DEF vars
<1> QED BY <1>1, <1>2, <1>3, <1>4, <1>5 DEF Next

-----------------------------------------------------------------------------
LEMMA SyncInit == Init => Sync!Init
<1> SUFFICES ASSUME Init PROVE Sync!Init
  OBVIOUS
<1>1. current \in {0, 1} /\ next \in {0, 1}
  BY BufferIndices DEF Init, current, next
<1>2. \A v \in VertexIds : msgQueue[v][current] = <<>> /\ msgQueue[v][next] = <<>>
  BY <1>1 DEF Init, EmptyGraph, NoMessages
<1> QED BY <1>2 DEF Init, EmptyGraph, Held, Sync!Init, Sync!Nothing

Awake  == {x \in VertexIds : active[x]}
Inbox  == [x \in VertexIds |-> msgQueue[x][current]]
Outbox == [x \in VertexIds |-> msgQueue[x][next]]
Waiting == toDispatch \cup Held({"got"})
InCompute == Held({"compute"})
Broken == failed # {}

(* The variables of BspSync, as BspGraph represents them.                  *)
LEMMA SyncUnchanged ==
  UNCHANGED <<vertices, Awake, Inbox, Outbox, superstep, Waiting, InCompute, Broken>>
    => UNCHANGED Sync!vars
  BY DEF Awake, Inbox, Outbox, Waiting, InCompute, Broken, Sync!vars

(* A step that leaves the queues, the superstep and the owners of the      *)
(* vertices alone.                                                         *)
LEMMA SyncSame ==
  /\ UNCHANGED <<vertices, active, msgQueue, superstep, toDispatch, failed>>
  /\ Held({"got"})' = Held({"got"}) /\ Held({"compute"})' = Held({"compute"})
  => UNCHANGED Sync!vars
<1>1. UNCHANGED <<active, msgQueue, superstep>> => UNCHANGED <<Awake, Inbox, Outbox>>
  BY DEF Awake, Inbox, Outbox, current, next
<1> QED BY <1>1, SyncUnchanged DEF Waiting, InCompute, Broken

(* Outside the dispatch-and-wait section no turn is going on.              *)
LEMMA RestingOutside ==
  CounterInv /\ ~InsideStep => /\ toDispatch = {} /\ Held({"got"}) = {} /\ Held({"compute"}) = {}
                               /\ Sync!Resting
  BY DEF CounterInv, Barrier, Parked, Held, Sync!Resting

LEMMA SyncClient ==
  ASSUME TypeOK, CounterInv, QueueInv, Client
  PROVE  Sync!Next \/ UNCHANGED Sync!vars
<1> USE DEF graphVars, stepVars, execVars, workerVars
<1>1. ASSUME NEW v \in VertexIds, AddVertex(v) PROVE Sync!Join(v)
  <2>1. UNCHANGED <<msgQueue, superstep, toDispatch, failed, workerPc, workerVertex>>
    BY <1>1 DEF AddVertex
  <2>2. UNCHANGED <<Inbox, Outbox, Waiting, InCompute, Broken>>
    BY <2>1 DEF Inbox, Outbox, Waiting, InCompute, Broken, current, next, Held
  <2>3. Awake' = Awake \cup {v}
    BY <1>1 DEF AddVertex, Awake, TypeOK
  <2> QED BY <1>1, <2>1, <2>2, <2>3, RestingOutside
          DEF AddVertex, InsideStep, Sync!Join, Awake, Inbox, Outbox, Waiting, InCompute, Broken
<1>2. ASSUME ClearGraph, ~InsideStep, toDispatch' = {},
             \A w \in Workers : workerPc'[w] \notin {"got", "compute"}
      PROVE  Sync!Clear
  <2>1. current' \in {0, 1} /\ next' \in {0, 1}
    BY <1>2, BufferIndices DEF ClearGraph, current, next
  <2>2. /\ \A v \in VertexIds : msgQueue'[v][current'] = <<>> /\ msgQueue'[v][next'] = <<>>
        /\ Awake' = {} /\ Held({"got"})' = {} /\ Held({"compute"})' = {}
    BY <1>2, <2>1 DEF ClearGraph, NoMessages, Awake, Held
  <2> QED BY <1>2, <2>2, RestingOutside DEF ClearGraph, Sync!Clear, Sync!Nothing, Awake
<1>3. CASE Reset
  <2>1. toDispatch' = {} /\ ~InsideStep /\ \A w \in Workers : workerPc'[w] \notin {"got", "compute"}
    BY <1>3 DEF Reset, CounterInv, Barrier, InsideStep, Parked
  <2> QED BY <1>3, <2>1, <1>2 DEF Reset, Sync!Next
<1>4. CASE NewGraph
  <2>1. toDispatch' = {} /\ ~InsideStep /\ \A w \in Workers : workerPc'[w] \notin {"got", "compute"}
    BY <1>4 DEF NewGraph, InsideStep
  <2> QED BY <1>4, <2>1, <1>2 DEF NewGraph, Sync!Next
<1>5. CASE CloseBegin \/ \E n \in RunLengths : RunBegin(n)
  BY <1>5, SyncSame DEF CloseBegin, RunBegin, Held
<1> QED BY <1>1, <1>3, <1>4, <1>5 DEF Client, Sync!Next

LEMMA SyncExecutor ==
  ASSUME TypeOK, CounterInv, ErrorInv, QueueInv, OwnerInv, ExecutorStep
  PROVE  Sync!Next \/ UNCHANGED Sync!vars
<1> USE DEF graphVars, stepVars, execVars, workerVars
<1>1. CASE CloseEnd
  <2>1. current' \in {0, 1} /\ next' \in {0, 1}
    BY <1>1, BufferIndices DEF CloseEnd, ClearGraph, current, next
  <2>2. /\ \A v \in VertexIds : msgQueue'[v][current'] = <<>> /\ msgQueue'[v][next'] = <<>>
        /\ Awake' = {} /\ UNCHANGED <<Held({"got"}), Held({"compute"})>>
    BY <1>1, <2>1 DEF CloseEnd, ClearGraph, NoMessages, Awake, Held
  <2>3. Sync!Clear
    BY <1>1, <2>2, RestingOutside
       DEF CloseEnd, ClearGraph, InsideStep, Sync!Clear, Sync!Nothing, Awake
  <2> QED BY <2>3 DEF Sync!Next
<1>2. CASE StepBegin
  <2>1. UNCHANGED <<Awake, Inbox, Outbox, Held({"got"}), Held({"compute"})>>
    BY <1>2 DEF StepBegin, Awake, Inbox, Outbox, Held, current, next
  <2>2. Sync!BeginRound
    BY <1>2, <2>1, RestingOutside
       DEF StepBegin, InsideStep, Sync!BeginRound, Awake, Inbox, Outbox
  <2> QED BY <2>2 DEF Sync!Next
<1>3. ASSUME NEW w \in Workers, NEW v \in VertexIds, Dispatch(w, v) PROVE UNCHANGED Sync!vars
  <2>1. /\ \A u \in Workers \ {w} : workerPc'[u] = workerPc[u] /\ workerVertex'[u] = workerVertex[u]
        /\ workerPc[w] = "idle" /\ workerPc'[w] = "got" /\ workerVertex'[w] = v
        /\ v \in toDispatch /\ toDispatch' = toDispatch \ {v}
    BY <1>3 DEF Dispatch, TypeOK
  <2>2. Waiting' = Waiting /\ InCompute' = InCompute
    BY <2>1 DEF Waiting, InCompute, Held
  <2>3. UNCHANGED <<vertices, superstep, Awake, Inbox, Outbox, Broken>>
    BY <1>3 DEF Dispatch, Awake, Inbox, Outbox, Broken, current, next
  <2> QED BY <2>2, <2>3, SyncUnchanged
<1>4. ASSUME NEW w \in Workers, StepCompleted(w) PROVE UNCHANGED Sync!vars
  <2>1. UNCHANGED <<Held({"got"}), Held({"compute"})>>
    <3>1. /\ \A u \in Workers \ {w} : workerPc'[u] = workerPc[u] /\ workerVertex'[u] = workerVertex[u]
          /\ workerPc[w] = "signal" /\ workerPc'[w] = "idle"
      BY <1>4 DEF StepCompleted, TypeOK
    <3> QED BY <3>1 DEF Held
  <2> QED BY <1>4, <2>1, SyncSame DEF StepCompleted
<1>5. CASE CollectError \/ CollectNone \/ StepsExhausted \/ StepRefused \/ StopAfterStep
  <2>1. UNCHANGED <<vertices, active, msgQueue, superstep, toDispatch, failed,
                    Held({"got"}), Held({"compute"})>>
    BY <1>5 DEF CollectError, CollectNone, StepsExhausted, StepRefused, StopAfterStep, Held
  <2> QED BY <2>1, SyncSame
<1>6. CASE KeepRunning
  <2>1. toDispatch = {} /\ Held({"got", "compute"}) = {} /\ failed = {} /\ Sync!Resting
    BY <1>6, RestingOutside
       DEF KeepRunning, CounterInv, ErrorInv, Barrier, InsideStep, Parked, Held
  <2>2. \A v \in VertexIds : msgQueue[v][current] = <<>>
    BY <1>6, <2>1 DEF KeepRunning, QueueInv
  <2>3. current' = next /\ next' = current
    BY <1>6, BufferIndices DEF KeepRunning, current, next, TypeOK
  <2>4. Inbox' = Outbox /\ Outbox' = [v \in VertexIds |-> <<>>]
    BY <1>6, <2>2, <2>3 DEF KeepRunning, Inbox, Outbox
  <2>5. UNCHANGED <<Awake, Held({"got"}), Held({"compute"})>>
    BY <1>6 DEF KeepRunning, Awake, Held
  <2>6. Sync!NextRound
    BY <1>6, <2>1, <2>4, <2>5
       DEF KeepRunning, Sync!NextRound, Sync!Nothing, Awake, Inbox, Outbox
  <2> QED BY <2>6 DEF Sync!Next
<1> QED BY <1>1, <1>2, <1>3, <1>4, <1>5, <1>6 DEF ExecutorStep

(* A turn, or part of one, is a step of BspSync.                           *)
LEMMA SyncTurn ==
  ASSUME NEW x \in VertexIds,
         \/ Sync!StartTurn(x) \/ Sync!Skip(x) \/ Sync!EndTurn(x) \/ Sync!Fail(x)
         \/ Sync!Read(x) \/ Sync!Sleep(x)
  PROVE  Sync!Next
  BY DEF Sync!Next

LEMMA SyncWorker ==
  ASSUME TypeOK, CounterInv, OwnerInv, NEW w \in Workers, WorkerStep(w)
  PROVE  Sync!Next \/ UNCHANGED Sync!vars
<1> USE DEF graphVars, stepVars, execVars, workerVars
<1> SUFFICES ASSUME NEW v, v = workerVertex[w] PROVE Sync!Next \/ UNCHANGED Sync!vars
  OBVIOUS
<1>b. workerPc[w] \in {"got", "compute"} => v \in VertexIds
  BY DEF CounterInv, Busy, TypeOK
<1>o. InTurn(w) => /\ v \notin toDispatch
                   /\ \A u \in Workers \ {w} : InTurn(u) => workerVertex[u] # v
  BY DEF OwnerInv
<1>1. CASE WorkerStart(w)
  <2>1. /\ \A u \in Workers \ {w} : workerPc'[u] = workerPc[u]
        /\ UNCHANGED <<workerVertex, vertices, msgQueue, superstep, toDispatch, failed>>
        /\ workerPc[w] = "got"
    BY <1>1 DEF WorkerStart, TypeOK
  <2>2. UNCHANGED <<Inbox, Outbox, Broken, current>>
    BY <2>1 DEF Inbox, Outbox, Broken, current, next
  <2>w. v \in Waiting
    BY <2>1 DEF Waiting, Held
  <2>3. CASE active[v] \/ msgQueue[v][current] # <<>>
    <3>1. workerPc'[w] = "compute" /\ active' = [active EXCEPT ![v] = TRUE]
      BY <1>1, <2>3 DEF WorkerStart, TypeOK
    <3>2. Waiting' = Waiting \ {v} /\ InCompute' = InCompute \cup {v}
      BY <2>1, <3>1, <1>o DEF Waiting, InCompute, Held, InTurn
    <3>3. Awake' = Awake \cup {v}
      BY <3>1, <2>1, <1>b DEF Awake, TypeOK
    <3>4. v \in Awake \/ Inbox[v] # <<>>
      BY <2>3, <2>1, <1>b DEF Awake, Inbox
    <3>5. Sync!StartTurn(v)
      BY <2>1, <2>2, <2>w, <3>2, <3>3, <3>4
         DEF Sync!StartTurn, Awake, Inbox, Outbox, Waiting, InCompute, Broken
    <3> QED BY <3>5, <2>1, <1>b, SyncTurn
  <2>4. CASE ~(active[v] \/ msgQueue[v][current] # <<>>)
    <3>1. workerPc'[w] = "counting" /\ active' = active
      BY <1>1, <2>4 DEF WorkerStart, TypeOK
    <3>2. Waiting' = Waiting \ {v} /\ InCompute' = InCompute
      BY <2>1, <3>1, <1>o DEF Waiting, InCompute, Held, InTurn
    <3>3. v \notin Awake /\ Inbox[v] = <<>> /\ Awake' = Awake
      BY <2>4, <2>1, <1>b, <3>1 DEF Awake, Inbox
    <3>4. Sync!Skip(v)
      BY <2>1, <2>2, <2>w, <3>2, <3>3
         DEF Sync!Skip, Awake, Inbox, Outbox, Waiting, InCompute, Broken
    <3> QED BY <3>4, <2>1, <1>b, SyncTurn
  <2> QED BY <2>3, <2>4
<1>2. CASE ComputeReturns(w)
  <2>1. /\ \A u \in Workers \ {w} : workerPc'[u] = workerPc[u]
        /\ UNCHANGED <<workerVertex, vertices, active, superstep, toDispatch, current, next>>
        /\ workerPc[w] = "compute" /\ workerPc'[w] = "counting"
    BY <1>2 DEF ComputeReturns, ComputeOK, ComputeFailed, TypeOK, current, next
  <2>2. Waiting' = Waiting /\ InCompute' = InCompute \ {v} /\ v \in InCompute
    BY <2>1, <1>o DEF Waiting, InCompute, Held, InTurn
  <2>3. Awake' = Awake
    BY <2>1 DEF Awake
  <2>4. CASE ComputeOK(w)
    <3>1. current \in {0, 1} /\ next \in {0, 1} /\ current # next
      BY BufferIndices DEF current, next, TypeOK
    <3>2. /\ msgQueue'[v][current] = <<>> /\ msgQueue'[v][next] = msgQueue[v][next]
          /\ \A x \in VertexIds \ {v} : msgQueue'[x] = msgQueue[x]
      BY <2>4, <3>1, <2>1, <1>b DEF ComputeOK, TypeOK
    <3>3. Inbox' = [Inbox EXCEPT ![v] = <<>>] /\ Outbox' = Outbox
      BY <3>2, <2>1, <1>b DEF Inbox, Outbox
    <3>4. Broken' = Broken
      BY <2>4 DEF ComputeOK, Broken
    <3>5. Sync!EndTurn(v)
      BY <2>1, <2>2, <2>3, <3>3, <3>4
         DEF Sync!EndTurn, Awake, Inbox, Outbox, Waiting, InCompute, Broken
    <3> QED BY <3>5, <2>1, <1>b, SyncTurn
  <2>5. CASE ComputeFailed(w)
    <3>1. UNCHANGED <<Inbox, Outbox>> /\ Broken' = TRUE
      BY <2>5, <2>1 DEF ComputeFailed, Inbox, Outbox, Broken
    <3>2. Sync!Fail(v)
      BY <2>1, <2>2, <2>3, <3>1
         DEF Sync!Fail, Awake, Inbox, Outbox, Waiting, InCompute, Broken
    <3> QED BY <3>2, <2>1, <1>b, SyncTurn
  <2> QED BY <1>2, <2>4, <2>5 DEF ComputeReturns
<1>3. CASE VertexDone(w) \/ WorkerExit(w)
  <2>1. /\ workerPc[w] \notin {"got", "compute"} /\ workerPc'[w] \notin {"got", "compute"}
        /\ \A u \in Workers \ {w} : workerPc'[u] = workerPc[u] /\ workerVertex'[u] = workerVertex[u]
    BY <1>3 DEF VertexDone, WorkerExit, TypeOK
  <2>2. UNCHANGED <<Held({"got"}), Held({"compute"})>>
    BY <2>1 DEF Held
  <2> QED BY <1>3, <2>2, SyncSame DEF VertexDone, WorkerExit
<1> QED BY <1>1, <1>2, <1>3 DEF WorkerStep

LEMMA SyncCompute ==
  ASSUME TypeOK, CounterInv, NEW w \in Workers, Compute(w)
  PROVE  Sync!Next \/ UNCHANGED Sync!vars
<1> USE DEF graphVars, stepVars, execVars, workerVars
<1> SUFFICES ASSUME NEW v, v = workerVertex[w] PROVE Sync!Next \/ UNCHANGED Sync!vars
  OBVIOUS
<1>0. workerPc[w] = "compute" /\ v \in VertexIds /\ v \in InCompute
  BY DEF Compute, SendLocal, SendRelayed, Receive, Freeze, CounterInv, Busy, TypeOK, InCompute, Held
<1>1. UNCHANGED <<superstep, vertices, toDispatch, failed, workerPc, workerVertex, current, next>>
  BY DEF Compute, SendLocal, SendRelayed, Receive, Freeze, current, next
<1>2. UNCHANGED <<Waiting, InCompute, Broken, Held({"got"}), Held({"compute"})>>
  BY <1>1 DEF Waiting, InCompute, Broken, Held
<1>3. current \in {0, 1} /\ next \in {0, 1} /\ current # next
  BY BufferIndices DEF current, next, TypeOK
<1>4. ASSUME NEW dst \in VertexIds, SendLocal(w, dst) PROVE Sync!Send(v, dst)
  <2> DEFINE msg == [from |-> v, sent |-> superstep]
  <2>1. /\ msgQueue'[dst][next] = Append(msgQueue[dst][next], msg)
        /\ msgQueue'[dst][current] = msgQueue[dst][current]
        /\ \A x \in VertexIds \ {dst} : msgQueue'[x] = msgQueue[x]
        /\ dst \in vertices /\ active' = active
    BY <1>4, <1>3 DEF SendLocal, TypeOK
  <2> HIDE DEF msg
  <2>2. Outbox' = [Outbox EXCEPT ![dst] = Append(@, msg)] /\ Inbox' = Inbox
    BY <2>1, <1>1 DEF Inbox, Outbox
  <2>3. Awake' = Awake
    BY <2>1 DEF Awake
  <2> QED BY <1>0, <1>1, <1>2, <2>1, <2>2, <2>3
          DEF Sync!Send, msg, Awake, Inbox, Outbox, Waiting, InCompute, Broken
<1>5. ASSUME NEW dst \in VertexIds, SendRelayed(w, dst) PROVE UNCHANGED Sync!vars
  BY <1>5, <1>1, <1>2, SyncSame DEF SendRelayed
<1>6. CASE Receive(w)
  <2> DEFINE r == SubSeq(msgQueue[v][current], 1, Len(msgQueue[v][current]) - 1)
  <2>1. /\ msgQueue'[v][current] = r /\ msgQueue'[v][next] = msgQueue[v][next]
        /\ \A x \in VertexIds \ {v} : msgQueue'[x] = msgQueue[x]
        /\ msgQueue[v][current] # <<>> /\ active' = active
    BY <1>6, <1>0, <1>3 DEF Receive, TypeOK
  <2>2. /\ Inbox' = [Inbox EXCEPT ![v] = SubSeq(@, 1, Len(@) - 1)] /\ Outbox' = Outbox
        /\ Inbox[v] # <<>>
    BY <2>1, <1>0, <1>1 DEF Inbox, Outbox
  <2>3. Awake' = Awake
    BY <2>1 DEF Awake
  <2>4. Sync!Read(v)
    BY <1>0, <1>1, <1>2, <2>2, <2>3
       DEF Sync!Read, Awake, Inbox, Outbox, Waiting, InCompute, Broken
  <2> QED BY <2>4, <1>0, SyncTurn
<1>7. CASE Freeze(w)
  <2>1. Awake' = Awake \ {v} /\ UNCHANGED <<Inbox, Outbox>>
    BY <1>7, <1>0, <1>1 DEF Freeze, Awake, Inbox, Outbox, TypeOK
  <2>2. Sync!Sleep(v)
    BY <1>0, <1>1, <1>2, <2>1
       DEF Sync!Sleep, Awake, Inbox, Outbox, Waiting, InCompute, Broken
  <2> QED BY <2>2, <1>0, SyncTurn
<1> QED BY <1>0, <1>4, <1>5, <1>6, <1>7 DEF Compute, Sync!Next

(* BspGraph implements BspSync: a compute function cannot tell the worker  *)
(* pool with its channels, counters and reused buffers from synchronous    *)
(* rounds.                                                                 *)
THEOREM GraphImplementsSync == Spec => ImplementsSync
<1>1. IInv /\ OwnerInv /\ [Next]_vars => [Sync!Next]_(Sync!vars)
  <2> SUFFICES ASSUME TypeOK, CounterInv, ErrorInv, QueueInv, OwnerInv, [Next]_vars
               PROVE  Sync!Next \/ UNCHANGED Sync!vars
    BY DEF IInv
  <2>1. CASE UNCHANGED vars
    BY <2>1, SyncSame DEF vars, graphVars, stepVars, execVars, workerVars, Held
  <2> QED BY <2>1, SyncClient, SyncExecutor, SyncWorker, SyncCompute DEF Next
<1>2. IInv /\ OwnerInv /\ [Next]_vars => OwnerInv'
  BY OwnerStep
<1> QED BY <1>1, <1>2, OwnerInit, SyncInit, InductiveInvariant, PTL
           DEF Spec, ImplementsSync, Sync!Spec

-----------------------------------------------------------------------------
(* Graphs that relay each other's messages.  The variables BspGraph shares *)
(* with BspRelay by name stand for those of all graphs from here on: the   *)
(* supersteps of the graphs, and where each of their executors is.         *)
CONSTANTS Graphs, Owner, NumSteps
VARIABLES todo, computing

Relay == INSTANCE BspRelay

RelayPcs == {"building", "pre", "step", "post", "next", "done"}

RelayTypes ==
  /\ vertices \subseteq VertexIds /\ active \in [VertexIds -> BOOLEAN]
  /\ msgQueue \in [VertexIds -> [{0, 1} -> Seq(Message)]]
  /\ todo \subseteq vertices /\ computing \subseteq vertices /\ failed \subseteq Graphs
  /\ superstep \in [Graphs -> Nat] /\ execPc \in [Graphs -> RelayPcs]

(* The callbacks keep the executors together: a graph is ahead only while  *)
(* the others have ended the step as well, and waits for them there.       *)
Lockstep(g, h) ==
  /\ superstep[g] <= superstep[h] + 1
  /\ superstep[g] > superstep[h] => execPc[g] \in {"pre", "done"} /\ execPc[h] \in {"next", "done"}
  /\ execPc[g] = "building" => execPc[h] \in {"building", "pre", "done"} /\ superstep[g] = 0
  /\ execPc[g] \in {"step", "post"} => execPc[h] \in {"step", "post", "done"}
  /\ execPc[g] = "next" =>
       execPc[h] \in {"next", "done"} \/ (execPc[h] = "pre" /\ superstep[h] = superstep[g] + 1)

LockstepInv == \A g, h \in Graphs : Lockstep(g, h)

(* Turns are taken in a step only, and a graph whose step failed goes no   *)
(* further than that.                                                      *)
TurnInv ==
  /\ \A v \in todo \cup computing : execPc[Owner[v]] = "step"
  /\ todo \cap computing = {}
  /\ \A g \in failed : execPc[g] \in {"building", "pre", "step", "done"}
  /\ \A g \in Graphs : execPc[g] = "next" => failed = {}

(* What may still be read in a step is at vertices that wait for their     *)
(* turn, have it, or belong to a graph whose step failed.                  *)
Read(g) ==
  execPc[g] \in {"step", "post", "next"} =>
    \A v \in VertexIds : msgQueue[v][superstep[g] % 2] # <<>> =>
      v \in todo \cup computing \/ Owner[v] \in failed

ReadInv ==
  /\ \A v \in VertexIds \ vertices : \A b \in {0, 1} : msgQueue[v][b] = <<>>
  /\ \A g \in Graphs : Read(g)

RelayInv == RelayTypes /\ LockstepInv /\ TurnInv /\ ReadInv

(* What BspRelay assumes of its constants: every vertex has an owner, one  *)
(* of finitely many graphs.                                                *)
RelayAssumption ==
  /\ Owner \in [VertexIds -> Graphs] /\ IsFiniteSet(Graphs) /\ Graphs # {}
  /\ {NumSteps, MaxSends, MaxQueued} \subseteq Nat

USE DEF RelayAssumption

-----------------------------------------------------------------------------
(* The two buffers alternate.                                              *)
LEMMA Buffers ==
  \A n \in Nat : /\ n % 2 \in {0, 1} /\ (n + 1) % 2 \in {0, 1}
                 /\ (n + 1) % 2 # n % 2 /\ ((n + 1) + 1) % 2 = n % 2
  OBVIOUS

(* As no graph is two steps ahead of another, there is a slowest one.      *)
LEMMA Least ==
  ASSUME RelayAssumption, NEW s \in [Graphs -> Nat], \A g, h \in Graphs : s[g] <= s[h] + 1
  PROVE  \E g \in Graphs : \A h \in Graphs : s[g] <= s[h]
<1>1. PICK g \in Graphs : TRUE
  OBVIOUS
<1>2. CASE \A h \in Graphs : s[g] <= s[h]
  BY <1>2
<1>3. CASE \E h \in Graphs : s[h] < s[g]
  <2>1. PICK h \in Graphs : s[h] < s[g]
    BY <1>3
  <2>2. \A k \in Graphs : s[h] <= s[k]
    BY <2>1
  <2> QED BY <2>2
<1> QED BY <1>2, <1>3

RoundIsSlowest ==
  /\ Relay!Slowest \in Graphs /\ Relay!Round \in Nat
  /\ \A h \in Graphs : Relay!Round <= superstep[h] /\ superstep[h] <= Relay!Round + 1

LEMMA RoundIsLeast ==
  ASSUME RelayAssumption PROVE RelayTypes /\ LockstepInv => RoundIsSlowest
<1> SUFFICES ASSUME RelayTypes, LockstepInv PROVE RoundIsSlowest
  OBVIOUS
<1>1. superstep \in [Graphs -> Nat] /\ \A g, h \in Graphs : superstep[g] <= superstep[h] + 1
  BY DEF RelayTypes, LockstepInv, Lockstep
<1>2. \E g \in Graphs : \A h \in Graphs : superstep[g] <= superstep[h]
  BY <1>1, Least
<1>3. Relay!Slowest \in Graphs /\ \A h \in Graphs : superstep[Relay!Slowest] <= superstep[h]
  BY <1>2 DEF Relay!Slowest
<1> QED BY <1>1, <1>3 DEF Relay!Round, RoundIsSlowest

(* While a graph is in a step, it is the round's.                          *)
LEMMA StepOfRound ==
  ASSUME RelayAssumption, RelayTypes, LockstepInv
  PROVE  /\ Relay!Round \in Nat /\ \A h \in Graphs : Relay!Round <= superstep[h]
            /\ superstep[h] <= Relay!Round + 1
         /\ \A g \in Graphs : execPc[g] \in {"step", "post", "next"} => superstep[g] = Relay!Round
         /\ \A g, h \in Graphs : execPc[g] \in {"step", "post"} => superstep[h] = Relay!Round
<1>1. /\ Relay!Slowest \in Graphs /\ Relay!Round \in Nat
      /\ \A h \in Graphs : Relay!Round <= superstep[h] /\ superstep[h] <= Relay!Round + 1
  BY RoundIsLeast DEF RoundIsSlowest
<1>2. \A g, h \in Graphs : superstep[g] > superstep[h] =>
        execPc[g] \in {"pre", "done"} /\ execPc[h] \in {"next", "done"}
  BY DEF LockstepInv, Lockstep
<1>3. ASSUME NEW g \in Graphs, execPc[g] \in {"step", "post", "next"} PROVE superstep[g] = Relay!Round
  <2>1. ~ (superstep[g] > superstep[Relay!Slowest])
    BY <1>1, <1>2, <1>3
  <2> QED BY <2>1, <1>1 DEF RelayTypes, Relay!Round
<1>4. ASSUME NEW g \in Graphs, NEW h \in Graphs, execPc[g] \in {"step", "post"}
      PROVE  superstep[h] = Relay!Round
  <2>1. superstep[g] = Relay!Round
    BY <1>3, <1>4
  <2>2. ~ (superstep[h] > superstep[g])
    BY <1>2, <1>4
  <2> QED BY <2>1, <2>2, <1>1 DEF RelayTypes
<1> QED BY <1>1, <1>3, <1>4

(* So a turn goes on at the round of every graph.                          *)
LEMMA TurnOfRound ==
  ASSUME RelayAssumption, RelayInv, NEW v \in todo \cup computing
  PROVE  /\ v \in VertexIds /\ v \in vertices /\ Owner[v] \in Graphs /\ execPc[Owner[v]] = "step"
         /\ Relay!Round \in Nat /\ \A g \in Graphs : superstep[g] = Relay!Round
<1>1. v \in VertexIds /\ v \in vertices /\ Owner[v] \in Graphs /\ execPc[Owner[v]] = "step"
  BY DEF RelayInv, RelayTypes, TurnInv
<1> QED BY <1>1, StepOfRound DEF RelayInv

-----------------------------------------------------------------------------
LEMMA RelayInit ==
  ASSUME RelayAssumption PROVE Relay!Init => RelayInv
<1> SUFFICES ASSUME Relay!Init PROVE RelayInv
  OBVIOUS
<1>1. RelayTypes
  <2>1. \A v \in VertexIds : msgQueue[v] \in [{0, 1} -> Seq(Message)]
    BY DEF Relay!Init
  <2> QED BY <2>1 DEF Relay!Init, RelayTypes, RelayPcs
<1>2. LockstepInv /\ TurnInv
  BY DEF Relay!Init, LockstepInv, Lockstep, TurnInv
<1>3. ReadInv
  BY DEF Relay!Init, ReadInv, Read
<1> QED BY <1>1, <1>2, <1>3 DEF RelayInv

LEMMA ExecutorTypes ==
  ASSUME RelayAssumption, RelayInv,
         \/ Relay!PreStep \/ Relay!PostStep
         \/ \E g \in Graphs : \/ Relay!RunSteps(g) \/ Relay!StepRefused(g) \/ Relay!StepEnd(g)
                              \/ Relay!KeepRunning(g) \/ Relay!StopRunning(g)
  PROVE  RelayTypes'
<1>1. UNCHANGED Relay!graphVars /\ UNCHANGED computing
  BY DEF Relay!PreStep, Relay!PostStep, Relay!RunSteps, Relay!StepRefused, Relay!StepEnd,
         Relay!KeepRunning, Relay!StopRunning, Relay!stepVars
<1>a. superstep' \in [Graphs -> Nat]
  BY DEF Relay!PreStep, Relay!PostStep, Relay!RunSteps, Relay!StepRefused, Relay!StepEnd,
         Relay!KeepRunning, Relay!StopRunning, RelayInv, RelayTypes
<1>2. execPc' \in [Graphs -> RelayPcs]
  BY DEF Relay!PreStep, Relay!PostStep, Relay!RunSteps, Relay!StepRefused, Relay!StepEnd,
         Relay!KeepRunning, Relay!StopRunning,
         RelayInv, RelayTypes, RelayPcs
<1>3. todo' \subseteq vertices /\ failed' \subseteq Graphs
  BY DEF Relay!PreStep, Relay!PostStep, Relay!RunSteps, Relay!StepRefused, Relay!StepEnd,
         Relay!KeepRunning, Relay!StopRunning,
         Relay!stepVars, RelayInv, RelayTypes
<1> QED BY <1>1, <1>a, <1>2, <1>3 DEF RelayInv, RelayTypes, Relay!graphVars

(* What one executor does alone keeps it in step with the others.          *)
LEMMA OneExecutorLockstep ==
  ASSUME RelayAssumption, RelayInv, NEW g \in Graphs,
         \/ Relay!RunSteps(g) \/ Relay!StepRefused(g) \/ Relay!StepEnd(g)
            \/ Relay!KeepRunning(g) \/ Relay!StopRunning(g)
  PROVE  LockstepInv'
<1> SUFFICES ASSUME NEW h \in Graphs, NEW k \in Graphs PROVE Lockstep(h, k)'
  BY DEF LockstepInv
<1> DEFINE same(x) == superstep'[x] = superstep[x] /\ execPc'[x] = execPc[x]
<1>1. /\ superstep \in [Graphs -> Nat] /\ execPc \in [Graphs -> RelayPcs]
      /\ superstep' \in [Graphs -> Nat] /\ execPc' \in [Graphs -> RelayPcs]
  BY ExecutorTypes DEF RelayInv, RelayTypes
<1>2. \A x \in Graphs : x # g => same(x)
  BY <1>1 DEF Relay!RunSteps, Relay!StepRefused, Relay!StepEnd, Relay!KeepRunning, Relay!StopRunning
<1>3. Lockstep(h, k) /\ Lockstep(k, h) /\ Lockstep(h, g) /\ Lockstep(g, h) /\ Lockstep(g, k)
      /\ Lockstep(k, g) /\ Lockstep(h, h) /\ Lockstep(g, g)
  BY DEF RelayInv, LockstepInv
<1>4. CASE Relay!RunSteps(g)
  <2>1. /\ execPc[g] = "building" /\ execPc'[g] \in {"pre", "done"}
        /\ superstep[g] = 0 /\ superstep'[g] = 0
    BY <1>1, <1>3, <1>4 DEF Relay!RunSteps, Lockstep
  <2> HIDE DEF same
  <2> QED BY <2>1, <1>1, <1>2, <1>3 DEF Lockstep, same
<1>5. CASE Relay!StepRefused(g) \/ Relay!StopRunning(g)
  <2>1. execPc[g] \in {"pre", "next"} /\ execPc'[g] = "done" /\ superstep'[g] = superstep[g]
    BY <1>1, <1>5 DEF Relay!StepRefused, Relay!StopRunning
  <2> HIDE DEF same
  <2> QED BY <2>1, <1>1, <1>2, <1>3 DEF Lockstep, same
<1>6. CASE Relay!StepEnd(g)
  <2>1. execPc[g] = "step" /\ execPc'[g] \in {"post", "done"} /\ superstep'[g] = superstep[g]
    BY <1>1, <1>6 DEF Relay!StepEnd
  <2> HIDE DEF same
  <2> QED BY <2>1, <1>1, <1>2, <1>3 DEF Lockstep, same
<1>7. CASE Relay!KeepRunning(g)
  <2>1. /\ execPc[g] = "next" /\ execPc'[g] \in {"pre", "done"}
        /\ superstep'[g] = superstep[g] + 1
    BY <1>1, <1>7 DEF Relay!KeepRunning
  <2> HIDE DEF same
  <2> QED BY <2>1, <1>1, <1>2, <1>3 DEF Lockstep, same
<1> QED BY <1>4, <1>5, <1>6, <1>7

LEMMA AllExecutorsLockstep ==
  ASSUME RelayAssumption, RelayInv, Relay!PreStep \/ Relay!PostStep PROVE LockstepInv'
<1> SUFFICES ASSUME NEW h \in Graphs, NEW k \in Graphs PROVE Lockstep(h, k)'
  BY DEF LockstepInv
<1>1. superstep' = superstep /\ superstep \in [Graphs -> Nat]
  BY DEF Relay!PreStep, Relay!PostStep, RelayInv, RelayTypes
<1>2. Lockstep(h, k) /\ Lockstep(k, h)
  BY DEF RelayInv, LockstepInv
<1>3. /\ execPc[h] = execPc[k] /\ execPc[h] \in {"pre", "post"}
      /\ execPc'[h] = execPc'[k] /\ execPc'[h] \in {"step", "next"}
  BY DEF Relay!PreStep, Relay!PostStep
<1> QED BY <1>1, <1>2, <1>3 DEF Lockstep

LEMMA ExecutorTurns ==
  ASSUME RelayAssumption, RelayInv,
         \/ Relay!PreStep \/ Relay!PostStep
         \/ \E g \in Graphs : \/ Relay!RunSteps(g) \/ Relay!StepRefused(g) \/ Relay!StepEnd(g)
                              \/ Relay!KeepRunning(g) \/ Relay!StopRunning(g)
  PROVE  TurnInv'
<1>1. /\ execPc \in [Graphs -> RelayPcs] /\ execPc' \in [Graphs -> RelayPcs]
      /\ vertices \subseteq VertexIds /\ todo \subseteq vertices
      /\ computing \subseteq vertices /\ failed \subseteq Graphs
  BY ExecutorTypes DEF RelayInv, RelayTypes
<1>2. CASE Relay!PreStep
  <2>1. computing = {}
    BY <1>1, <1>2 DEF Relay!PreStep, RelayInv, TurnInv
  <2> QED BY <2>1, <1>1, <1>2 DEF Relay!PreStep, TurnInv
<1>3. CASE Relay!PostStep
  <2>1. todo \cup computing = {} /\ failed = {}
    BY <1>1, <1>3 DEF Relay!PostStep, RelayInv, TurnInv
  <2> QED BY <2>1, <1>1, <1>3 DEF Relay!PostStep, TurnInv, Relay!stepVars
<1>4. ASSUME NEW g \in Graphs,
             \/ Relay!RunSteps(g) \/ Relay!StepRefused(g) \/ Relay!StepEnd(g)
                \/ Relay!KeepRunning(g) \/ Relay!StopRunning(g)
      PROVE  TurnInv'
  <2>1. UNCHANGED Relay!stepVars /\ (execPc[g] = "step" =>
          (todo \cup computing) \cap Relay!Of(g) = {})
    BY <1>4
       DEF Relay!RunSteps, Relay!StepRefused, Relay!StepEnd, Relay!KeepRunning, Relay!StopRunning
  <2>2. \A h \in Graphs : h # g => execPc'[h] = execPc[h]
    BY <1>1, <1>4
       DEF Relay!RunSteps, Relay!StepRefused, Relay!StepEnd, Relay!KeepRunning, Relay!StopRunning
  <2>3. execPc'[g] \in {"pre", "done"} \/ (execPc'[g] = "post" /\ g \notin failed)
    BY <1>1, <1>4
       DEF Relay!RunSteps, Relay!StepRefused, Relay!StepEnd, Relay!KeepRunning, Relay!StopRunning
  <2>4. \A v \in todo \cup computing : execPc'[Owner[v]] = "step"
    BY <2>1, <2>2, <1>1 DEF RelayInv, TurnInv, Relay!Of
  <2>5. \A h \in failed : execPc'[h] \in {"building", "pre", "step", "done"}
    BY <2>2, <2>3, <1>1 DEF RelayInv, TurnInv
  <2>6. \A h \in Graphs : execPc'[h] = "next" => failed = {}
    BY <2>2, <2>3, <1>1 DEF RelayInv, TurnInv
  <2> QED BY <2>1, <2>4, <2>5, <2>6 DEF TurnInv, RelayInv, Relay!stepVars
<1> QED BY <1>2, <1>3, <1>4

LEMMA ExecutorReads ==
  ASSUME RelayAssumption, RelayInv,
         \/ Relay!PreStep \/ Relay!PostStep
         \/ \E g \in Graphs : \/ Relay!RunSteps(g) \/ Relay!StepRefused(g) \/ Relay!StepEnd(g)
                              \/ Relay!KeepRunning(g) \/ Relay!StopRunning(g)
  PROVE  ReadInv'
<1>1. /\ UNCHANGED Relay!graphVars /\ execPc \in [Graphs -> RelayPcs] /\ superstep \in [Graphs -> Nat]
      /\ \A v \in VertexIds \ vertices : \A b \in {0, 1} : msgQueue[v][b] = <<>>
  BY DEF Relay!PreStep, Relay!PostStep, Relay!RunSteps, Relay!StepRefused, Relay!StepEnd,
         Relay!KeepRunning, Relay!StopRunning,
         RelayInv, RelayTypes, ReadInv
<1>2. ASSUME NEW h \in Graphs, Relay!PreStep PROVE Read(h)'
  <2>1. todo' = vertices /\ superstep' = superstep
    BY <1>2 DEF Relay!PreStep
  <2>2. superstep[h] % 2 \in {0, 1}
    BY <1>1, Buffers
  <2> QED BY <2>1, <2>2, <1>1 DEF Read, Relay!graphVars
<1>3. ASSUME NEW h \in Graphs, Relay!PostStep PROVE Read(h)'
  BY <1>1, <1>3 DEF Relay!PostStep, Read, Relay!graphVars, Relay!stepVars, RelayInv, ReadInv
<1>4. ASSUME NEW g \in Graphs, NEW h \in Graphs,
             \/ Relay!RunSteps(g) \/ Relay!StepRefused(g) \/ Relay!StepEnd(g)
                \/ Relay!KeepRunning(g) \/ Relay!StopRunning(g)
      PROVE  Read(h)'
  <2>1. UNCHANGED Relay!stepVars
    BY <1>4
       DEF Relay!RunSteps, Relay!StepRefused, Relay!StepEnd, Relay!KeepRunning, Relay!StopRunning
  <2>2. CASE h = g
    <3>1. execPc'[g] \in {"pre", "done"} \/ (execPc'[g] = "post" /\ execPc[g] = "step"
                                              /\ superstep' = superstep)
      BY <1>1, <1>4
         DEF Relay!RunSteps, Relay!StepRefused, Relay!StepEnd, Relay!KeepRunning,
             Relay!StopRunning
    <3> QED BY <3>1, <2>1, <2>2, <1>1 DEF Read, Relay!graphVars, Relay!stepVars, RelayInv, ReadInv
  <2>3. CASE h # g
    <3>1. execPc'[h] = execPc[h] /\ superstep'[h] = superstep[h]
      BY <2>3, <1>1, <1>4
         DEF Relay!RunSteps, Relay!StepRefused, Relay!StepEnd, Relay!KeepRunning,
             Relay!StopRunning
    <3> QED BY <3>1, <2>1, <1>1 DEF Read, Relay!graphVars, Relay!stepVars, RelayInv, ReadInv
  <2> QED BY <2>2, <2>3
<1>5. \A h \in Graphs : Read(h)'
  BY <1>2, <1>3, <1>4
<1> QED BY <1>1, <1>5 DEF ReadInv, Relay!graphVars

-----------------------------------------------------------------------------
(* What a vertex does in its turn leaves the executors where they are.     *)
VertexStep(v) ==
  \/ Relay!AddVertex(v) \/ Relay!Begin(v) \/ Relay!Receive(v) \/ Relay!Freeze(v)
  \/ Relay!ComputeOK(v) \/ Relay!ComputeFailed(v)
  \/ \E dst \in VertexIds : Relay!SendMessage(v, dst)

LEMMA VertexSame ==
  ASSUME RelayAssumption, NEW v \in VertexIds, VertexStep(v) PROVE UNCHANGED <<superstep, execPc>>
  BY DEF VertexStep, Relay!AddVertex, Relay!Begin, Relay!Receive, Relay!Freeze, Relay!ComputeOK,
         Relay!ComputeFailed, Relay!SendMessage,
         Relay!graphVars

LEMMA VertexTypes ==
  ASSUME RelayAssumption, RelayInv, NEW v \in VertexIds, VertexStep(v) PROVE RelayTypes'
<1>1. /\ vertices \subseteq VertexIds /\ active \in [VertexIds -> BOOLEAN]
      /\ todo \subseteq vertices /\ computing \subseteq vertices /\ failed \subseteq Graphs
      /\ Owner[v] \in Graphs
  BY DEF RelayInv, RelayTypes
<1>2. vertices' \subseteq VertexIds /\ active' \in [VertexIds -> BOOLEAN]
  BY <1>1
     DEF VertexStep, Relay!AddVertex, Relay!Begin, Relay!Receive, Relay!Freeze, Relay!ComputeOK,
         Relay!ComputeFailed, Relay!SendMessage,
              Relay!graphVars
<1>3. todo' \subseteq vertices' /\ computing' \subseteq vertices' /\ failed' \subseteq Graphs
  BY <1>1
     DEF VertexStep, Relay!AddVertex, Relay!Begin, Relay!Receive, Relay!Freeze, Relay!ComputeOK,
         Relay!ComputeFailed, Relay!SendMessage,
              Relay!graphVars, Relay!stepVars
<1>4. superstep' \in [Graphs -> Nat] /\ execPc' \in [Graphs -> RelayPcs]
  BY VertexSame DEF RelayInv, RelayTypes
<1>5. msgQueue' \in [VertexIds -> [{0, 1} -> Seq(Message)]]
  <2>1. /\ msgQueue \in [VertexIds -> [{0, 1} -> Seq(Message)]]
        /\ superstep[Owner[v]] \in Nat /\ Relay!current(v) \in {0, 1}
    BY <1>1, Buffers DEF RelayInv, RelayTypes, Relay!current
  <2>2. CASE Relay!Receive(v)
    <3>1. DEFINE q == msgQueue[v][Relay!current(v)]
    <3>2. q \in Seq(Message) /\ q # <<>>
      BY <2>1, <2>2 DEF Relay!Receive
    <3>3. SubSeq(q, 1, Len(q) - 1) \in Seq(Message)
      <4> HIDE DEF q
      <4> QED BY <3>2
    <3> QED BY <3>3, <2>1, <2>2 DEF Relay!Receive
  <2>3. CASE Relay!ComputeOK(v)
    <3>1. <<>> \in Seq(Message)
      OBVIOUS
    <3> QED BY <3>1, <2>1, <2>3 DEF Relay!ComputeOK
  <2>4. ASSUME NEW dst \in VertexIds, Relay!SendMessage(v, dst)
        PROVE  msgQueue' \in [VertexIds -> [{0, 1} -> Seq(Message)]]
    <3>1. Relay!next(dst) \in {0, 1}
      BY Buffers DEF Relay!next, RelayInv, RelayTypes
    <3>2. DEFINE q == msgQueue[dst][Relay!next(dst)]
                 m == [from |-> v, sent |-> superstep[Owner[v]]]
    <3>3. q \in Seq(Message) /\ m \in Message
      BY <2>1, <3>1 DEF Message
    <3>4. Append(q, m) \in Seq(Message)
      <4> HIDE DEF q, m
      <4> QED BY <3>3
    <3> QED BY <3>1, <3>4, <2>1, <2>4 DEF Relay!SendMessage
  <2> QED BY <2>1, <2>2, <2>3, <2>4
             DEF VertexStep, Relay!AddVertex, Relay!Begin, Relay!Freeze, Relay!ComputeFailed,
                 Relay!graphVars
<1> QED BY <1>2, <1>3, <1>4, <1>5 DEF RelayTypes

LEMMA VertexTurns ==
  ASSUME RelayAssumption, RelayInv, NEW v \in VertexIds, VertexStep(v) PROVE TurnInv'
<1>1. Owner[v] \in Graphs
  OBVIOUS
<1>2. v \in computing => execPc[Owner[v]] = "step"
  BY DEF RelayInv, TurnInv
<1>3. CASE Relay!ComputeFailed(v)
  <2>1. \A g \in Graphs : execPc[g] # "next"
    BY <1>1, <1>2, <1>3 DEF Relay!ComputeFailed, RelayInv, LockstepInv, Lockstep
  <2> QED BY <2>1, <1>2, <1>3, VertexSame DEF Relay!ComputeFailed, RelayInv, TurnInv
<1>4. CASE ~ Relay!ComputeFailed(v)
  BY <1>4, VertexSame
     DEF VertexStep, Relay!AddVertex, Relay!Begin, Relay!Receive, Relay!Freeze, Relay!ComputeOK,
         Relay!SendMessage, Relay!stepVars, RelayInv, TurnInv
<1> QED BY <1>3, <1>4

LEMMA VertexReads ==
  ASSUME RelayAssumption, RelayInv, NEW v \in VertexIds, VertexStep(v) PROVE ReadInv'
<1>1. /\ superstep \in [Graphs -> Nat] /\ Owner[v] \in Graphs /\ UNCHANGED <<superstep, execPc>>
      /\ msgQueue \in [VertexIds -> [{0, 1} -> Seq(Message)]] /\ active \in [VertexIds -> BOOLEAN]
      /\ \A x \in VertexIds \ vertices : \A b \in {0, 1} : msgQueue[x][b] = <<>>
  BY VertexSame DEF RelayInv, RelayTypes, ReadInv
<1>2. Relay!current(v) \in {0, 1}
  BY <1>1, Buffers DEF Relay!current
<1>3. \A g \in Graphs : Read(g) /\ superstep[g] % 2 \in {0, 1}
  BY <1>1, Buffers DEF RelayInv, ReadInv
<1>4. v \in todo \cup computing => v \in vertices /\ \A g \in Graphs : superstep[g] = Relay!Round
  BY TurnOfRound
<1>5. v \in todo \cup computing => \A g \in Graphs : superstep[g] % 2 = Relay!current(v)
  BY <1>1, <1>4 DEF Relay!current
<1>6. CASE Relay!AddVertex(v) \/ Relay!Freeze(v)
  <2>1. vertices \subseteq vertices' /\ UNCHANGED <<msgQueue, todo, computing, failed>>
    BY <1>6 DEF Relay!AddVertex, Relay!Freeze, Relay!stepVars
  <2> QED BY <2>1, <1>1, <1>3 DEF ReadInv, Read
<1>7. CASE Relay!Begin(v)
  <2>1. /\ UNCHANGED <<vertices, msgQueue, failed>> /\ v \in todo /\ todo' = todo \ {v}
        /\ computing \subseteq computing'
        /\ msgQueue[v][Relay!current(v)] # <<>> => v \in computing'
    BY <1>7 DEF Relay!Begin
  <2>2. ASSUME NEW g \in Graphs PROVE Read(g)'
    <3>1. superstep[g] % 2 = Relay!current(v)
      BY <2>1, <1>5
    <3> QED BY <2>1, <3>1, <1>1, <1>3 DEF Read
  <2> QED BY <2>1, <2>2, <1>1 DEF ReadInv
<1>8. CASE Relay!Receive(v) \/ Relay!ComputeOK(v)
  <2>1. /\ UNCHANGED <<vertices, failed, todo>> /\ v \in computing
        /\ \A x \in VertexIds : \A b \in {0, 1} : (x # v \/ b # Relay!current(v)) =>
             msgQueue'[x][b] = msgQueue[x][b]
    BY <1>1, <1>2, <1>8 DEF Relay!Receive, Relay!ComputeOK, Relay!stepVars
  <2>2. \A x \in computing : x # v => x \in computing'
    BY <1>8 DEF Relay!Receive, Relay!ComputeOK, Relay!stepVars
  <2>3. v \in computing' \/ msgQueue'[v][Relay!current(v)] = <<>>
    BY <1>1, <1>2, <1>8 DEF Relay!Receive, Relay!ComputeOK, Relay!stepVars
  <2>4. ASSUME NEW g \in Graphs PROVE Read(g)'
    <3>1. superstep[g] % 2 = Relay!current(v)
      BY <2>1, <1>5
    <3> QED BY <2>1, <2>2, <2>3, <3>1, <1>1, <1>2, <1>3 DEF Read
  <2>5. \A x \in VertexIds \ vertices : \A b \in {0, 1} : msgQueue'[x][b] = <<>>
    BY <2>1, <1>1, <1>4
  <2> QED BY <2>1, <2>4, <2>5 DEF ReadInv
<1>9. CASE Relay!ComputeFailed(v)
  <2>1. /\ UNCHANGED <<vertices, msgQueue, todo>> /\ failed \subseteq failed' /\ Owner[v] \in failed'
        /\ computing' = computing \ {v}
    BY <1>9 DEF Relay!ComputeFailed, Relay!graphVars
  <2> QED BY <2>1, <1>1, <1>3 DEF ReadInv, Read
<1>10. ASSUME NEW dst \in VertexIds, Relay!SendMessage(v, dst) PROVE ReadInv'
  <2>1. v \in computing /\ dst \in vertices /\ UNCHANGED <<vertices, todo, computing, failed>>
    BY <1>10 DEF Relay!SendMessage, Relay!stepVars
  <2>2. Owner[dst] \in Graphs
    OBVIOUS
  <2>3. Relay!next(dst) \in {0, 1} /\ \A g \in Graphs : Relay!next(dst) # superstep[g] % 2
    BY <2>1, <2>2, <1>1, <1>4, Buffers DEF Relay!next
  <2>4. \A x \in VertexIds : \A b \in {0, 1} : (x # dst \/ b # Relay!next(dst)) =>
          msgQueue'[x][b] = msgQueue[x][b]
    BY <1>1, <2>3, <1>10 DEF Relay!SendMessage
  <2>5. \A g \in Graphs : Read(g)'
    BY <2>1, <2>3, <2>4, <1>1, <1>3 DEF Read
  <2>6. \A x \in VertexIds \ vertices : \A b \in {0, 1} : msgQueue'[x][b] = <<>>
    BY <2>1, <2>4, <1>1
  <2> QED BY <2>1, <2>5, <2>6 DEF ReadInv
<1> QED BY <1>6, <1>7, <1>8, <1>9, <1>10 DEF VertexStep

LEMMA RelayStep ==
  ASSUME RelayAssumption PROVE RelayInv /\ [Relay!Next]_Relay!vars => RelayInv'
<1> SUFFICES ASSUME RelayInv, [Relay!Next]_Relay!vars PROVE RelayInv'
  OBVIOUS
<1>1. CASE Relay!PreStep \/ Relay!PostStep
  BY <1>1, ExecutorTypes, AllExecutorsLockstep, ExecutorTurns, ExecutorReads DEF RelayInv
<1>2. ASSUME NEW g \in Graphs,
             \/ Relay!RunSteps(g) \/ Relay!StepRefused(g) \/ Relay!StepEnd(g)
                \/ Relay!KeepRunning(g) \/ Relay!StopRunning(g)
      PROVE  RelayInv'
  BY <1>2, ExecutorTypes, OneExecutorLockstep, ExecutorTurns, ExecutorReads DEF RelayInv
<1>3. ASSUME NEW v \in VertexIds, VertexStep(v) PROVE RelayInv'
  <2>1. LockstepInv'
    BY <1>3, VertexSame DEF RelayInv, LockstepInv, Lockstep
  <2> QED BY <1>3, <2>1, VertexTypes, VertexTurns, VertexReads DEF RelayInv
<1>4. CASE UNCHANGED Relay!vars
  BY <1>4
     DEF Relay!vars, Relay!graphVars, Relay!stepVars, RelayInv, RelayTypes, LockstepInv, Lockstep,
         TurnInv, ReadInv, Read
<1> QED BY <1>1, <1>2, <1>3, <1>4 DEF Relay!Next, VertexStep

-----------------------------------------------------------------------------
(* The variables of BspSync, as BspRelay represents them.                  *)
RelayAwake  == {v \in VertexIds : active[v]}
RelayInbox  == [v \in VertexIds |-> msgQueue[v][Relay!Round % 2]]
RelayOutbox == [v \in VertexIds |-> msgQueue[v][(Relay!Round + 1) % 2]]

(* As long as no graph goes on to its next superstep, the round is the     *)
(* same.                                                                   *)
LEMMA RoundSame ==
  ASSUME RelayAssumption PROVE superstep' = superstep => Relay!Round' = Relay!Round
  BY DEF Relay!Round, Relay!Slowest

LEMMA OneGraphSame ==
  ASSUME RelayAssumption, UNCHANGED Relay!graphVars, UNCHANGED Relay!stepVars, Relay!Round' = Relay!Round
  PROVE  UNCHANGED Relay!Sync!vars
<1>1. RelayAwake' = RelayAwake /\ RelayInbox' = RelayInbox /\ RelayOutbox' = RelayOutbox
  BY DEF Relay!graphVars, RelayAwake, RelayInbox, RelayOutbox
<1> QED BY <1>1
           DEF Relay!graphVars, Relay!stepVars, RelayAwake, RelayInbox, RelayOutbox,
               Relay!Sync!vars

LEMMA OneGraphInit ==
  ASSUME RelayAssumption PROVE Relay!Init => Relay!Sync!Init
<1> SUFFICES ASSUME Relay!Init PROVE Relay!Sync!Init
  OBVIOUS
<1>1. Relay!Slowest \in Graphs
  BY RelayInit, RoundIsLeast DEF RelayInv, RoundIsSlowest
<1>2. Relay!Round = 0
  BY <1>1 DEF Relay!Init, Relay!Round
<1>3. Relay!Round % 2 \in {0, 1} /\ (Relay!Round + 1) % 2 \in {0, 1}
  BY <1>2, Buffers
<1>4. RelayInbox = Relay!Sync!Nothing /\ RelayOutbox = Relay!Sync!Nothing /\ RelayAwake = {}
  BY <1>3 DEF Relay!Init, RelayInbox, RelayOutbox, RelayAwake, Relay!Sync!Nothing
<1> QED BY <1>2, <1>4 DEF Relay!Init, RelayInbox, RelayOutbox, RelayAwake, Relay!Sync!Init

(* The graphs begin a round together.                                      *)
LEMMA OneGraphBegin == ASSUME RelayAssumption, RelayInv, Relay!PreStep PROVE Relay!Sync!BeginRound
<1>1. todo = {} /\ computing = {}
  BY DEF Relay!PreStep, RelayInv, RelayTypes, TurnInv
<1>2. Relay!Round' = Relay!Round /\ UNCHANGED Relay!graphVars
  BY RoundSame DEF Relay!PreStep
<1>3. RelayAwake' = RelayAwake /\ RelayInbox' = RelayInbox /\ RelayOutbox' = RelayOutbox
  BY <1>2 DEF Relay!graphVars, RelayAwake, RelayInbox, RelayOutbox
<1> QED BY <1>1, <1>2, <1>3
        DEF Relay!PreStep, Relay!graphVars, RelayAwake, RelayInbox, RelayOutbox,
            Relay!Sync!BeginRound, Relay!Sync!Resting

(* The last graph to go on ends the round.                                 *)
LEMMA OneGraphKeepRunning ==
  ASSUME RelayAssumption, RelayInv, NEW g \in Graphs, Relay!KeepRunning(g)
  PROVE  Relay!Sync!NextRound \/ UNCHANGED Relay!Sync!vars
<1>1. RoundIsSlowest
  BY RoundIsLeast DEF RelayInv
<1>2. LockstepInv' /\ RelayTypes'
  BY OneExecutorLockstep, ExecutorTypes
<1>3. RoundIsSlowest'
  BY <1>2, RoundIsLeast, PTL
<1>4. execPc[g] = "next" /\ superstep[g] = Relay!Round /\ superstep'[g] = Relay!Round + 1
  BY <1>1, StepOfRound DEF RelayInv, RelayTypes, Relay!KeepRunning
<1>5. \A h \in Graphs : h # g => superstep'[h] = superstep[h]
  BY DEF RelayInv, RelayTypes, Relay!KeepRunning
<1>6. UNCHANGED Relay!graphVars /\ UNCHANGED Relay!stepVars
  BY DEF Relay!KeepRunning
<1>7. CASE \E h \in Graphs : h # g /\ superstep[h] = Relay!Round
  <2>1. Relay!Round' = Relay!Round
    BY <1>1, <1>3, <1>4, <1>5, <1>7, <1>2 DEF RoundIsSlowest, RelayTypes, Relay!Round
  <2> QED BY <2>1, <1>6, OneGraphSame
<1>8. CASE \A h \in Graphs : h # g => superstep[h] # Relay!Round
  <2>1. Relay!Round' = Relay!Round + 1
    BY <1>1, <1>3, <1>4, <1>5, <1>8, <1>2 DEF RoundIsSlowest, RelayTypes, Relay!Round
  <2>2. todo = {} /\ computing = {} /\ failed = {}
    BY <1>4 DEF RelayInv, RelayTypes, LockstepInv, Lockstep, TurnInv
  <2>3. Relay!Round \in Nat /\ \A v \in VertexIds : msgQueue[v][Relay!Round % 2] = <<>>
    BY <1>1, <1>4, <2>2 DEF RelayInv, ReadInv, Read, RoundIsSlowest
  <2>4. (Relay!Round' + 1) % 2 = Relay!Round % 2 /\ Relay!Round' % 2 = (Relay!Round + 1) % 2
    BY <2>1, <2>3, Buffers
  <2>5. RelayInbox' = RelayOutbox /\ RelayOutbox' = Relay!Sync!Nothing /\ RelayAwake' = RelayAwake
    BY <2>3, <2>4, <1>6 DEF Relay!graphVars, RelayInbox, RelayOutbox, RelayAwake, Relay!Sync!Nothing
  <2>6. Relay!Sync!NextRound
    BY <2>1, <2>2, <2>5, <1>6
       DEF Relay!graphVars, Relay!stepVars, RelayInbox, RelayOutbox, RelayAwake,
           Relay!Sync!NextRound, Relay!Sync!Resting
  <2> QED BY <2>6
<1> QED BY <1>7, <1>8

LEMMA OneGraphExecutor ==
  ASSUME RelayAssumption, RelayInv,
         \/ Relay!PreStep \/ Relay!PostStep
         \/ \E g \in Graphs : \/ Relay!RunSteps(g) \/ Relay!StepRefused(g) \/ Relay!StepEnd(g)
                              \/ Relay!KeepRunning(g) \/ Relay!StopRunning(g)
  PROVE  Relay!Sync!Next \/ UNCHANGED Relay!Sync!vars
<1>1. CASE Relay!PreStep
  BY <1>1, OneGraphBegin DEF Relay!Sync!Next
<1>2. CASE Relay!PostStep
  BY <1>2, OneGraphSame, RoundSame DEF Relay!PostStep
<1>3. ASSUME NEW g \in Graphs, Relay!KeepRunning(g) PROVE Relay!Sync!Next \/ UNCHANGED Relay!Sync!vars
  BY <1>3, OneGraphKeepRunning DEF Relay!Sync!Next
<1>4. ASSUME NEW g \in Graphs, Relay!RunSteps(g) \/ Relay!StepRefused(g) \/ Relay!StepEnd(g)
             \/ Relay!StopRunning(g)
      PROVE  UNCHANGED Relay!Sync!vars
  <2>1. superstep' = superstep
    BY <1>4
       DEF Relay!RunSteps, Relay!StepRefused, Relay!StepEnd, Relay!StopRunning, RelayInv,
           RelayTypes, LockstepInv, Lockstep
  <2> QED BY <2>1, <1>4, OneGraphSame, RoundSame
             DEF Relay!RunSteps, Relay!StepRefused, Relay!StepEnd, Relay!StopRunning
<1> QED BY <1>1, <1>2, <1>3, <1>4

-----------------------------------------------------------------------------
(* A turn, or part of one, is a step of BspSync.                           *)
LEMMA OneGraphTurn ==
  ASSUME RelayAssumption, NEW v \in VertexIds,
         \/ Relay!Sync!Join(v) \/ Relay!Sync!StartTurn(v) \/ Relay!Sync!Skip(v)
            \/ Relay!Sync!EndTurn(v) \/ Relay!Sync!Fail(v)
         \/ Relay!Sync!Read(v) \/ Relay!Sync!Sleep(v)
            \/ \E dst \in VertexIds : Relay!Sync!Send(v, dst)
  PROVE  Relay!Sync!Next
  BY DEF Relay!Sync!Next

LEMMA OneGraphVertex ==
  ASSUME RelayAssumption, RelayInv, NEW v \in VertexIds, VertexStep(v) PROVE Relay!Sync!Next
<1>1. /\ msgQueue \in [VertexIds -> [{0, 1} -> Seq(Message)]] /\ active \in [VertexIds -> BOOLEAN]
      /\ Owner[v] \in Graphs /\ UNCHANGED <<superstep, execPc>>
  BY VertexSame DEF RelayInv, RelayTypes
<1>2. Relay!Round' = Relay!Round /\ Relay!Round \in Nat
  BY <1>1, RoundSame, StepOfRound DEF RelayInv
<1>3. Relay!Round % 2 \in {0, 1} /\ (Relay!Round + 1) % 2 \in {0, 1}
      /\ (Relay!Round + 1) % 2 # Relay!Round % 2
  BY <1>2, Buffers
<1>4. v \in todo \cup computing => Relay!current(v) = Relay!Round % 2
  BY <1>1, TurnOfRound DEF Relay!current
<1>5. CASE Relay!AddVertex(v)
  <2>1. todo = {} /\ computing = {}
    BY <1>1, <1>5 DEF Relay!AddVertex, RelayInv, RelayTypes, LockstepInv, Lockstep, TurnInv
  <2>2. RelayInbox' = RelayInbox /\ RelayOutbox' = RelayOutbox /\ RelayAwake' = RelayAwake \cup {v}
    BY <1>1, <1>2, <1>5 DEF Relay!AddVertex, RelayInbox, RelayOutbox, RelayAwake
  <2>3. Relay!Sync!Join(v)
    BY <2>1, <2>2, <1>2, <1>5
       DEF Relay!AddVertex, Relay!stepVars, RelayInbox, RelayOutbox, RelayAwake, Relay!Sync!Join,
           Relay!Sync!Resting
  <2> QED BY <2>3, OneGraphTurn
<1>6. CASE Relay!Begin(v)
  <2>1. RelayInbox' = RelayInbox /\ RelayOutbox' = RelayOutbox
        /\ RelayInbox[v] = msgQueue[v][Relay!current(v)]
    BY <1>2, <1>4, <1>6 DEF Relay!Begin, RelayInbox, RelayOutbox
  <2>2. (v \in RelayAwake) = active[v]
    BY <1>1 DEF RelayAwake
  <2>3. CASE active[v] \/ msgQueue[v][Relay!current(v)] # <<>>
    <3>1. RelayAwake' = RelayAwake \cup {v}
      BY <1>1, <1>6, <2>3 DEF Relay!Begin, RelayAwake
    <3>2. Relay!Sync!StartTurn(v)
      BY <2>1, <2>2, <2>3, <3>1, <1>2, <1>6
         DEF Relay!Begin, RelayInbox, RelayOutbox, RelayAwake, Relay!Sync!StartTurn
    <3> QED BY <3>2, OneGraphTurn
  <2>4. CASE ~ (active[v] \/ msgQueue[v][Relay!current(v)] # <<>>)
    <3>1. RelayAwake' = RelayAwake
      BY <1>6, <2>4 DEF Relay!Begin, RelayAwake
    <3>2. Relay!Sync!Skip(v)
      BY <2>1, <2>2, <2>4, <3>1, <1>2, <1>6
         DEF Relay!Begin, RelayInbox, RelayOutbox, RelayAwake, Relay!Sync!Skip
    <3> QED BY <3>2, OneGraphTurn
  <2> QED BY <2>3, <2>4
<1>7. CASE Relay!Receive(v)
  <2>1. v \in computing /\ RelayInbox[v] = msgQueue[v][Relay!current(v)]
    BY <1>4, <1>7 DEF Relay!Receive, RelayInbox
  <2>2. /\ RelayInbox' = [RelayInbox EXCEPT ![v] = SubSeq(@, 1, Len(@) - 1)]
        /\ RelayOutbox' = RelayOutbox /\ RelayAwake' = RelayAwake
    <3>1. DEFINE q == msgQueue[v][Relay!current(v)]
    <3>2. msgQueue' = [msgQueue EXCEPT ![v][Relay!Round % 2] = SubSeq(q, 1, Len(q) - 1)]
      BY <2>1, <1>4, <1>7 DEF Relay!Receive
    <3>3. RelayOutbox' = RelayOutbox /\ RelayAwake' = RelayAwake
      BY <3>2, <1>1, <1>2, <1>3, <1>7 DEF Relay!Receive, RelayOutbox, RelayAwake
    <3>4. \A x \in VertexIds :
            msgQueue'[x][Relay!Round % 2] = IF x = v THEN SubSeq(q, 1, Len(q) - 1)
            ELSE msgQueue[x][Relay!Round % 2]
      BY <3>2, <1>1, <1>3
    <3> QED BY <2>1, <3>3, <3>4, <1>2 DEF RelayInbox
  <2>3. Relay!Sync!Read(v)
    BY <2>1, <2>2, <1>2, <1>7
       DEF Relay!Receive, Relay!stepVars, RelayInbox, RelayOutbox, RelayAwake, Relay!Sync!Read
  <2> QED BY <2>3, OneGraphTurn
<1>8. CASE Relay!Freeze(v)
  <2>1. RelayInbox' = RelayInbox /\ RelayOutbox' = RelayOutbox /\ RelayAwake' = RelayAwake \ {v}
    BY <1>1, <1>2, <1>8 DEF Relay!Freeze, RelayInbox, RelayOutbox, RelayAwake
  <2>2. Relay!Sync!Sleep(v)
    BY <2>1, <1>2, <1>8
       DEF Relay!Freeze, Relay!stepVars, RelayInbox, RelayOutbox, RelayAwake, Relay!Sync!Sleep
  <2> QED BY <2>2, OneGraphTurn
<1>9. CASE Relay!ComputeOK(v)
  <2>1. /\ RelayInbox' = [RelayInbox EXCEPT ![v] = <<>>] /\ RelayOutbox' = RelayOutbox
           /\ RelayAwake' = RelayAwake
    <3>1. msgQueue' = [msgQueue EXCEPT ![v][Relay!Round % 2] = <<>>]
      BY <1>4, <1>9 DEF Relay!ComputeOK
    <3>2. RelayOutbox' = RelayOutbox /\ RelayAwake' = RelayAwake
      BY <3>1, <1>1, <1>2, <1>3, <1>9 DEF Relay!ComputeOK, RelayOutbox, RelayAwake
    <3>3. \A x \in VertexIds :
            msgQueue'[x][Relay!Round % 2] = IF x = v THEN <<>> ELSE msgQueue[x][Relay!Round % 2]
      BY <3>1, <1>1, <1>3
    <3> QED BY <3>2, <3>3, <1>2 DEF RelayInbox
  <2>2. Relay!Sync!EndTurn(v)
    BY <2>1, <1>2, <1>9 DEF Relay!ComputeOK, RelayInbox, RelayOutbox, RelayAwake, Relay!Sync!EndTurn
  <2> QED BY <2>2, OneGraphTurn
<1>10. CASE Relay!ComputeFailed(v)
  <2>1. RelayInbox' = RelayInbox /\ RelayOutbox' = RelayOutbox /\ RelayAwake' = RelayAwake
        /\ failed' # {}
    BY <1>2, <1>10 DEF Relay!ComputeFailed, Relay!graphVars, RelayInbox, RelayOutbox, RelayAwake
  <2>2. Relay!Sync!Fail(v)
    BY <2>1, <1>2, <1>10
       DEF Relay!ComputeFailed, Relay!graphVars, RelayInbox, RelayOutbox, RelayAwake,
           Relay!Sync!Fail
  <2> QED BY <2>2, OneGraphTurn
<1>11. ASSUME NEW dst \in VertexIds, Relay!SendMessage(v, dst) PROVE Relay!Sync!Next
  <2>1. v \in computing /\ dst \in vertices
    BY <1>11 DEF Relay!SendMessage
  <2>2. Relay!next(dst) = (Relay!Round + 1) % 2 /\ superstep[Owner[v]] = Relay!Round
    BY <2>1, <1>1, TurnOfRound DEF Relay!next
  <2>3. /\ RelayOutbox' = [RelayOutbox EXCEPT ![dst] = Append(@, [from |-> v, sent |-> Relay!Round])]
        /\ RelayInbox' = RelayInbox /\ RelayAwake' = RelayAwake
    BY <2>2, <1>1, <1>2, <1>3, <1>11 DEF Relay!SendMessage, RelayInbox, RelayOutbox, RelayAwake
  <2>4. Relay!Sync!Send(v, dst)
    BY <2>1, <2>3, <1>2, <1>11
       DEF Relay!SendMessage, Relay!stepVars, RelayInbox, RelayOutbox, RelayAwake, Relay!Sync!Send
  <2> QED BY <2>4, OneGraphTurn
<1> QED BY <1>5, <1>6, <1>7, <1>8, <1>9, <1>10, <1>11 DEF VertexStep

LEMMA OneGraphStep ==
  ASSUME RelayAssumption, RelayInv, [Relay!Next]_Relay!vars PROVE [Relay!Sync!Next]_Relay!Sync!vars
<1>1. CASE UNCHANGED Relay!vars
  BY <1>1, OneGraphSame, RoundSame DEF Relay!vars
<1>2. ASSUME NEW v \in VertexIds, VertexStep(v) PROVE Relay!Sync!Next
  BY <1>2, OneGraphVertex
<1> QED BY <1>1, <1>2, OneGraphExecutor DEF Relay!Next, VertexStep

-----------------------------------------------------------------------------
(* The executors keep in lockstep, turns are taken in a step only, and no  *)
(* message is left unread in a part of the graph that goes on (executor.go *)
(* 83-97, graph.go 217-226).                                               *)
THEOREM RelayInvariance ==
  ASSUME RelayAssumption PROVE Relay!Spec => []RelayInv
<1>1. Relay!Init => RelayInv
  BY RelayInit
<1>2. RelayInv /\ [Relay!Next]_Relay!vars => RelayInv'
  BY RelayStep
<1> QED BY <1>1, <1>2, PTL DEF Relay!Spec

(* Graphs that relay each other's messages and wait for each other before  *)
(* and after every step run as one graph: a message is read in the         *)
(* superstep after the one it was sent in, whichever part its sender and   *)
(* its receiver belong to, however far their supersteps are apart          *)
(* (TestMessageRelay, graph.go 217-226, executor.go 83-97).                *)
THEOREM GraphsAreOne ==
  ASSUME RelayAssumption PROVE Relay!Spec => Relay!ImplementsOneGraph
<1>1. Relay!Init => Relay!Sync!Init
  BY OneGraphInit
<1>2. RelayInv /\ [Relay!Next]_Relay!vars => [Relay!Sync!Next]_Relay!Sync!vars
  BY OneGraphStep
<1> QED BY <1>1, <1>2, RelayInvariance, PTL
           DEF Relay!Spec, Relay!ImplementsOneGraph, Relay!Sync!Spec
=============================================================================
