--------------------------- MODULE PipelineProofs ---------------------------
(***************************************************************************)
(* Proofs about Process for any pipeline: any number of stages of every    *)
(* kind, any number of goroutines in each, and any number of calls.        *)
(***************************************************************************)
EXTENDS Pipeline, TLAPS, FiniteSetTheorems

(* Which states the goroutines of each kind of stage can be in.            *)
WorkerKinds ==
  \A s \in Stages : \A w \in Pool(s) :
    workerPc[w] \in IF Dynamic(s) THEN {"off", "process", "send", "release"}
                                  ELSE {"recv", "process", "send", "done"}
StageKinds ==
  \A s \in Stages :
    stagePc[s] \in IF Fixed(s) THEN {"run", "done"}
                   ELSE IF Dynamic(s) THEN {"recv", "token", "drain", "done"}
                   ELSE {"recv", "pass", "join", "done"}

(* A channel is closed by the goroutine that wrote to it, at its end, and  *)
(* a Run that has returned leaves nobody behind.                           *)
CloseInv ==
  /\ closed[0] <=> srcPc = "done"
  /\ \A s \in Stages : closed[s] <=> stagePc[s] = "done"
  /\ \A s \in Stages : stagePc[s] = "done" =>
       \A w \in Pool(s) : workerPc[w] \in {"off", "done"}
  /\ errClosed => AllExited

(* A goroutine of a dynamic pool holds a token.                            *)
Busy(s) == {w \in Pool(s) : workerPc[w] # "off"}
TokenInv ==
  \A s \in Stages : Dynamic(s) =>
    /\ tokens[s] + drained[s] + Cardinality(Busy(s)) <= Slots(s)
    /\ calls = 1 => tokens[s] + drained[s] + Cardinality(Busy(s)) = Slots(s)

(* Where a failure shows, and what can make a payload be dropped.          *)
ErrorInv ==
  /\ failed <=> (err \/ errCh > 0)
  /\ cancelled => err \/ errClosed
  /\ dropped => failed \/ parentDone
  /\ procPc = "returned" => errClosed /\ errCh = 0

IInv == TypeOK /\ WorkerKinds /\ StageKinds /\ CloseInv /\ TokenInv /\ ErrorInv

-----------------------------------------------------------------------------
(* What the shape of a pipeline gives.                                     *)
LEMMA ShapeFacts ==
  ASSUME shape \in Shapes
  PROVE  /\ N \in Nat
         /\ \A s \in Stages : Slots(s) \in Nat \ {0}
         /\ \A s \in Stages : \A i \in 1..Slots(s) : shape.workers[s][i] \in Pool(s)
         /\ \A s \in Stages : shape.kinds[s] \in Runners
         /\ \A s \in Stages : IsFiniteSet(Pool(s))
<1>1. N \in Nat /\ \A s \in Stages : shape.kinds[s] \in Runners
  BY ShapesAssumption DEF N, Stages
<1>2. ASSUME NEW s \in Stages
      PROVE  /\ Slots(s) \in Nat \ {0} /\ IsFiniteSet(Pool(s))
             /\ \A i \in 1..Slots(s) : shape.workers[s][i] \in Pool(s)
  <2> DEFINE q == shape.workers[s]
  <2>1. q # <<>> /\ q \in Seq(Range(q))
    BY ShapesAssumption DEF Stages, N
  <2> HIDE DEF q
  <2>2. Len(q) \in Nat \ {0} /\ DOMAIN q = 1..Len(q)
    BY <2>1
  <2>3. q \in Surjection(1..Len(q), Range(q))
    BY <2>2, <2>1 DEF Surjection, Range
  <2>4. IsFiniteSet(1..Len(q))
    BY <2>2, FS_Interval
  <2>5. IsFiniteSet(Range(q))
    BY <2>3, <2>4, FS_Surjection
  <2>6. \A i \in 1..Len(q) : q[i] \in Range(q)
    BY <2>2 DEF Range
  <2> QED
    BY <2>2, <2>5, <2>6 DEF q, Slots, Pool
<1> QED
  BY <1>1, <1>2

(* Every goroutine belongs to one stage.                                   *)
LEMMA OneStage ==
  ASSUME shape \in Shapes
  PROVE  /\ \A s \in Stages : \A w \in Pool(s) : w \in Workers /\ StageOf(w) = s
         /\ \A w \in Workers : StageOf(w) \in Stages /\ w \in Pool(StageOf(w))
<1>1. \A s, t \in Stages : s # t => Pool(s) \cap Pool(t) = {}
  BY ShapesAssumption DEF Stages, N, Pool
<1>2. \A w \in Workers : StageOf(w) \in Stages /\ w \in Pool(StageOf(w))
  BY DEF Workers, StageOf
<1>3. \A s \in Stages : \A w \in Pool(s) : w \in Workers
  BY DEF Workers
<1> QED
  BY <1>1, <1>2, <1>3

(* No step changes the shape, nor what is made of it.                      *)
LEMMA SameShape ==
  ASSUME [Next]_vars
  PROVE  /\ shape' = shape
         /\ N' = N /\ Stages' = Stages /\ Workers' = Workers /\ ErrCap' = ErrCap
         /\ \A s : Pool(s)' = Pool(s) /\ Slots(s)' = Slots(s)
         /\ \A w : StageOf(w)' = StageOf(w)
<1>1. shape' = shape
  BY DEF Next, Source, Sink, Worker, StageRun, Collector, SourceNext, SourceSend,
     SourceExhausted, SourceFails, SourceCancelled, ProcessPayload, ProcessFails,
     WorkerSend, WorkerSendCancelled, WorkerExit, ReturnToken, FixedPoolReturns,
     InputEnds, ReadingCancelled, Spawn, DrainToken, DynamicPoolReturns, PassOn,
     BroadcastReturns, SinkConsumes, SinkFails, SinkExits, ContextExpires,
     ProcessAgain, CloseErrCh, CollectError, ProcessReturns, HandOver, SourceEnds,
     EmitError, Goto, RunReturns, StopReading, vars, callVars
<1> QED
  BY <1>1 DEF N, Stages, Workers, ErrCap, Pool, Slots, StageOf

(* errCh has room for an error.                                            *)
LEMMA CapPositive ==
  ASSUME shape \in Shapes
  PROVE  ErrCap \in Nat /\ ErrCap > 1
  BY ShapeFacts DEF ErrCap

(* When a dynamic pool has all its tokens back, nobody works for it.       *)
LEMMA NobodyBusy ==
  ASSUME IInv, NEW s \in Stages, Dynamic(s), AllTokensBack(s)
  PROVE  \A w \in Pool(s) : workerPc[w] = "off"
<1>1. shape \in Shapes
  BY DEF IInv, TypeOK
<1>2. IsFiniteSet(Busy(s)) /\ Cardinality(Busy(s)) \in Nat
  <2>1. IsFiniteSet(Pool(s)) /\ Busy(s) \subseteq Pool(s)
    BY <1>1, ShapeFacts DEF Busy
  <2> QED
    BY <2>1, FS_Subset, FS_CardinalityType
<1>3. /\ tokens[s] \in Nat /\ drained[s] = Slots(s) /\ Slots(s) \in Nat
      /\ tokens[s] + drained[s] + Cardinality(Busy(s)) <= Slots(s)
  BY <1>1, ShapeFacts DEF IInv, TypeOK, TokenInv, AllTokensBack
<1>4. Cardinality(Busy(s)) = 0
  BY <1>2, <1>3
<1>5. Busy(s) = {}
  BY <1>2, <1>4, FS_EmptySet
<1> QED
  BY <1>5 DEF Busy

(* Goroutines stay in the states of their kind.                            *)
LEMMA WorkerKindsStep ==
  ASSUME IInv, [Next]_vars
  PROVE  WorkerKinds'
<1>a. /\ shape \in Shapes
      /\ workerPc \in [Workers -> {"off", "recv", "process", "send", "release", "done"}]
      /\ stagePc \in [Stages -> {"run", "recv", "token", "pass", "drain", "join", "done"}]
  BY DEF IInv, TypeOK
<1>b. /\ shape' = shape /\ N' = N /\ Stages' = Stages /\ Workers' = Workers
      /\ ErrCap' = ErrCap /\ \A s : Pool(s)' = Pool(s) /\ Slots(s)' = Slots(s)
      /\ \A w : StageOf(w)' = StageOf(w)
  BY SameShape
<1>c. /\ \A s \in Stages : \A w \in Pool(s) : w \in Workers /\ StageOf(w) = s
      /\ \A w \in Workers : StageOf(w) \in Stages /\ w \in Pool(StageOf(w))
  BY <1>a, OneStage
<1>1. CASE UNCHANGED <<workerPc>>
  BY <1>1, <1>a, <1>b, <1>c DEF IInv, WorkerKinds, StageKinds, Runners, Fixed,
     Dynamic, Broadcast
<1>2. CASE SourceSend
  BY <1>2, <1>a, <1>b, <1>c DEF IInv, WorkerKinds, StageKinds, Runners, Fixed,
     Dynamic, Broadcast, SourceSend, HandOver, ctxVars, runVars, errVars, callVars
<1>3. CASE \E w \in Workers : ProcessPayload(w)
  BY <1>3, <1>a, <1>b, <1>c DEF IInv, WorkerKinds, StageKinds, Runners, Fixed,
     Dynamic, Broadcast, ProcessPayload, Goto, Continue, ctxVars, runVars, errVars,
     callVars
<1>4. CASE \E w \in Workers : ProcessFails(w)
  BY <1>4, <1>a, <1>b, <1>c DEF IInv, WorkerKinds, StageKinds, Runners, Fixed,
     Dynamic, Broadcast, ProcessFails, Goto, Leave, EmitError, ctxVars, runVars,
     errVars, callVars
<1>5. CASE \E w \in Workers : WorkerSend(w)
  BY <1>5, <1>a, <1>b, <1>c DEF IInv, WorkerKinds, StageKinds, Runners, Fixed,
     Dynamic, Broadcast, WorkerSend, HandOver, Continue, ctxVars, runVars, errVars,
     callVars
<1>6. CASE \E w \in Workers : WorkerSendCancelled(w)
  BY <1>6, <1>a, <1>b, <1>c DEF IInv, WorkerKinds, StageKinds, Runners, Fixed,
     Dynamic, Broadcast, WorkerSendCancelled, Goto, Leave, Done, ctxVars, runVars,
     errVars, callVars
<1>7. CASE \E w \in Workers : WorkerExit(w)
  BY <1>7, <1>a, <1>b, <1>c DEF IInv, WorkerKinds, StageKinds, Runners, Fixed,
     Dynamic, Broadcast, WorkerExit, Goto, ctxVars, runVars, errVars, callVars
<1>8. CASE \E w \in Workers : ReturnToken(w)
  BY <1>8, <1>a, <1>b, <1>c DEF IInv, WorkerKinds, StageKinds, Runners, Fixed,
     Dynamic, Broadcast, ReturnToken, Goto, ctxVars, runVars, errVars, callVars
<1>9. CASE \E s \in Stages : \E w \in Pool(s) : Spawn(s, w)
  BY <1>9, <1>a, <1>b, <1>c DEF IInv, WorkerKinds, StageKinds, Runners, Fixed,
     Dynamic, Broadcast, Spawn, Goto, ctxVars, runVars, errVars, callVars
<1>10. CASE \E s \in Stages : PassOn(s)
  BY <1>10, <1>a, <1>b, <1>c, ShapeFacts DEF IInv, WorkerKinds, StageKinds, Runners,
     Fixed, Dynamic, Broadcast, PassOn, Goto, ctxVars, runVars, errVars, callVars
<1>11. CASE ProcessAgain
  BY <1>11, <1>a, <1>b, <1>c DEF IInv, WorkerKinds, StageKinds, Runners, Fixed,
     Dynamic, Broadcast, ProcessAgain, FirstWorkerPc, FirstStagePc, ctxVars,
     runVars, errVars, callVars
<1>12. \/ UNCHANGED <<workerPc>>
       \/ SourceSend \/ (\E w \in Workers : ProcessPayload(w))
       \/ (\E w \in Workers : ProcessFails(w)) \/ (\E w \in Workers : WorkerSend(w))
       \/ (\E w \in Workers : WorkerSendCancelled(w)) \/ (\E w \in Workers : WorkerExit(w))
       \/ (\E w \in Workers : ReturnToken(w)) \/ (\E s \in Stages : \E w \in Pool(s) : Spawn(s, w))
       \/ (\E s \in Stages : PassOn(s)) \/ ProcessAgain
  BY DEF Next, Source, Sink, Worker, StageRun, Collector, SourceNext,
     SourceExhausted, SourceFails, SourceCancelled, FixedPoolReturns, InputEnds,
     ReadingCancelled, DrainToken, DynamicPoolReturns, BroadcastReturns,
     SinkConsumes, SinkFails, SinkExits, ContextExpires, CloseErrCh, CollectError,
     ProcessReturns, SourceEnds, EmitError, RunReturns, StopReading, vars, ctxVars,
     runVars, errVars, callVars
<1> QED
  BY <1>1, <1>2, <1>3, <1>4, <1>5, <1>6, <1>7, <1>8, <1>9, <1>10, <1>11, <1>12

(* So do the stages.                                                       *)
LEMMA StageKindsStep ==
  ASSUME IInv, [Next]_vars
  PROVE  StageKinds'
<1>a. /\ shape \in Shapes
      /\ workerPc \in [Workers -> {"off", "recv", "process", "send", "release", "done"}]
      /\ stagePc \in [Stages -> {"run", "recv", "token", "pass", "drain", "join", "done"}]
  BY DEF IInv, TypeOK
<1>b. /\ shape' = shape /\ N' = N /\ Stages' = Stages /\ Workers' = Workers
      /\ ErrCap' = ErrCap /\ \A s : Pool(s)' = Pool(s) /\ Slots(s)' = Slots(s)
      /\ \A w : StageOf(w)' = StageOf(w)
  BY SameShape
<1>c. /\ \A s \in Stages : \A w \in Pool(s) : w \in Workers /\ StageOf(w) = s
      /\ \A w \in Workers : StageOf(w) \in Stages /\ w \in Pool(StageOf(w))
  BY <1>a, OneStage
<1>1. CASE UNCHANGED <<stagePc>>
  BY <1>1, <1>a, <1>b, <1>c DEF IInv, WorkerKinds, StageKinds, Runners, Fixed,
     Dynamic, Broadcast
<1>2. CASE \E s \in Stages : FixedPoolReturns(s)
  BY <1>2, <1>a, <1>b, <1>c DEF IInv, WorkerKinds, StageKinds, Runners, Fixed,
     Dynamic, Broadcast, FixedPoolReturns, RunReturns, AllDone, ctxVars, runVars,
     errVars, callVars
<1>3. CASE \E s \in Stages : InputEnds(s)
  BY <1>3, <1>a, <1>b, <1>c DEF IInv, WorkerKinds, StageKinds, Runners, Fixed,
     Dynamic, Broadcast, InputEnds, StopReading, ctxVars, runVars, errVars, callVars
<1>4. CASE \E s \in Stages : ReadingCancelled(s)
  BY <1>4, <1>a, <1>b, <1>c DEF IInv, WorkerKinds, StageKinds, Runners, Fixed,
     Dynamic, Broadcast, ReadingCancelled, StopReading, Done, ctxVars, runVars,
     errVars, callVars
<1>5. CASE \E s \in Stages : \E w \in Pool(s) : Spawn(s, w)
  BY <1>5, <1>a, <1>b, <1>c DEF IInv, WorkerKinds, StageKinds, Runners, Fixed,
     Dynamic, Broadcast, Spawn, Goto, ctxVars, runVars, errVars, callVars
<1>6. CASE \E s \in Stages : DynamicPoolReturns(s)
  BY <1>6, <1>a, <1>b, <1>c DEF IInv, WorkerKinds, StageKinds, Runners, Fixed,
     Dynamic, Broadcast, DynamicPoolReturns, RunReturns, AllTokensBack, ctxVars,
     runVars, errVars, callVars
<1>7. CASE \E s \in Stages : PassOn(s)
  BY <1>7, <1>a, <1>b, <1>c DEF IInv, WorkerKinds, StageKinds, Runners, Fixed,
     Dynamic, Broadcast, PassOn, Goto, ctxVars, runVars, errVars, callVars
<1>8. CASE \E s \in Stages : BroadcastReturns(s)
  BY <1>8, <1>a, <1>b, <1>c DEF IInv, WorkerKinds, StageKinds, Runners, Fixed,
     Dynamic, Broadcast, BroadcastReturns, RunReturns, AllDone, ctxVars, runVars,
     errVars, callVars
<1>9. CASE SourceSend
  BY <1>9, <1>a, <1>b, <1>c, ShapeFacts DEF IInv, WorkerKinds, StageKinds, Runners,
     Fixed, Dynamic, Broadcast, SourceSend, HandOver, ctxVars, runVars, errVars,
     callVars
<1>10. CASE \E w \in Workers : WorkerSend(w)
  BY <1>10, <1>a, <1>b, <1>c, ShapeFacts DEF IInv, WorkerKinds, StageKinds, Runners,
     Fixed, Dynamic, Broadcast, WorkerSend, HandOver, Continue, ctxVars, runVars,
     errVars, callVars
<1>11. CASE ProcessAgain
  BY <1>11, <1>a, <1>b, <1>c, ShapeFacts DEF IInv, WorkerKinds, StageKinds, Runners,
     Fixed, Dynamic, Broadcast, ProcessAgain, FirstWorkerPc, FirstStagePc, ctxVars,
     runVars, errVars, callVars
<1>12. \/ UNCHANGED <<stagePc>>
       \/ (\E s \in Stages : FixedPoolReturns(s)) \/ (\E s \in Stages : InputEnds(s))
       \/ (\E s \in Stages : ReadingCancelled(s)) \/ (\E s \in Stages : \E w \in Pool(s) : Spawn(s, w))
       \/ (\E s \in Stages : DynamicPoolReturns(s)) \/ (\E s \in Stages : PassOn(s))
       \/ (\E s \in Stages : BroadcastReturns(s)) \/ SourceSend
       \/ (\E w \in Workers : WorkerSend(w)) \/ ProcessAgain
  BY DEF Next, Source, Sink, Worker, StageRun, Collector, SourceNext,
     SourceExhausted, SourceFails, SourceCancelled, ProcessPayload, ProcessFails,
     WorkerSendCancelled, WorkerExit, ReturnToken, DrainToken, SinkConsumes,
     SinkFails, SinkExits, ContextExpires, CloseErrCh, CollectError, ProcessReturns,
     SourceEnds, EmitError, Goto, vars, ctxVars, runVars, errVars, callVars
<1> QED
  BY <1>1, <1>2, <1>3, <1>4, <1>5, <1>6, <1>7, <1>8, <1>9, <1>10, <1>11, <1>12

(* A channel is closed at its writer's end only.                           *)
LEMMA CloseStep ==
  ASSUME IInv, [Next]_vars
  PROVE  CloseInv'
<1>a. /\ shape \in Shapes
      /\ workerPc \in [Workers -> {"off", "recv", "process", "send", "release", "done"}]
      /\ stagePc \in [Stages -> {"run", "recv", "token", "pass", "drain", "join", "done"}]
      /\ closed \in [0..N -> BOOLEAN]
  BY DEF IInv, TypeOK
<1>b. /\ shape' = shape /\ N' = N /\ Stages' = Stages /\ Workers' = Workers
      /\ ErrCap' = ErrCap /\ \A s : Pool(s)' = Pool(s) /\ Slots(s)' = Slots(s)
      /\ \A w : StageOf(w)' = StageOf(w)
  BY SameShape
<1>c. /\ \A s \in Stages : \A w \in Pool(s) : w \in Workers /\ StageOf(w) = s
      /\ \A w \in Workers : StageOf(w) \in Stages /\ w \in Pool(StageOf(w))
  BY <1>a, OneStage
<1>d. /\ N \in Nat /\ 0 \in 0..N
      /\ \A s \in Stages : s \in 0..N /\ s # 0
      /\ \A c \in 0..N : c < N => c + 1 \in Stages
  BY <1>a, ShapeFacts DEF Stages
<1>1. CASE UNCHANGED <<closed, srcPc, sinkPc, stagePc, workerPc, errClosed>>
  BY <1>1, <1>a, <1>b, <1>c, <1>d DEF IInv, WorkerKinds, StageKinds, CloseInv,
     TokenInv, AllExited, Fixed, Dynamic, Broadcast, Runners
<1>2. CASE SourceNext
  BY <1>2, <1>a, <1>b, <1>c, <1>d DEF IInv, WorkerKinds, StageKinds, CloseInv,
     TokenInv, AllExited, Fixed, Dynamic, Broadcast, Runners, SourceNext, ctxVars,
     runVars, errVars, callVars
<1>3. CASE SourceSend
  <2>1. CASE 0 = N /\ sinkPc = "recv"
    BY <1>3, <1>a, <1>b, <1>c, <1>d, <2>1 DEF IInv, WorkerKinds, StageKinds, CloseInv,
       TokenInv, AllExited, Fixed, Dynamic, Broadcast, Runners, SourceSend, ctxVars,
       runVars, errVars, callVars, HandOver
  <2>2. CASE 0 < N /\ Fixed(0 + 1)
    BY <1>3, <1>a, <1>b, <1>c, <1>d, <2>2 DEF IInv, WorkerKinds, StageKinds, CloseInv,
       TokenInv, AllExited, Fixed, Dynamic, Broadcast, Runners, SourceSend, ctxVars,
       runVars, errVars, callVars, HandOver
  <2>3. CASE 0 < N /\ ~Fixed(0 + 1)
    <3>1. \A s \in Stages : stagePc'[s] = "done" <=> stagePc[s] = "done"
      BY <1>3, <1>a, <1>d, <2>3 DEF SourceSend, HandOver
    <3>2. workerPc' = workerPc
      BY <1>3, <1>d, <2>3 DEF SourceSend, HandOver
    <3>3. /\ closed' = closed /\ errClosed' = errClosed
          /\ srcPc' # "done" /\ srcPc # "done"
      BY <1>3 DEF SourceSend, callVars
    <3> QED
      BY <1>b, <3>1, <3>2, <3>3 DEF IInv, CloseInv, AllExited
  <2> QED
    BY <1>3, <2>1, <2>2, <2>3 DEF SourceSend, HandOver
<1>4. CASE SourceExhausted
  BY <1>4, <1>a, <1>b, <1>c, <1>d DEF IInv, WorkerKinds, StageKinds, CloseInv,
     TokenInv, AllExited, Fixed, Dynamic, Broadcast, Runners, SourceExhausted,
     SourceEnds, ctxVars, runVars, errVars, callVars
<1>5. CASE SourceFails
  BY <1>5, <1>a, <1>b, <1>c, <1>d DEF IInv, WorkerKinds, StageKinds, CloseInv,
     TokenInv, AllExited, Fixed, Dynamic, Broadcast, Runners, SourceFails,
     SourceEnds, EmitError, ctxVars, runVars, errVars, callVars
<1>6. CASE SourceCancelled
  BY <1>6, <1>a, <1>b, <1>c, <1>d DEF IInv, WorkerKinds, StageKinds, CloseInv,
     TokenInv, AllExited, Fixed, Dynamic, Broadcast, Runners, SourceCancelled,
     SourceEnds, Done, ctxVars, runVars, errVars, callVars
<1>7. CASE \E w \in Workers : ProcessPayload(w)
  BY <1>7, <1>a, <1>b, <1>c, <1>d DEF IInv, WorkerKinds, StageKinds, CloseInv,
     TokenInv, AllExited, Fixed, Dynamic, Broadcast, Runners, ProcessPayload, Goto,
     Continue, ctxVars, runVars, errVars, callVars
<1>8. CASE \E w \in Workers : ProcessFails(w)
  BY <1>8, <1>a, <1>b, <1>c, <1>d DEF IInv, WorkerKinds, StageKinds, CloseInv,
     TokenInv, AllExited, Fixed, Dynamic, Broadcast, Runners, ProcessFails, Goto,
     Leave, EmitError, ctxVars, runVars, errVars, callVars
<1>9. CASE \E w \in Workers : WorkerSend(w)
  <2> PICK w \in Workers : WorkerSend(w)
    BY <1>9
  <2> DEFINE c == StageOf(w)
  <2>a. c \in Stages /\ c \in 0..N /\ w \in Pool(c) /\ workerPc[w] = "send"
    BY <1>c, <1>d DEF WorkerSend
  <2>b. stagePc[c] # "done" /\ ~errClosed
    BY <2>a DEF IInv, CloseInv, AllExited
  <2> HIDE DEF c
  <2>c. \A t \in Stages : stagePc'[t] = "done" <=> stagePc[t] = "done"
    BY <1>a, <1>d, <2>a DEF WorkerSend, HandOver, runVars, c
  <2>d. ASSUME NEW t \in Stages, stagePc[t] = "done", NEW x \in Pool(t)
        PROVE  workerPc'[x] = workerPc[x]
    <3>1. x \in Workers /\ x # w /\ workerPc[x] # "recv"
      BY <1>c, <2>a, <2>b, <2>d DEF IInv, CloseInv
    <3> QED
      BY <1>a, <1>c, <3>1 DEF WorkerSend, HandOver
  <2> QED
    BY <1>a, <1>b, <2>b, <2>c, <2>d DEF IInv, CloseInv, WorkerSend, callVars
<1>10. CASE \E w \in Workers : WorkerSendCancelled(w)
  BY <1>10, <1>a, <1>b, <1>c, <1>d DEF IInv, WorkerKinds, StageKinds, CloseInv,
     TokenInv, AllExited, Fixed, Dynamic, Broadcast, Runners, WorkerSendCancelled,
     Goto, Leave, Done, ctxVars, runVars, errVars, callVars
<1>11. CASE \E w \in Workers : WorkerExit(w)
  BY <1>11, <1>a, <1>b, <1>c, <1>d DEF IInv, WorkerKinds, StageKinds, CloseInv,
     TokenInv, AllExited, Fixed, Dynamic, Broadcast, Runners, WorkerExit, Goto,
     ctxVars, runVars, errVars, callVars
<1>12. CASE \E w \in Workers : ReturnToken(w)
  BY <1>12, <1>a, <1>b, <1>c, <1>d DEF IInv, WorkerKinds, StageKinds, CloseInv,
     TokenInv, AllExited, Fixed, Dynamic, Broadcast, Runners, ReturnToken, Goto,
     ctxVars, runVars, errVars, callVars
<1>13. CASE \E s \in Stages : FixedPoolReturns(s)
  BY <1>13, <1>a, <1>b, <1>c, <1>d DEF IInv, WorkerKinds, StageKinds, CloseInv,
     TokenInv, AllExited, Fixed, Dynamic, Broadcast, Runners, FixedPoolReturns,
     RunReturns, AllDone, ctxVars, runVars, errVars, callVars
<1>14. CASE \E s \in Stages : InputEnds(s)
  BY <1>14, <1>a, <1>b, <1>c, <1>d DEF IInv, WorkerKinds, StageKinds, CloseInv,
     TokenInv, AllExited, Fixed, Dynamic, Broadcast, Runners, InputEnds,
     StopReading, ctxVars, runVars, errVars, callVars
<1>15. CASE \E s \in Stages : ReadingCancelled(s)
  BY <1>15, <1>a, <1>b, <1>c, <1>d DEF IInv, WorkerKinds, StageKinds, CloseInv,
     TokenInv, AllExited, Fixed, Dynamic, Broadcast, Runners, ReadingCancelled,
     StopReading, Done, ctxVars, runVars, errVars, callVars
<1>16. CASE \E s \in Stages : \E w \in Pool(s) : Spawn(s, w)
  BY <1>16, <1>a, <1>b, <1>c, <1>d DEF IInv, WorkerKinds, StageKinds, CloseInv,
     TokenInv, AllExited, Fixed, Dynamic, Broadcast, Runners, Spawn, Goto, ctxVars,
     runVars, errVars, callVars
<1>17. CASE \E s \in Stages : DynamicPoolReturns(s)
  <2> PICK s \in Stages : DynamicPoolReturns(s)
    BY <1>17
  <2>1. Dynamic(s)
    BY <1>a DEF IInv, StageKinds, DynamicPoolReturns, Fixed, Dynamic
  <2>2. \A w \in Pool(s) : workerPc[w] = "off"
    BY <2>1, NobodyBusy DEF DynamicPoolReturns
  <2> QED
    BY <2>2, <1>a, <1>b, <1>c, <1>d DEF IInv, CloseInv, AllExited, DynamicPoolReturns,
       RunReturns, ctxVars, errVars, callVars
<1>18. CASE \E s \in Stages : PassOn(s)
  BY <1>18, <1>a, <1>b, <1>c, <1>d DEF IInv, WorkerKinds, StageKinds, CloseInv,
     TokenInv, AllExited, Fixed, Dynamic, Broadcast, Runners, PassOn, Goto, ctxVars,
     runVars, errVars, callVars
<1>19. CASE \E s \in Stages : BroadcastReturns(s)
  BY <1>19, <1>a, <1>b, <1>c, <1>d DEF IInv, WorkerKinds, StageKinds, CloseInv,
     TokenInv, AllExited, Fixed, Dynamic, Broadcast, Runners, BroadcastReturns,
     RunReturns, AllDone, ctxVars, runVars, errVars, callVars
<1>20. CASE SinkConsumes
  BY <1>20, <1>a, <1>b, <1>c, <1>d DEF IInv, WorkerKinds, StageKinds, CloseInv,
     TokenInv, AllExited, Fixed, Dynamic, Broadcast, Runners, SinkConsumes, ctxVars,
     runVars, errVars, callVars
<1>21. CASE SinkFails
  BY <1>21, <1>a, <1>b, <1>c, <1>d DEF IInv, WorkerKinds, StageKinds, CloseInv,
     TokenInv, AllExited, Fixed, Dynamic, Broadcast, Runners, SinkFails, EmitError,
     ctxVars, runVars, errVars, callVars
<1>22. CASE SinkExits
  BY <1>22, <1>a, <1>b, <1>c, <1>d DEF IInv, WorkerKinds, StageKinds, CloseInv,
     TokenInv, AllExited, Fixed, Dynamic, Broadcast, Runners, SinkExits, ctxVars,
     runVars, errVars, callVars
<1>23. CASE ProcessAgain
  BY <1>23, <1>a, <1>b, <1>c, <1>d DEF IInv, WorkerKinds, StageKinds, CloseInv,
     TokenInv, AllExited, Fixed, Dynamic, Broadcast, Runners, ProcessAgain,
     FirstWorkerPc, FirstStagePc, ctxVars, runVars, errVars, callVars
<1>24. CASE CloseErrCh
  BY <1>24, <1>a, <1>b, <1>c, <1>d DEF IInv, WorkerKinds, StageKinds, CloseInv,
     TokenInv, AllExited, Fixed, Dynamic, Broadcast, Runners, CloseErrCh, ctxVars,
     runVars, errVars, callVars
<1>25. \/ UNCHANGED <<closed, srcPc, sinkPc, stagePc, workerPc, errClosed>>
       \/ SourceNext \/ SourceSend
       \/ SourceExhausted \/ SourceFails
       \/ SourceCancelled \/ (\E w \in Workers : ProcessPayload(w))
       \/ (\E w \in Workers : ProcessFails(w)) \/ (\E w \in Workers : WorkerSend(w))
       \/ (\E w \in Workers : WorkerSendCancelled(w)) \/ (\E w \in Workers : WorkerExit(w))
       \/ (\E w \in Workers : ReturnToken(w)) \/ (\E s \in Stages : FixedPoolReturns(s))
       \/ (\E s \in Stages : InputEnds(s)) \/ (\E s \in Stages : ReadingCancelled(s))
       \/ (\E s \in Stages : \E w \in Pool(s) : Spawn(s, w)) \/ (\E s \in Stages : DynamicPoolReturns(s))
       \/ (\E s \in Stages : PassOn(s)) \/ (\E s \in Stages : BroadcastReturns(s))
       \/ SinkConsumes \/ SinkFails
       \/ SinkExits \/ ProcessAgain
       \/ CloseErrCh
  BY DEF Next, Source, Sink, Worker, StageRun, Collector, DrainToken,
     ContextExpires, CollectError, ProcessReturns, vars, ctxVars, runVars, errVars,
     callVars
<1> QED
  BY <1>1, <1>2, <1>3, <1>4, <1>5, <1>6, <1>7, <1>8, <1>9, <1>10, <1>11, <1>12,
     <1>13, <1>14, <1>15, <1>16, <1>17, <1>18, <1>19, <1>20, <1>21, <1>22, <1>23,
     <1>24, <1>25

(* A failure stays in the channel until it is in the result.               *)
LEMMA ErrorStep ==
  ASSUME IInv, [Next]_vars
  PROVE  ErrorInv'
<1>a. /\ shape \in Shapes
      /\ stagePc \in [Stages -> {"run", "recv", "token", "pass", "drain", "join", "done"}]
      /\ errCh \in 0..ErrCap /\ failed \in BOOLEAN /\ err \in BOOLEAN
  BY DEF IInv, TypeOK
<1>b. /\ shape' = shape /\ N' = N /\ Stages' = Stages /\ Workers' = Workers
      /\ ErrCap' = ErrCap /\ \A s : Pool(s)' = Pool(s) /\ Slots(s)' = Slots(s)
      /\ \A w : StageOf(w)' = StageOf(w)
  BY SameShape
<1>c. /\ \A s \in Stages : \A w \in Pool(s) : w \in Workers /\ StageOf(w) = s
      /\ \A w \in Workers : StageOf(w) \in Stages /\ w \in Pool(StageOf(w))
  BY <1>a, OneStage
<1>1. CASE UNCHANGED <<errCh, err, failed, ctxVars, errClosed, procPc, dropped>>
  BY <1>1, <1>a, <1>b, <1>c DEF IInv, WorkerKinds, StageKinds, CloseInv, AllExited,
     ErrorInv, Fixed, Dynamic, Broadcast, ctxVars
<1>2. CASE SourceFails
  BY <1>2, <1>a, <1>b, <1>c, CapPositive DEF IInv, WorkerKinds, StageKinds,
     CloseInv, AllExited, ErrorInv, Fixed, Dynamic, Broadcast, SourceFails,
     SourceEnds, EmitError, ctxVars, runVars, errVars, callVars
<1>3. CASE SourceCancelled
  BY <1>3, <1>a, <1>b, <1>c DEF IInv, WorkerKinds, StageKinds, CloseInv, AllExited,
     ErrorInv, Fixed, Dynamic, Broadcast, SourceCancelled, SourceEnds, Done,
     ctxVars, runVars, errVars, callVars
<1>4. CASE \E w \in Workers : ProcessFails(w)
  BY <1>4, <1>a, <1>b, <1>c, CapPositive DEF IInv, WorkerKinds, StageKinds,
     CloseInv, AllExited, ErrorInv, Fixed, Dynamic, Broadcast, ProcessFails, Goto,
     Leave, EmitError, ctxVars, runVars, errVars, callVars
<1>5. CASE \E w \in Workers : WorkerSendCancelled(w)
  BY <1>5, <1>a, <1>b, <1>c DEF IInv, WorkerKinds, StageKinds, CloseInv, AllExited,
     ErrorInv, Fixed, Dynamic, Broadcast, WorkerSendCancelled, Goto, Leave, Done,
     ctxVars, runVars, errVars, callVars
<1>6. CASE \E s \in Stages : InputEnds(s)
  BY <1>6, <1>a, <1>b, <1>c DEF IInv, WorkerKinds, StageKinds, CloseInv, AllExited,
     ErrorInv, Fixed, Dynamic, Broadcast, InputEnds, StopReading, ctxVars, runVars,
     errVars, callVars
<1>7. CASE \E s \in Stages : ReadingCancelled(s)
  BY <1>7, <1>a, <1>b, <1>c DEF IInv, WorkerKinds, StageKinds, CloseInv, AllExited,
     ErrorInv, Fixed, Dynamic, Broadcast, ReadingCancelled, StopReading, Done,
     ctxVars, runVars, errVars, callVars
<1>8. CASE SinkFails
  BY <1>8, <1>a, <1>b, <1>c, CapPositive DEF IInv, WorkerKinds, StageKinds,
     CloseInv, AllExited, ErrorInv, Fixed, Dynamic, Broadcast, SinkFails, EmitError,
     ctxVars, runVars, errVars, callVars
<1>9. CASE ContextExpires
  BY <1>9, <1>a, <1>b, <1>c DEF IInv, WorkerKinds, StageKinds, CloseInv, AllExited,
     ErrorInv, Fixed, Dynamic, Broadcast, ContextExpires, ctxVars, runVars, errVars,
     callVars
<1>10. CASE ProcessAgain
  BY <1>10, <1>a, <1>b, <1>c DEF IInv, WorkerKinds, StageKinds, CloseInv, AllExited,
     ErrorInv, Fixed, Dynamic, Broadcast, ProcessAgain, FirstWorkerPc, FirstStagePc,
     ctxVars, runVars, errVars, callVars
<1>11. CASE CloseErrCh
  BY <1>11, <1>a, <1>b, <1>c DEF IInv, WorkerKinds, StageKinds, CloseInv, AllExited,
     ErrorInv, Fixed, Dynamic, Broadcast, CloseErrCh, ctxVars, runVars, errVars,
     callVars
<1>12. CASE CollectError
  BY <1>12, <1>a, <1>b, <1>c DEF IInv, WorkerKinds, StageKinds, CloseInv, AllExited,
     ErrorInv, Fixed, Dynamic, Broadcast, CollectError, ctxVars, runVars, errVars,
     callVars
<1>13. CASE ProcessReturns
  BY <1>13, <1>a, <1>b, <1>c DEF IInv, WorkerKinds, StageKinds, CloseInv, AllExited,
     ErrorInv, Fixed, Dynamic, Broadcast, ProcessReturns, ctxVars, runVars, errVars,
     callVars
<1>14. \/ UNCHANGED <<errCh, err, failed, ctxVars, errClosed, procPc, dropped>>
       \/ SourceFails \/ SourceCancelled
       \/ (\E w \in Workers : ProcessFails(w)) \/ (\E w \in Workers : WorkerSendCancelled(w))
       \/ (\E s \in Stages : InputEnds(s)) \/ (\E s \in Stages : ReadingCancelled(s))
       \/ SinkFails \/ ContextExpires
       \/ ProcessAgain \/ CloseErrCh
       \/ CollectError \/ ProcessReturns
  BY DEF Next, Source, Sink, Worker, StageRun, Collector, SourceNext, SourceSend,
     SourceExhausted, ProcessPayload, WorkerSend, WorkerExit, ReturnToken,
     FixedPoolReturns, Spawn, DrainToken, DynamicPoolReturns, PassOn,
     BroadcastReturns, SinkConsumes, SinkExits, HandOver, SourceEnds, Goto,
     RunReturns, vars, ctxVars, runVars, errVars, callVars
<1> QED
  BY <1>1, <1>2, <1>3, <1>4, <1>5, <1>6, <1>7, <1>8, <1>9, <1>10, <1>11, <1>12,
     <1>13, <1>14

(* The goroutines of a pool are finitely many.                             *)
LEMMA BusyFinite ==
  ASSUME shape \in Shapes, NEW s \in Stages
  PROVE  IsFiniteSet(Busy(s)) /\ Cardinality(Busy(s)) \in Nat
<1>1. IsFiniteSet(Pool(s)) /\ Busy(s) \subseteq Pool(s)
  BY ShapeFacts DEF Busy
<1> QED
  BY <1>1, FS_Subset, FS_CardinalityType

(* Every token is in the pool, taken back, or with one goroutine.          *)
LEMMA TokenStep ==
  ASSUME IInv, [Next]_vars
  PROVE  TokenInv'
<1>a. /\ shape \in Shapes
      /\ workerPc \in [Workers -> {"off", "recv", "process", "send", "release", "done"}]
      /\ stagePc \in [Stages -> {"run", "recv", "token", "pass", "drain", "join", "done"}]
      /\ tokens \in [Stages -> Nat] /\ drained \in [Stages -> Nat]
  BY DEF IInv, TypeOK
<1>b. /\ shape' = shape /\ N' = N /\ Stages' = Stages /\ Workers' = Workers
      /\ ErrCap' = ErrCap /\ \A s : Pool(s)' = Pool(s) /\ Slots(s)' = Slots(s)
      /\ \A w : StageOf(w)' = StageOf(w)
  BY SameShape
<1>c. /\ \A s \in Stages : \A w \in Pool(s) : w \in Workers /\ StageOf(w) = s
      /\ \A w \in Workers : StageOf(w) \in Stages /\ w \in Pool(StageOf(w))
  BY <1>a, OneStage
<1>d. /\ N \in Nat /\ 0 \in 0..N
      /\ \A s \in Stages : s \in 0..N /\ s # 0
      /\ \A c \in 0..N : c < N => c + 1 \in Stages
  BY <1>a, ShapeFacts DEF Stages
<1>1. CASE UNCHANGED <<tokens, drained, workerPc, calls>>
  BY <1>1, <1>a, <1>b, <1>c, <1>d DEF IInv, TokenInv, Busy, Dynamic
<1>2. CASE SourceSend
  <2>1. UNCHANGED <<tokens, drained, calls>>
    BY <1>2 DEF SourceSend, HandOver, ctxVars, runVars, errVars, callVars
  <2>2. ASSUME NEW s \in Stages, Dynamic(s)
        PROVE  Busy(s)' = Busy(s)
    <3>1. \A w \in Pool(s) : workerPc'[w] = "off" <=> workerPc[w] = "off"
      BY <1>2, <1>a, <1>c, <2>2 DEF IInv, WorkerKinds, StageKinds, Fixed, Dynamic,
         Broadcast, Runners, SourceSend, HandOver, ctxVars, runVars, errVars,
         callVars
    <3> QED
      BY <3>1, <1>b DEF Busy
  <2> QED
    BY <2>1, <2>2, <1>b DEF IInv, TokenInv, Dynamic
<1>3. CASE \E w \in Workers : ProcessPayload(w)
  <2>1. UNCHANGED <<tokens, drained, calls>>
    BY <1>3 DEF ProcessPayload, Goto, Continue, ctxVars, runVars, errVars, callVars
  <2>2. ASSUME NEW s \in Stages, Dynamic(s)
        PROVE  Busy(s)' = Busy(s)
    <3>1. \A w \in Pool(s) : workerPc'[w] = "off" <=> workerPc[w] = "off"
      BY <1>3, <1>a, <1>c, <2>2 DEF IInv, WorkerKinds, StageKinds, Fixed, Dynamic,
         Broadcast, Runners, ProcessPayload, Goto, Continue, ctxVars, runVars,
         errVars, callVars
    <3> QED
      BY <3>1, <1>b DEF Busy
  <2> QED
    BY <2>1, <2>2, <1>b DEF IInv, TokenInv, Dynamic
<1>4. CASE \E w \in Workers : ProcessFails(w)
  <2>1. UNCHANGED <<tokens, drained, calls>>
    BY <1>4 DEF ProcessFails, Goto, Leave, EmitError, ctxVars, runVars, errVars,
       callVars
  <2>2. ASSUME NEW s \in Stages, Dynamic(s)
        PROVE  Busy(s)' = Busy(s)
    <3>1. \A w \in Pool(s) : workerPc'[w] = "off" <=> workerPc[w] = "off"
      BY <1>4, <1>a, <1>c, <2>2 DEF IInv, WorkerKinds, StageKinds, Fixed, Dynamic,
         Broadcast, Runners, ProcessFails, Goto, Leave, EmitError, ctxVars, runVars,
         errVars, callVars
    <3> QED
      BY <3>1, <1>b DEF Busy
  <2> QED
    BY <2>1, <2>2, <1>b DEF IInv, TokenInv, Dynamic
<1>5. CASE \E w \in Workers : WorkerSend(w)
  <2>1. UNCHANGED <<tokens, drained, calls>>
    BY <1>5 DEF WorkerSend, HandOver, Continue, ctxVars, runVars, errVars, callVars
  <2>2. ASSUME NEW s \in Stages, Dynamic(s)
        PROVE  Busy(s)' = Busy(s)
    <3>1. \A w \in Pool(s) : workerPc'[w] = "off" <=> workerPc[w] = "off"
      BY <1>5, <1>a, <1>c, <2>2 DEF IInv, WorkerKinds, StageKinds, Fixed, Dynamic,
         Broadcast, Runners, WorkerSend, HandOver, Continue, ctxVars, runVars,
         errVars, callVars
    <3> QED
      BY <3>1, <1>b DEF Busy
  <2> QED
    BY <2>1, <2>2, <1>b DEF IInv, TokenInv, Dynamic
<1>6. CASE \E w \in Workers : WorkerSendCancelled(w)
  <2>1. UNCHANGED <<tokens, drained, calls>>
    BY <1>6 DEF WorkerSendCancelled, Goto, Leave, Done, ctxVars, runVars, errVars,
       callVars
  <2>2. ASSUME NEW s \in Stages, Dynamic(s)
        PROVE  Busy(s)' = Busy(s)
    <3>1. \A w \in Pool(s) : workerPc'[w] = "off" <=> workerPc[w] = "off"
      BY <1>6, <1>a, <1>c, <2>2 DEF IInv, WorkerKinds, StageKinds, Fixed, Dynamic,
         Broadcast, Runners, WorkerSendCancelled, Goto, Leave, Done, ctxVars,
         runVars, errVars, callVars
    <3> QED
      BY <3>1, <1>b DEF Busy
  <2> QED
    BY <2>1, <2>2, <1>b DEF IInv, TokenInv, Dynamic
<1>7. CASE \E w \in Workers : WorkerExit(w)
  <2>1. UNCHANGED <<tokens, drained, calls>>
    BY <1>7 DEF WorkerExit, Goto, ctxVars, runVars, errVars, callVars
  <2>2. ASSUME NEW s \in Stages, Dynamic(s)
        PROVE  Busy(s)' = Busy(s)
    <3>1. \A w \in Pool(s) : workerPc'[w] = "off" <=> workerPc[w] = "off"
      BY <1>7, <1>a, <1>c, <2>2 DEF IInv, WorkerKinds, StageKinds, Fixed, Dynamic,
         Broadcast, Runners, WorkerExit, Goto, ctxVars, runVars, errVars, callVars
    <3> QED
      BY <3>1, <1>b DEF Busy
  <2> QED
    BY <2>1, <2>2, <1>b DEF IInv, TokenInv, Dynamic
<1>8. CASE \E w \in Workers : ReturnToken(w)
  <2> PICK w \in Workers : ReturnToken(w)
    BY <1>8
  <2> PICK s \in Stages : s = StageOf(w)
    BY <1>c
  <2>1. s \in Stages /\ Dynamic(s) /\ w \in Pool(s)
    BY <1>c DEF IInv, WorkerKinds, ReturnToken
  <2>2. Busy(s)' = Busy(s) \ {w}
    BY <1>a, <1>b, <1>c, <2>1 DEF Busy, ReturnToken, Goto
  <2>3. Cardinality(Busy(s)') = Cardinality(Busy(s)) - 1
    <3>1. w \in Busy(s)
      BY <2>1 DEF Busy, ReturnToken
    <3>2. IsFiniteSet(Busy(s))
      BY <1>a, <2>1, BusyFinite
    <3>3. Cardinality(Busy(s) \ {w}) = Cardinality(Busy(s)) - 1
      BY <3>1, <3>2, FS_RemoveElement
    <3> QED
      BY <2>2, <3>3
  <2>4. tokens' = [tokens EXCEPT ![s] = @ + 1] /\ UNCHANGED <<drained, calls>>
    BY DEF ReturnToken, callVars
  <2>5. ASSUME NEW t \in Stages, t # s
        PROVE  Busy(t)' = Busy(t)
    BY <1>a, <1>b, <1>c, <2>1, <2>5 DEF Busy, ReturnToken, Goto
  <2>6. /\ tokens[s] \in Int /\ drained[s] \in Int /\ Cardinality(Busy(s)) \in Int
        /\ Slots(s) \in Int /\ \A t \in Stages : tokens'[t] = IF t = s THEN tokens[s] + 1 ELSE tokens[t]
    BY <1>a, <2>1, <2>4, BusyFinite, ShapeFacts, <1>a
  <2> QED
    BY <2>1, <2>3, <2>4, <2>5, <2>6, <1>b DEF IInv, TokenInv, Dynamic
<1>9. CASE \E s \in Stages : \E w \in Pool(s) : Spawn(s, w)
  <2> PICK s \in Stages : \E w \in Pool(s) : Spawn(s, w)
    BY <1>9
  <2> PICK w \in Pool(s) : Spawn(s, w)
    OBVIOUS
  <2>1. s \in Stages /\ Dynamic(s) /\ w \in Pool(s)
    BY <1>a DEF IInv, StageKinds, Spawn, Fixed, Dynamic
  <2>2. Busy(s)' = Busy(s) \cup {w}
    BY <1>a, <1>b, <1>c, <2>1 DEF Busy, Spawn, Goto
  <2>3. Cardinality(Busy(s)') = Cardinality(Busy(s)) + 1
    <3>1. w \notin Busy(s)
      BY <2>1 DEF Busy, Spawn
    <3>2. IsFiniteSet(Busy(s))
      BY <1>a, <2>1, BusyFinite
    <3>3. Cardinality(Busy(s) \cup {w}) = Cardinality(Busy(s)) + 1
      BY <3>1, <3>2, FS_AddElement
    <3> QED
      BY <2>2, <3>3
  <2>4. tokens' = [tokens EXCEPT ![s] = @ - 1] /\ UNCHANGED <<drained, calls>>
    BY DEF Spawn, callVars
  <2>5. ASSUME NEW t \in Stages, t # s
        PROVE  Busy(t)' = Busy(t)
    BY <1>a, <1>b, <1>c, <2>1, <2>5 DEF Busy, Spawn, Goto
  <2>6. /\ tokens[s] \in Int /\ drained[s] \in Int /\ Cardinality(Busy(s)) \in Int
        /\ Slots(s) \in Int /\ \A t \in Stages : tokens'[t] = IF t = s THEN tokens[s] - 1 ELSE tokens[t]
    BY <1>a, <2>1, <2>4, BusyFinite, ShapeFacts, <1>a
  <2> QED
    BY <2>1, <2>3, <2>4, <2>5, <2>6, <1>b DEF IInv, TokenInv, Dynamic
<1>10. CASE \E s \in Stages : DrainToken(s)
  <2> PICK s \in Stages : DrainToken(s)
    BY <1>10
  <2>1. /\ \A t \in Stages : tokens'[t] = IF t = s THEN tokens[s] - 1 ELSE tokens[t]
        /\ \A t \in Stages : drained'[t] = IF t = s THEN drained[s] + 1 ELSE drained[t]
    BY <1>a DEF DrainToken
  <2>2. \A t \in Stages : Busy(t)' = Busy(t)
    BY <1>b DEF DrainToken, Busy
  <2>3. UNCHANGED calls
    BY DEF DrainToken, callVars
  <2>4. /\ tokens[s] \in Int /\ drained[s] \in Int /\ Cardinality(Busy(s)) \in Int
        /\ Slots(s) \in Int
    BY <1>a, BusyFinite, ShapeFacts
  <2> QED
    BY <2>1, <2>2, <2>3, <2>4, <1>b DEF IInv, TokenInv, Dynamic
<1>11. CASE \E s \in Stages : PassOn(s)
  <2>1. UNCHANGED <<tokens, drained, calls>>
    BY <1>11 DEF PassOn, Goto, ctxVars, runVars, errVars, callVars
  <2>2. ASSUME NEW s \in Stages, Dynamic(s)
        PROVE  Busy(s)' = Busy(s)
    <3>1. \A w \in Pool(s) : workerPc'[w] = "off" <=> workerPc[w] = "off"
      BY <1>11, <1>a, <1>c, <2>2, <1>d, ShapeFacts DEF IInv, WorkerKinds, StageKinds,
         Fixed, Dynamic, Broadcast, Runners, PassOn, Goto, ctxVars, runVars,
         errVars, callVars
    <3> QED
      BY <3>1, <1>b DEF Busy
  <2> QED
    BY <2>1, <2>2, <1>b DEF IInv, TokenInv, Dynamic
<1>12. CASE ProcessAgain
  <2>1. calls' = calls + 1 /\ calls >= 1 /\ calls \in Int /\ tokens' = tokens
    BY <1>12, <1>a, ShapesAssumption DEF IInv, TypeOK, ProcessAgain
  <2>2. ASSUME NEW s \in Stages, Dynamic(s)
        PROVE  /\ Busy(s)' = {} /\ drained'[s] = 0
               /\ tokens[s] <= Slots(s) /\ Slots(s) \in Nat /\ tokens[s] \in Int
    <3>1. Busy(s)' = {} /\ drained'[s] = 0
      BY <1>12, <2>2, <1>b, <1>c DEF ProcessAgain, FirstWorkerPc, Busy
    <3>2. tokens[s] \in Nat /\ drained[s] \in Nat /\ Slots(s) \in Nat /\ tokens[s] + drained[s] <= Slots(s)
      BY <1>a, <2>2, ShapeFacts DEF IInv, TypeOK
    <3> QED
      BY <3>1, <3>2
  <2> QED
    BY <2>1, <2>2, <1>b, FS_EmptySet DEF TokenInv, Dynamic
<1>13. \/ UNCHANGED <<tokens, drained, workerPc, calls>>
       \/ SourceSend \/ (\E w \in Workers : ProcessPayload(w))
       \/ (\E w \in Workers : ProcessFails(w)) \/ (\E w \in Workers : WorkerSend(w))
       \/ (\E w \in Workers : WorkerSendCancelled(w)) \/ (\E w \in Workers : WorkerExit(w))
       \/ (\E w \in Workers : ReturnToken(w)) \/ (\E s \in Stages : \E w \in Pool(s) : Spawn(s, w))
       \/ (\E s \in Stages : DrainToken(s)) \/ (\E s \in Stages : PassOn(s))
       \/ ProcessAgain
  BY DEF Next, Source, Sink, Worker, StageRun, Collector, SourceNext,
     SourceExhausted, SourceFails, SourceCancelled, FixedPoolReturns, InputEnds,
     ReadingCancelled, DynamicPoolReturns, BroadcastReturns, SinkConsumes,
     SinkFails, SinkExits, ContextExpires, CloseErrCh, CollectError, ProcessReturns,
     SourceEnds, EmitError, RunReturns, StopReading, vars, ctxVars, runVars,
     errVars, callVars
<1> QED
  BY <1>1, <1>2, <1>3, <1>4, <1>5, <1>6, <1>7, <1>8, <1>9, <1>10, <1>11, <1>12,
     <1>13

-----------------------------------------------------------------------------
(* Types.                                                                  *)
ScalarTypes ==
  /\ shape \in Shapes /\ calls \in 1..shape.calls
  /\ procPc \in {"collect", "returned"}
  /\ parentDone \in BOOLEAN /\ cancelled \in BOOLEAN
  /\ srcPc \in {"next", "send", "done"}
  /\ sinkPc \in {"recv", "consume", "done"}
  /\ errCh \in 0..ErrCap
  /\ errClosed \in BOOLEAN /\ err \in BOOLEAN
  /\ failed \in BOOLEAN /\ dropped \in BOOLEAN
WorkerTypes == workerPc \in [Workers -> {"off", "recv", "process", "send", "release", "done"}]
StageTypes ==
  /\ stagePc \in [Stages -> {"run", "recv", "token", "pass", "drain", "join", "done"}]
  /\ closed \in [0..N -> BOOLEAN]
FifoTypes ==
  /\ nextFifo \in [Stages -> Nat]
  /\ \A s \in Stages : nextFifo[s] \in 1..Slots(s)
TokenTypes == tokens \in [Stages -> Nat] /\ drained \in [Stages -> Nat]

(* Counters, flags and program counters.                                   *)
LEMMA ScalarStep ==
  ASSUME IInv, [Next]_vars
  PROVE  ScalarTypes'
<1>a. ScalarTypes /\ shape \in Shapes
  BY DEF IInv, TypeOK, ScalarTypes
<1>b. /\ shape' = shape /\ N' = N /\ Stages' = Stages /\ Workers' = Workers
      /\ ErrCap' = ErrCap /\ \A s : Pool(s)' = Pool(s) /\ Slots(s)' = Slots(s)
      /\ \A w : StageOf(w)' = StageOf(w)
  BY SameShape
<1>1. CASE UNCHANGED <<ctxVars, errVars, callVars, srcPc, sinkPc, dropped>>
  BY <1>1, <1>a, <1>b DEF ScalarTypes, ctxVars, errVars, callVars
<1>2. CASE SourceNext
  BY <1>2, <1>a, <1>b DEF ScalarTypes, SourceNext, ctxVars, runVars, errVars,
     callVars
<1>3. CASE SourceSend
  BY <1>3, <1>a, <1>b DEF ScalarTypes, SourceSend, HandOver, ctxVars, runVars,
     errVars, callVars
<1>4. CASE SourceExhausted
  BY <1>4, <1>a, <1>b DEF ScalarTypes, SourceExhausted, SourceEnds, ctxVars,
     runVars, errVars, callVars
<1>5. CASE SourceFails
  BY <1>5, <1>a, <1>b, CapPositive DEF ScalarTypes, SourceFails, SourceEnds,
     EmitError, ctxVars, runVars, errVars, callVars
<1>6. CASE SourceCancelled
  BY <1>6, <1>a, <1>b DEF ScalarTypes, SourceCancelled, SourceEnds, Done,
     ctxVars, runVars, errVars, callVars
<1>7. CASE \E w \in Workers : ProcessFails(w)
  BY <1>7, <1>a, <1>b, CapPositive DEF ScalarTypes, ProcessFails, Goto, Leave,
     EmitError, ctxVars, runVars, errVars, callVars
<1>8. CASE \E w \in Workers : WorkerSend(w)
  BY <1>8, <1>a, <1>b DEF ScalarTypes, WorkerSend, HandOver, Continue,
     ctxVars, runVars, errVars, callVars
<1>9. CASE \E w \in Workers : WorkerSendCancelled(w)
  BY <1>9, <1>a, <1>b DEF ScalarTypes, WorkerSendCancelled, Goto, Leave, Done,
     ctxVars, runVars, errVars, callVars
<1>10. CASE \E s \in Stages : InputEnds(s)
  BY <1>10, <1>a, <1>b DEF ScalarTypes, InputEnds, StopReading, ctxVars,
     runVars, errVars, callVars
<1>11. CASE \E s \in Stages : ReadingCancelled(s)
  BY <1>11, <1>a, <1>b DEF ScalarTypes, ReadingCancelled, StopReading, Done,
     ctxVars, runVars, errVars, callVars
<1>12. CASE SinkConsumes
  BY <1>12, <1>a, <1>b DEF ScalarTypes, SinkConsumes, ctxVars, runVars,
     errVars, callVars
<1>13. CASE SinkFails
  BY <1>13, <1>a, <1>b, CapPositive DEF ScalarTypes, SinkFails, EmitError,
     ctxVars, runVars, errVars, callVars
<1>14. CASE SinkExits
  BY <1>14, <1>a, <1>b DEF ScalarTypes, SinkExits, ctxVars, runVars, errVars,
     callVars
<1>15. CASE ContextExpires
  BY <1>15, <1>a, <1>b DEF ScalarTypes, ContextExpires, ctxVars, runVars,
     errVars, callVars
<1>16. CASE ProcessAgain
  <2>1. calls' \in 1..shape.calls
    BY <1>16, <1>a, ShapesAssumption DEF ScalarTypes, ProcessAgain
  <2>2. 0 \in 0..ErrCap
    BY <1>a, CapPositive
  <2>3. /\ parentDone' \in BOOLEAN /\ cancelled' \in BOOLEAN /\ errClosed' \in BOOLEAN
        /\ err' \in BOOLEAN /\ failed' \in BOOLEAN /\ dropped' \in BOOLEAN
    BY <1>16 DEF ProcessAgain
  <2> QED
    BY <1>16, <1>a, <1>b, <2>1, <2>2, <2>3 DEF ScalarTypes, ProcessAgain
<1>17. CASE CloseErrCh
  BY <1>17, <1>a, <1>b DEF ScalarTypes, CloseErrCh, ctxVars, runVars, errVars,
     callVars
<1>18. CASE CollectError
  BY <1>18, <1>a, <1>b, CapPositive DEF ScalarTypes, CollectError, ctxVars,
     runVars, errVars, callVars
<1>19. CASE ProcessReturns
  BY <1>19, <1>a, <1>b DEF ScalarTypes, ProcessReturns, ctxVars, runVars,
     errVars, callVars
<1>20. \/ UNCHANGED <<ctxVars, errVars, callVars, srcPc, sinkPc, dropped>>
       \/ SourceNext \/ SourceSend
       \/ SourceExhausted \/ SourceFails
       \/ SourceCancelled \/ (\E w \in Workers : ProcessFails(w))
       \/ (\E w \in Workers : WorkerSend(w)) \/ (\E w \in Workers : WorkerSendCancelled(w))
       \/ (\E s \in Stages : InputEnds(s)) \/ (\E s \in Stages : ReadingCancelled(s))
       \/ SinkConsumes \/ SinkFails
       \/ SinkExits \/ ContextExpires
       \/ ProcessAgain \/ CloseErrCh
       \/ CollectError \/ ProcessReturns
  BY DEF Next, Source, Sink, Worker, StageRun, Collector, ProcessPayload,
     WorkerExit, ReturnToken, FixedPoolReturns, Spawn, DrainToken,
     DynamicPoolReturns, PassOn, BroadcastReturns, Goto, RunReturns, vars, ctxVars,
     runVars, errVars, callVars
<1> QED
  BY <1>1, <1>2, <1>3, <1>4, <1>5, <1>6, <1>7, <1>8, <1>9, <1>10, <1>11, <1>12,
     <1>13, <1>14, <1>15, <1>16, <1>17, <1>18, <1>19, <1>20

(* Goroutines.                                                             *)
LEMMA WorkerStep ==
  ASSUME IInv, [Next]_vars
  PROVE  WorkerTypes'
<1>a. WorkerTypes /\ shape \in Shapes
  BY DEF IInv, TypeOK, WorkerTypes
<1>b. /\ shape' = shape /\ N' = N /\ Stages' = Stages /\ Workers' = Workers
      /\ ErrCap' = ErrCap /\ \A s : Pool(s)' = Pool(s) /\ Slots(s)' = Slots(s)
      /\ \A w : StageOf(w)' = StageOf(w)
  BY SameShape
<1>c. /\ \A s \in Stages : \A w \in Pool(s) : w \in Workers /\ StageOf(w) = s
      /\ \A w \in Workers : StageOf(w) \in Stages /\ w \in Pool(StageOf(w))
  BY <1>a, OneStage
<1>1. CASE UNCHANGED <<workerPc>>
  BY <1>1, <1>a, <1>b, <1>c DEF WorkerTypes
<1>2. CASE SourceSend
  BY <1>2, <1>a, <1>b, <1>c DEF WorkerTypes, SourceSend, HandOver, ctxVars,
     runVars, errVars, callVars
<1>3. CASE \E w \in Workers : ProcessPayload(w)
  BY <1>3, <1>a, <1>b, <1>c DEF WorkerTypes, ProcessPayload, Goto, Continue,
     ctxVars, runVars, errVars, callVars
<1>4. CASE \E w \in Workers : ProcessFails(w)
  BY <1>4, <1>a, <1>b, <1>c DEF WorkerTypes, ProcessFails, Goto, Leave,
     EmitError, ctxVars, runVars, errVars, callVars
<1>5. CASE \E w \in Workers : WorkerSend(w)
  BY <1>5, <1>a, <1>b, <1>c DEF WorkerTypes, WorkerSend, HandOver, Continue,
     ctxVars, runVars, errVars, callVars
<1>6. CASE \E w \in Workers : WorkerSendCancelled(w)
  BY <1>6, <1>a, <1>b, <1>c DEF WorkerTypes, WorkerSendCancelled, Goto, Leave,
     Done, ctxVars, runVars, errVars, callVars
<1>7. CASE \E w \in Workers : WorkerExit(w)
  BY <1>7, <1>a, <1>b, <1>c DEF WorkerTypes, WorkerExit, Goto, ctxVars,
     runVars, errVars, callVars
<1>8. CASE \E w \in Workers : ReturnToken(w)
  BY <1>8, <1>a, <1>b, <1>c DEF WorkerTypes, ReturnToken, Goto, ctxVars,
     runVars, errVars, callVars
<1>9. CASE \E s \in Stages : \E w \in Pool(s) : Spawn(s, w)
  BY <1>9, <1>a, <1>b, <1>c DEF WorkerTypes, Spawn, Goto, ctxVars, runVars,
     errVars, callVars
<1>10. CASE \E s \in Stages : PassOn(s)
  BY <1>10, <1>a, <1>b, <1>c DEF WorkerTypes, PassOn, Goto, ctxVars, runVars,
     errVars, callVars
<1>11. CASE ProcessAgain
  BY <1>11, <1>a, <1>b, <1>c DEF WorkerTypes, ProcessAgain, FirstWorkerPc,
     FirstStagePc, ctxVars, runVars, errVars, callVars
<1>12. \/ UNCHANGED <<workerPc>>
       \/ SourceSend \/ (\E w \in Workers : ProcessPayload(w))
       \/ (\E w \in Workers : ProcessFails(w)) \/ (\E w \in Workers : WorkerSend(w))
       \/ (\E w \in Workers : WorkerSendCancelled(w)) \/ (\E w \in Workers : WorkerExit(w))
       \/ (\E w \in Workers : ReturnToken(w)) \/ (\E s \in Stages : \E w \in Pool(s) : Spawn(s, w))
       \/ (\E s \in Stages : PassOn(s)) \/ ProcessAgain
  BY DEF Next, Source, Sink, Worker, StageRun, Collector, SourceNext,
     SourceExhausted, SourceFails, SourceCancelled, FixedPoolReturns, InputEnds,
     ReadingCancelled, DrainToken, DynamicPoolReturns, BroadcastReturns,
     SinkConsumes, SinkFails, SinkExits, ContextExpires, CloseErrCh, CollectError,
     ProcessReturns, SourceEnds, EmitError, RunReturns, StopReading, vars, ctxVars,
     runVars, errVars, callVars
<1> QED
  BY <1>1, <1>2, <1>3, <1>4, <1>5, <1>6, <1>7, <1>8, <1>9, <1>10, <1>11, <1>12

(* Stages and their outputs.                                               *)
LEMMA StageStep ==
  ASSUME IInv, [Next]_vars
  PROVE  StageTypes'
<1>a. StageTypes /\ shape \in Shapes
  BY DEF IInv, TypeOK, StageTypes
<1>b. /\ shape' = shape /\ N' = N /\ Stages' = Stages /\ Workers' = Workers
      /\ ErrCap' = ErrCap /\ \A s : Pool(s)' = Pool(s) /\ Slots(s)' = Slots(s)
      /\ \A w : StageOf(w)' = StageOf(w)
  BY SameShape
<1>c. /\ \A s \in Stages : \A w \in Pool(s) : w \in Workers /\ StageOf(w) = s
      /\ \A w \in Workers : StageOf(w) \in Stages /\ w \in Pool(StageOf(w))
  BY <1>a, OneStage
<1>d. /\ N \in Nat /\ 0 \in 0..N
      /\ \A s \in Stages : s \in 0..N /\ s # 0
      /\ \A c \in 0..N : c < N => c + 1 \in Stages
  BY <1>a, ShapeFacts DEF Stages
<1>1. CASE UNCHANGED <<stagePc, closed>>
  BY <1>1, <1>a, <1>b, <1>c, <1>d DEF StageTypes
<1>2. CASE SourceSend
  BY <1>2, <1>a, <1>b, <1>c, <1>d DEF StageTypes, SourceSend, HandOver,
     ctxVars, runVars, errVars, callVars
<1>3. CASE SourceExhausted
  BY <1>3, <1>a, <1>b, <1>c, <1>d DEF StageTypes, SourceExhausted, SourceEnds,
     ctxVars, runVars, errVars, callVars
<1>4. CASE SourceFails
  BY <1>4, <1>a, <1>b, <1>c, <1>d DEF StageTypes, SourceFails, SourceEnds,
     EmitError, ctxVars, runVars, errVars, callVars
<1>5. CASE SourceCancelled
  BY <1>5, <1>a, <1>b, <1>c, <1>d DEF StageTypes, SourceCancelled, SourceEnds,
     Done, ctxVars, runVars, errVars, callVars
<1>6. CASE \E w \in Workers : WorkerSend(w)
  BY <1>6, <1>a, <1>b, <1>c, <1>d DEF StageTypes, WorkerSend, HandOver,
     Continue, ctxVars, runVars, errVars, callVars
<1>7. CASE \E s \in Stages : FixedPoolReturns(s)
  BY <1>7, <1>a, <1>b, <1>c, <1>d DEF StageTypes, FixedPoolReturns,
     RunReturns, AllDone, ctxVars, runVars, errVars, callVars
<1>8. CASE \E s \in Stages : InputEnds(s)
  BY <1>8, <1>a, <1>b, <1>c, <1>d DEF StageTypes, InputEnds, StopReading,
     ctxVars, runVars, errVars, callVars
<1>9. CASE \E s \in Stages : ReadingCancelled(s)
  BY <1>9, <1>a, <1>b, <1>c, <1>d DEF StageTypes, ReadingCancelled,
     StopReading, Done, ctxVars, runVars, errVars, callVars
<1>10. CASE \E s \in Stages : \E w \in Pool(s) : Spawn(s, w)
  BY <1>10, <1>a, <1>b, <1>c, <1>d DEF StageTypes, Spawn, Goto, ctxVars,
     runVars, errVars, callVars
<1>11. CASE \E s \in Stages : DynamicPoolReturns(s)
  BY <1>11, <1>a, <1>b, <1>c, <1>d DEF StageTypes, DynamicPoolReturns,
     RunReturns, AllTokensBack, ctxVars, runVars, errVars, callVars
<1>12. CASE \E s \in Stages : PassOn(s)
  BY <1>12, <1>a, <1>b, <1>c, <1>d DEF StageTypes, PassOn, Goto, ctxVars,
     runVars, errVars, callVars
<1>13. CASE \E s \in Stages : BroadcastReturns(s)
  BY <1>13, <1>a, <1>b, <1>c, <1>d DEF StageTypes, BroadcastReturns,
     RunReturns, AllDone, ctxVars, runVars, errVars, callVars
<1>14. CASE ProcessAgain
  BY <1>14, <1>a, <1>b, <1>c, <1>d DEF StageTypes, ProcessAgain,
     FirstWorkerPc, FirstStagePc, ctxVars, runVars, errVars, callVars
<1>15. \/ UNCHANGED <<stagePc, closed>>
       \/ SourceSend \/ SourceExhausted
       \/ SourceFails \/ SourceCancelled
       \/ (\E w \in Workers : WorkerSend(w)) \/ (\E s \in Stages : FixedPoolReturns(s))
       \/ (\E s \in Stages : InputEnds(s)) \/ (\E s \in Stages : ReadingCancelled(s))
       \/ (\E s \in Stages : \E w \in Pool(s) : Spawn(s, w)) \/ (\E s \in Stages : DynamicPoolReturns(s))
       \/ (\E s \in Stages : PassOn(s)) \/ (\E s \in Stages : BroadcastReturns(s))
       \/ ProcessAgain
  BY DEF Next, Source, Sink, Worker, StageRun, Collector, SourceNext,
     ProcessPayload, ProcessFails, WorkerSendCancelled, WorkerExit, ReturnToken,
     DrainToken, SinkConsumes, SinkFails, SinkExits, ContextExpires, CloseErrCh,
     CollectError, ProcessReturns, Goto, EmitError, vars, ctxVars, runVars, errVars,
     callVars
<1> QED
  BY <1>1, <1>2, <1>3, <1>4, <1>5, <1>6, <1>7, <1>8, <1>9, <1>10, <1>11, <1>12,
     <1>13, <1>14, <1>15

(* The loop index of a broadcast.                                          *)
LEMMA FifoStep ==
  ASSUME IInv, [Next]_vars
  PROVE  FifoTypes'
<1>a. FifoTypes /\ shape \in Shapes
  BY DEF IInv, TypeOK, FifoTypes
<1>b. /\ shape' = shape /\ N' = N /\ Stages' = Stages /\ Workers' = Workers
      /\ ErrCap' = ErrCap /\ \A s : Pool(s)' = Pool(s) /\ Slots(s)' = Slots(s)
      /\ \A w : StageOf(w)' = StageOf(w)
  BY SameShape
<1>c. /\ \A s \in Stages : \A w \in Pool(s) : w \in Workers /\ StageOf(w) = s
      /\ \A w \in Workers : StageOf(w) \in Stages /\ w \in Pool(StageOf(w))
  BY <1>a, OneStage
<1>d. /\ N \in Nat /\ 0 \in 0..N
      /\ \A s \in Stages : s \in 0..N /\ s # 0
      /\ \A c \in 0..N : c < N => c + 1 \in Stages
  BY <1>a, ShapeFacts DEF Stages
<1>1. CASE UNCHANGED <<nextFifo>>
  BY <1>1, <1>a, <1>b, <1>c, <1>d DEF FifoTypes
<1>2. CASE SourceSend
  BY <1>2, <1>a, <1>b, <1>c, <1>d, ShapeFacts DEF FifoTypes, SourceSend,
     HandOver, ctxVars, runVars, errVars, callVars
<1>3. CASE \E w \in Workers : WorkerSend(w)
  BY <1>3, <1>a, <1>b, <1>c, <1>d, ShapeFacts DEF FifoTypes, WorkerSend,
     HandOver, Continue, ctxVars, runVars, errVars, callVars
<1>4. CASE \E s \in Stages : PassOn(s)
  BY <1>4, <1>a, <1>b, <1>c, <1>d, ShapeFacts DEF FifoTypes, PassOn, Goto,
     ctxVars, runVars, errVars, callVars
<1>5. CASE ProcessAgain
  BY <1>5, <1>a, <1>b, <1>c, <1>d, ShapeFacts DEF FifoTypes, ProcessAgain,
     FirstWorkerPc, FirstStagePc, ctxVars, runVars, errVars, callVars
<1>6. \/ UNCHANGED <<nextFifo>>
       \/ SourceSend \/ (\E w \in Workers : WorkerSend(w))
       \/ (\E s \in Stages : PassOn(s)) \/ ProcessAgain
  BY DEF Next, Source, Sink, Worker, StageRun, Collector, SourceNext,
     SourceExhausted, SourceFails, SourceCancelled, ProcessPayload, ProcessFails,
     WorkerSendCancelled, WorkerExit, ReturnToken, FixedPoolReturns, InputEnds,
     ReadingCancelled, Spawn, DrainToken, DynamicPoolReturns, BroadcastReturns,
     SinkConsumes, SinkFails, SinkExits, ContextExpires, CloseErrCh, CollectError,
     ProcessReturns, SourceEnds, EmitError, Goto, RunReturns, StopReading, vars,
     ctxVars, runVars, errVars, callVars
<1> QED
  BY <1>1, <1>2, <1>3, <1>4, <1>5, <1>6

(* Tokens.                                                                 *)
LEMMA TokensStep ==
  ASSUME IInv, [Next]_vars
  PROVE  TokenTypes'
<1>a. TokenTypes /\ shape \in Shapes
  BY DEF IInv, TypeOK, TokenTypes
<1>b. /\ shape' = shape /\ N' = N /\ Stages' = Stages /\ Workers' = Workers
      /\ ErrCap' = ErrCap /\ \A s : Pool(s)' = Pool(s) /\ Slots(s)' = Slots(s)
      /\ \A w : StageOf(w)' = StageOf(w)
  BY SameShape
<1>c. /\ \A s \in Stages : \A w \in Pool(s) : w \in Workers /\ StageOf(w) = s
      /\ \A w \in Workers : StageOf(w) \in Stages /\ w \in Pool(StageOf(w))
  BY <1>a, OneStage
<1>1. CASE UNCHANGED <<tokens, drained>>
  BY <1>1, <1>a, <1>b, <1>c DEF TokenTypes
<1>2. CASE \E w \in Workers : ReturnToken(w)
  BY <1>2, <1>a, <1>b, <1>c DEF TokenTypes, ReturnToken, Goto, ctxVars,
     runVars, errVars, callVars
<1>3. CASE \E s \in Stages : \E w \in Pool(s) : Spawn(s, w)
  BY <1>3, <1>a, <1>b, <1>c DEF TokenTypes, Spawn, Goto, ctxVars, runVars,
     errVars, callVars
<1>4. CASE \E s \in Stages : DrainToken(s)
  BY <1>4, <1>a, <1>b, <1>c DEF TokenTypes, DrainToken, ctxVars, runVars,
     errVars, callVars
<1>5. CASE ProcessAgain
  BY <1>5, <1>a, <1>b, <1>c DEF TokenTypes, ProcessAgain, FirstWorkerPc,
     FirstStagePc, ctxVars, runVars, errVars, callVars
<1>6. \/ UNCHANGED <<tokens, drained>>
       \/ (\E w \in Workers : ReturnToken(w)) \/ (\E s \in Stages : \E w \in Pool(s) : Spawn(s, w))
       \/ (\E s \in Stages : DrainToken(s)) \/ ProcessAgain
  BY DEF Next, Source, Sink, Worker, StageRun, Collector, SourceNext, SourceSend,
     SourceExhausted, SourceFails, SourceCancelled, ProcessPayload, ProcessFails,
     WorkerSend, WorkerSendCancelled, WorkerExit, FixedPoolReturns, InputEnds,
     ReadingCancelled, DynamicPoolReturns, PassOn, BroadcastReturns, SinkConsumes,
     SinkFails, SinkExits, ContextExpires, CloseErrCh, CollectError, ProcessReturns,
     HandOver, SourceEnds, EmitError, Goto, RunReturns, StopReading, vars, ctxVars,
     runVars, errVars, callVars
<1> QED
  BY <1>1, <1>2, <1>3, <1>4, <1>5, <1>6

(* Together: types hold in the next state.                                 *)
LEMMA TypeStep ==
  ASSUME IInv, [Next]_vars
  PROVE  TypeOK'
<1>1. /\ ScalarTypes' /\ WorkerTypes' /\ StageTypes' /\ FifoTypes' /\ TokenTypes'
      /\ TokenInv'
  BY ScalarStep, WorkerStep, StageStep, FifoStep, TokensStep, TokenStep
<1>2. ASSUME NEW s \in Stages', Dynamic(s)'
      PROVE  tokens'[s] + drained'[s] <= Slots(s)'
  <2>1. Slots(s)' \in Nat /\ Cardinality(Busy(s)') \in Nat
    <3>1. /\ shape \in Shapes /\ s \in Stages /\ Slots(s)' = Slots(s) /\ Pool(s)' = Pool(s)
      BY <1>2, SameShape DEF IInv, TypeOK
    <3>2. IsFiniteSet(Pool(s)) /\ Busy(s)' \subseteq Pool(s)
      BY <3>1, ShapeFacts DEF Busy
    <3> QED
      BY <3>1, <3>2, ShapeFacts, FS_Subset, FS_CardinalityType
  <2>2. tokens'[s] \in Nat /\ drained'[s] \in Nat
    BY <1>1, <1>2 DEF TokenTypes
  <2> QED
    BY <1>1, <1>2, <2>1, <2>2 DEF TokenInv
<1> QED
  BY <1>1, <1>2 DEF TypeOK, ScalarTypes, WorkerTypes, StageTypes, FifoTypes, TokenTypes

-----------------------------------------------------------------------------
(* Theorems.                                                               *)

(* The invariant holds when Process is called.                             *)
LEMMA InitInv == Init => IInv
<1> SUFFICES ASSUME Init PROVE IInv
  OBVIOUS
<1>1. shape \in Shapes /\ calls = 1
  BY DEF Init
<1>2. /\ \A s \in Stages : \A w \in Pool(s) : w \in Workers /\ StageOf(w) = s
      /\ \A w \in Workers : StageOf(w) \in Stages /\ w \in Pool(StageOf(w))
  BY <1>1, OneStage
<1>3. TypeOK
  <2>1. 1 \in 1..shape.calls
    BY <1>1, ShapesAssumption
  <2>2. /\ workerPc \in [Workers -> {"off", "recv", "process", "send", "release", "done"}]
        /\ stagePc \in [Stages -> {"run", "recv", "token", "pass", "drain", "join", "done"}]
    BY DEF Init, FirstWorkerPc, FirstStagePc
  <2>3. /\ tokens \in [Stages -> Nat] /\ drained \in [Stages -> Nat]
        /\ \A s \in Stages : Dynamic(s) => tokens[s] + drained[s] <= Slots(s)
    BY <1>1, ShapeFacts DEF Init
  <2>4. nextFifo \in [Stages -> Nat] /\ \A s \in Stages : nextFifo[s] \in 1..Slots(s)
    BY <1>1, ShapeFacts DEF Init
  <2>5. 0 \in 0..ErrCap
    BY <1>1, CapPositive
  <2>6. /\ parentDone \in BOOLEAN /\ cancelled \in BOOLEAN /\ errClosed \in BOOLEAN
        /\ err \in BOOLEAN /\ failed \in BOOLEAN /\ dropped \in BOOLEAN
        /\ closed \in [0..N -> BOOLEAN]
    BY DEF Init
  <2> QED
    BY <1>1, <2>1, <2>2, <2>3, <2>4, <2>5, <2>6 DEF Init, TypeOK
<1>4. WorkerKinds
  BY <1>2 DEF Init, WorkerKinds, FirstWorkerPc
<1>5. StageKinds
  BY <1>1, ShapeFacts DEF Init, StageKinds, FirstStagePc, Runners, Fixed, Dynamic
<1>6. CloseInv
  <2>1. \A s \in Stages : s \in 0..N /\ stagePc[s] # "done"
    BY <1>1, ShapeFacts DEF Init, FirstStagePc, Stages
  <2>2. 0 \in 0..N
    BY <1>1, ShapeFacts
  <2> QED
    BY <2>1, <2>2 DEF Init, CloseInv
<1>7. TokenInv
  <2>1. ASSUME NEW s \in Stages, Dynamic(s)
        PROVE  tokens[s] + drained[s] + Cardinality(Busy(s)) = Slots(s)
    <3>1. Busy(s) = {}
      BY <1>2, <2>1 DEF Init, Busy, FirstWorkerPc
    <3>2. tokens[s] = Slots(s) /\ drained[s] = 0 /\ Slots(s) \in Nat
      BY <1>1, <2>1, ShapeFacts DEF Init
    <3> QED
      BY <3>1, <3>2, FS_EmptySet
  <2>2. \A s \in Stages : Slots(s) \in Nat
    BY <1>1, ShapeFacts
  <2> QED
    BY <2>1, <2>2 DEF TokenInv
<1>8. ErrorInv
  BY DEF Init, ErrorInv
<1> QED
  BY <1>3, <1>4, <1>5, <1>6, <1>7, <1>8 DEF IInv

(* The invariant is inductive.                                             *)
THEOREM Invariance == Spec => []IInv
<1>1. IInv /\ [Next]_vars => IInv'
  BY TypeStep, WorkerKindsStep, StageKindsStep, CloseStep, TokenStep, ErrorStep DEF IInv
<1> QED
  BY <1>1, InitInv, PTL DEF Spec

(* Types: no stage of any pipeline takes more tokens than it made, and     *)
(* errCh never holds more than its capacity (pipeline.go 69).              *)
THEOREM TypeCorrect == Spec => []TypeOK
<1>1. IInv => TypeOK
  BY DEF IInv
<1> QED
  BY <1>1, Invariance, PTL

(* No goroutine of any pipeline sends on a closed channel, however stages  *)
(* are put together and whoever fails or is cancelled first                *)
(* (pipeline.go 83, 107-111).                                              *)
THEOREM ClosedSafely == Spec => []NoSendOnClosed
<1>1. IInv => NoSendOnClosed
  <2> SUFFICES ASSUME IInv PROVE NoSendOnClosed
    OBVIOUS
  <2>1. \A w \in Workers : \E s \in Stages : w \in Pool(s)
    BY DEF Workers
  <2> QED
    BY <2>1 DEF IInv, CloseInv, AllExited, NoSendOnClosed
<1> QED
  BY <1>1, Invariance, PTL

(* A nil result under a live context means that no payload was lost        *)
(* (pipeline.go 41-48).                                                    *)
THEOREM NilComplete == Spec => []NilMeansComplete
<1>1. IInv => NilMeansComplete
  BY DEF IInv, TypeOK, ErrorInv, NilMeansComplete
<1> QED
  BY <1>1, Invariance, PTL

(* Process reports an error exactly when there was one, although errCh     *)
(* drops what does not fit (pipeline.go 113-120, 168-175).                 *)
THEOREM ErrorsReported == Spec => []ErrorsSurface
<1>1. IInv => ErrorsSurface
  BY DEF IInv, TypeOK, ErrorInv, ErrorsSurface
<1> QED
  BY <1>1, Invariance, PTL

(* No token is lost or made in the first call (stage.go 135-176).          *)
THEOREM TokensKept == Spec => []TokensConserved
<1>1. IInv => TokensConserved
  BY DEF IInv, TokenInv, TokensConserved, Busy
<1> QED
  BY <1>1, Invariance, PTL
=============================================================================
