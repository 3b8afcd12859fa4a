------------------------------ MODULE Pipeline ------------------------------
(***************************************************************************)
(* pipeline/: Pipeline.Process (pipeline.go) with the stage runners of     *)
(* stage.go.  Stage s reads channel s-1 and writes channel s; channel 0 is *)
(* written by the source worker and the last one is read by the sink       *)
(* worker.  All channels but errCh are unbuffered, so a send and its       *)
(* receive are one action.                                                 *)
(*                                                                         *)
(* A payload has no identity here: a goroutine holds one exactly when its  *)
(* program counter says so.  What payloads carry is in BroadcastPayload.   *)
(***************************************************************************)
EXTENDS Integers, Sequences, FiniteSets, Functions

CONSTANT
  Shapes   \* the pipelines: their stage runners, the goroutines of each (FIFOs,
           \* or slots of a dynamic pool), and a bound on the calls of Process

Runners == {"fixed", "dynamic", "broadcast"}     \* a FIFO is a fixed pool of one

ASSUME ShapesAssumption ==
  \A sh \in Shapes :
    /\ sh.kinds \in Seq(Runners)
    /\ Len(sh.workers) = Len(sh.kinds)
    /\ \A s \in 1..Len(sh.kinds) :
       sh.workers[s] # <<>> /\ sh.workers[s] \in Seq(Range(sh.workers[s]))
    /\ \A s, t \in 1..Len(sh.kinds) :
         s # t => Range(sh.workers[s]) \cap Range(sh.workers[t]) = {}
    /\ sh.calls \in Nat \ {0}

VARIABLES
  shape,          \* the pipeline, which no step changes
  calls,          \* calls of Process so far
  procPc,         \* the collector loop of Process
  parentDone,     \* the caller's context expired
  cancelled,      \* ctxCancelFn was called
  srcPc,          \* sourceWorker
  sinkPc,         \* sinkWorker
  workerPc,       \* the FIFOs, and the goroutines a dynamic pool spawns
  stagePc,        \* StageRunner.Run of each stage
  nextFifo,       \* loop index of a broadcast
  tokens,         \* tokens in tokenPool of a dynamic pool
  drained,        \* tokens its Run has taken back
  closed,         \* which stage channels are closed
  errCh,          \* number of errors in errCh
  errClosed,      \* errCh is closed
  err,            \* an error was added to Process's result
  failed,         \* history: the source, a processor or the sink failed
  dropped         \* history: a payload was abandoned

N       == Len(shape.kinds)
Stages  == 1..N
Slots(s)     == Len(shape.workers[s])
Pool(s)      == Range(shape.workers[s])
Workers      == UNION {Pool(s) : s \in Stages}
StageOf(w)   == CHOOSE s \in Stages : w \in Pool(s)
Fixed(s)     == shape.kinds[s] = "fixed"
Dynamic(s)   == shape.kinds[s] = "dynamic"
Broadcast(s) == shape.kinds[s] = "broadcast"

ctxVars  == <<parentDone, cancelled>>
runVars  == <<stagePc, nextFifo, tokens, drained>>
errVars  == <<errCh, err, failed>>
callVars == <<shape, calls, procPc, errClosed>>
vars == <<ctxVars, runVars, errVars, callVars, srcPc, sinkPc, workerPc, closed, dropped>>

Done == parentDone \/ cancelled     \* pCtx.Done() is ready
ErrCap == N + 2

TypeOK ==
  /\ shape \in Shapes /\ calls \in 1..shape.calls
  /\ procPc \in {"collect", "returned"}
  /\ parentDone \in BOOLEAN /\ cancelled \in BOOLEAN
  /\ srcPc \in {"next", "send", "done"}
  /\ sinkPc \in {"recv", "consume", "done"}
  /\ workerPc \in [Workers -> {"off", "recv", "process", "send", "release", "done"}]
  /\ stagePc \in [Stages -> {"run", "recv", "token", "pass", "drain", "join", "done"}]
  /\ nextFifo \in [Stages -> Nat] /\ tokens \in [Stages -> Nat] /\ drained \in [Stages -> Nat]
  /\ \A s \in Stages : nextFifo[s] \in 1..Slots(s)
  /\ \A s \in Stages : Dynamic(s) => tokens[s] + drained[s] <= Slots(s)
  /\ closed \in [0..N -> BOOLEAN]
  /\ errCh \in 0..ErrCap
  /\ errClosed \in BOOLEAN /\ err \in BOOLEAN
  /\ failed \in BOOLEAN /\ dropped \in BOOLEAN

(* What Process sets up before its goroutines run.                         *)
FirstWorkerPc == [w \in Workers |-> IF Dynamic(StageOf(w)) THEN "off" ELSE "recv"]
FirstStagePc  == [s \in Stages |-> IF Fixed(s) THEN "run" ELSE "recv"]

Init ==
  /\ shape \in Shapes
  /\ calls = 1 /\ procPc = "collect"
  /\ parentDone = FALSE /\ cancelled = FALSE
  /\ srcPc = "next" /\ sinkPc = "recv"
  /\ workerPc = FirstWorkerPc /\ stagePc = FirstStagePc
  /\ nextFifo = [s \in Stages |-> 1]
  /\ tokens = [s \in Stages |-> IF Dynamic(s) THEN Slots(s) ELSE 0]
  /\ drained = [s \in Stages |-> 0]
  /\ closed = [c \in 0..N |-> FALSE]
  /\ errCh = 0 /\ errClosed = FALSE /\ err = FALSE
  /\ failed = FALSE /\ dropped = FALSE

(* Another call of Process on the same pipeline.  The stage runners are    *)
(* the same objects: what a dynamic pool has in its tokenPool stays.       *)
ProcessAgain ==
  /\ procPc = "returned" /\ calls < shape.calls
  /\ calls' = calls + 1 /\ procPc' = "collect"
  /\ parentDone' = FALSE /\ cancelled' = FALSE
  /\ srcPc' = "next" /\ sinkPc' = "recv"
  /\ workerPc' = FirstWorkerPc /\ stagePc' = FirstStagePc
  /\ nextFifo' = [s \in Stages |-> 1]
  /\ drained' = [s \in Stages |-> 0]
  /\ closed' = [c \in 0..N |-> FALSE]
  /\ errCh' = 0 /\ errClosed' = FALSE /\ err' = FALSE
  /\ failed' = FALSE /\ dropped' = FALSE
  /\ UNCHANGED <<shape, tokens>>

(* The caller's context expires.                                           *)
ContextExpires ==
  /\ procPc = "collect" /\ ~parentDone
  /\ parentDone' = TRUE
  /\ UNCHANGED <<cancelled, runVars, errVars, callVars, srcPc, sinkPc, workerPc,
                 closed, dropped>>

-----------------------------------------------------------------------------
(* Variant with a bug: an error is added even when errCh is full.          *)
EmitUnbounded ==
  /\ failed' = TRUE
  /\ errCh' = errCh + 1
  /\ UNCHANGED err

(* maybeEmitError: an error that does not fit is dropped.                  *)
EmitError ==
  /\ failed' = TRUE
  /\ errCh' = IF errCh < ErrCap THEN errCh + 1 ELSE errCh
  /\ UNCHANGED err

(* The receiving end of channel c; pcs is workerPc after the send.         *)
HandOver(c, pcs) ==
  \/ /\ c = N /\ sinkPc = "recv"
     /\ sinkPc' = "consume" /\ workerPc' = pcs
     /\ UNCHANGED runVars
  \/ /\ c < N /\ Fixed(c + 1)
     /\ \E r \in Pool(c + 1) : /\ pcs[r] = "recv"
                               /\ workerPc' = [pcs EXCEPT ![r] = "process"]
     /\ UNCHANGED <<sinkPc, runVars>>
  \/ /\ c < N /\ ~Fixed(c + 1) /\ stagePc[c + 1] = "recv"
     /\ stagePc' = [stagePc EXCEPT ![c + 1] = IF Dynamic(c + 1) THEN "token" ELSE "pass"]
     /\ nextFifo' = [nextFifo EXCEPT ![c + 1] = 1]
     /\ workerPc' = pcs
     /\ UNCHANGED <<sinkPc, tokens, drained>>

-----------------------------------------------------------------------------
(* sourceWorker, and the goroutine that closes channel 0 after it.         *)
SourceNext ==
  /\ srcPc = "next"
  /\ srcPc' = "send"
  /\ UNCHANGED <<ctxVars, runVars, errVars, callVars, sinkPc, workerPc, closed, dropped>>

SourceSend ==
  /\ srcPc = "send"
  /\ srcPc' = "next"
  /\ HandOver(0, workerPc)
  /\ UNCHANGED <<ctxVars, errVars, callVars, closed, dropped>>

SourceEnds ==
  /\ srcPc' = "done"
  /\ closed' = [closed EXCEPT ![0] = TRUE]
  /\ UNCHANGED <<ctxVars, runVars, callVars, sinkPc, workerPc>>

SourceExhausted ==
  /\ srcPc = "next"
  /\ SourceEnds
  /\ UNCHANGED <<errVars, dropped>>

SourceFails ==
  /\ srcPc = "next"
  /\ SourceEnds /\ EmitError
  /\ UNCHANGED dropped

SourceCancelled ==
  /\ srcPc = "send" /\ Done
  /\ SourceEnds
  /\ dropped' = TRUE
  /\ UNCHANGED errVars

Source == SourceNext \/ SourceSend \/ SourceExhausted \/ SourceFails \/ SourceCancelled

-----------------------------------------------------------------------------
(* fifo.Run, and the goroutines of a dynamic pool, which do the same with  *)
(* one payload and then give their token back.                             *)
Goto(w, pc) == workerPc' = [workerPc EXCEPT ![w] = pc]

(* Where a worker goes after it dealt with a payload, and where after an   *)
(* error or a cancellation.                                                *)
Continue(w) == IF Dynamic(StageOf(w)) THEN "release" ELSE "recv"
Leave(w)    == IF Dynamic(StageOf(w)) THEN "release" ELSE "done"

ProcessPayload(w) ==     \* the processor returned a payload, or none
  /\ workerPc[w] = "process"
  /\ \E pc \in {"send", Continue(w)} : Goto(w, pc)
  /\ UNCHANGED <<ctxVars, runVars, errVars, callVars, srcPc, sinkPc, closed, dropped>>

ProcessFails(w) ==
  /\ workerPc[w] = "process"
  /\ EmitError
  /\ Goto(w, Leave(w))
  /\ dropped' = TRUE
  /\ UNCHANGED <<ctxVars, runVars, callVars, srcPc, sinkPc, closed>>

WorkerSend(w) ==
  /\ workerPc[w] = "send"
  /\ HandOver(StageOf(w), [workerPc EXCEPT ![w] = Continue(w)])
  /\ UNCHANGED <<ctxVars, errVars, callVars, srcPc, closed, dropped>>

WorkerSendCancelled(w) ==
  /\ workerPc[w] = "send" /\ Done
  /\ Goto(w, Leave(w))
  /\ dropped' = TRUE
  /\ UNCHANGED <<ctxVars, runVars, errVars, callVars, srcPc, sinkPc, closed>>

(* A FIFO waiting for input sees the cancellation or its input closed: the *)
(* channel before its stage, or the one its broadcast feeds it from.       *)
InputClosed(w) ==
  LET s == StageOf(w) IN
  IF Broadcast(s) THEN stagePc[s] = "join" ELSE closed[s - 1]

WorkerExit(w) ==
  /\ workerPc[w] = "recv"
  /\ Done \/ InputClosed(w)
  /\ Goto(w, "done")
  /\ UNCHANGED <<ctxVars, runVars, errVars, callVars, srcPc, sinkPc, closed, dropped>>

(* Variant with a bug: a goroutine may end without giving its token back.  *)
KeepToken(w) ==
  /\ workerPc[w] = "release"
  /\ Goto(w, "off")
  /\ UNCHANGED <<ctxVars, runVars, errVars, callVars, srcPc, sinkPc, closed, dropped>>

ReturnToken(w) ==
  LET s == StageOf(w) IN
  /\ workerPc[w] = "release"
  /\ tokens' = [tokens EXCEPT ![s] = @ + 1]
  /\ Goto(w, "off")
  /\ UNCHANGED <<ctxVars, stagePc, nextFifo, drained, errVars, callVars, srcPc,
                 sinkPc, closed, dropped>>

Worker(w) == \/ ProcessPayload(w) \/ ProcessFails(w)
             \/ WorkerSend(w) \/ WorkerSendCancelled(w)
             \/ WorkerExit(w) \/ ReturnToken(w)

-----------------------------------------------------------------------------
(* StageRunner.Run of the other goroutine of a stage: the wg.Wait of a     *)
(* fixed pool, and the reading loops of a dynamic pool and a broadcast.    *)
(* When Run returns its caller closes the stage's output.                  *)
RunReturns(s) ==
  /\ stagePc' = [stagePc EXCEPT ![s] = "done"]
  /\ closed' = [closed EXCEPT ![s] = TRUE]
  /\ UNCHANGED <<ctxVars, nextFifo, tokens, drained, errVars, callVars, srcPc,
                 sinkPc, workerPc, dropped>>

(* Variant with a bug: the pool returns with its first FIFO.               *)
SomeDone(s) == \E w \in Pool(s) : workerPc[w] = "done"

AllDone(s) == \A w \in Pool(s) : workerPc[w] = "done"

FixedPoolReturns(s) ==
  /\ stagePc[s] = "run" /\ AllDone(s)
  /\ RunReturns(s)

(* The loop of a dynamic pool or a broadcast ends; a payload taken from    *)
(* the input and not passed on is lost.                                    *)
StopReading(s, lost) ==
  /\ stagePc' = [stagePc EXCEPT ![s] = IF Dynamic(s) THEN "drain" ELSE "join"]
  /\ dropped' = (dropped \/ lost)
  /\ UNCHANGED <<ctxVars, nextFifo, tokens, drained, errVars, callVars, srcPc,
                 sinkPc, workerPc, closed>>

InputEnds(s) ==
  /\ stagePc[s] = "recv"
  /\ Done \/ closed[s - 1]
  /\ StopReading(s, FALSE)

ReadingCancelled(s) ==
  /\ stagePc[s] \in {"token", "pass"} /\ Done
  /\ StopReading(s, TRUE)

(* A token is available: a goroutine is spawned for the payload.           *)
Spawn(s, w) ==
  /\ stagePc[s] = "token" /\ tokens[s] > 0
  /\ w \in Pool(s) /\ workerPc[w] = "off"
  /\ tokens' = [tokens EXCEPT ![s] = @ - 1]
  /\ Goto(w, "process")
  /\ stagePc' = [stagePc EXCEPT ![s] = "recv"]
  /\ UNCHANGED <<ctxVars, nextFifo, drained, errVars, callVars, srcPc, sinkPc,
                 closed, dropped>>

(* Run has taken cap(tokenPool) tokens.                                    *)
AllTokensBack(s) == drained[s] = Slots(s)

DrainToken(s) ==
  /\ stagePc[s] = "drain" /\ tokens[s] > 0 /\ drained[s] < Slots(s)
  /\ tokens' = [tokens EXCEPT ![s] = @ - 1]
  /\ drained' = [drained EXCEPT ![s] = @ + 1]
  /\ UNCHANGED <<ctxVars, stagePc, nextFifo, errVars, callVars, srcPc, sinkPc,
                 workerPc, closed, dropped>>

DynamicPoolReturns(s) ==
  /\ stagePc[s] = "drain" /\ AllTokensBack(s)
  /\ RunReturns(s)

(* The payload, or a clone of it, goes to the next FIFO of the broadcast.  *)
PassOn(s) ==
  LET i == nextFifo[s]
      w == shape.workers[s][i]
      last == i = Slots(s) IN
  /\ stagePc[s] = "pass" /\ workerPc[w] = "recv"
  /\ Goto(w, "process")
  /\ stagePc' = [stagePc EXCEPT ![s] = IF last THEN "recv" ELSE "pass"]
  /\ nextFifo' = [nextFifo EXCEPT ![s] = IF last THEN 1 ELSE i + 1]
  /\ UNCHANGED <<ctxVars, tokens, drained, errVars, callVars, srcPc, sinkPc,
                 closed, dropped>>

BroadcastReturns(s) ==
  /\ stagePc[s] = "join" /\ AllDone(s)
  /\ RunReturns(s)

StageRun(s) == \/ FixedPoolReturns(s) \/ InputEnds(s) \/ ReadingCancelled(s)
               \/ \E w \in Pool(s) : Spawn(s, w)
               \/ DrainToken(s) \/ DynamicPoolReturns(s)
               \/ PassOn(s) \/ BroadcastReturns(s)

-----------------------------------------------------------------------------
(* sinkWorker.                                                             *)
SinkConsumes ==
  /\ sinkPc = "consume"
  /\ sinkPc' = "recv"
  /\ UNCHANGED <<ctxVars, runVars, errVars, callVars, srcPc, workerPc, closed, dropped>>

SinkFails ==
  /\ sinkPc = "consume"
  /\ sinkPc' = "done"
  /\ EmitError
  /\ dropped' = TRUE
  /\ UNCHANGED <<ctxVars, runVars, callVars, srcPc, workerPc, closed>>

SinkExits ==
  /\ sinkPc = "recv"
  /\ Done \/ closed[N]
  /\ sinkPc' = "done"
  /\ UNCHANGED <<ctxVars, runVars, errVars, callVars, srcPc, workerPc, closed, dropped>>

Sink == SinkConsumes \/ SinkFails \/ SinkExits

-----------------------------------------------------------------------------
(* Variant with a bug: wg does not count the sink.                         *)
StagesExited == srcPc = "done" /\ \A s \in Stages : stagePc[s] = "done"

(* wg.Wait of Process: source, stages and sink are finished.               *)
AllExited == /\ srcPc = "done" /\ sinkPc = "done"
             /\ \A s \in Stages : stagePc[s] = "done"

CloseErrCh ==
  /\ AllExited /\ ~errClosed
  /\ errClosed' = TRUE /\ cancelled' = TRUE
  /\ UNCHANGED <<parentDone, runVars, errVars, shape, calls, procPc, srcPc,
                 sinkPc, workerPc, closed, dropped>>

(* Variants with a bug: the first error does not stop the pipeline; the    *)
(* result is overwritten instead of appended to.                           *)
CollectOnly ==
  /\ procPc = "collect" /\ errCh > 0
  /\ errCh' = errCh - 1
  /\ err' = TRUE
  /\ UNCHANGED <<ctxVars, failed, runVars, callVars, srcPc, sinkPc, workerPc,
                 closed, dropped>>

CancelOnly ==
  /\ procPc = "collect" /\ errCh > 0
  /\ errCh' = errCh - 1
  /\ cancelled' = TRUE
  /\ UNCHANGED <<parentDone, err, failed, runVars, callVars, srcPc, sinkPc,
                 workerPc, closed, dropped>>

(* One iteration of "for pErr := range errCh".                             *)
CollectError ==
  /\ procPc = "collect" /\ errCh > 0
  /\ errCh' = errCh - 1
  /\ err' = TRUE /\ cancelled' = TRUE
  /\ UNCHANGED <<parentDone, failed, runVars, callVars, srcPc, sinkPc, workerPc,
                 closed, dropped>>

ProcessReturns ==
  /\ procPc = "collect" /\ errCh = 0 /\ errClosed
  /\ procPc' = "returned"
  /\ UNCHANGED <<ctxVars, runVars, errVars, shape, calls, errClosed, srcPc,
                 sinkPc, workerPc, closed, dropped>>

Collector == CollectError \/ ProcessReturns

-----------------------------------------------------------------------------
Next == \/ ContextExpires \/ ProcessAgain
        \/ Source \/ Sink
        \/ \E w \in Workers : Worker(w)
        \/ \E s \in Stages : StageRun(s)
        \/ CloseErrCh \/ Collector

Spec == Init /\ [][Next]_vars

AllStages  == UNION {1..Len(sh.kinds) : sh \in Shapes}
AllWorkers == UNION {UNION {Range(sh.workers[s]) : s \in 1..Len(sh.kinds)} : sh \in Shapes}

(* Every goroutine that can run does, and calls of the source, the         *)
(* processors and the sink return.  A select with several ready cases      *)
(* chooses at random, so the source worker, which passes the same select   *)
(* again and again, takes its ctx.Done case in the end.                    *)
Fairness == /\ WF_vars(Source) /\ SF_vars(SourceCancelled)
            /\ WF_vars(Sink) /\ WF_vars(CloseErrCh) /\ WF_vars(Collector)
            /\ \A w \in AllWorkers : WF_vars(w \in Workers /\ Worker(w))
            /\ \A s \in AllStages : WF_vars(s \in Stages /\ StageRun(s))

FairSpec == Spec /\ Fairness

-----------------------------------------------------------------------------
(* Properties.                                                             *)

(* Nobody sends on a closed channel, which would panic: a stage's output   *)
(* is closed only when none of its goroutines can still produce a payload, *)
(* and errCh only when nobody can fail any more (pipeline.go 83, 107-111). *)
NoSendOnClosed ==
  /\ \A s \in Stages : closed[s] => \A w \in Pool(s) : workerPc[w] \in {"off", "done"}
  /\ errClosed => /\ srcPc = "done" /\ sinkPc = "done"
                  /\ \A w \in Workers : workerPc[w] \in {"off", "done"}

(* Process returns nil while its context is live only when every payload   *)
(* of the source reached the sink or was dismissed by a processor          *)
(* (pipeline.go 41-48).                                                    *)
NilMeansComplete ==
  procPc = "returned" /\ ~err /\ ~parentDone => ~dropped

(* A failure anywhere makes Process return an error, and Process returns   *)
(* no error when there was none, whatever fills errCh and whoever is       *)
(* cancelled first (pipeline.go 113-120, 168-175).                         *)
ErrorsSurface == procPc = "returned" => (err <=> failed)

(* A dynamic pool runs one goroutine per token and leaks no token during a *)
(* call, so giving one back never blocks (stage.go 135-145, 172-176).      *)
TokensConserved ==
  calls = 1 =>
    \A s \in Stages : Dynamic(s) =>
      tokens[s] + drained[s] + Cardinality({w \in Pool(s) : workerPc[w] # "off"})
        = Slots(s)

(* Calls to Process block until all data has been processed, an error      *)
(* occurs or the context expires, and no longer (pipeline.go 45-48).       *)
ProcessEnds ==
  (srcPc = "done" \/ Done \/ failed) /\ procPc = "collect" ~> procPc = "returned"

=============================================================================
