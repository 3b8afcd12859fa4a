------------------------ MODULE BroadcastPayloadProofs ------------------------
(***************************************************************************)
(* Proofs about the payload objects that the crawler's stages share, for   *)
(* any links, any number of objects and any number of processors.          *)
(***************************************************************************)
EXTENDS BroadcastPayload, TLAPS, FiniteSetTheorems

(* Objects that nobody uses are empty but for the fields that no reset     *)
(* touches.                                                                *)
Empty(p) == p.raw = {} /\ p.links = {} /\ p.text = {}
PoolInv == \A o \in pool : Empty(obj[o])

(* An object with nothing but what belongs to link l.                      *)
Only(p, l) == p.id = l /\ p.url = l /\ p.links \subseteq {l} /\ p.text \subseteq {l}

(* The object on its way to the broadcast is of one link.                  *)
SourceInv ==
  /\ input = None <=> inputPc = "idle"
  /\ inputPc # "idle" => obj[input].id \in Links /\ Only(obj[input], obj[input].id)
  /\ inputPc = "source" => Empty(obj[input])
  /\ inputPc # "idle" => obj[input].raw \subseteq {obj[input].id}
  /\ inputPc # "idle" => dismissed < yielded

(* What the broadcast has in its hand for the first processor.             *)
DispInv ==
  /\ dispPc = "pass" => fifoPayload # None
  /\ dispPc = "pass" /\ next = 1 => Only(obj[fifoPayload], taken)
  /\ dispPc = "cloneId" => fifoPayload = None
  /\ dispPc \in {"cloneUrl", "cloneBody"} => fifoPayload # None
  /\ dispPc # "recv" => payload # None

FifoInv ==
  /\ \A f \in Fifos : hold[f] = None <=> fifoPc[f] = "recv"
  /\ FirstFifoUnmixed

(* The copies of a link that are still to reach the sink.                  *)
Busy == {f \in Fifos : fifoPc[f] # "recv"}
ToPass == CASE dispPc = "recv" -> 0
            [] dispPc = "pass" -> NumFifos - next + 1
            [] OTHER           -> NumFifos - next
AtSink == IF sinkHold = None THEN 0 ELSE 1
Coming == IF input = None THEN 0 ELSE NumFifos
CountInv ==
  NumFifos * (yielded - dismissed) = count + AtSink + Cardinality(Busy) + ToPass + Coming

IInv == TypeOK /\ ExclusiveOwner /\ PoolInv /\ SourceInv /\ DispInv /\ FifoInv /\ CountInv

-----------------------------------------------------------------------------
(* Numbers.                                                                *)

(* Multiplication is monotonic: n copies of at most b links.               *)
LEMMA MulMono ==
  ASSUME NEW n \in Nat, NEW a \in Nat, NEW b \in Nat, a <= b
  PROVE  n * a <= n * b
<1>1. PICK d \in Nat : b = a + d
  <2>1. b - a \in Nat /\ b = a + (b - a)
    OBVIOUS
  <2> QED
    BY <2>1
<1>2. n * b = n * a + n * d /\ n * d \in Nat
  BY <1>1
<1> QED
  BY <1>2

(* Dividing what was multiplied.                                           *)
LEMMA DivMul ==
  ASSUME NEW n \in Nat \ {0}, NEW k \in Nat
  PROVE  (n * k) \div n = k
  OBVIOUS

(* One more and one less.                                                  *)
LEMMA MulStep ==
  ASSUME NEW n \in Nat, NEW k \in Int
  PROVE  n * k \in Int /\ n * (k + 1) = n * k + n /\ n * (k - 1) = n * k - n
  OBVIOUS

(* What is in the pool stays empty.                                        *)
LEMMA PoolStep ==
  ASSUME IInv, [Next]_vars
  PROVE  PoolInv'
<1>1. CASE \E o \in Objs, l \in Links : SourcePayload(o, l)
  BY <1>1, NoneAssumption, BoundsAssumption DEF IInv, TypeOK, ExclusiveOwner, Holders,
     PoolInv, DispInv, SourceInv, FifoInv, Empty, Fields, Fresh, Fifos, srcVars,
     dispVars, fifoVars, sinkVars, objVars, SourcePayload, Get
<1>2. CASE Fetch
  BY <1>2, NoneAssumption, BoundsAssumption DEF IInv, TypeOK, ExclusiveOwner, Holders,
     PoolInv, DispInv, SourceInv, FifoInv, Empty, Fields, Fresh, Fifos, srcVars,
     dispVars, fifoVars, sinkVars, objVars, Fetch
<1>3. CASE Dismiss
  BY <1>3, NoneAssumption, BoundsAssumption DEF IInv, TypeOK, ExclusiveOwner, Holders,
     PoolInv, DispInv, SourceInv, FifoInv, Empty, Fields, Fresh, Fifos, srcVars,
     dispVars, fifoVars, sinkVars, objVars, Dismiss, MarkAsProcessed
<1>4. CASE ExtractLinks
  BY <1>4, NoneAssumption, BoundsAssumption DEF IInv, TypeOK, ExclusiveOwner, Holders,
     PoolInv, DispInv, SourceInv, FifoInv, Empty, Fields, Fresh, Fifos, srcVars,
     dispVars, fifoVars, sinkVars, objVars, ExtractLinks
<1>5. CASE ExtractText
  BY <1>5, NoneAssumption, BoundsAssumption DEF IInv, TypeOK, ExclusiveOwner, Holders,
     PoolInv, DispInv, SourceInv, FifoInv, Empty, Fields, Fresh, Fifos, srcVars,
     dispVars, fifoVars, sinkVars, objVars, ExtractText
<1>6. CASE Take
  BY <1>6, NoneAssumption, BoundsAssumption DEF IInv, TypeOK, ExclusiveOwner, Holders,
     PoolInv, DispInv, SourceInv, FifoInv, Empty, Fields, Fresh, Fifos, srcVars,
     dispVars, fifoVars, sinkVars, objVars, Take
<1>7. CASE Pass
  BY <1>7, NoneAssumption, BoundsAssumption DEF IInv, TypeOK, ExclusiveOwner, Holders,
     PoolInv, DispInv, SourceInv, FifoInv, Empty, Fields, Fresh, Fifos, srcVars,
     dispVars, fifoVars, sinkVars, objVars, Pass
<1>8. CASE \E o \in Objs : CloneId(o)
  BY <1>8, NoneAssumption, BoundsAssumption DEF IInv, TypeOK, ExclusiveOwner, Holders,
     PoolInv, DispInv, SourceInv, FifoInv, Empty, Fields, Fresh, Fifos, srcVars,
     dispVars, fifoVars, sinkVars, objVars, CloneId, Get
<1>9. CASE CloneUrl
  BY <1>9, NoneAssumption, BoundsAssumption DEF IInv, TypeOK, ExclusiveOwner, Holders,
     PoolInv, DispInv, SourceInv, FifoInv, Empty, Fields, Fresh, Fifos, srcVars,
     dispVars, fifoVars, sinkVars, objVars, CloneUrl
<1>10. CASE CloneBody
  BY <1>10, NoneAssumption, BoundsAssumption DEF IInv, TypeOK, ExclusiveOwner, Holders,
     PoolInv, DispInv, SourceInv, FifoInv, Empty, Fields, Fresh, Fifos, srcVars,
     dispVars, fifoVars, sinkVars, objVars, CloneBody, MoreFifos
<1>11. CASE \E f \in Fifos : FifoProcess(f)
  BY <1>11, NoneAssumption, BoundsAssumption DEF IInv, TypeOK, ExclusiveOwner, Holders,
     PoolInv, DispInv, SourceInv, FifoInv, Empty, Fields, Fresh, Fifos, srcVars,
     dispVars, fifoVars, sinkVars, objVars, FifoProcess
<1>12. CASE \E f \in Fifos : FifoSend(f)
  BY <1>12, NoneAssumption, BoundsAssumption DEF IInv, TypeOK, ExclusiveOwner, Holders,
     PoolInv, DispInv, SourceInv, FifoInv, Empty, Fields, Fresh, Fifos, srcVars,
     dispVars, fifoVars, sinkVars, objVars, FifoSend
<1>13. CASE SinkConsume
  BY <1>13, NoneAssumption, BoundsAssumption DEF IInv, TypeOK, ExclusiveOwner, Holders,
     PoolInv, DispInv, SourceInv, FifoInv, Empty, Fields, Fresh, Fifos, srcVars,
     dispVars, fifoVars, sinkVars, objVars, SinkConsume, MarkAsProcessed
<1>14. CASE UNCHANGED vars
  BY <1>14 DEF IInv, TypeOK, ExclusiveOwner, Holders, PoolInv, DispInv, SourceInv,
     FifoInv, Empty, Fields, Fresh, Fifos, vars, srcVars, dispVars, fifoVars, sinkVars,
     objVars
<1> QED
  BY <1>1, <1>2, <1>3, <1>4, <1>5, <1>6, <1>7, <1>8, <1>9, <1>10, <1>11, <1>12, <1>13,
     <1>14 DEF Next

(* No step gives an object a second owner.                                 *)
LEMMA OwnerStep ==
  ASSUME IInv, [Next]_vars
  PROVE  ExclusiveOwner'
<1>1. CASE \E o \in Objs, l \in Links : SourcePayload(o, l)
  BY <1>1, NoneAssumption, BoundsAssumption DEF IInv, TypeOK, ExclusiveOwner, Holders,
     DispInv, SourceInv, FifoInv, Fifos, srcVars, dispVars, fifoVars, sinkVars, objVars,
     SourcePayload, Get
<1>2. CASE Fetch
  BY <1>2, NoneAssumption, BoundsAssumption DEF IInv, TypeOK, ExclusiveOwner, Holders,
     DispInv, SourceInv, FifoInv, Fifos, srcVars, dispVars, fifoVars, sinkVars, objVars,
     Fetch
<1>3. CASE Dismiss
  BY <1>3, NoneAssumption, BoundsAssumption DEF IInv, TypeOK, ExclusiveOwner, Holders,
     DispInv, SourceInv, FifoInv, Fifos, srcVars, dispVars, fifoVars, sinkVars, objVars,
     Dismiss, MarkAsProcessed
<1>4. CASE ExtractLinks
  BY <1>4, NoneAssumption, BoundsAssumption DEF IInv, TypeOK, ExclusiveOwner, Holders,
     DispInv, SourceInv, FifoInv, Fifos, srcVars, dispVars, fifoVars, sinkVars, objVars,
     ExtractLinks
<1>5. CASE ExtractText
  BY <1>5, NoneAssumption, BoundsAssumption DEF IInv, TypeOK, ExclusiveOwner, Holders,
     DispInv, SourceInv, FifoInv, Fifos, srcVars, dispVars, fifoVars, sinkVars, objVars,
     ExtractText
<1>6. CASE Take
  BY <1>6, NoneAssumption, BoundsAssumption DEF IInv, TypeOK, ExclusiveOwner, Holders,
     DispInv, SourceInv, FifoInv, Fifos, srcVars, dispVars, fifoVars, sinkVars, objVars,
     Take
<1>7. CASE Pass
  BY <1>7, NoneAssumption, BoundsAssumption DEF IInv, TypeOK, ExclusiveOwner, Holders,
     DispInv, SourceInv, FifoInv, Fifos, srcVars, dispVars, fifoVars, sinkVars, objVars,
     Pass
<1>8. CASE \E o \in Objs : CloneId(o)
  BY <1>8, NoneAssumption, BoundsAssumption DEF IInv, TypeOK, ExclusiveOwner, Holders,
     DispInv, SourceInv, FifoInv, Fifos, srcVars, dispVars, fifoVars, sinkVars, objVars,
     CloneId, Get
<1>9. CASE CloneUrl
  BY <1>9, NoneAssumption, BoundsAssumption DEF IInv, TypeOK, ExclusiveOwner, Holders,
     DispInv, SourceInv, FifoInv, Fifos, srcVars, dispVars, fifoVars, sinkVars, objVars,
     CloneUrl
<1>10. CASE CloneBody
  BY <1>10, NoneAssumption, BoundsAssumption DEF IInv, TypeOK, ExclusiveOwner, Holders,
     DispInv, SourceInv, FifoInv, Fifos, srcVars, dispVars, fifoVars, sinkVars, objVars,
     CloneBody, MoreFifos
<1>11. CASE \E f \in Fifos : FifoProcess(f)
  BY <1>11, NoneAssumption, BoundsAssumption DEF IInv, TypeOK, ExclusiveOwner, Holders,
     DispInv, SourceInv, FifoInv, Fifos, srcVars, dispVars, fifoVars, sinkVars, objVars,
     FifoProcess
<1>12. CASE \E f \in Fifos : FifoSend(f)
  BY <1>12, NoneAssumption, BoundsAssumption DEF IInv, TypeOK, ExclusiveOwner, Holders,
     DispInv, SourceInv, FifoInv, Fifos, srcVars, dispVars, fifoVars, sinkVars, objVars,
     FifoSend
<1>13. CASE SinkConsume
  BY <1>13, NoneAssumption, BoundsAssumption DEF IInv, TypeOK, ExclusiveOwner, Holders,
     DispInv, SourceInv, FifoInv, Fifos, srcVars, dispVars, fifoVars, sinkVars, objVars,
     SinkConsume, MarkAsProcessed
<1>14. CASE UNCHANGED vars
  BY <1>14 DEF IInv, TypeOK, ExclusiveOwner, Holders, DispInv, SourceInv, FifoInv,
     Fifos, vars, srcVars, dispVars, fifoVars, sinkVars, objVars
<1> QED
  BY <1>1, <1>2, <1>3, <1>4, <1>5, <1>6, <1>7, <1>8, <1>9, <1>10, <1>11, <1>12, <1>13,
     <1>14 DEF Next

(* The object on its way to the broadcast stays of one link.               *)
LEMMA SourceStep ==
  ASSUME IInv, [Next]_vars
  PROVE  SourceInv'
<1>1. CASE \E o \in Objs, l \in Links : SourcePayload(o, l)
  BY <1>1, NoneAssumption, BoundsAssumption DEF IInv, TypeOK, ExclusiveOwner, Holders,
     PoolInv, DispInv, SourceInv, Only, Empty, Fields, Fifos, Value, srcVars, dispVars,
     fifoVars, sinkVars, objVars, SourcePayload, Get
<1>2. CASE Fetch
  BY <1>2, NoneAssumption, BoundsAssumption DEF IInv, TypeOK, ExclusiveOwner, Holders,
     PoolInv, DispInv, SourceInv, Only, Empty, Fields, Fifos, Value, srcVars, dispVars,
     fifoVars, sinkVars, objVars, Fetch
<1>3. CASE Dismiss
  BY <1>3, NoneAssumption, BoundsAssumption DEF IInv, TypeOK, ExclusiveOwner, Holders,
     PoolInv, DispInv, SourceInv, Only, Empty, Fields, Fifos, Value, srcVars, dispVars,
     fifoVars, sinkVars, objVars, Dismiss, MarkAsProcessed
<1>4. CASE ExtractLinks
  BY <1>4, NoneAssumption, BoundsAssumption DEF IInv, TypeOK, ExclusiveOwner, Holders,
     PoolInv, DispInv, SourceInv, Only, Empty, Fields, Fifos, Value, srcVars, dispVars,
     fifoVars, sinkVars, objVars, ExtractLinks
<1>5. CASE ExtractText
  BY <1>5, NoneAssumption, BoundsAssumption DEF IInv, TypeOK, ExclusiveOwner, Holders,
     PoolInv, DispInv, SourceInv, Only, Empty, Fields, Fifos, Value, srcVars, dispVars,
     fifoVars, sinkVars, objVars, ExtractText
<1>6. CASE Take
  BY <1>6, NoneAssumption, BoundsAssumption DEF IInv, TypeOK, ExclusiveOwner, Holders,
     PoolInv, DispInv, SourceInv, Only, Empty, Fields, Fifos, Value, srcVars, dispVars,
     fifoVars, sinkVars, objVars, Take
<1>7. CASE Pass
  BY <1>7, NoneAssumption, BoundsAssumption DEF IInv, TypeOK, ExclusiveOwner, Holders,
     PoolInv, DispInv, SourceInv, Only, Empty, Fields, Fifos, Value, srcVars, dispVars,
     fifoVars, sinkVars, objVars, Pass
<1>8. CASE \E o \in Objs : CloneId(o)
  BY <1>8, NoneAssumption, BoundsAssumption DEF IInv, TypeOK, ExclusiveOwner, Holders,
     PoolInv, DispInv, SourceInv, Only, Empty, Fields, Fifos, Value, srcVars, dispVars,
     fifoVars, sinkVars, objVars, CloneId, Get
<1>9. CASE CloneUrl
  BY <1>9, NoneAssumption, BoundsAssumption DEF IInv, TypeOK, ExclusiveOwner, Holders,
     PoolInv, DispInv, SourceInv, Only, Empty, Fields, Fifos, Value, srcVars, dispVars,
     fifoVars, sinkVars, objVars, CloneUrl
<1>10. CASE CloneBody
  BY <1>10, NoneAssumption, BoundsAssumption DEF IInv, TypeOK, ExclusiveOwner, Holders,
     PoolInv, DispInv, SourceInv, Only, Empty, Fields, Fifos, Value, srcVars, dispVars,
     fifoVars, sinkVars, objVars, CloneBody, MoreFifos
<1>11. CASE \E f \in Fifos : FifoProcess(f)
  BY <1>11, NoneAssumption, BoundsAssumption DEF IInv, TypeOK, ExclusiveOwner, Holders,
     PoolInv, DispInv, SourceInv, Only, Empty, Fields, Fifos, Value, srcVars, dispVars,
     fifoVars, sinkVars, objVars, FifoProcess
<1>12. CASE \E f \in Fifos : FifoSend(f)
  BY <1>12, NoneAssumption, BoundsAssumption DEF IInv, TypeOK, ExclusiveOwner, Holders,
     PoolInv, DispInv, SourceInv, Only, Empty, Fields, Fifos, Value, srcVars, dispVars,
     fifoVars, sinkVars, objVars, FifoSend
<1>13. CASE SinkConsume
  BY <1>13, NoneAssumption, BoundsAssumption DEF IInv, TypeOK, ExclusiveOwner, Holders,
     PoolInv, DispInv, SourceInv, Only, Empty, Fields, Fifos, Value, srcVars, dispVars,
     fifoVars, sinkVars, objVars, SinkConsume, MarkAsProcessed
<1>14. CASE UNCHANGED vars
  BY <1>14 DEF IInv, TypeOK, ExclusiveOwner, Holders, PoolInv, DispInv, SourceInv, Only,
     Empty, Fields, Fifos, Value, vars, srcVars, dispVars, fifoVars, sinkVars, objVars
<1> QED
  BY <1>1, <1>2, <1>3, <1>4, <1>5, <1>6, <1>7, <1>8, <1>9, <1>10, <1>11, <1>12, <1>13,
     <1>14 DEF Next

(* The broadcast hands out the original first, then clones.                *)
LEMMA DispStep ==
  ASSUME IInv, [Next]_vars
  PROVE  DispInv'
<1>1. CASE \E o \in Objs, l \in Links : SourcePayload(o, l)
  BY <1>1, NoneAssumption, BoundsAssumption DEF IInv, TypeOK, ExclusiveOwner, Holders,
     DispInv, SourceInv, Only, Fields, Fifos, Value, srcVars, dispVars, fifoVars,
     sinkVars, objVars, SourcePayload, Get
<1>2. CASE Fetch
  BY <1>2, NoneAssumption, BoundsAssumption DEF IInv, TypeOK, ExclusiveOwner, Holders,
     DispInv, SourceInv, Only, Fields, Fifos, Value, srcVars, dispVars, fifoVars,
     sinkVars, objVars, Fetch
<1>3. CASE Dismiss
  BY <1>3, NoneAssumption, BoundsAssumption DEF IInv, TypeOK, ExclusiveOwner, Holders,
     DispInv, SourceInv, Only, Fields, Fifos, Value, srcVars, dispVars, fifoVars,
     sinkVars, objVars, Dismiss, MarkAsProcessed
<1>4. CASE ExtractLinks
  BY <1>4, NoneAssumption, BoundsAssumption DEF IInv, TypeOK, ExclusiveOwner, Holders,
     DispInv, SourceInv, Only, Fields, Fifos, Value, srcVars, dispVars, fifoVars,
     sinkVars, objVars, ExtractLinks
<1>5. CASE ExtractText
  BY <1>5, NoneAssumption, BoundsAssumption DEF IInv, TypeOK, ExclusiveOwner, Holders,
     DispInv, SourceInv, Only, Fields, Fifos, Value, srcVars, dispVars, fifoVars,
     sinkVars, objVars, ExtractText
<1>6. CASE Take
  BY <1>6, NoneAssumption, BoundsAssumption DEF IInv, TypeOK, ExclusiveOwner, Holders,
     DispInv, SourceInv, Only, Fields, Fifos, Value, srcVars, dispVars, fifoVars,
     sinkVars, objVars, Take
<1>7. CASE Pass
  BY <1>7, NoneAssumption, BoundsAssumption DEF IInv, TypeOK, ExclusiveOwner, Holders,
     DispInv, SourceInv, Only, Fields, Fifos, Value, srcVars, dispVars, fifoVars,
     sinkVars, objVars, Pass
<1>8. CASE \E o \in Objs : CloneId(o)
  BY <1>8, NoneAssumption, BoundsAssumption DEF IInv, TypeOK, ExclusiveOwner, Holders,
     DispInv, SourceInv, Only, Fields, Fifos, Value, srcVars, dispVars, fifoVars,
     sinkVars, objVars, CloneId, Get
<1>9. CASE CloneUrl
  BY <1>9, NoneAssumption, BoundsAssumption DEF IInv, TypeOK, ExclusiveOwner, Holders,
     DispInv, SourceInv, Only, Fields, Fifos, Value, srcVars, dispVars, fifoVars,
     sinkVars, objVars, CloneUrl
<1>10. CASE CloneBody
  BY <1>10, NoneAssumption, BoundsAssumption DEF IInv, TypeOK, ExclusiveOwner, Holders,
     DispInv, SourceInv, Only, Fields, Fifos, Value, srcVars, dispVars, fifoVars,
     sinkVars, objVars, CloneBody, MoreFifos
<1>11. CASE \E f \in Fifos : FifoProcess(f)
  BY <1>11, NoneAssumption, BoundsAssumption DEF IInv, TypeOK, ExclusiveOwner, Holders,
     DispInv, SourceInv, Only, Fields, Fifos, Value, srcVars, dispVars, fifoVars,
     sinkVars, objVars, FifoProcess
<1>12. CASE \E f \in Fifos : FifoSend(f)
  BY <1>12, NoneAssumption, BoundsAssumption DEF IInv, TypeOK, ExclusiveOwner, Holders,
     DispInv, SourceInv, Only, Fields, Fifos, Value, srcVars, dispVars, fifoVars,
     sinkVars, objVars, FifoSend
<1>13. CASE SinkConsume
  BY <1>13, NoneAssumption, BoundsAssumption DEF IInv, TypeOK, ExclusiveOwner, Holders,
     DispInv, SourceInv, Only, Fields, Fifos, Value, srcVars, dispVars, fifoVars,
     sinkVars, objVars, SinkConsume, MarkAsProcessed
<1>14. CASE UNCHANGED vars
  BY <1>14 DEF IInv, TypeOK, ExclusiveOwner, Holders, DispInv, SourceInv, Only, Fields,
     Fifos, Value, vars, srcVars, dispVars, fifoVars, sinkVars, objVars
<1> QED
  BY <1>1, <1>2, <1>3, <1>4, <1>5, <1>6, <1>7, <1>8, <1>9, <1>10, <1>11, <1>12, <1>13,
     <1>14 DEF Next

(* No clone and no reuse spoils the first processor's page.                *)
LEMMA FifoStep ==
  ASSUME IInv, [Next]_vars
  PROVE  FifoInv'
<1>1. CASE \E o \in Objs, l \in Links : SourcePayload(o, l)
  BY <1>1, NoneAssumption, BoundsAssumption DEF IInv, TypeOK, ExclusiveOwner, Holders,
     DispInv, FifoInv, FirstFifoUnmixed, Only, Fields, Fifos, Value, srcVars, dispVars,
     fifoVars, sinkVars, objVars, SourcePayload, Get
<1>2. CASE Fetch
  BY <1>2, NoneAssumption, BoundsAssumption DEF IInv, TypeOK, ExclusiveOwner, Holders,
     DispInv, FifoInv, FirstFifoUnmixed, Only, Fields, Fifos, Value, srcVars, dispVars,
     fifoVars, sinkVars, objVars, Fetch
<1>3. CASE Dismiss
  BY <1>3, NoneAssumption, BoundsAssumption DEF IInv, TypeOK, ExclusiveOwner, Holders,
     DispInv, FifoInv, FirstFifoUnmixed, Only, Fields, Fifos, Value, srcVars, dispVars,
     fifoVars, sinkVars, objVars, Dismiss, MarkAsProcessed
<1>4. CASE ExtractLinks
  BY <1>4, NoneAssumption, BoundsAssumption DEF IInv, TypeOK, ExclusiveOwner, Holders,
     DispInv, FifoInv, FirstFifoUnmixed, Only, Fields, Fifos, Value, srcVars, dispVars,
     fifoVars, sinkVars, objVars, ExtractLinks
<1>5. CASE ExtractText
  BY <1>5, NoneAssumption, BoundsAssumption DEF IInv, TypeOK, ExclusiveOwner, Holders,
     DispInv, FifoInv, FirstFifoUnmixed, Only, Fields, Fifos, Value, srcVars, dispVars,
     fifoVars, sinkVars, objVars, ExtractText
<1>6. CASE Take
  BY SMTT(30), <1>6, NoneAssumption, BoundsAssumption DEF IInv, TypeOK, ExclusiveOwner, Holders,
     DispInv, FifoInv, FirstFifoUnmixed, Only, Fields, Fifos, Value, srcVars, dispVars,
     fifoVars, sinkVars, objVars, Take
<1>7. CASE Pass
  BY <1>7, NoneAssumption, BoundsAssumption DEF IInv, TypeOK, ExclusiveOwner, Holders,
     DispInv, FifoInv, FirstFifoUnmixed, Only, Fields, Fifos, Value, srcVars, dispVars,
     fifoVars, sinkVars, objVars, Pass
<1>8. CASE \E o \in Objs : CloneId(o)
  BY SMTT(30), <1>8, NoneAssumption, BoundsAssumption DEF IInv, TypeOK, ExclusiveOwner, Holders,
     DispInv, FifoInv, FirstFifoUnmixed, Only, Fields, Fifos, Value, srcVars, dispVars,
     fifoVars, sinkVars, objVars, CloneId, Get
<1>9. CASE CloneUrl
  BY SMTT(30), <1>9, NoneAssumption, BoundsAssumption DEF IInv, TypeOK, ExclusiveOwner, Holders,
     DispInv, FifoInv, FirstFifoUnmixed, Only, Fields, Fifos, Value, srcVars, dispVars,
     fifoVars, sinkVars, objVars, CloneUrl
<1>10. CASE CloneBody
  BY <1>10, NoneAssumption, BoundsAssumption DEF IInv, TypeOK, ExclusiveOwner, Holders,
     DispInv, FifoInv, FirstFifoUnmixed, Only, Fields, Fifos, Value, srcVars, dispVars,
     fifoVars, sinkVars, objVars, CloneBody, MoreFifos
<1>11. CASE \E f \in Fifos : FifoProcess(f)
  BY <1>11, NoneAssumption, BoundsAssumption DEF IInv, TypeOK, ExclusiveOwner, Holders,
     DispInv, FifoInv, FirstFifoUnmixed, Only, Fields, Fifos, Value, srcVars, dispVars,
     fifoVars, sinkVars, objVars, FifoProcess
<1>12. CASE \E f \in Fifos : FifoSend(f)
  BY <1>12, NoneAssumption, BoundsAssumption DEF IInv, TypeOK, ExclusiveOwner, Holders,
     DispInv, FifoInv, FirstFifoUnmixed, Only, Fields, Fifos, Value, srcVars, dispVars,
     fifoVars, sinkVars, objVars, FifoSend
<1>13. CASE SinkConsume
  BY <1>13, NoneAssumption, BoundsAssumption DEF IInv, TypeOK, ExclusiveOwner, Holders,
     DispInv, FifoInv, FirstFifoUnmixed, Only, Fields, Fifos, Value, srcVars, dispVars,
     fifoVars, sinkVars, objVars, SinkConsume, MarkAsProcessed
<1>14. CASE UNCHANGED vars
  BY <1>14 DEF IInv, TypeOK, ExclusiveOwner, Holders, DispInv, FifoInv,
     FirstFifoUnmixed, Only, Fields, Fifos, Value, vars, srcVars, dispVars, fifoVars,
     sinkVars, objVars
<1> QED
  BY <1>1, <1>2, <1>3, <1>4, <1>5, <1>6, <1>7, <1>8, <1>9, <1>10, <1>11, <1>12, <1>13,
     <1>14 DEF Next

(* The processors that work on a payload.                                  *)
LEMMA BusyFinite ==
  ASSUME TypeOK
  PROVE  IsFiniteSet(Busy) /\ Cardinality(Busy) \in Nat
<1>1. IsFiniteSet(Fifos)
  BY FS_Interval, BoundsAssumption DEF Fifos
<1>2. Busy \subseteq Fifos
  BY DEF Busy
<1> QED
  BY <1>1, <1>2, FS_Subset, FS_CardinalityType

(* No step loses or doubles a copy.                                        *)
LEMMA CountStep ==
  ASSUME IInv, [Next]_vars
  PROVE  CountInv'
<1>a. /\ CountInv /\ Cardinality(Busy) \in Nat /\ count \in Nat /\ AtSink \in {0, 1}
      /\ ToPass \in Int /\ Coming \in {0, NumFifos} /\ NumFifos * (yielded - dismissed) \in Int
  BY BusyFinite, BoundsAssumption DEF IInv, TypeOK, AtSink, ToPass, Coming, Fifos
<1>1. CASE \E o \in Objs, l \in Links : SourcePayload(o, l)
  <2>1. Coming = 0 /\ Coming' = NumFifos /\ yielded' - dismissed' = yielded - dismissed + 1
    BY <1>1, NoneAssumption DEF IInv, TypeOK, Coming, SourcePayload, Get
  <2>2. UNCHANGED <<count, AtSink, Busy, ToPass>>
    BY <1>1 DEF SourcePayload, dispVars, fifoVars, sinkVars, AtSink, Busy, ToPass
  <2>3. NumFifos * (yielded' - dismissed') = NumFifos * (yielded - dismissed) + NumFifos
    BY <2>1, MulStep, BoundsAssumption DEF IInv, TypeOK
  <2> QED
    BY <2>1, <2>2, <2>3, <1>a, BoundsAssumption DEF CountInv
<1>2. CASE Fetch
  <2>1. UNCHANGED <<yielded, dismissed, count, AtSink, ToPass, Coming>>
    BY <1>2 DEF IInv, TypeOK, Fetch, srcVars, dispVars, fifoVars, sinkVars, AtSink,
       ToPass, Coming
  <2>2. Busy' = Busy
    BY <1>2 DEF IInv, TypeOK, Fetch, fifoVars, Busy
  <2> QED
    BY <2>1, <2>2, <1>a DEF CountInv
<1>3. CASE Dismiss
  <2>1. Coming = NumFifos /\ Coming' = 0 /\ yielded' - dismissed' = yielded - dismissed - 1
    BY <1>3, NoneAssumption DEF IInv, TypeOK, SourceInv, Coming, Dismiss
  <2>2. UNCHANGED <<count, AtSink, Busy, ToPass>>
    BY <1>3 DEF Dismiss, dispVars, fifoVars, sinkVars, AtSink, Busy, ToPass
  <2>3. NumFifos * (yielded' - dismissed') = NumFifos * (yielded - dismissed) - NumFifos
    BY <2>1, MulStep, BoundsAssumption DEF IInv, TypeOK
  <2> QED
    BY <2>1, <2>2, <2>3, <1>a, BoundsAssumption DEF CountInv
<1>4. CASE ExtractLinks
  <2>1. UNCHANGED <<yielded, dismissed, count, AtSink, ToPass, Coming>>
    BY <1>4 DEF IInv, TypeOK, ExtractLinks, srcVars, dispVars, fifoVars, sinkVars,
       AtSink, ToPass, Coming
  <2>2. Busy' = Busy
    BY <1>4 DEF IInv, TypeOK, ExtractLinks, fifoVars, Busy
  <2> QED
    BY <2>1, <2>2, <1>a DEF CountInv
<1>5. CASE ExtractText
  <2>1. UNCHANGED <<yielded, dismissed, count, AtSink, ToPass, Coming>>
    BY <1>5 DEF IInv, TypeOK, ExtractText, srcVars, dispVars, fifoVars, sinkVars,
       AtSink, ToPass, Coming
  <2>2. Busy' = Busy
    BY <1>5 DEF IInv, TypeOK, ExtractText, fifoVars, Busy
  <2> QED
    BY <2>1, <2>2, <1>a DEF CountInv
<1>6. CASE Take
  <2>1. /\ Coming = NumFifos /\ Coming' = 0 /\ ToPass = 0 /\ ToPass' = NumFifos
        /\ yielded' - dismissed' = yielded - dismissed
    BY <1>6, BoundsAssumption DEF IInv, TypeOK, SourceInv, Coming, ToPass, Take
  <2>2. UNCHANGED <<count, AtSink, Busy>>
    BY <1>6 DEF Take, fifoVars, sinkVars, AtSink, Busy
  <2> QED
    BY <2>1, <2>2, <1>a, BoundsAssumption DEF CountInv
<1>7. CASE Pass
  <2>1. next \in Fifos /\ next \notin Busy /\ Busy' = Busy \cup {next}
    BY <1>7 DEF IInv, TypeOK, Pass, Busy
  <2>2. Cardinality(Busy') = Cardinality(Busy) + 1
    BY <2>1, BusyFinite, FS_AddElement DEF IInv
  <2>3. ToPass' = ToPass - 1 /\ ToPass \in Int
    BY <1>7, <2>1, BoundsAssumption DEF Pass, ToPass, Fifos
  <2>4. UNCHANGED <<yielded, dismissed, count, AtSink, Coming>>
    BY <1>7 DEF Pass, srcVars, sinkVars, AtSink, Coming
  <2> QED
    BY <2>2, <2>3, <2>4, <1>a DEF CountInv
<1>8. CASE \E o \in Objs : CloneId(o)
  <2>1. UNCHANGED <<yielded, dismissed, count, AtSink, ToPass, Coming>>
    BY <1>8 DEF IInv, TypeOK, CloneId, srcVars, dispVars, fifoVars, sinkVars, AtSink,
       ToPass, Coming
  <2>2. Busy' = Busy
    BY <1>8 DEF IInv, TypeOK, CloneId, fifoVars, Busy
  <2> QED
    BY <2>1, <2>2, <1>a DEF CountInv
<1>9. CASE CloneUrl
  <2>1. UNCHANGED <<yielded, dismissed, count, AtSink, ToPass, Coming>>
    BY <1>9 DEF IInv, TypeOK, CloneUrl, srcVars, dispVars, fifoVars, sinkVars, AtSink,
       ToPass, Coming
  <2>2. Busy' = Busy
    BY <1>9 DEF IInv, TypeOK, CloneUrl, fifoVars, Busy
  <2> QED
    BY <2>1, <2>2, <1>a DEF CountInv
<1>10. CASE CloneBody
  <2>1. ToPass' = ToPass /\ ToPass \in Int
    BY <1>10, BoundsAssumption DEF IInv, TypeOK, CloneBody, MoreFifos, ToPass, Fifos
  <2>2. UNCHANGED <<yielded, dismissed, count, AtSink, Coming, Busy>>
    BY <1>10 DEF CloneBody, srcVars, sinkVars, fifoVars, AtSink, Coming, Busy
  <2> QED
    BY <2>1, <2>2, <1>a DEF CountInv
<1>11. CASE \E f \in Fifos : FifoProcess(f)
  <2>1. UNCHANGED <<yielded, dismissed, count, AtSink, ToPass, Coming>>
    BY <1>11 DEF IInv, TypeOK, FifoProcess, srcVars, dispVars, fifoVars, sinkVars,
       AtSink, ToPass, Coming
  <2>2. Busy' = Busy
    BY <1>11 DEF IInv, TypeOK, FifoProcess, fifoVars, Busy
  <2> QED
    BY <2>1, <2>2, <1>a DEF CountInv
<1>12. CASE \E f \in Fifos : FifoSend(f)
  <2> PICK f \in Fifos : FifoSend(f)
    BY <1>12
  <2>1. f \in Busy /\ Busy' = Busy \ {f}
    BY DEF IInv, TypeOK, FifoSend, Busy
  <2>2. Cardinality(Busy') = Cardinality(Busy) - 1
    BY <2>1, BusyFinite, FS_RemoveElement DEF IInv
  <2>3. AtSink = 0 /\ AtSink' = 1
    BY <2>1, NoneAssumption DEF IInv, TypeOK, FifoInv, FifoSend, AtSink
  <2>4. UNCHANGED <<yielded, dismissed, count, ToPass, Coming>>
    BY DEF FifoSend, srcVars, dispVars, ToPass, Coming
  <2> QED
    BY <2>2, <2>3, <2>4, <1>a DEF CountInv
<1>13. CASE SinkConsume
  <2>1. AtSink = 1 /\ AtSink' = 0 /\ count' = count + 1
    BY <1>13 DEF SinkConsume, AtSink
  <2>2. UNCHANGED <<yielded, dismissed, Busy, ToPass, Coming>>
    BY <1>13 DEF SinkConsume, srcVars, dispVars, fifoVars, Busy, ToPass, Coming
  <2> QED
    BY <2>1, <2>2, <1>a DEF CountInv
<1>14. CASE UNCHANGED vars
  BY <1>14, <1>a DEF Busy, CountInv, AtSink, ToPass, Coming, SourceInv, DispInv,
     FifoInv, ExclusiveOwner, Holders, vars, srcVars, dispVars, fifoVars, sinkVars,
     objVars
<1> QED
  BY <1>1, <1>2, <1>3, <1>4, <1>5, <1>6, <1>7, <1>8, <1>9, <1>10, <1>11, <1>12, <1>13,
     <1>14 DEF Next

(* Objects keep their types.                                               *)
LEMMA ObjStep ==
  ASSUME IInv, [Next]_vars
  PROVE  (obj \in [Objs -> Fields])'
<1>1. CASE \E o \in Objs, l \in Links : SourcePayload(o, l)
  <2> PICK o \in Objs, l \in Links : SourcePayload(o, l)
    BY <1>1
  <2>1. obj' = [p \in Objs |-> obj'[p]]
    BY NoneAssumption DEF IInv, TypeOK, SourcePayload, Get
  <2>2. ASSUME NEW p \in Objs PROVE obj'[p] \in Fields
    <3>1. obj[p] \in Fields
      BY DEF IInv, TypeOK
    <3>2. CASE p = o
      BY <3>1, <3>2, NoneAssumption DEF IInv, TypeOK, SourceInv, Only, DispInv,
         Fields, Value, SourcePayload, Get
    <3>3. CASE p # o
      BY <3>1, <3>3, NoneAssumption DEF IInv, TypeOK, SourceInv, DispInv, Fields,
         SourcePayload, Get
    <3> QED
      BY <3>2, <3>3
  <2> QED
    BY <2>1, <2>2
<1>2. CASE Fetch
  <2>1. obj' = [p \in Objs |-> obj'[p]]
    BY <1>2, NoneAssumption DEF IInv, TypeOK, Fetch
  <2>2. ASSUME NEW p \in Objs PROVE obj'[p] \in Fields
    <3>1. obj[p] \in Fields
      BY DEF IInv, TypeOK
    <3>2. CASE p = input
      BY <1>2, <3>1, <3>2, NoneAssumption DEF IInv, TypeOK, SourceInv, Only,
         DispInv, Fields, Value, Fetch
    <3>3. CASE p # input
      BY <1>2, <3>1, <3>3, NoneAssumption DEF IInv, TypeOK, SourceInv, DispInv,
         Fields, Fetch
    <3> QED
      BY <3>2, <3>3
  <2> QED
    BY <2>1, <2>2
<1>3. CASE Dismiss
  <2>1. obj' = [p \in Objs |-> obj'[p]]
    BY <1>3, NoneAssumption DEF IInv, TypeOK, Dismiss, MarkAsProcessed
  <2>2. ASSUME NEW p \in Objs PROVE obj'[p] \in Fields
    <3>1. obj[p] \in Fields
      BY DEF IInv, TypeOK
    <3>2. CASE p = input
      BY <1>3, <3>1, <3>2, NoneAssumption DEF IInv, TypeOK, SourceInv, Only,
         DispInv, Fields, Value, Dismiss, MarkAsProcessed
    <3>3. CASE p # input
      BY <1>3, <3>1, <3>3, NoneAssumption DEF IInv, TypeOK, SourceInv, DispInv,
         Fields, Dismiss, MarkAsProcessed
    <3> QED
      BY <3>2, <3>3
  <2> QED
    BY <2>1, <2>2
<1>4. CASE ExtractLinks
  <2>1. obj' = [p \in Objs |-> obj'[p]]
    BY <1>4, NoneAssumption DEF IInv, TypeOK, ExtractLinks
  <2>2. ASSUME NEW p \in Objs PROVE obj'[p] \in Fields
    <3>1. obj[p] \in Fields
      BY DEF IInv, TypeOK
    <3>2. CASE p = input
      BY <1>4, <3>1, <3>2, NoneAssumption DEF IInv, TypeOK, SourceInv, Only,
         DispInv, Fields, Value, ExtractLinks
    <3>3. CASE p # input
      BY <1>4, <3>1, <3>3, NoneAssumption DEF IInv, TypeOK, SourceInv, DispInv,
         Fields, ExtractLinks
    <3> QED
      BY <3>2, <3>3
  <2> QED
    BY <2>1, <2>2
<1>5. CASE ExtractText
  <2>1. obj' = [p \in Objs |-> obj'[p]]
    BY <1>5, NoneAssumption DEF IInv, TypeOK, ExtractText
  <2>2. ASSUME NEW p \in Objs PROVE obj'[p] \in Fields
    <3>1. obj[p] \in Fields
      BY DEF IInv, TypeOK
    <3>2. CASE p = input
      BY <1>5, <3>1, <3>2, NoneAssumption DEF IInv, TypeOK, SourceInv, Only,
         DispInv, Fields, Value, ExtractText
    <3>3. CASE p # input
      BY <1>5, <3>1, <3>3, NoneAssumption DEF IInv, TypeOK, SourceInv, DispInv,
         Fields, ExtractText
    <3> QED
      BY <3>2, <3>3
  <2> QED
    BY <2>1, <2>2
<1>6. CASE Take
  BY <1>6, NoneAssumption, BoundsAssumption DEF IInv, TypeOK, Fields, Value, Fresh,
     SourceInv, DispInv, srcVars, dispVars, fifoVars, sinkVars, objVars, Take
<1>7. CASE Pass
  BY <1>7, NoneAssumption, BoundsAssumption DEF IInv, TypeOK, Fields, Value, Fresh,
     SourceInv, DispInv, srcVars, dispVars, fifoVars, sinkVars, objVars, Pass
<1>8. CASE \E o \in Objs : CloneId(o)
  <2> PICK o \in Objs : CloneId(o)
    BY <1>8
  <2>1. obj' = [p \in Objs |-> obj'[p]]
    BY NoneAssumption DEF IInv, TypeOK, CloneId, Get
  <2>2. ASSUME NEW p \in Objs PROVE obj'[p] \in Fields
    <3>1. obj[p] \in Fields
      BY DEF IInv, TypeOK
    <3>2. CASE p = o
      BY <3>1, <3>2, NoneAssumption DEF IInv, TypeOK, SourceInv, Only, DispInv,
         Fields, Value, CloneId, Get
    <3>3. CASE p # o
      BY <3>1, <3>3, NoneAssumption DEF IInv, TypeOK, SourceInv, DispInv, Fields,
         CloneId, Get
    <3> QED
      BY <3>2, <3>3
  <2> QED
    BY <2>1, <2>2
<1>9. CASE CloneUrl
  <2>1. obj' = [p \in Objs |-> obj'[p]]
    BY <1>9, NoneAssumption DEF IInv, TypeOK, CloneUrl
  <2>2. ASSUME NEW p \in Objs PROVE obj'[p] \in Fields
    <3>1. obj[p] \in Fields
      BY DEF IInv, TypeOK
    <3>2. CASE p = fifoPayload
      BY <1>9, <3>1, <3>2, NoneAssumption DEF IInv, TypeOK, SourceInv, Only,
         DispInv, Fields, Value, CloneUrl
    <3>3. CASE p # fifoPayload
      BY <1>9, <3>1, <3>3, NoneAssumption DEF IInv, TypeOK, SourceInv, DispInv,
         Fields, CloneUrl
    <3> QED
      BY <3>2, <3>3
  <2> QED
    BY <2>1, <2>2
<1>10. CASE CloneBody
  <2>1. obj' = [p \in Objs |-> obj'[p]]
    BY <1>10, NoneAssumption DEF IInv, TypeOK, CloneBody
  <2>2. ASSUME NEW p \in Objs PROVE obj'[p] \in Fields
    <3>1. obj[p] \in Fields
      BY DEF IInv, TypeOK
    <3>2. CASE p = fifoPayload
      BY <1>10, <3>1, <3>2, NoneAssumption DEF IInv, TypeOK, SourceInv, Only,
         DispInv, Fields, Value, CloneBody
    <3>3. CASE p # fifoPayload
      BY <1>10, <3>1, <3>3, NoneAssumption DEF IInv, TypeOK, SourceInv, DispInv,
         Fields, CloneBody
    <3> QED
      BY <3>2, <3>3
  <2> QED
    BY <2>1, <2>2
<1>11. CASE \E f \in Fifos : FifoProcess(f)
  BY <1>11, NoneAssumption, BoundsAssumption DEF IInv, TypeOK, Fields, Value, Fresh,
     SourceInv, DispInv, srcVars, dispVars, fifoVars, sinkVars, objVars, FifoProcess
<1>12. CASE \E f \in Fifos : FifoSend(f)
  BY <1>12, NoneAssumption, BoundsAssumption DEF IInv, TypeOK, Fields, Value, Fresh,
     SourceInv, DispInv, srcVars, dispVars, fifoVars, sinkVars, objVars, FifoSend
<1>13. CASE SinkConsume
  <2>1. obj' = [p \in Objs |-> obj'[p]]
    BY <1>13, NoneAssumption DEF IInv, TypeOK, SinkConsume, MarkAsProcessed
  <2>2. ASSUME NEW p \in Objs PROVE obj'[p] \in Fields
    <3>1. obj[p] \in Fields
      BY DEF IInv, TypeOK
    <3>2. CASE p = sinkHold
      BY <1>13, <3>1, <3>2, NoneAssumption DEF IInv, TypeOK, SourceInv, Only,
         DispInv, Fields, Value, SinkConsume, MarkAsProcessed
    <3>3. CASE p # sinkHold
      BY <1>13, <3>1, <3>3, NoneAssumption DEF IInv, TypeOK, SourceInv, DispInv,
         Fields, SinkConsume, MarkAsProcessed
    <3> QED
      BY <3>2, <3>3
  <2> QED
    BY <2>1, <2>2
<1>14. CASE UNCHANGED vars
  BY <1>14 DEF IInv, TypeOK, Fields, Value, Fresh, SourceInv, DispInv, vars, srcVars,
     dispVars, fifoVars, sinkVars, objVars
<1> QED
  BY <1>1, <1>2, <1>3, <1>4, <1>5, <1>6, <1>7, <1>8, <1>9, <1>10, <1>11, <1>12, <1>13,
     <1>14 DEF Next

(* The sink has not consumed more than the broadcast was given.            *)
LEMMA CountBound ==
  ASSUME IInv, [Next]_vars
  PROVE  count' \in 0..(NumFifos * MaxLinks)
<1>1. NumFifos \in Nat /\ MaxLinks \in Nat /\ NumFifos * MaxLinks \in Nat
  BY BoundsAssumption
<1>2. yielded - dismissed \in Nat /\ yielded - dismissed <= MaxLinks
  BY <1>1 DEF IInv, TypeOK
<1>3. NumFifos * (yielded - dismissed) <= NumFifos * MaxLinks
  BY <1>1, <1>2, MulMono
<1>4. count' = count \/ (sinkHold # None /\ count' = count + 1)
  BY DEF Next, vars, sinkVars, SourcePayload, Fetch, Dismiss, ExtractLinks, ExtractText,
     Take, Pass, CloneId, CloneUrl, CloneBody, FifoProcess, FifoSend, SinkConsume
<1>5. /\ Cardinality(Busy) \in Nat /\ count \in Nat /\ Coming >= 0 /\ ToPass >= 0
      /\ Coming \in Int /\ ToPass \in Int
  BY BusyFinite, BoundsAssumption DEF IInv, TypeOK, Coming, ToPass, Fifos
<1>6. (AtSink = 0 /\ sinkHold = None) \/ AtSink = 1
  BY DEF AtSink
<1> QED
  BY <1>1, <1>3, <1>4, <1>5, <1>6 DEF IInv, CountInv

(* So does everything else.                                                *)
LEMMA TypeStep ==
  ASSUME IInv, [Next]_vars
  PROVE  TypeOK'
<1>1. CASE \E o \in Objs, l \in Links : SourcePayload(o, l)
  BY <1>1, NoneAssumption, BoundsAssumption, CountBound, ObjStep DEF IInv, TypeOK,
     Value, SourceInv, DispInv, FifoInv, Fifos, srcVars, dispVars, fifoVars, sinkVars,
     objVars, SourcePayload, Get
<1>2. CASE Fetch
  BY <1>2, NoneAssumption, BoundsAssumption, CountBound, ObjStep DEF IInv, TypeOK,
     Value, SourceInv, DispInv, FifoInv, Fifos, srcVars, dispVars, fifoVars, sinkVars,
     objVars, Fetch
<1>3. CASE Dismiss
  BY <1>3, NoneAssumption, BoundsAssumption, CountBound, ObjStep DEF IInv, TypeOK,
     Value, SourceInv, DispInv, FifoInv, Fifos, srcVars, dispVars, fifoVars, sinkVars,
     objVars, Dismiss, MarkAsProcessed
<1>4. CASE ExtractLinks
  BY <1>4, NoneAssumption, BoundsAssumption, CountBound, ObjStep DEF IInv, TypeOK,
     Value, SourceInv, DispInv, FifoInv, Fifos, srcVars, dispVars, fifoVars, sinkVars,
     objVars, ExtractLinks
<1>5. CASE ExtractText
  BY <1>5, NoneAssumption, BoundsAssumption, CountBound, ObjStep DEF IInv, TypeOK,
     Value, SourceInv, DispInv, FifoInv, Fifos, srcVars, dispVars, fifoVars, sinkVars,
     objVars, ExtractText
<1>6. CASE Take
  BY <1>6, NoneAssumption, BoundsAssumption, CountBound, ObjStep DEF IInv, TypeOK,
     Value, SourceInv, DispInv, FifoInv, Fifos, srcVars, dispVars, fifoVars, sinkVars,
     objVars, Take
<1>7. CASE Pass
  BY <1>7, NoneAssumption, BoundsAssumption, CountBound, ObjStep DEF IInv, TypeOK,
     Value, SourceInv, DispInv, FifoInv, Fifos, srcVars, dispVars, fifoVars, sinkVars,
     objVars, Pass
<1>8. CASE \E o \in Objs : CloneId(o)
  BY <1>8, NoneAssumption, BoundsAssumption, CountBound, ObjStep DEF IInv, TypeOK,
     Value, SourceInv, DispInv, FifoInv, Fifos, srcVars, dispVars, fifoVars, sinkVars,
     objVars, CloneId, Get
<1>9. CASE CloneUrl
  BY <1>9, NoneAssumption, BoundsAssumption, CountBound, ObjStep DEF IInv, TypeOK,
     Value, SourceInv, DispInv, FifoInv, Fifos, srcVars, dispVars, fifoVars, sinkVars,
     objVars, CloneUrl
<1>10. CASE CloneBody
  BY <1>10, NoneAssumption, BoundsAssumption, CountBound, ObjStep DEF IInv, TypeOK,
     Value, SourceInv, DispInv, FifoInv, Fifos, srcVars, dispVars, fifoVars, sinkVars,
     objVars, CloneBody, MoreFifos
<1>11. CASE \E f \in Fifos : FifoProcess(f)
  BY <1>11, NoneAssumption, BoundsAssumption, CountBound, ObjStep DEF IInv, TypeOK,
     Value, SourceInv, DispInv, FifoInv, Fifos, srcVars, dispVars, fifoVars, sinkVars,
     objVars, FifoProcess
<1>12. CASE \E f \in Fifos : FifoSend(f)
  BY <1>12, NoneAssumption, BoundsAssumption, CountBound, ObjStep DEF IInv, TypeOK,
     Value, SourceInv, DispInv, FifoInv, Fifos, srcVars, dispVars, fifoVars, sinkVars,
     objVars, FifoSend
<1>13. CASE SinkConsume
  BY <1>13, NoneAssumption, BoundsAssumption, CountBound, ObjStep DEF IInv, TypeOK,
     Value, SourceInv, DispInv, FifoInv, Fifos, srcVars, dispVars, fifoVars, sinkVars,
     objVars, SinkConsume, MarkAsProcessed
<1>14. CASE UNCHANGED vars
  BY <1>14 DEF IInv, TypeOK, Value, SourceInv, DispInv, FifoInv, Fifos, vars, srcVars,
     dispVars, fifoVars, sinkVars, objVars
<1> QED
  BY <1>1, <1>2, <1>3, <1>4, <1>5, <1>6, <1>7, <1>8, <1>9, <1>10, <1>11, <1>12, <1>13,
     <1>14 DEF Next

-----------------------------------------------------------------------------
(* Theorems.                                                               *)

LEMMA InitInv == Init => IInv
<1> SUFFICES ASSUME Init PROVE IInv
  OBVIOUS
<1>1. Fresh \in Fields /\ Empty(Fresh)
  BY DEF Fresh, Fields, Value, Empty
<1>2. TypeOK
  <2>1. obj \in [Objs -> Fields]
    BY <1>1 DEF Init
  <2>2. 1 \in Fifos /\ NumFifos * MaxLinks \in Nat /\ 0 \in 0..NumFifos * MaxLinks
    BY BoundsAssumption DEF Fifos
  <2> QED
    BY <2>1, <2>2, BoundsAssumption DEF Init, TypeOK, Value
<1>3. PoolInv
  BY <1>1 DEF Init, PoolInv
<1>4. ExclusiveOwner /\ SourceInv /\ DispInv /\ FifoInv
  BY NoneAssumption, BoundsAssumption DEF Init, ExclusiveOwner, Holders, SourceInv,
     DispInv, FifoInv, FirstFifoUnmixed, Fifos
<1>5. CountInv
  <2>1. Busy = {}
    BY DEF Init, Busy
  <2>2. Cardinality(Busy) = 0
    BY <2>1, FS_EmptySet
  <2>3. NumFifos * (yielded - dismissed) = 0
    BY BoundsAssumption DEF Init
  <2> QED
    BY <2>2, <2>3 DEF Init, CountInv, AtSink, ToPass, Coming
<1> QED
  BY <1>2, <1>3, <1>4, <1>5 DEF IInv

(* The invariant is inductive.                                             *)
THEOREM Invariance == Spec => []IInv
<1>1. IInv /\ [Next]_vars => IInv'
  BY TypeStep, OwnerStep, PoolStep, SourceStep, DispStep, FifoStep, CountStep DEF IInv
<1> QED
  BY <1>1, InitInv, PTL DEF Spec

(* Types; the sink never consumes more than the broadcast was given        *)
(* (pipeline.go 148-160).                                                  *)
THEOREM TypeCorrect == Spec => []TypeOK
<1>1. IInv => TypeOK
  BY DEF IInv
<1> QED
  BY <1>1, Invariance, PTL

(* Every object has one owner at a time, and the pool hands out none that  *)
(* is in use, for any number of objects and processors (payload.go 47-74). *)
THEOREM OneOwner == Spec => []ExclusiveOwner
<1>1. IInv => ExclusiveOwner
  BY DEF IInv
<1> QED
  BY <1>1, Invariance, PTL

(* The graph updater never sees the page of another link than the one the  *)
(* broadcast took, however late a clone reads the original and whatever    *)
(* the pool made of it meanwhile (stage.go 232-242).                       *)
THEOREM FirstUnmixed == Spec => []FirstFifoUnmixed
<1>1. IInv => FirstFifoUnmixed
  BY DEF IInv, FifoInv
<1> QED
  BY <1>1, Invariance, PTL

(* Crawl returns the number of links that were fetched, for any number of  *)
(* processors (crawler.go 65-104).                                         *)
THEOREM ExactCount == Spec => []CountIsExact
<1>1. IInv => CountIsExact
  <2> SUFFICES ASSUME IInv, Idle PROVE GetCount = yielded - dismissed
    BY DEF CountIsExact
  <2>1. Busy = {}
    BY DEF Idle, Busy
  <2>2. Cardinality(Busy) = 0
    BY <2>1, FS_EmptySet
  <2>3. NumFifos * (yielded - dismissed) = count
    BY <2>2 DEF IInv, TypeOK, CountInv, Idle, AtSink, ToPass, Coming
  <2>4. NumFifos \in Nat \ {0} /\ yielded - dismissed \in Nat
    BY BoundsAssumption DEF IInv, TypeOK
  <2> QED
    BY <2>3, <2>4, DivMul DEF GetCount
<1> QED
  BY <1>1, Invariance, PTL
===============================================================================
