-------------------------- MODULE BroadcastPayload --------------------------
(***************************************************************************)
(* What the payloads of the crawler carry through the broadcast stage:     *)
(* broadcast.Run (pipeline/stage.go), the payload pool with Clone and      *)
(* MarkAsProcessed (crawler/payload.go), linkSource and countingSink       *)
(* (crawler/crawler.go) and the sink worker (pipeline/pipeline.go), which  *)
(* all work on payload objects they share through the pool.  Errors and    *)
(* cancellation are in module Pipeline.                                    *)
(***************************************************************************)
EXTENDS Integers, FiniteSets

CONSTANTS
  Links,        \* the links the iterator yields
  Objs,         \* payload objects: the pool allocates when it is empty
  NumFifos,     \* FIFOs of the broadcast
  MaxLinks,     \* bound: links the iterator yields
  None          \* no link, no object

Fifos == 1..NumFifos

(* One object before the broadcast, one in its hand, one at each FIFO and  *)
(* one at the sink: the pool never has to make more than Objs.             *)
ASSUME ObjsAssumption ==
  IsFiniteSet(Objs) /\ Cardinality(Objs) >= NumFifos + 3
ASSUME BoundsAssumption == NumFifos \in Nat \ {0} /\ MaxLinks \in Nat
ASSUME NoneAssumption == None \notin Links \cup Objs

VARIABLES
  pool,         \* objects in payloadPool, or not allocated
  obj,          \* the fields of each object, each by the link it is from
  input,        \* the object on its way to the broadcast
  inputPc,      \* how far the stages before the broadcast are with it
  dispPc,       \* broadcast.Run
  payload,      \* its variables payload, fifoPayload and i
  fifoPayload,
  next,
  fifoPc, hold, \* each FIFO and the object it works on
  sinkHold,     \* the object the sink worker consumes
  count,        \* countingSink.count
  yielded,      \* history: links the iterator yielded
  dismissed,    \* history: those of them the fetcher did not pass on
  taken,        \* history: the link the broadcast is passing on
  owed          \* history: the link each FIFO should be working on

objVars  == <<pool, obj>>
srcVars  == <<input, inputPc, yielded, dismissed>>
dispVars == <<dispPc, payload, fifoPayload, next, taken>>
fifoVars == <<fifoPc, hold, owed>>
sinkVars == <<sinkHold, count>>
vars == <<objVars, srcVars, dispVars, fifoVars, sinkVars>>

(* id is LinkID; url is URL and RetrievedAt; raw, links and text are what  *)
(* RawContent, the two lists of links, and Title and TextContent are from. *)
Value == Links \cup {None}
Fields == [id : Value, url : Value,
           raw : SUBSET Links, links : SUBSET Links, text : SUBSET Links]
Fresh == [id |-> None, url |-> None, raw |-> {}, links |-> {}, text |-> {}]
Page(l) == [id |-> l, url |-> l, raw |-> {}, links |-> {l}, text |-> {l}]

TypeOK ==
  /\ pool \subseteq Objs /\ obj \in [Objs -> Fields]
  /\ input \in Objs \cup {None} /\ inputPc \in {"idle", "source", "fetched", "linked", "ready"}
  /\ dispPc \in {"recv", "pass", "cloneId", "cloneUrl", "cloneBody"}
  /\ payload \in Objs \cup {None} /\ fifoPayload \in Objs \cup {None}
  /\ next \in Fifos
  /\ fifoPc \in [Fifos -> {"recv", "process", "send"}]
  /\ hold \in [Fifos -> Objs \cup {None}]
  /\ sinkHold \in Objs \cup {None}
  /\ count \in 0..(NumFifos * MaxLinks) /\ yielded \in 0..MaxLinks /\ dismissed \in 0..yielded
  /\ taken \in Value /\ owed \in [Fifos -> Value]

Init ==
  /\ pool = Objs /\ obj = [o \in Objs |-> Fresh]
  /\ input = None /\ inputPc = "idle" /\ yielded = 0 /\ dismissed = 0
  /\ dispPc = "recv" /\ payload = None /\ fifoPayload = None /\ next = 1 /\ taken = None
  /\ fifoPc = [f \in Fifos |-> "recv"] /\ hold = [f \in Fifos |-> None]
  /\ owed = [f \in Fifos |-> None]
  /\ sinkHold = None /\ count = 0

-----------------------------------------------------------------------------
(* Variant with a bug: the pool hands out an object it keeps.              *)
GetShared(o) == o \in pool /\ pool' = pool

(* payloadPool.Get.                                                        *)
Get(o) == o \in pool /\ pool' = pool \ {o}

(* linkSource.Payload, for the next link of the iterator.                  *)
SourcePayload(o, l) ==
  /\ input = None /\ yielded < MaxLinks
  /\ Get(o)
  /\ obj' = [obj EXCEPT ![o].id = l, ![o].url = l]
  /\ input' = o /\ inputPc' = "source" /\ yielded' = yielded + 1
  /\ UNCHANGED <<dismissed, dispVars, fifoVars, sinkVars>>

(* Variant with a bug: the lists of links are not emptied.                 *)
ResetAllButLinks(o) ==
  /\ obj' = [obj EXCEPT ![o] = [@ EXCEPT !.url = None, !.raw = {}, !.text = {}]]
  /\ pool' = pool \cup {o}

(* MarkAsProcessed keeps LinkID and RetrievedAt.                           *)
MarkAsProcessed(o) ==
  /\ obj' = [obj EXCEPT ![o] = [@ EXCEPT !.url = None, !.raw = {}, !.links = {}, !.text = {}]]
  /\ pool' = pool \cup {o}

(* The link fetcher appends what it gets to RawContent.                    *)
Fetch ==
  /\ inputPc = "source"
  /\ obj' = [obj EXCEPT ![input].raw = @ \cup {obj[input].url}]
  /\ inputPc' = "fetched"
  /\ UNCHANGED <<pool, input, yielded, dismissed, dispVars, fifoVars, sinkVars>>

(* It dismisses a link that is excluded, private, not there, or no html.   *)
Dismiss ==
  /\ inputPc = "source"
  /\ MarkAsProcessed(input)
  /\ input' = None /\ inputPc' = "idle" /\ dismissed' = dismissed + 1
  /\ UNCHANGED <<yielded, dispVars, fifoVars, sinkVars>>

(* The link extractor appends the links it finds to both lists.            *)
ExtractLinks ==
  /\ inputPc = "fetched"
  /\ obj' = [obj EXCEPT ![input].links = @ \cup obj[input].raw]
  /\ inputPc' = "linked"
  /\ UNCHANGED <<pool, input, yielded, dismissed, dispVars, fifoVars, sinkVars>>

(* The text extractor reads RawContent to its end.                         *)
ExtractText ==
  /\ inputPc = "linked"
  /\ obj' = [obj EXCEPT ![input].text = obj[input].raw, ![input].raw = {}]
  /\ inputPc' = "ready"
  /\ UNCHANGED <<pool, input, yielded, dismissed, dispVars, fifoVars, sinkVars>>

-----------------------------------------------------------------------------
(* broadcast.Run takes its next payload.  The clone it made after it had   *)
(* served the last FIFO goes out of scope and is garbage, never marked as  *)
(* processed.                                                              *)
Take ==
  /\ dispPc = "recv" /\ inputPc = "ready"
  /\ payload' = input /\ fifoPayload' = input /\ next' = 1
  /\ taken' = obj[input].id
  /\ input' = None /\ inputPc' = "idle"
  /\ pool' = pool \cup ({fifoPayload} \ {None})
  /\ obj' = [o \in Objs |-> IF o = fifoPayload THEN Fresh ELSE obj[o]]
  /\ dispPc' = "pass"
  /\ UNCHANGED <<yielded, dismissed, fifoVars, sinkVars>>

(* "inCh[i] <- fifoPayload": from here on the FIFO may run ahead.          *)
Pass ==
  /\ dispPc = "pass" /\ fifoPc[next] = "recv"
  /\ fifoPc' = [fifoPc EXCEPT ![next] = "process"]
  /\ hold' = [hold EXCEPT ![next] = fifoPayload]
  /\ owed' = [owed EXCEPT ![next] = taken]
  /\ fifoPayload' = None /\ dispPc' = "cloneId"
  /\ UNCHANGED <<objVars, srcVars, payload, next, taken, sinkVars>>

(* payload.Clone copies the fields one after the other.                    *)
CloneId(o) ==
  /\ dispPc = "cloneId"
  /\ Get(o)
  /\ obj' = [obj EXCEPT ![o].id = obj[payload].id]
  /\ fifoPayload' = o /\ dispPc' = "cloneUrl"
  /\ UNCHANGED <<srcVars, payload, next, taken, fifoVars, sinkVars>>

CloneUrl ==
  /\ dispPc = "cloneUrl"
  /\ obj' = [obj EXCEPT ![fifoPayload].url = obj[payload].url]
  /\ dispPc' = "cloneBody"
  /\ UNCHANGED <<pool, srcVars, payload, fifoPayload, next, taken, fifoVars, sinkVars>>

(* Variant with a bug: the last FIFO is forgotten.                         *)
MoreButOne == next + 1 < NumFifos

(* The loop condition of the broadcast for the next FIFO.                  *)
MoreFifos == next < NumFifos

(* The rest of Clone; io.Copy empties the RawContent it reads.             *)
CloneBody ==
  /\ dispPc = "cloneBody"
  /\ obj' = [obj EXCEPT
       ![fifoPayload] = [@ EXCEPT !.raw = obj[payload].raw,
                         !.links = obj[payload].links, !.text = obj[payload].text],
       ![payload].raw = {}]
  /\ dispPc' = IF MoreFifos THEN "pass" ELSE "recv"
  /\ next' = IF MoreFifos THEN next + 1 ELSE next
  /\ UNCHANGED <<pool, srcVars, payload, fifoPayload, taken, fifoVars, sinkVars>>

-----------------------------------------------------------------------------
(* A FIFO of the broadcast: the processor returns the payload it got.      *)
FifoProcess(f) ==
  /\ fifoPc[f] = "process"
  /\ fifoPc' = [fifoPc EXCEPT ![f] = "send"]
  /\ UNCHANGED <<objVars, srcVars, dispVars, hold, owed, sinkVars>>

FifoSend(f) ==
  /\ fifoPc[f] = "send" /\ sinkHold = None
  /\ sinkHold' = hold[f]
  /\ hold' = [hold EXCEPT ![f] = None]
  /\ fifoPc' = [fifoPc EXCEPT ![f] = "recv"]
  /\ UNCHANGED <<objVars, srcVars, dispVars, owed, count>>

(* Variant with a bug: the sink worker keeps the payload it gave back.     *)
SinkConsumeAgain ==
  /\ sinkHold # None
  /\ count' = count + 1
  /\ MarkAsProcessed(sinkHold)
  /\ UNCHANGED <<srcVars, dispVars, fifoVars, sinkHold>>

(* The sink worker: countingSink.Consume, then MarkAsProcessed.            *)
SinkConsume ==
  /\ sinkHold # None
  /\ count' = count + 1
  /\ MarkAsProcessed(sinkHold)
  /\ sinkHold' = None
  /\ UNCHANGED <<srcVars, dispVars, fifoVars>>

(* What Crawl returns: half the count, as its broadcast has two FIFOs.     *)
GetCount == count \div NumFifos

-----------------------------------------------------------------------------
Next == \/ \E o \in Objs, l \in Links : SourcePayload(o, l)
        \/ Fetch \/ Dismiss \/ ExtractLinks \/ ExtractText
        \/ Take \/ Pass
        \/ \E o \in Objs : CloneId(o)
        \/ CloneUrl \/ CloneBody
        \/ \E f \in Fifos : FifoProcess(f) \/ FifoSend(f)
        \/ SinkConsume

Spec == Init /\ [][Next]_vars

-----------------------------------------------------------------------------
(* Properties.                                                             *)

Holders == {input, fifoPayload, sinkHold} \cup {hold[f] : f \in Fifos}

(* An object has one owner at a time: the stages before the broadcast, its *)
(* hand, one FIFO or the sink, and none of them has an object the pool may *)
(* hand out again (payload.go 47-74, stage.go 232-244).                    *)
ExclusiveOwner ==
  /\ pool \cap Holders = {}
  /\ input # None => input \notin {fifoPayload, sinkHold} \cup {hold[f] : f \in Fifos}
  /\ fifoPayload # None => fifoPayload \notin {sinkHold} \cup {hold[f] : f \in Fifos}
  /\ \A f \in Fifos : hold[f] # None =>
       hold[f] # sinkHold /\ \A g \in Fifos \ {f} : hold[f] # hold[g]

(* The first processor of a broadcast, the graph updater, never works on   *)
(* the page of another link than the one that was taken, however the pool  *)
(* reuses objects meanwhile (stage.go 232-242).  Its page may be empty: a  *)
(* clone made too late drains the object that the fetcher fills again.     *)
FirstFifoUnmixed ==
  fifoPc[1] # "recv" =>
    LET p == obj[hold[1]] IN
    p.id = owed[1] /\ p.url = owed[1] /\ p.links \cup p.text \subseteq {owed[1]}

(* When the pipeline is idle every link that was fetched has gone through  *)
(* each processor once, so Crawl returns their number (crawler.go 65-104). *)
Idle == /\ input = None /\ sinkHold = None /\ dispPc = "recv"
        /\ \A f \in Fifos : fifoPc[f] = "recv"
CountIsExact == Idle => GetCount = yielded - dismissed

(* Every processor of a broadcast gets a copy of the incoming payload      *)
(* (stage.go 183-184, 241).                                                *)
EveryFifoGetsCopy ==
  \A f \in Fifos : fifoPc[f] # "recv" => obj[hold[f]] = Page(owed[f])

=============================================================================
