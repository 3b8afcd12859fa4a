# Links 'R' Us in TLA+

A verification development for the Go program in `src/`: a web crawler and search
engine that fetches links, keeps them in a link graph, indexes their text and ranks
them with PageRank. The modules here model its control, from the goroutines of a graph
processor to the processes of a deployment; TLC checks small instances of them and
TLAPS proves the most important properties for every value of the constants.
Definitions follow the source; the comments cite it as `file line`, and `PROJECT.json`
maps every definition to its lines.

## 1. Inventory

| Component | State | Operations | Talks to | Correct when | Modules |
|---|---|---|---|---|---|
| BSP graph processor (`bsp/graph.go`, `executor.go`, `memory_queue.go`) | vertices with an active flag and two message queues each, superstep, counters of a step, error channel, step workers | AddVertex, AddEdge, SendMessage, Freeze, step, Run*, Reset, Close | compute function (callback), executor callbacks, Relayer | supersteps are barriers, a message is read one superstep after it was sent, a step reports its errors | `BspGraph`, `BspSync` |
| Relayers (`bsp/graph.go`, `bsp/interfaces.go`) | graphs with parts of one graph, run in lockstep | SendMessage to a vertex of another graph | executor callbacks that wait for each other | the parts behave as one graph | `BspRelay` |
| BSP accumulators (`bsp/accumulator.go`) | current and previous sum | Get, Set, Aggregate, Delta, lock-free | compute functions, executor callbacks | no addend is lost | `Accumulator`, used by `PageRank` |
| PageRank calculation (`pagerank/calculator.go`, `compute.go`) | scores, SAD, page count, two residual accumulators | compute function, pre/post-step callbacks, Scores | BSP graph | it is the power iteration, loses no score and ends | `PageRank`, `PowerIteration` |
| PageRank service (`pagerank/service.go`) | the calculator | timed update pass: reset, load links and edges, run, persist | link graph, text index, partition detector | a graph that changes meanwhile does not fail it | `CrawlAndRank`, `Deployment` |
| Pipeline (`pipeline/`) | channels between stages, error channel, context, token pool | Process; FIFO, fixed pool, dynamic pool, broadcast | source, processors, sink (callbacks) | it ends, reports every failure, and nil means complete | `Pipeline` |
| Crawler stages (`crawler/`) | pooled payload objects, crawl count | source, fetch, extract links and text, update graph, index, sink | link graph, text index, HTTP | an object has one owner and is of one page | `BroadcastPayload` |
| Link graph (`inmem/`, `cdb/`, `graph/`) | links, edges with timestamps | UpsertLink, UpsertEdge, RemoveStaleEdges, FindLink, Links, Edges | crawler, PageRank, front-end | edges join known links and match the page last seen | `LinkStore`, `CrawlAndRank` |
| Text index (`bleve/`, `elasticsearch/`, `index/`) | documents with scores | Index, UpdateScore, FindByID, Search with a paging iterator | crawler, PageRank, front-end | crawler and ranker do not undo each other's fields | `TextIndex`, `Search` |
| Front-end (`frontend/`) | none | search, submit a link | link graph, text index | a request fails only with a cause; pages show every match once | `Search`, `CrawlAndRank` |
| Partitions (`partition/`) | none | split the ID space; detect own number and the total | crawler and PageRank services | no link is in two partitions or in none | `PartitionRange`, `Deployment` |
| Service group and mains (`service/`, `cmd/`) | context, error channel, listeners, signal watcher | start, run services, stop them all on a failure or signal | all services | they stop, and report every error | `Deployment` |
| gRPC APIs (`graph/graphapi`, `index/indexapi`) and the stores' iterators | streams, iterators | the store interfaces across processes | stores, services | no error means complete; both ends finish | `RemoteCall` |

What is hard here:

* **Goroutines and unbuffered channels.** A BSP step hands out vertices to workers and
  learns of its end from the last of them; the pipeline closes its channels from one
  end to the other while any stage may fail and the context may expire.
* **Shared objects.** Payload objects come from a pool and are cloned, reset and
  reused by different goroutines; the message queues of a vertex are written by all
  workers; accumulators are updated without locks.
* **Concurrent services on one store.** Crawler instances, rank passes and users work
  on the link graph and the text index at the same time, one call at a time and
  without transactions; readers page through results that change.
* **Failure half-way.** A compute function, a processor, the sink, a call of a store
  or the connection to it fails between two steps; the run or pass is repeated later.
* **Partial knowledge.** Instances learn how many they are from DNS records that lag
  behind; a gRPC caller knows only what the status says.

The hazards, each with the line where it bites, are in `PROJECT.json`; each names the
properties below that cover it, or says why none does.

## 2. Plan

The order of the work, and what became of it:

1. `BspGraph` with its abstract specification `BspSync`; proofs of the safety
   invariants and of the refinement. Done.
2. `Pipeline` for any shape of pipeline, `BroadcastPayload` for the objects in it;
   proofs of their safety properties. Done.
3. `LinkStore` and `CrawlAndRank`, the services around the link graph; proofs. Done.
4. `PageRank` over `Accumulator`, with `PowerIteration` as the abstract specification;
   proofs of the refinement, of the conservation of scores and of the contraction. Done.
5. `PartitionRange` and `Deployment`: processes, service groups, partitions; proofs. Done.
6. `TextIndex` and `Search`; proofs about the stores and the result pages. Done.
7. `RemoteCall`, the calls between processes; proofs. Done.
8. `BspRelay`: BSP graphs joined by relayers in lockstep; proof that they are one
   graph. Done.
9. Open: concurrent calls of `Process` on one pipeline; `LinkStore` with the database's
   own clock.

Which module uses which: `Search` extends `TextIndex`; `CrawlAndRank` extends
`LinkStore`; `Deployment` extends `PartitionRange`; `PageRank` instantiates
`Accumulator` and, with a refinement mapping, `PowerIteration`; `BspGraph` and
`BspRelay` instantiate `BspSync` in the same way. `PageRank` abstracts the graph
processor to its barriers, `CrawlAndRank` abstracts supersteps to whether their messages
can be delivered: `BspGraph` shows that barriers are what the graph processor
implements.

## 3. Modules

### BspGraph, BspSync

`BspGraph` has the caller's goroutine (`execPc`: idle, then per step dispatch, await,
collect, post) and the step workers (`workerPc`). Every statement that another
goroutine can see is a step of its own: the send on `vertexCh` is joint with its
receive (`Dispatch`), `WorkerStart` decides by the active flag and the current queue
whether the compute function is called, `SendLocal`/`SendRelayed`, `Receive` and
`Freeze` are what it may do, `ComputeOK` discards the unread messages, `ComputeFailed`
leaves them and offers its error, `VertexDone` is the atomic decrement, and
`StepCompleted` the joint step of the last worker's signal. The compute function is
arbitrary: any number of sends up to `MaxSends`, to any ID, and failure at any point.
Between runs the client adds vertices, resets, closes and runs again after errors.
Vertex values, edges and aggregators play no role here.

`BspSync` is what a compute function may rely on: rounds with turns, an inbox and an
outbox. The mapping reads inbox and outbox off the two buffers by the parity of the
superstep; `waiting` is what the step has not dispatched plus what workers have taken
but not looked at.

### BspRelay

Several graphs that hold parts of one, joined by relayers. Within a step each graph is
what `BspSync` says, so workers and counters are not repeated; what is new is that
`SendMessage` may be called by a worker of another graph, and picks the buffer by the
superstep of the graph it is called on. `PreStep` and `PostStep` are the two rendezvous
of the executors' callbacks. A part may fail, stop after a step or refuse the next one,
while the others go on to their next rendezvous. The relayer is one as `Relayer`
demands: an ID that no graph has is refused, which changes nothing. The mapping to
`BspSync` takes the round of the slowest graph and reads every inbox by its parity.

### PageRank, Accumulator, PowerIteration

The compute function of every page, run by the workers with each load and CAS of an
accumulator a step of its own (`LoadSum`, `SwapSum`), the callbacks between supersteps,
and the calculator that loads a graph, runs and reads the scores, over several passes. A
message queue is the sum of the scores in it, which is all that is made of the
messages. Scores are whole numbers of units, small enough that no division leaves a
rest: `ExactAssumption` asks for a `Grain` for each superstep, of which its scores are
multiples, and TLC evaluates that on the instance. It stands for the precision of
float64, whose rounding is not modelled.
`PowerIteration` is the algorithm of the literature without workers, messages or
residuals; the scores after each superstep are its ranks.

### Pipeline

A pipeline is a `shape`: the kind of each stage, its goroutines and the number of
calls. One program counter for each goroutine that `Process` starts, each FIFO, each
goroutine of a dynamic pool, and the loop of each stage runner. Sends and receives on
unbuffered channels are joint (`HandOver`); `errCh` is a counter because only its
capacity matters. `Done` is `pCtx.Done()`: the caller's context or `ctxCancelFn`. Every
`select` is a choice between its ready cases. A processor, the source and the sink may
fail on any payload, and a processor may dismiss one. `ProcessAgain` is the next call on
the same pipeline, which keeps the token pools.

### BroadcastPayload

The objects of `payloadPool` with their fields and who holds a pointer to each: the
stages before the broadcast (`inputPc`: source, fetch, extraction of links and text), the
broadcast's `payload` and `fifoPayload`, each FIFO, and the sink. `Clone` copies field
by field; `RawContent` is drained by it and filled by the fetcher. A field's value is
the link, or the links, it came from.

### LinkStore, CrawlAndRank

`LinkStore` has one operator per method of the store; each runs under the store's
lock. `CrawlAndRank` composes it with crawler instances (a pass over the iterator; the
graph updater one call at a time), the front-end, and the PageRank pass, whose
supersteps are reduced to what depends on the loaded graph: whether every message has
a destination (`Undeliverable`). `UpsertLink` finds links by URL and never deletes, so
a URL stands for its ID. `Fail` stops a crawler at any point; it starts again with a
new pass.

### PartitionRange, Deployment

`PartitionRange` is `NewRange` and the extents, over IDs of `Width` digits to the base
`Base` (a UUID has 16 digits to the base 256), with the padding that `big.Int.Bytes`
lacks. `Deployment` runs instances of one program: what it needs to start, its
services, its listeners in the order they are opened, the signal watcher, the service
group of the monolith, the checks each service makes of its settings, the timer loops
of crawler and ranker with the detector's answer of the moment, and crashes and
restarts at any point. `main` is `"returned"` from the return of `Group.Run` to the end
of the monolith, so that a nil return is a state like one with errors: `report` is then
what it returned, against the history `erred` of what the services did. A detector returns any number of records, or fails.

### TextIndex, Search

`TextIndex` has both stores. bleve writes its search index and its map in two steps
under a lock, in a different order for each method, and either write may fail;
Elasticsearch merges partial documents and shows them after a refresh, and a failed
request may have been carried out. A text is what queries tell apart. `Search` is the
front-end's request with the stores' iterators, which fetch batch after batch of an
index that changes, and the links from page to page.

### RemoteCall

One call with the handler at one end and the caller at the other. A stream is counted:
the store's iterator, frames sent and received, the trailer; the reader is the ranker's
loadLinks or loadEdges, the crawler's link source or a result page, each with its own
way of stopping. A writing call carries objects of which only this counts: which
fields are set, and by whom. The connection may break, the server crash, the caller's
context end, and the store's rows end early.

## 4. Runs

| Run | Instance | States | Shows |
|---|---|---|---|
| `bsp_graph` | 2 workers, 2 vertices, 3 supersteps, queues of 1, any runs | 393 k | barrier, one signal per step, queue isolation, errors surface in their step, `BspSync` is implemented; steps, runs and Close return |
| `bsp_relay` | 2 graphs with 2 and 1 vertices, 3 steps, queues of 2 | 1.9 M | the parts implement one `BspSync` graph |
| `pagerank` | 3 workers, 7 graphs of up to 3 pages, 2 passes | 41 k | no score is lost, the calculation contracts by the damping factor, ends, and is the power iteration |
| `pipeline` | a fixed pool of 2 before a broadcast to 2, called twice; a FIFO before a dynamic pool of 2, called once | 269 k | no send on a closed channel, nil means complete, errors surface, tokens are conserved, Process ends |
| `pipeline_reuse` | the second shape, called twice | | **violated**: the second Process never returns |
| `broadcast_pass` | 2 processors, 3 pages of 2 links, 5 objects | 190 k | one owner per object, the first processor sees the page, counts are exact |
| `broadcast_clone` | 2 processors, 2 links | | **violated**: the second processor may get an empty or mixed copy |
| `crawl_and_rank` | 2 links, 2 crawlers sharing one, 3 updates or passes | 1.6 M | edges match pages after lone updates, edges join known links, links are not crawled too early, a pass fails only for a re-crawled link |
| `rank_tolerance` | 2 links, 1 crawler | | **violated**: a link crawled again while a pass loads the graph fails the pass |
| `deployment` | every program; 3 instances of crawler and ranker, 9 IDs, 0 to 4 records; all settings for single instances | 121 k | passes share no link, processes stop, a group that returned has waited for its services and reports every error |
| `search` | both stores, 3 links, 2 writes, batches of 1, pages of 2 | 736 k | neither writer undoes the other, requests fail only with a cause, pages show every match once |
| `remote_call` | every call on every store, up to 5 items, a window of 2 frames | 67 k | no error means complete, errors have a cause, calls end at both ends |

Why the bounds are enough. Two workers and two vertices make the last decrement race
with the other worker and with dispatch; three supersteps use both buffers in both roles
and reuse the first. With a queue of one a second message waits for room; longer queues
are the proofs' business, which need no bound, and that of `bsp_relay`, where a queue of
two holds messages of different senders. With two graphs one may be ahead at either
rendezvous, and two vertices in one of them give it work left when the other is done.
Three workers let a CAS lose to a second and a third addition; the seven graphs have
dead ends, a cycle, a page nobody links to, a self-link, a link outside the loaded
pages, a single page and none; two passes reuse the accumulators. Two FIFOs that share
an input and two behind a broadcast give every race between failure, cancellation and
the end of input; six goroutines can fail while `errCh` holds four errors. Five objects
are as many as the broadcast instance can hold at once, so the pool is used up and
objects are reused. Two links suffice for an edge between them and a page that links to
itself; three time-advancing events let a page be updated, a pass begin, and the page be
updated again. Nine IDs of two digits split into three partitions evenly, into two and
four with a remainder or not at all; up to four records are too few, right and too many
for three instances. Two writes are one by each writer, or a second one that meets the
first half-way; with one hit per batch, a page needs two batches and one more hit than
it shows. Five items are more than the window and more than a page.

Bounds are named in the modules: `MaxSends`, `MaxQueued`, `MaxSuperstep` (BspGraph),
`MaxSends`, `MaxQueued` (BspRelay), `MaxSuperstep`, `MaxPasses` (PageRank; a calculation
ends before `MaxSuperstep`, or `CalculationEnds` would fail), `calls` of a shape
(Pipeline), `MaxLinks`, `Objs` (BroadcastPayload), `MaxUpdates` (CrawlAndRank),
`MaxWrites` (TextIndex), `MaxItems`, `Window` (RemoteCall). `Deployment` needs none.

Symmetry. In `BspRelay.cfg` the two vertices of one graph are permuted. In
`BroadcastPass.cfg` objects and links are permuted: both are only compared. Runs with
liveness use no symmetry.

`CHECK_DEADLOCK FALSE` is set where the system really stops: when graphs in lockstep
have made their steps or one ended its run and the other waits in its callback, after
the last call of Process, when the link iterator is exhausted, after the last rank pass,
and at the end of a remote call.

Fairness. `bsp_graph` assumes weak fairness of the caller inside a run and of each
worker: goroutines that can run do, and a compute function returns after finitely many
operations. The client owes nothing. `pagerank` assumes the same; a CAS fails only after
another one succeeded. The pipeline runs assume it of every goroutine, that calls of the
source, processors and the sink return, and strong fairness of the source worker's
`ctx.Done` case: the worker can pass the same `select` for ever with an endless source,
and `select` picks among ready cases at random. `ContextExpires` and the source's end
are not fair: nothing forces them. `deployment` assumes weak fairness of a process's
goroutines and of passes, whose calls return, and strong fairness of the context case of
a service's `select`, where the timer may tick as well; signals, crashes, failures and
starts are not fair. `remote_call` assumes that handler and caller go on, that the
server is told in the end of a caller that is gone, and that a crawler whose pass failed
ends its program, as its main does.

## 5. Findings

Three runs show the code doing something else than it says:

* **A dynamic pool works for one call only** (`pipeline_reuse`). Its tokens are drained
  at the end of `Run` and belong to the stage, not to the call.
* **The broadcast clones a payload it has given away** (`broadcast_clone`). The first
  processor and the sink can finish with the original before it is cloned.
* **A rank pass fails when a link is crawled again while it loads the graph**
  (`rank_tolerance`). The tolerance for unknown sources has no counterpart for unknown
  destinations, which fail in superstep 1.

Modelling met these as well. They follow from the lines alone; the properties that come
near name them as exceptions:

* `IndexedAt` is not in the gRPC request and Elasticsearch's `Index` does not take the
  time, so documents the microservices store there have a zero one (index/document.go 22).
* The iterators of `cdb` do not ask `rows.Err`: a lost database connection looks like
  the end of the rows (cdb/link.go 17-20).
* Elasticsearch's iterator cannot be closed after a failed search, and an empty batch is
  indexed; both end the request with a panic.
* A late `Clone` drains the `RawContent` that the fetcher has filled again, so the next
  page may seem to have no links, and its edges are removed.
* `crawlGraph` leaves its iterator open when the pass fails; the end of the program
  cancels the stream (`CallEnds` needs that).
* A microservice whose service failed may wait for its listeners for ever: the watcher
  leaves without closing them (`ProcessEnds` excludes it).
* The in-memory store's `UpsertLink` does not return the later timestamp, the one of
  `cdb` does.
* A damping factor of 1 passes `validate`, although the calculation need not end with
  it; so does a negative update interval.
* The links of a result page lose the quotes of a phrase query.
* `summarizer` compares bytes with runes; the front-end's summary length is read from
  the environment variable of the page size; `IntAccumulator.Set` reads without atomics.
  None of these is modelled.

What the properties leave out besides these exceptions: `FailsOnlyRecrawled` is about
changes of the graph, not about errors of stores and contexts, which end a pass as they
should; `OkMeansComplete` says nothing of a call that ends in an error, so what a lost
reply leads to is the matter of `SettledPage`; the panic of Elasticsearch's iterator is
a cause that `FailsOnlyDisturbed` admits, after which `CallEnds` still demands the end
of the call at both ends.

## 6. Proofs

Eight modules of proofs, each about the module it extends (`BspGraphProofs` also about
an instance of `BspRelay`). Every theorem is for all values of the constants under the
named `ASSUME`s of the modules, which TLC evaluates in every run. Every invariant, every
action property and every refinement that the passing runs check is proved; next to none
is inductive by itself, and `IInv` is what it takes.

`BspGraphProofs`: the type invariant, `Barrier`, `OneSignal`, `QueueIsolation` and
`ErrorSurfaces`. `IInv` adds `CounterInv` (`pendingInStep` is the number of vertices not
dispatched plus the number of workers that have not accounted for theirs, so it reaches
0 exactly once, with nobody else busy), `ErrorInv` (the channel is non-empty exactly
when a vertex of this step failed) and `QueueInv` (unread messages of the current
superstep are only at vertices that wait for their turn, have it, or failed in it; hence
the buffer that is about to become the next one is empty when the superstep advances).

From the same invariant and the fact that a vertex is held by one worker at most
(`OwnerInv`) follows `Spec => ImplementsSync`: every action is a step of `BspSync` or a
stutter under the mapping. `GraphsAreOne` is the same for `BspRelay`, under
`RelayAssumption`, the conjunction of that module's `ASSUME`s: `LockstepInv` says which
supersteps and places in their loops two graphs can be at, at the same time; `TurnInv`
that turns are taken in a step only, and that a graph whose step failed goes no further;
`ReadInv` that unread messages of a graph's superstep are at vertices whose turn is not
over, or in a graph that failed. So the buffer that a graph ahead of the others writes
is the one they will read next, and the abstract round advances when the slowest graph
does, with the last `KeepRunning`.

`PipelineProofs`: for any shapes, `TypeOK`, `NoSendOnClosed`, `NilMeansComplete`,
`ErrorsSurface` and `TokensConserved`. `WorkerKinds` and `StageKinds` say which states
goroutines of each kind of stage can be in; `CloseInv` that a channel is closed exactly
when the goroutine that closes it is done, and that no goroutine of a finished stage is
left; `TokenInv` counts the goroutines of a dynamic pool as tokens, so that a pool that
has all of them back is idle; `ErrorInv` says that a failure is in the channel or in the
result, whatever was dropped, and that nothing but a failure or the context makes a
payload be dropped.

`BroadcastPayloadProofs`: `TypeOK`, `ExclusiveOwner`, `FirstFifoUnmixed` and
`CountIsExact`, for any number of objects, links and processors. Objects in the pool are
empty but for the fields no reset touches (`PoolInv`), one under way is of one link
(`SourceInv`, `DispInv`), and `CountInv` accounts for each copy on its way to the sink.

`CrawlAndRankProofs`: edges join known links and a pass fails only because of a link
that was crawled again. While a pass is loading, every edge it can be shown has ends
that are among its vertices or were retrieved since it began (`RankInv`); this needs
that the clock does not go back and that links are never deleted. `SettledPage`: in an
update nobody shared, the edges as young as its `staleBefore` are those of the links it
is done with (`Fresh`), so that the removal of the others leaves the links of the page.
`PoliteCrawl`: a link a crawler awaits stays old enough while no other crawler has it in
its partition (`PoliteInv`), because nothing but its own retrieval moves the timestamp
of a known link.

`DeploymentProofs`: `TypeOK`, `CrawlsPartition` and `GroupReports`, for any number of
instances, IDs and records. Lemmas on the division show that partitions are apart and
cover the range but for its last ID. `PassInv` says that a pass asks for its partition
of those it counted, `ErrInv` that an error of a group's service is with the service or
in the channel, which has room for all of them. `GroupReports` is inductive with it: a
group returns what is in the channel when no service is left to fail, and nothing of its
program takes a step between the return and the end of the process (`ReturnStep`).

`SearchProofs`: `NeitherUndoesTheOther`, `TypeOK`, `FailsOnlyDisturbed` and
`PagesComplete`, for batches and pages of any size. `IndexInv` and `ScoreInv` say what
map and search index hold between the two writes of a call, and that only its document
and those of failed calls differ; `StoredInv` that what the index finds the map has.
`HitsOrdered` shows by counting the documents before each one that the hits are every
match once, in one order. `IterInv` places the iterator in its batch, and keeps what a
short batch means while the index changes; `PageInv` says that the pages shown, the
batch and the page being made are consecutive parts of the hits.

`PageRankProofs`: `TypeOK`, `MassConserved`, `Contracts` and `ImplementsPowerIteration`,
for any pages, graphs and workers. Sums over sets are folds, about which the library has
no facts that the provers can use; the module proves the laws of `Sum` (a page more or
less, linearity, monotony) from the definition, by an induction over finite sets that is
stated with a set in place of a predicate (`FiniteRule`). `StepInv` is the invariant of a
superstep: SAD is the sum of the changes of the pages counted so far, the residual that
of the dead ends settled, each queue what the pages that have spread their score sent to
it, and each worker carries the part of its page; a CAS moves one page from one of
these sets to the next. When the superstep ends the sets are all pages, and the sums
those of `PowerIteration`. The rest is arithmetic: lemmas on `Divides` show that from
superstep to superstep scores stay multiples of the `Grain` (`IterateExact`), so what is
sent and what dead ends leave add up to what there was (`AllSent`, `IterateMass`), and the
distance of two sets of scores shrinks by the damping factor (`IterateApart`). `MassInv`
and `ContractInv` carry that through the run. The proof found a flaw of the model: the
arms of the `CASE` that told the abstract round overlapped while idle.

`RemoteCallProofs`: `TypeOK`, `OkMeansComplete` and `FailsOnlyDisturbed`, for result sets,
windows and pages of any size. Frames follow the iterator item by item (`HandlerInv`), a
status comes after all of them and says what happened (`StatusInv`), and the caller
has read what it received (`CallerInv`). The tables of fields are compared by cases.

Only model-checked: the liveness properties (`CallsReturn`, `ProcessEnds` twice,
`CalculationEnds`, `CallEnds`), because fairness and ENABLED are beyond the prover.
`Contracts` is what makes `CalculationEnds` plausible for any graph: a quantity that
shrinks by a constant factor falls below `MinSAD`.

## 7. Not modelled

* Relayers across a network: the repository has none. Two relayers as in
  `graph_test.go` call each other without end for an ID that neither graph has, which
  `Relayer` forbids them.
* Concurrent calls of `Process` on one pipeline, and an executor created on a graph that
  was used and not reset: no program does either.
* The database's own clock (`cdb`): `LinkStore` has one clock for all. The statements
  of `cdb` promise what `LinkStore` says; how a database carries them out is external.
* `Delta` and concurrent `Set` of the accumulators, which no client calls.
* The look-ups `FindLink` and `FindByID` of the stores: they change nothing.
* Flag parsing, templates, summaries, highlighting, link extraction by regular
  expression, and the private-network check: conversions, input and output, or text
  processing; where the rest depends on their result the model lets it be any.
* Test suites, mocks, generated code and deployment files: the suites were read as the
  contract of the stores. Generated stubs are modelled by what they do to a call.
