---------------------------- MODULE CrawlAndRank ----------------------------
(***************************************************************************)
(* The services around the link graph: crawler instances that update it    *)
(* page by page (crawler/service.go, graph_updater.go), the front-end that *)
(* submits links, and the PageRank service that loads it, computes scores  *)
(* and persists them (pagerank/service.go).  They share nothing but the    *)
(* store, and run at the same time.                                        *)
(*                                                                         *)
(* Time advances when a page update or a rank pass begins; every other     *)
(* reading of the clock is at or after that, as time.Now is.               *)
(***************************************************************************)
EXTENDS LinkStore, FiniteSets

CONSTANTS
  Crawlers,         \* crawler instances
  Part,             \* the partition each crawls; they overlap while scaling
  Pages,            \* what a fetched page may contain: nofollow and links
  ReIndexThreshold, \* in clock ticks
  MaxUpdates        \* bound: page updates and rank passes together

ASSUME CrawlersAssumption == IsFiniteSet(Crawlers)
ASSUME PartAssumption == Part \in [Crawlers -> SUBSET Urls]
ASSUME PagesAssumption ==
  Pages \subseteq [nofollow : SUBSET Urls, links : SUBSET Urls]
ASSUME ThresholdAssumption == ReIndexThreshold \in Nat /\ MaxUpdates \in Nat

VARIABLES
  retrieved, updated,  \* the store
  now,                 \* the clock
  crawlPc,             \* each crawler: its service loop and its graph updater
  todo,                \* links its iterator has yet to yield
  cur,                 \* the page it works on, and the updater's locals
  rankPc,              \* updateGraphScores
  startAt,
  vertices, loaded,    \* links and edges of its bsp.Graph
  unscored,            \* vertices whose score is not persisted yet
  settled              \* history: {page contents} once a lone update ended

store     == <<retrieved, updated>>
crawlVars == <<crawlPc, todo, cur, settled>>
rankVars  == <<rankPc, startAt, vertices, loaded, unscored>>
vars == <<store, now, crawlVars, rankVars>>

Start    == ReIndexThreshold + 1      \* the zero time is long past
MaxClock == Start + MaxUpdates
Time     == 0..MaxClock

(* src and page: the payload; left: links of the page not yet upserted;    *)
(* dst: the link whose edge comes next; staleBefore: removeEdgesOlderThan. *)
(* alone is history: nobody else has updated src since this update began.  *)
Blank == [nofollow |-> {}, links |-> {}]
Work  == [src : Urls, page : Pages \cup {Blank}, left : SUBSET Urls, dst : Urls,
          staleBefore : Time, alone : BOOLEAN]

AnyUrl == CHOOSE u \in Urls : TRUE
NoWork == [src |-> AnyUrl, page |-> Blank, left |-> {}, dst |-> AnyUrl,
           staleBefore |-> 0, alone |-> FALSE]

TypeOK ==
  /\ retrieved \in [Urls -> Time \cup {Absent}]
  /\ updated \in [Urls \X Urls -> Time \cup {Absent}]
  /\ now \in Start..MaxClock
  /\ crawlPc \in [Crawlers -> {"idle", "crawl", "fetched", "nofollow", "links", "edge"}]
  /\ todo \in [Crawlers -> SUBSET Urls]
  /\ cur \in [Crawlers -> Work]
  /\ rankPc \in {"idle", "links", "edges", "compute", "persist", "failed"}
  /\ startAt \in Time
  /\ vertices \subseteq Urls /\ unscored \subseteq vertices
  /\ rankPc # "persist" => unscored = {}
  /\ loaded \subseteq Urls \X Urls
  /\ settled \in [Urls -> SUBSET SUBSET Urls]

Init ==
  /\ retrieved = NoLinks /\ updated = NoEdges /\ now = Start
  /\ crawlPc = [c \in Crawlers |-> "idle"]
  /\ todo = [c \in Crawlers |-> {}]
  /\ cur = [c \in Crawlers |-> NoWork]
  /\ rankPc = "idle" /\ startAt = 0
  /\ vertices = {} /\ loaded = {} /\ unscored = {}
  /\ settled = [u \in Urls |-> {}]

-----------------------------------------------------------------------------
(* frontend.submitLink.                                                    *)
SubmitLink(u) ==
  /\ retrieved' = UpsertLink(retrieved, u, 0)
  /\ UNCHANGED <<updated, now, crawlVars, rankVars>>

-----------------------------------------------------------------------------
(* Crawler service.                                                        *)
Goto(c, pc) == crawlPc' = [crawlPc EXCEPT ![c] = pc]

(* Variant with a bug: the threshold is forgotten.                         *)
CrawlAll(c) ==
  /\ crawlPc[c] = "idle" /\ Goto(c, "crawl")
  /\ todo' = [todo EXCEPT ![c] = LinksBefore(retrieved, Part[c], now)]
  /\ UNCHANGED <<store, now, cur, settled, rankVars>>

(* crawlGraph asks for the links not retrieved since the threshold.        *)
CrawlBegin(c) ==
  /\ crawlPc[c] = "idle" /\ Goto(c, "crawl")
  /\ todo' = [todo EXCEPT ![c] = LinksBefore(retrieved, Part[c], now - ReIndexThreshold)]
  /\ UNCHANGED <<store, now, cur, settled, rankVars>>

CrawlEnd(c) ==
  /\ crawlPc[c] = "crawl" /\ todo[c] = {} /\ Goto(c, "idle")
  /\ UNCHANGED <<store, now, todo, cur, settled, rankVars>>

(* A stage before the graph updater fetches the page, or dismisses it.     *)
Fetch(c, u, p) ==
  /\ crawlPc[c] = "crawl" /\ u \in todo[c] /\ Goto(c, "fetched")
  /\ todo' = [todo EXCEPT ![c] = @ \ {u}]
  /\ cur' = [cur EXCEPT ![c].src = u, ![c].page = p]
  /\ UNCHANGED <<store, now, settled, rankVars>>

Dismiss(c, u) ==
  /\ crawlPc[c] = "crawl" /\ u \in todo[c]
  /\ todo' = [todo EXCEPT ![c] = @ \ {u}]
  /\ UNCHANGED <<store, now, crawlPc, cur, settled, rankVars>>

(* A call of the graph API fails, or the context expires: the pass ends    *)
(* with an error and the rest of the page is not updated.  The instance is *)
(* restarted.                                                              *)
Fail(c) ==
  /\ crawlPc[c] # "idle" /\ Goto(c, "idle")
  /\ todo' = [todo EXCEPT ![c] = {}]
  /\ cur' = [cur EXCEPT ![c] = NoWork]
  /\ UNCHANGED <<store, now, settled, rankVars>>

-----------------------------------------------------------------------------
(* graphUpdater.Process, one call of the store at a time.                  *)
Updating(c, u) == crawlPc[c] \in {"nofollow", "links", "edge"} /\ cur[c].src = u

UpsertSource(c) ==
  LET u == cur[c].src
      others == {d \in Crawlers \ {c} : Updating(d, u)} IN
  /\ crawlPc[c] = "fetched" /\ now < MaxClock /\ Goto(c, "nofollow")
  /\ now' = now + 1
  /\ retrieved' = UpsertLink(retrieved, u, now + 1)
  /\ cur' = [d \in Crawlers |->
               IF d = c THEN [cur[c] EXCEPT !.left = cur[c].page.nofollow,
                                            !.alone = (others = {})]
               ELSE [cur[d] EXCEPT !.alone = @ /\ d \notin others]]
  /\ settled' = [settled EXCEPT ![u] = {}]
  /\ UNCHANGED <<updated, todo, rankVars>>

UpsertNoFollow(c, v) ==
  /\ crawlPc[c] = "nofollow" /\ v \in cur[c].left
  /\ retrieved' = UpsertLink(retrieved, v, 0)
  /\ cur' = [cur EXCEPT ![c].left = @ \ {v}]
  /\ UNCHANGED <<updated, now, crawlPc, todo, settled, rankVars>>

(* removeEdgesOlderThan := time.Now()                                      *)
MarkTime(c) ==
  /\ crawlPc[c] = "nofollow" /\ cur[c].left = {} /\ Goto(c, "links")
  /\ cur' = [cur EXCEPT ![c].staleBefore = now, ![c].left = cur[c].page.links]
  /\ UNCHANGED <<store, now, todo, settled, rankVars>>

(* Variant with a bug: the edge is made before its destination is known.   *)
UpsertEdgeFirst(c, v) ==
  /\ crawlPc[c] = "links" /\ v \in cur[c].left /\ Goto(c, "edge")
  /\ updated' = UpsertEdge(updated, cur[c].src, v, now)
  /\ cur' = [cur EXCEPT ![c].dst = v]
  /\ UNCHANGED <<retrieved, now, todo, settled, rankVars>>

UpsertDestination(c, v) ==
  /\ crawlPc[c] = "links" /\ v \in cur[c].left /\ Goto(c, "edge")
  /\ retrieved' = UpsertLink(retrieved, v, 0)
  /\ cur' = [cur EXCEPT ![c].dst = v]
  /\ UNCHANGED <<updated, now, todo, settled, rankVars>>

AddPageEdge(c) ==
  LET w == cur[c] IN
  /\ crawlPc[c] = "edge" /\ Goto(c, "links")
  /\ ~UnknownEdgeLinks(retrieved, w.src, w.dst)
  /\ updated' = UpsertEdge(updated, w.src, w.dst, now)
  /\ cur' = [cur EXCEPT ![c].left = @ \ {w.dst}, ![c].dst = AnyUrl]
  /\ UNCHANGED <<retrieved, now, todo, settled, rankVars>>

FinishPage(c) ==
  LET w == cur[c] IN
  /\ crawlPc[c] = "links" /\ w.left = {} /\ Goto(c, "crawl")
  /\ updated' = RemoveStaleEdges(updated, w.src, w.staleBefore)
  /\ cur' = [cur EXCEPT ![c] = NoWork]
  /\ settled' = IF w.alone THEN [settled EXCEPT ![w.src] = {w.page.links}] ELSE settled
  /\ UNCHANGED <<retrieved, now, todo, rankVars>>

Crawl(c) == \/ CrawlBegin(c) \/ CrawlEnd(c) \/ Fail(c)
            \/ \E u \in Urls : Dismiss(c, u) \/ \E p \in Pages : Fetch(c, u, p)
            \/ UpsertSource(c) \/ MarkTime(c) \/ AddPageEdge(c) \/ FinishPage(c)
            \/ \E v \in Urls : UpsertNoFollow(c, v) \/ UpsertDestination(c, v)

-----------------------------------------------------------------------------
(* updateGraphScores.                                                      *)
(* Variant with a bug: a tick starts a pass while the last one runs.       *)
RankOverlapping ==
  /\ now < MaxClock
  /\ now' = now + 1 /\ startAt' = now'
  /\ vertices' = {} /\ loaded' = {}
  /\ rankPc' = "links"
  /\ UNCHANGED <<store, crawlVars, unscored>>

(* The pass notes the time and resets its bsp.Graph.                       *)
RankBegin ==
  /\ rankPc = "idle" /\ now < MaxClock
  /\ now' = now + 1 /\ startAt' = now'
  /\ vertices' = {} /\ loaded' = {}
  /\ rankPc' = "links"
  /\ UNCHANGED <<store, crawlVars, unscored>>

LoadLinks ==
  /\ rankPc = "links"
  /\ vertices' = LinksBefore(retrieved, Urls, startAt)
  /\ rankPc' = "edges"
  /\ UNCHANGED <<store, now, crawlVars, startAt, loaded, unscored>>

(* Variant with a bug: an edge of an unknown source fails the pass.        *)
NoneTolerated(p) == FALSE

(* AddEdge returned ErrUnknownEdgeSource.                                  *)
Tolerated(p) == p[1] \notin vertices

(* Self-links are ignored, other edges need their source.                  *)
LoadEdges ==
  LET listed == {p \in EdgesBefore(updated, Urls, startAt) : p[1] # p[2]}
      unknown == {p \in listed : p[1] \notin vertices} IN
  /\ rankPc = "edges"
  /\ loaded' = listed \ unknown
  /\ rankPc' = IF \A p \in unknown : Tolerated(p) THEN "compute" ELSE "failed"
  /\ UNCHANGED <<store, now, crawlVars, startAt, vertices, unscored>>

(* RunToCompletion: superstep 1 sends along every edge, and SendMessage    *)
(* fails with ErrInvalidMessageDestination for an unknown vertex.          *)
Undeliverable == {p \in loaded : p[2] \notin vertices}

Compute ==
  /\ rankPc = "compute"
  /\ rankPc' = IF Undeliverable = {} THEN "persist" ELSE "failed"
  /\ unscored' = IF Undeliverable = {} THEN vertices ELSE {}
  /\ UNCHANGED <<store, now, crawlVars, startAt, vertices, loaded>>

PersistScore(u) ==
  /\ rankPc = "persist" /\ u \in unscored
  /\ unscored' = unscored \ {u}
  /\ UNCHANGED <<store, now, crawlVars, rankPc, startAt, vertices, loaded>>

RankEnd ==
  /\ rankPc = "persist" /\ unscored = {}
  /\ rankPc' = "idle"
  /\ UNCHANGED <<store, now, crawlVars, startAt, vertices, loaded, unscored>>

Rank == \/ RankBegin \/ LoadLinks \/ LoadEdges \/ Compute
        \/ \E u \in Urls : PersistScore(u)
        \/ RankEnd

-----------------------------------------------------------------------------
Next == \/ \E u \in Urls : SubmitLink(u)
        \/ \E c \in Crawlers : Crawl(c)
        \/ Rank

Spec == Init /\ [][Next]_vars

-----------------------------------------------------------------------------
(* Properties.                                                             *)

(* Edges only join links the store knows, and a page's update never fails  *)
(* for an unknown end, whoever else updates the graph (inmem/graph.go      *)
(* 119-123, graph_updater.go 62-72).                                       *)
NoDanglingEdges ==
  /\ \A p \in Edges(updated) : {p[1], p[2]} \subseteq Known(retrieved)
  /\ \A c \in Crawlers : crawlPc[c] = "edge" => {cur[c].src, cur[c].dst} \subseteq Known(retrieved)

(* Once a page was updated by one crawler alone its edges are the links of *)
(* the page: none is missing, no stale one is left, also not from an       *)
(* update that was cut short (graph_updater.go 58-78).                     *)
SettledPage == \A u \in Urls : \A links \in settled[u] : Out(updated, u) = links

(* A link in one crawler's partition only is not retrieved again before    *)
(* the re-index threshold passed, over any passes and restarts, and its    *)
(* timestamp does not go back though the link is found again on other      *)
(* pages (crawler/service.go 179, inmem/graph.go 55-60).                   *)
PoliteCrawl ==
  [][\A u \in Urls :
       /\ Cardinality({c \in Crawlers : u \in Part[c]}) = 1
       /\ retrieved[u] > 0 /\ retrieved'[u] # retrieved[u]
       => retrieved'[u] > retrieved[u] + ReIndexThreshold]_vars

(* Whatever crawlers do to the graph, a rank pass fails on nothing but an  *)
(* edge to a link that was crawled, for the first time or again, after the *)
(* pass began; in particular not for edges or links added meanwhile        *)
(* (pagerank/service.go 216-219).                                          *)
FailsOnlyRecrawled ==
  rankPc = "failed" =>
    \E p \in loaded : p[2] \notin vertices /\ retrieved[p[2]] >= startAt

(* A rank pass tolerates what crawlers do to the graph while it loads it   *)
(* (pagerank/service.go 217-218).                                          *)
PassTolerant == rankPc # "failed"

=============================================================================
