------------------------- MODULE CrawlAndRankProofs -------------------------
(***************************************************************************)
(* Proofs about CrawlAndRank, for every set of links, crawlers, partitions *)
(* and pages, any threshold and any bound.                                 *)
(***************************************************************************)
EXTENDS CrawlAndRank, FiniteSetTheorems, TLAPS

(* The crawlers' side: a page being updated is a known link, so that the   *)
(* ends of its edges are known when the edge is made.                      *)
CrawlInv ==
  /\ NoDanglingEdges
  /\ \A c \in Crawlers : crawlPc[c] \in {"nofollow", "links", "edge"} =>
       cur[c].src \in Known(retrieved)

(* The part of it about one crawler.                                       *)
Accompanied(c) ==
  /\ crawlPc[c] \in {"nofollow", "links", "edge"} => cur[c].src \in Known(retrieved)
  /\ crawlPc[c] = "edge" => {cur[c].src, cur[c].dst} \subseteq Known(retrieved)

(* A link a pass can do without: it is among the vertices, or it was       *)
(* crawled since the pass began.                                           *)
Accounted(v) == v \in vertices \/ retrieved[v] >= startAt

(* The pass's side: between its two queries every edge it may still be     *)
(* shown has accounted ends, and afterwards every edge it was shown has.   *)
RankInv ==
  /\ startAt <= now
  /\ rankPc = "edges" =>
       \A p \in Edges(updated) : updated[p] < startAt => Accounted(p[1]) /\ Accounted(p[2])
  /\ rankPc \in {"compute", "persist", "failed"} => \A p \in loaded : Accounted(p[2])
  /\ rankPc = "failed" => \E p \in loaded : p[2] \notin vertices

IInv == TypeOK /\ CrawlInv /\ RankInv

-----------------------------------------------------------------------------
(* The clock's values are ordinary timestamps, and Absent is none.         *)
LEMMA Clock ==
  /\ Start \in Nat /\ MaxClock \in Nat /\ Time = 0..MaxClock
  /\ \A t \in Start..MaxClock : t \in Time
  /\ \A t \in Time : t \in Nat /\ t >= 0
  /\ \A t \in Time \cup {Absent} : t \in Int
  /\ Absent = -1 /\ Absent \notin Time
BY ThresholdAssumption DEF Start, MaxClock, Time, Absent

(* UpsertLink makes its link known, loses none, and moves no timestamp     *)
(* back.                                                                   *)
LEMMA UpsertLinkLemma ==
  ASSUME NEW r \in [Urls -> Time \cup {Absent}], NEW u \in Urls, NEW t \in Time
  PROVE  LET s == UpsertLink(r, u, t) IN
         /\ s \in [Urls -> Time \cup {Absent}]
         /\ \A v \in Urls : s[v] >= r[v]
         /\ u \in Known(s) /\ Known(r) \subseteq Known(s)
         /\ s[u] >= t
<1> DEFINE s == UpsertLink(r, u, t)
<1>1. /\ \A x \in Urls : r[x] \in Int /\ (r[x] # Absent => r[x] >= 0)
      /\ t \in Int /\ t >= 0 /\ Absent = -1
  BY Clock
<1>2. s \in [Urls -> Time \cup {Absent}]
  BY DEF UpsertLink
<1>3. \A v \in Urls : s[v] >= r[v]
  <2> TAKE v \in Urls
  <2>1. r[v] \in Int /\ t \in Int
    BY <1>1
  <2>2. s[v] = IF v = u THEN (IF r[u] > t THEN r[u] ELSE t) ELSE r[v]
    BY DEF UpsertLink
  <2> QED
    BY <2>1, <2>2
<1>4. s[u] >= t
  <2>1. r[u] \in Int /\ t \in Int
    BY <1>1
  <2>2. s[u] = IF r[u] > t THEN r[u] ELSE t
    BY DEF UpsertLink
  <2> QED
    BY <2>1, <2>2
<1>5. u \in Known(s)
  <2>1. s[u] \in Int
    BY <1>2, Clock
  <2>2. s[u] # Absent
    BY <1>1, <1>4, <2>1
  <2> QED
    BY <2>2 DEF Known
<1>6. Known(r) \subseteq Known(s)
  <2> SUFFICES ASSUME NEW v \in Known(r) PROVE v \in Known(s)
    OBVIOUS
  <2>1. v \in Urls /\ r[v] \in Int /\ r[v] >= 0
    BY <1>1 DEF Known
  <2>2. s[v] >= r[v] /\ s[v] \in Int
    BY <1>2, <1>3, <2>1, Clock
  <2>3. s[v] # Absent
    BY <1>1, <2>1, <2>2
  <2> QED
    BY <2>1, <2>3 DEF Known
<1> QED
  BY <1>2, <1>3, <1>4, <1>5, <1>6

(* UpsertEdge adds one edge with the given time.                           *)
LEMMA UpsertEdgeLemma ==
  ASSUME NEW e \in [Urls \X Urls -> Time \cup {Absent}],
         NEW u \in Urls, NEW v \in Urls, NEW t \in Time
  PROVE  LET f == UpsertEdge(e, u, v, t) IN
         /\ f \in [Urls \X Urls -> Time \cup {Absent}]
         /\ \A p \in Edges(f) : \/ p = <<u, v>> /\ f[p] = t
                                \/ p \in Edges(e) /\ f[p] = e[p]
BY DEF UpsertEdge, Edges

(* RemoveStaleEdges adds no edge and changes no timestamp.                 *)
LEMMA RemoveStaleEdgesLemma ==
  ASSUME NEW e \in [Urls \X Urls -> Time \cup {Absent}],
         NEW u \in Urls, NEW t \in Time
  PROVE  LET f == RemoveStaleEdges(e, u, t) IN
         /\ f \in [Urls \X Urls -> Time \cup {Absent}]
         /\ \A p \in Edges(f) : p \in Edges(e) /\ f[p] = e[p]
BY DEF RemoveStaleEdges, Edges

-----------------------------------------------------------------------------
(* An empty store, idle crawlers and no pass satisfy the invariant.        *)
LEMMA InitIInv == Init => IInv
<1> SUFFICES ASSUME Init PROVE IInv
  OBVIOUS
<1>1. AnyUrl \in Urls
  BY UrlsAssumption DEF AnyUrl
<1>2. NoWork \in Work
  BY <1>1, Clock, ThresholdAssumption DEF NoWork, Work
<1>3. TypeOK
  BY <1>2, Clock, ThresholdAssumption DEF Init, TypeOK, NoLinks, NoEdges, Start, MaxClock
<1>4. CrawlInv
  BY DEF Init, CrawlInv, NoDanglingEdges, NoEdges, Edges
<1>5. RankInv
  BY Clock DEF Init, RankInv
<1> QED
  BY <1>3, <1>4, <1>5 DEF IInv

(* The fields of a crawler's work, and the updates the actions make.       *)
LEMMA WorkFields ==
  ASSUME NEW w \in Work
  PROVE  /\ w.src \in Urls /\ w.dst \in Urls /\ w.left \in SUBSET Urls
         /\ w.staleBefore \in Time /\ w.alone \in BOOLEAN
         /\ w.page.nofollow \in SUBSET Urls /\ w.page.links \in SUBSET Urls
<1>1. w.page \in Pages \cup {Blank}
  BY DEF Work
<1>2. w.page \in [nofollow : SUBSET Urls, links : SUBSET Urls]
  BY <1>1, PagesAssumption DEF Blank
<1> QED
  BY <1>2 DEF Work

(* What the graph updater writes to its locals leaves them well typed.     *)
LEMMA WorkUpdates ==
  ASSUME NEW w \in Work, NEW u \in Urls, NEW left \in SUBSET Urls,
         NEW t \in Time, NEW b \in BOOLEAN
  PROVE  /\ \A p \in Pages : [w EXCEPT !.src = u, !.page = p] \in Work
         /\ [w EXCEPT !.left = left, !.alone = b] \in Work
         /\ [w EXCEPT !.alone = b] \in Work
         /\ [w EXCEPT !.left = left] \in Work
         /\ [w EXCEPT !.staleBefore = t, !.left = left] \in Work
         /\ [w EXCEPT !.dst = u] \in Work
         /\ [w EXCEPT !.left = left, !.dst = u] \in Work
BY DEF Work

-----------------------------------------------------------------------------
(* Every action keeps the types.                                           *)
LEMMA TypeStep == TypeOK /\ [Next]_vars => TypeOK'
<1> SUFFICES ASSUME TypeOK, [Next]_vars PROVE TypeOK'
  OBVIOUS
<1> USE DEF TypeOK, store, crawlVars, rankVars
<1>0. AnyUrl \in Urls /\ 0 \in Time /\ now \in Time
  BY UrlsAssumption, Clock, ThresholdAssumption DEF AnyUrl
<1>1. ASSUME NEW u \in Urls, SubmitLink(u) PROVE TypeOK'
  BY <1>0, <1>1, UpsertLinkLemma DEF SubmitLink
<1>2. ASSUME NEW c \in Crawlers, Crawl(c) PROVE TypeOK'
  <2> USE DEF Goto
  <2>0. NoWork \in Work
    BY <1>0 DEF NoWork, Work
  <2>1. CASE CrawlBegin(c)
    BY <2>1 DEF CrawlBegin, LinksBefore, Known
  <2>2. CASE CrawlEnd(c)
    BY <2>2 DEF CrawlEnd
  <2>3. CASE Fail(c)
    BY <2>0, <2>3 DEF Fail
  <2>4. ASSUME NEW u \in Urls, Dismiss(c, u) PROVE TypeOK'
    BY <2>4 DEF Dismiss
  <2>5. ASSUME NEW u \in Urls, NEW p \in Pages, Fetch(c, u, p) PROVE TypeOK'
    <3>1. cur' \in [Crawlers -> Work]
      <4>1. [cur[c] EXCEPT !.src = u, !.page = p] \in Work
        BY <1>0, WorkUpdates
      <4>2. cur' = [cur EXCEPT ![c] = [cur[c] EXCEPT !.src = u, !.page = p]]
        BY <2>5 DEF Fetch
      <4> QED
        BY <4>1, <4>2
    <3> QED
      BY <2>5, <3>1 DEF Fetch
  <2>6. CASE UpsertSource(c)
    <3>1. cur[c].src \in Urls /\ now + 1 \in Time /\ now + 1 \in Start..MaxClock
      <4>1. cur[c].src \in Urls
        BY WorkFields
      <4>2. now + 1 \in Start..MaxClock
        <5>1. now < MaxClock
          BY <2>6, Zenon DEF UpsertSource
        <5>2. Start \in Nat /\ MaxClock \in Nat /\ now \in Start..MaxClock
          BY Clock
        <5> QED
          BY <5>1, <5>2
      <4> QED
        BY <4>1, <4>2, Clock
    <3>2. cur' \in [Crawlers -> Work]
      <4> DEFINE others == {d \in Crawlers \ {c} : Updating(d, cur[c].src)}
      <4> DEFINE found == cur[c].page.nofollow
      <4>1. found \in SUBSET Urls
        BY WorkFields
      <4>2. \A b \in BOOLEAN : [cur[c] EXCEPT !.left = found, !.alone = b] \in Work
        <5> HIDE DEF found
        <5> QED
          BY <1>0, <4>1, WorkUpdates
      <4>3. [cur[c] EXCEPT !.left = found, !.alone = (others = {})] \in Work
        BY <4>2
      <4>4. \A d \in Crawlers : (cur[d].alone /\ d \notin others) \in BOOLEAN
        OBVIOUS
      <4>5. \A d \in Crawlers : [cur[d] EXCEPT !.alone = @ /\ d \notin others] \in Work
        BY <1>0, <4>1, <4>4, WorkUpdates
      <4> QED
        BY <2>6, <4>3, <4>5 DEF UpsertSource
    <3>3. retrieved' \in [Urls -> Time \cup {Absent}]
      BY <2>6, <3>1, UpsertLinkLemma DEF UpsertSource
    <3>4. crawlPc' \in [Crawlers -> {"idle", "crawl", "fetched", "nofollow", "links", "edge"}]
      BY <2>6 DEF UpsertSource
    <3>5. settled' \in [Urls -> SUBSET SUBSET Urls]
      BY <2>6 DEF UpsertSource
    <3> QED
      BY <2>6, <3>1, <3>2, <3>3, <3>4, <3>5 DEF UpsertSource
  <2>7. CASE MarkTime(c)
    <3> DEFINE found == cur[c].page.links
    <3>1. found \in SUBSET Urls
      BY WorkFields
    <3>2. cur' \in [Crawlers -> Work]
      <4>1. [cur[c] EXCEPT !.staleBefore = now, !.left = found] \in Work
        <5> HIDE DEF found
        <5> QED
          BY <1>0, <3>1, WorkUpdates
      <4>2. cur' = [cur EXCEPT ![c] = [cur[c] EXCEPT !.staleBefore = now, !.left = found]]
        BY <2>7 DEF MarkTime
      <4> QED
        BY <4>1, <4>2
    <3> QED
      BY <2>7, <3>2 DEF MarkTime
  <2>8. CASE AddPageEdge(c)
    <3>1. cur' \in [Crawlers -> Work] /\ cur[c].src \in Urls /\ cur[c].dst \in Urls
      <4> DEFINE rest == cur[c].left \ {cur[c].dst}
      <4>1. cur[c].src \in Urls /\ cur[c].dst \in Urls /\ rest \in SUBSET Urls
        BY WorkFields
      <4>2. [cur[c] EXCEPT !.left = rest, !.dst = AnyUrl] \in Work
        BY <1>0, <4>1, WorkUpdates
      <4>3. cur' = [cur EXCEPT ![c] = [cur[c] EXCEPT !.left = rest, !.dst = AnyUrl]]
        BY <2>8 DEF AddPageEdge
      <4> QED
        BY <4>1, <4>2, <4>3
    <3>2. updated' \in [Urls \X Urls -> Time \cup {Absent}]
      BY <1>0, <2>8, <3>1, UpsertEdgeLemma DEF AddPageEdge
    <3> QED
      BY <2>8, <3>1, <3>2 DEF AddPageEdge
  <2>9. CASE FinishPage(c)
    <3>1. /\ cur[c].src \in Urls /\ cur[c].staleBefore \in Time
          /\ cur[c].page.links \in SUBSET Urls
      BY WorkFields
    <3>2. updated' \in [Urls \X Urls -> Time \cup {Absent}]
      BY <2>9, <3>1, RemoveStaleEdgesLemma DEF FinishPage
    <3>3. settled' \in [Urls -> SUBSET SUBSET Urls]
      BY <2>9, <3>1 DEF FinishPage
    <3> QED
      BY <2>0, <2>9, <3>2, <3>3 DEF FinishPage
  <2>10. ASSUME NEW v \in Urls, UpsertNoFollow(c, v) PROVE TypeOK'
    <3>1. cur' \in [Crawlers -> Work]
      <4> DEFINE rest == cur[c].left \ {v}
      <4>1. rest \in SUBSET Urls
        BY WorkFields
      <4>2. [cur[c] EXCEPT !.left = rest] \in Work
        <5> HIDE DEF rest
        <5> QED
          BY <1>0, <4>1, WorkUpdates
      <4>3. cur' = [cur EXCEPT ![c] = [cur[c] EXCEPT !.left = rest]]
        BY <2>10 DEF UpsertNoFollow
      <4> QED
        BY <4>2, <4>3
    <3> QED
      BY <1>0, <2>10, <3>1, UpsertLinkLemma DEF UpsertNoFollow
  <2>11. ASSUME NEW v \in Urls, UpsertDestination(c, v) PROVE TypeOK'
    <3>1. cur' \in [Crawlers -> Work]
      <4>1. [cur[c] EXCEPT !.dst = v] \in Work
        BY <1>0, WorkUpdates
      <4>2. cur' = [cur EXCEPT ![c] = [cur[c] EXCEPT !.dst = v]]
        BY <2>11 DEF UpsertDestination
      <4> QED
        BY <4>1, <4>2
    <3> QED
      BY <1>0, <2>11, <3>1, UpsertLinkLemma DEF UpsertDestination
  <2> QED
    BY <1>2, <2>1, <2>2, <2>3, <2>4, <2>5, <2>6, <2>7, <2>8, <2>9, <2>10, <2>11
       DEF Crawl
<1>3. CASE Rank
  <2>1. CASE RankBegin
    <3>1. now + 1 \in Start..MaxClock /\ now + 1 \in Time
      BY <2>1, Clock DEF RankBegin
    <3>2. unscored = {}
      BY <2>1 DEF RankBegin
    <3> QED
      BY <2>1, <3>1, <3>2 DEF RankBegin
  <2>2. CASE LoadLinks
    BY <2>2 DEF LoadLinks, LinksBefore, Known
  <2>3. CASE LoadEdges
    BY <2>3 DEF LoadEdges, EdgesBefore, Edges
  <2>4. CASE Compute
    BY <2>4 DEF Compute
  <2>5. ASSUME NEW u \in Urls, PersistScore(u) PROVE TypeOK'
    BY <2>5 DEF PersistScore
  <2>6. CASE RankEnd
    BY <2>6 DEF RankEnd
  <2> QED
    BY <1>3, <2>1, <2>2, <2>3, <2>4, <2>5, <2>6 DEF Rank
<1>4. CASE UNCHANGED vars
  BY <1>4 DEF vars
<1> QED
  BY <1>1, <1>2, <1>3, <1>4 DEF Next

-----------------------------------------------------------------------------
(* What any step does to the store: the clock and the timestamps of links  *)
(* never go back, no link is lost, and an edge is an old one, untouched,   *)
(* or one made now between two known links.                                *)
StoreKept ==
  /\ now' >= now
  /\ \A v \in Urls : retrieved'[v] >= retrieved[v]
  /\ Known(retrieved) \subseteq Known(retrieved')
  /\ \A p \in Edges(updated') :
       \/ p \in Edges(updated) /\ updated'[p] = updated[p]
       \/ updated'[p] = now /\ {p[1], p[2]} \subseteq Known(retrieved)

LEMMA StoreStep == TypeOK /\ [Next]_vars => StoreKept
<1> SUFFICES ASSUME TypeOK, [Next]_vars PROVE StoreKept
  OBVIOUS
<1> USE DEF store, crawlVars, rankVars
<1>0. /\ \A v \in Urls : retrieved[v] \in Int
      /\ now \in Int /\ now \in Time /\ 0 \in Time
      /\ retrieved \in [Urls -> Time \cup {Absent}]
      /\ updated \in [Urls \X Urls -> Time \cup {Absent}]
  BY Clock, ThresholdAssumption DEF TypeOK
<1>1. ASSUME UNCHANGED <<store, now>> PROVE StoreKept
  BY <1>0, <1>1 DEF StoreKept
<1>2. ASSUME NEW u \in Urls, NEW t \in Time, retrieved' = UpsertLink(retrieved, u, t),
             UNCHANGED updated, now' >= now
      PROVE  StoreKept
  BY <1>0, <1>2, UpsertLinkLemma DEF StoreKept
<1>3. ASSUME NEW u \in Urls, SubmitLink(u) PROVE StoreKept
  <2>1. retrieved' = UpsertLink(retrieved, u, 0) /\ UNCHANGED updated /\ now' >= now
    BY <1>0, <1>3 DEF SubmitLink
  <2> QED
    BY <1>0, <1>2, <2>1
<1>4. ASSUME NEW c \in Crawlers, Crawl(c) PROVE StoreKept
  <2>0. cur[c] \in Work
    BY DEF TypeOK
  <2>1. CASE CrawlBegin(c)
    BY <1>1, <2>1 DEF CrawlBegin
  <2>2. CASE CrawlEnd(c)
    BY <1>1, <2>2 DEF CrawlEnd
  <2>3. CASE Fail(c)
    BY <1>1, <2>3 DEF Fail
  <2>4. ASSUME NEW u \in Urls, Dismiss(c, u) PROVE StoreKept
    BY <1>1, <2>4 DEF Dismiss
  <2>5. ASSUME NEW u \in Urls, NEW p \in Pages, Fetch(c, u, p) PROVE StoreKept
    BY <1>1, <2>5 DEF Fetch
  <2>6. CASE UpsertSource(c)
    <3>1. /\ now < MaxClock /\ now' = now + 1 /\ UNCHANGED updated
          /\ retrieved' = UpsertLink(retrieved, cur[c].src, now + 1)
      BY <2>6, Zenon DEF UpsertSource
    <3>2. now \in Start..MaxClock /\ Start \in Nat /\ MaxClock \in Nat
      BY Clock DEF TypeOK
    <3>3. now + 1 \in Start..MaxClock /\ now' >= now
      BY <3>1, <3>2
    <3>4. cur[c].src \in Urls /\ now + 1 \in Time
      BY <2>0, <3>3, Clock, WorkFields
    <3> QED
      BY <1>2, <3>1, <3>3, <3>4
  <2>7. CASE MarkTime(c)
    BY <1>1, <2>7 DEF MarkTime
  <2>8. CASE AddPageEdge(c)
    <3>1. cur[c].src \in Urls /\ cur[c].dst \in Urls
      BY <2>0, WorkFields
    <3>2. /\ updated' = UpsertEdge(updated, cur[c].src, cur[c].dst, now)
          /\ {cur[c].src, cur[c].dst} \subseteq Known(retrieved)
          /\ UNCHANGED <<retrieved, now>>
      BY <2>8 DEF AddPageEdge, UnknownEdgeLinks
    <3>3. \A p \in Edges(updated') :
            \/ p = <<cur[c].src, cur[c].dst>> /\ updated'[p] = now
            \/ p \in Edges(updated) /\ updated'[p] = updated[p]
      <4>1. \A p \in Edges(UpsertEdge(updated, cur[c].src, cur[c].dst, now)) :
              \/ /\ p = <<cur[c].src, cur[c].dst>>
                 /\ UpsertEdge(updated, cur[c].src, cur[c].dst, now)[p] = now
              \/ /\ p \in Edges(updated)
                 /\ UpsertEdge(updated, cur[c].src, cur[c].dst, now)[p] = updated[p]
        BY <1>0, <3>1, UpsertEdgeLemma
      <4> QED
        BY <3>2, <4>1
    <3> QED
      BY <1>0, <3>2, <3>3 DEF StoreKept
  <2>9. CASE FinishPage(c)
    <3>1. cur[c].src \in Urls /\ cur[c].staleBefore \in Time
      BY <2>0, WorkFields
    <3>2. /\ updated' = RemoveStaleEdges(updated, cur[c].src, cur[c].staleBefore)
          /\ UNCHANGED <<retrieved, now>>
      BY <2>9 DEF FinishPage
    <3>3. \A p \in Edges(updated') : p \in Edges(updated) /\ updated'[p] = updated[p]
      BY <1>0, <3>1, <3>2, RemoveStaleEdgesLemma
    <3> QED
      BY <1>0, <3>2, <3>3 DEF StoreKept
  <2>10. ASSUME NEW v \in Urls, UpsertNoFollow(c, v) PROVE StoreKept
    <3>1. retrieved' = UpsertLink(retrieved, v, 0) /\ UNCHANGED updated /\ now' >= now
      BY <1>0, <2>10 DEF UpsertNoFollow
    <3> QED
      BY <1>0, <1>2, <3>1
  <2>11. ASSUME NEW v \in Urls, UpsertDestination(c, v) PROVE StoreKept
    <3>1. retrieved' = UpsertLink(retrieved, v, 0) /\ UNCHANGED updated /\ now' >= now
      BY <1>0, <2>11 DEF UpsertDestination
    <3> QED
      BY <1>0, <1>2, <3>1
  <2> QED
    BY <1>4, <2>1, <2>2, <2>3, <2>4, <2>5, <2>6, <2>7, <2>8, <2>9, <2>10, <2>11
       DEF Crawl
<1>5. CASE Rank
  <2>1. CASE RankBegin
    <3>1. now' >= now
      BY <1>0, <2>1 DEF RankBegin
    <3> QED
      BY <1>0, <2>1, <3>1 DEF RankBegin, StoreKept
  <2>2. CASE LoadLinks \/ LoadEdges \/ Compute \/ RankEnd
    BY <1>1, <2>2 DEF LoadLinks, LoadEdges, Compute, RankEnd
  <2>3. ASSUME NEW u \in Urls, PersistScore(u) PROVE StoreKept
    BY <1>1, <2>3 DEF PersistScore
  <2> QED
    BY <1>5, <2>1, <2>2, <2>3 DEF Rank
<1>6. CASE UNCHANGED vars
  BY <1>1, <1>6 DEF vars
<1> QED
  BY <1>3, <1>4, <1>5, <1>6 DEF Next

-----------------------------------------------------------------------------
(* The crawlers' side is kept: a page's source becomes known before the    *)
(* page's edges are made, and so does each edge's destination.             *)
LEMMA CrawlStep == IInv /\ [Next]_vars => CrawlInv'
<1> SUFFICES ASSUME IInv, [Next]_vars PROVE CrawlInv'
  OBVIOUS
<1> USE DEF store, crawlVars, rankVars
<1>0. TypeOK /\ CrawlInv /\ StoreKept
  BY StoreStep DEF IInv
<1>1. \A p \in Edges(updated') : {p[1], p[2]} \subseteq Known(retrieved')
  BY <1>0 DEF CrawlInv, NoDanglingEdges, StoreKept
<1>2. ASSUME NEW d \in Crawlers, crawlPc'[d] = crawlPc[d], cur'[d].src = cur[d].src,
             cur'[d].dst = cur[d].dst
      PROVE  Accompanied(d)'
  BY <1>0, <1>2 DEF CrawlInv, NoDanglingEdges, StoreKept, Accompanied
<1>3. ASSUME UNCHANGED <<crawlPc, cur>> PROVE \A d \in Crawlers : Accompanied(d)'
  BY <1>2, <1>3
<1>4. ASSUME NEW c \in Crawlers, Crawl(c) PROVE \A d \in Crawlers : Accompanied(d)'
  <2> USE DEF Goto
  <2>0. /\ crawlPc \in [Crawlers -> {"idle", "crawl", "fetched", "nofollow", "links", "edge"}]
        /\ cur \in [Crawlers -> Work] /\ cur[c].src \in Urls
        /\ retrieved \in [Urls -> Time \cup {Absent}] /\ 0 \in Time
    BY <1>0, Clock, ThresholdAssumption, WorkFields DEF TypeOK
  <2>1. ASSUME crawlPc'[c] \in {"idle", "crawl", "fetched"},
               \A d \in Crawlers \ {c} : crawlPc'[d] = crawlPc[d] /\ cur'[d] = cur[d]
        PROVE  \A d \in Crawlers : Accompanied(d)'
    BY <1>2, <2>1 DEF Accompanied
  <2>2. CASE CrawlBegin(c) \/ CrawlEnd(c) \/ Fail(c) \/ FinishPage(c)
    BY <2>0, <2>1, <2>2 DEF CrawlBegin, CrawlEnd, Fail, FinishPage
  <2>3. ASSUME NEW u \in Urls, Dismiss(c, u) PROVE \A d \in Crawlers : Accompanied(d)'
    BY <1>3, <2>3 DEF Dismiss
  <2>4. ASSUME NEW u \in Urls, NEW p \in Pages, Fetch(c, u, p)
        PROVE  \A d \in Crawlers : Accompanied(d)'
    BY <2>0, <2>1, <2>4 DEF Fetch
  <2>5. CASE UpsertSource(c)
    <3>1. cur[c].src \in Known(retrieved')
      <4>1. /\ now < MaxClock
            /\ retrieved' = UpsertLink(retrieved, cur[c].src, now + 1)
        BY <2>5, Zenon DEF UpsertSource
      <4>2. now \in Start..MaxClock /\ Start \in Nat /\ MaxClock \in Nat
        BY <1>0, Clock DEF TypeOK
      <4>3. now + 1 \in Start..MaxClock
        BY <4>1, <4>2
      <4>4. now + 1 \in Time
        BY <4>3, Clock
      <4> QED
        BY <2>0, <4>1, <4>4, UpsertLinkLemma
    <3>2. crawlPc'[c] = "nofollow" /\ \A d \in Crawlers \ {c} : crawlPc'[d] = crawlPc[d]
      BY <2>0, <2>5 DEF UpsertSource
    <3>3. \A d \in Crawlers : cur'[d].src = cur[d].src /\ cur'[d].dst = cur[d].dst
      BY <2>0, <2>5 DEF UpsertSource, Work
    <3> QED
      BY <1>2, <3>1, <3>2, <3>3 DEF Accompanied
  <2>6. CASE MarkTime(c)
    <3>1. crawlPc[c] = "nofollow" /\ crawlPc' = [crawlPc EXCEPT ![c] = "links"]
      BY <2>6 DEF MarkTime
    <3>2. \A d \in Crawlers : cur'[d].src = cur[d].src /\ cur'[d].dst = cur[d].dst
      BY <2>0, <2>6 DEF MarkTime, Work
    <3>3. cur[c].src \in Known(retrieved')
      BY <1>0, <3>1 DEF CrawlInv, StoreKept
    <3> QED
      BY <1>2, <2>0, <3>1, <3>2, <3>3 DEF Accompanied
  <2>7. CASE AddPageEdge(c)
    <3>1. crawlPc[c] = "edge" /\ crawlPc' = [crawlPc EXCEPT ![c] = "links"]
      BY <2>7 DEF AddPageEdge
    <3>2. \A d \in Crawlers : cur'[d].src = cur[d].src
      BY <2>0, <2>7 DEF AddPageEdge, Work
    <3>3. \A d \in Crawlers \ {c} : cur'[d] = cur[d]
      BY <2>0, <2>7 DEF AddPageEdge
    <3>4. cur[c].src \in Known(retrieved')
      BY <1>0, <3>1 DEF CrawlInv, StoreKept
    <3> QED
      BY <1>2, <2>0, <3>1, <3>2, <3>3, <3>4 DEF Accompanied
  <2>8. ASSUME NEW v \in Urls, UpsertNoFollow(c, v) PROVE \A d \in Crawlers : Accompanied(d)'
    <3>1. \A d \in Crawlers : cur'[d].src = cur[d].src /\ cur'[d].dst = cur[d].dst
      BY <2>0, <2>8 DEF UpsertNoFollow, Work
    <3> QED
      BY <1>2, <2>8, <3>1 DEF UpsertNoFollow
  <2>9. ASSUME NEW v \in Urls, UpsertDestination(c, v)
        PROVE  \A d \in Crawlers : Accompanied(d)'
    <3>1. crawlPc[c] = "links" /\ crawlPc' = [crawlPc EXCEPT ![c] = "edge"]
      BY <2>9 DEF UpsertDestination
    <3>2. cur'[c].src = cur[c].src /\ cur'[c].dst = v
      BY <2>0, <2>9 DEF UpsertDestination, Work
    <3>3. \A d \in Crawlers \ {c} : cur'[d] = cur[d]
      BY <2>0, <2>9 DEF UpsertDestination
    <3>4. v \in Known(retrieved')
      BY <2>0, <2>9, UpsertLinkLemma DEF UpsertDestination
    <3>5. cur[c].src \in Known(retrieved')
      BY <1>0, <3>1 DEF CrawlInv, StoreKept
    <3> QED
      BY <1>2, <2>0, <3>1, <3>2, <3>3, <3>4, <3>5 DEF Accompanied
  <2> QED
    BY <1>4, <2>2, <2>3, <2>4, <2>5, <2>6, <2>7, <2>8, <2>9 DEF Crawl
<1>5. ASSUME NEW u \in Urls, SubmitLink(u) PROVE \A d \in Crawlers : Accompanied(d)'
  BY <1>3, <1>5 DEF SubmitLink
<1>6. ASSUME Rank PROVE \A d \in Crawlers : Accompanied(d)'
  BY <1>3, <1>6 DEF Rank, RankBegin, LoadLinks, LoadEdges, Compute, PersistScore, RankEnd
<1>7. ASSUME UNCHANGED vars PROVE \A d \in Crawlers : Accompanied(d)'
  BY <1>3, <1>7 DEF vars
<1>8. \A d \in Crawlers : Accompanied(d)'
  BY <1>4, <1>5, <1>6, <1>7 DEF Next
<1> QED
  BY <1>1, <1>8 DEF CrawlInv, NoDanglingEdges, Accompanied

-----------------------------------------------------------------------------
(* The pass's side is kept, by its own steps and by everybody else's.      *)
LEMMA RankStep == IInv /\ [Next]_vars => RankInv'
<1> SUFFICES ASSUME IInv, [Next]_vars PROVE RankInv'
  OBVIOUS
<1> USE DEF store, crawlVars, rankVars
<1>0. TypeOK /\ CrawlInv /\ RankInv /\ StoreKept /\ TypeOK'
  BY StoreStep, TypeStep DEF IInv
<1>1. /\ now \in Int /\ now' \in Int /\ startAt \in Int /\ startAt' \in Int
      /\ \A v \in Urls : retrieved[v] \in Int /\ retrieved'[v] \in Int
      /\ \A p \in Urls \X Urls : updated[p] \in Int /\ updated'[p] \in Int
  BY <1>0, Clock, ThresholdAssumption DEF TypeOK
(* A step of another service.                                              *)
<1>2. ASSUME UNCHANGED rankVars PROVE RankInv'
  <2>1. ASSUME NEW v \in Urls, Accounted(v) PROVE Accounted(v)'
    BY <1>0, <1>1, <1>2, <2>1 DEF Accounted, StoreKept
  <2>2. startAt' <= now'
    BY <1>0, <1>1, <1>2 DEF RankInv, StoreKept
  <2>3. ASSUME rankPc = "edges", NEW p \in Edges(updated'), updated'[p] < startAt
        PROVE  Accounted(p[1])' /\ Accounted(p[2])'
    <3>1. updated'[p] # now
      BY <1>0, <1>1, <2>3 DEF RankInv
    <3>2. p \in Edges(updated) /\ updated'[p] = updated[p]
      BY <1>0, <3>1 DEF StoreKept
    <3>3. p[1] \in Urls /\ p[2] \in Urls
      BY <3>2 DEF Edges
    <3>4. Accounted(p[1]) /\ Accounted(p[2])
      BY <1>0, <2>3, <3>2 DEF RankInv
    <3> QED
      BY <2>1, <3>3, <3>4
  <2>4. ASSUME rankPc \in {"compute", "persist", "failed"}, NEW p \in loaded
        PROVE  Accounted(p[2])'
    <3>1. p[2] \in Urls
      BY <1>0 DEF TypeOK
    <3>2. Accounted(p[2])
      BY <1>0, <2>4 DEF RankInv
    <3> QED
      BY <2>1, <3>1, <3>2
  <2> QED
    BY <1>0, <1>2, <2>2, <2>3, <2>4 DEF RankInv
<1>3. CASE Rank
  <2>1. CASE RankBegin
    BY <1>1, <2>1 DEF RankBegin, RankInv
  <2>2. CASE LoadLinks
    <3>1. /\ rankPc' = "edges" /\ vertices' = LinksBefore(retrieved, Urls, startAt)
          /\ UNCHANGED <<retrieved, updated, now, startAt, loaded>>
      BY <2>2 DEF LoadLinks
    <3>2. ASSUME NEW v \in Known(retrieved) PROVE Accounted(v)'
      <4>1. v \in Urls /\ retrieved[v] \in Int
        BY <1>1 DEF Known
      <4>2. CASE retrieved[v] < startAt
        BY <3>1, <4>1, <4>2 DEF Accounted, LinksBefore
      <4>3. CASE retrieved[v] >= startAt
        BY <3>1, <4>3 DEF Accounted
      <4> QED
        BY <1>1, <4>1, <4>2, <4>3
    <3>3. \A p \in Edges(updated) : {p[1], p[2]} \subseteq Known(retrieved)
      BY <1>0 DEF CrawlInv, NoDanglingEdges
    <3> QED
      BY <1>0, <3>1, <3>2, <3>3 DEF RankInv
  <2>3. CASE LoadEdges
    <3> DEFINE listed == {p \in EdgesBefore(updated, Urls, startAt) : p[1] # p[2]}
               unknown == {p \in listed : p[1] \notin vertices}
    <3>1. /\ rankPc = "edges" /\ loaded' = listed \ unknown
          /\ rankPc' = IF \A p \in unknown : Tolerated(p) THEN "compute" ELSE "failed"
          /\ UNCHANGED <<retrieved, updated, now, startAt, vertices>>
      BY <2>3 DEF LoadEdges
    <3>2. rankPc' = "compute"
      BY <3>1 DEF Tolerated
    <3>3. ASSUME NEW p \in loaded' PROVE Accounted(p[2])'
      <4>1. p \in Edges(updated) /\ updated[p] < startAt
        BY <3>1 DEF EdgesBefore
      <4>2. Accounted(p[2])
        BY <1>0, <3>1, <4>1 DEF RankInv
      <4> QED
        BY <3>1, <4>2 DEF Accounted
    <3> QED
      BY <1>0, <3>1, <3>2, <3>3 DEF RankInv
  <2>4. CASE Compute
    <3>1. /\ rankPc = "compute" /\ rankPc' \in {"persist", "failed"}
          /\ rankPc' = "failed" => Undeliverable # {}
          /\ UNCHANGED <<retrieved, updated, now, startAt, vertices, loaded>>
      BY <2>4 DEF Compute
    <3> QED
      BY <1>0, <3>1 DEF RankInv, Accounted, Undeliverable
  <2>5. ASSUME NEW u \in Urls, PersistScore(u) PROVE RankInv'
    BY <1>0, <2>5 DEF PersistScore, RankInv, Accounted
  <2>6. CASE RankEnd
    BY <1>0, <2>6 DEF RankEnd, RankInv
  <2> QED
    BY <1>3, <2>1, <2>2, <2>3, <2>4, <2>5, <2>6 DEF Rank
<1>4. ASSUME NEW u \in Urls, SubmitLink(u) PROVE RankInv'
  BY <1>2, <1>4 DEF SubmitLink
<1>5. ASSUME NEW c \in Crawlers, Crawl(c) PROVE RankInv'
  BY <1>2, <1>5 DEF Crawl, CrawlBegin, CrawlEnd, Fail, Dismiss, Fetch, UpsertSource,
       MarkTime, AddPageEdge, FinishPage, UpsertNoFollow, UpsertDestination
<1>6. CASE UNCHANGED vars
  BY <1>2, <1>6 DEF vars
<1> QED
  BY <1>3, <1>4, <1>5, <1>6 DEF Next

-----------------------------------------------------------------------------
(* The crawlers' part and the pass's part hold together at all times.      *)
THEOREM CrawlAndRankInvariant == Spec => []IInv
<1>1. Init => IInv
  BY InitIInv
<1>2. IInv /\ [Next]_vars => IInv'
  BY TypeStep, CrawlStep, RankStep DEF IInv
<1> QED
  BY <1>1, <1>2, PTL DEF Spec

(* Links, edges, crawlers and the pass keep their types.                   *)
THEOREM CrawlAndRankTypes == Spec => []TypeOK
<1>1. IInv => TypeOK
  BY DEF IInv
<1> QED
  BY <1>1, CrawlAndRankInvariant, PTL

(* Whoever updates the graph, its edges join known links, and UpsertEdge   *)
(* never refuses the edge of a page being updated.                         *)
THEOREM GraphIsClosed == Spec => []NoDanglingEdges
<1>1. IInv => NoDanglingEdges
  BY DEF IInv, CrawlInv
<1> QED
  BY <1>1, CrawlAndRankInvariant, PTL

(* A rank pass fails for nothing but an edge to a link that was crawled    *)
(* again since the pass began.                                             *)
THEOREM PassFailsOnlyRecrawled == Spec => []FailsOnlyRecrawled
<1>1. IInv => FailsOnlyRecrawled
  BY DEF IInv, RankInv, Accounted, FailsOnlyRecrawled
<1> QED
  BY <1>1, CrawlAndRankInvariant, PTL

-----------------------------------------------------------------------------
(* The crawler is at the graph updater.                                    *)
Active(c) == crawlPc[c] \in {"nofollow", "links", "edge"}

(* Of the edges of the page a crawler works on alone, those of links that  *)
(* are done are as young as this update, and no others.                    *)
Fresh(c) ==
  LET w == cur[c] IN
  /\ crawlPc[c] = "nofollow" => \A v \in Urls : updated[<<w.src, v>>] < now
  /\ crawlPc[c] \in {"links", "edge"} =>
       /\ w.staleBefore <= now /\ w.left \subseteq w.page.links
       /\ \A v \in Urls :
            updated[<<w.src, v>>] >= w.staleBefore <=> v \in w.page.links \ w.left
  /\ crawlPc[c] = "edge" => w.dst \in w.left

Lone(c) == \A d \in Crawlers \ {c} : Active(d) => cur[d].src # cur[c].src

(* A page is not settled while somebody updates it.                        *)
PageInv ==
  /\ \A p \in Urls \X Urls : updated[p] <= now
  /\ SettledPage
  /\ \A c \in Crawlers : Active(c) =>
       /\ settled[cur[c].src] = {}
       /\ cur[c].alone => Lone(c) /\ Fresh(c)

(* A step that starts no update keeps it when it keeps its parts.          *)
LEMMA PageKept ==
  ASSUME PageInv, SettledPage',
         \A p \in Urls \X Urls : updated'[p] <= now',
         \A c \in Crawlers : Active(c)' =>
           /\ Active(c) /\ cur'[c].src = cur[c].src
           /\ settled'[cur[c].src] = {}
           /\ cur'[c].alone => cur[c].alone /\ Fresh(c)'
  PROVE  PageInv'
<1>1. ASSUME NEW c \in Crawlers, Active(c)', cur'[c].alone PROVE Lone(c)'
  BY <1>1 DEF PageInv, Lone
<1> QED
  BY <1>1 DEF PageInv

(* What a crawler does not touch stays fresh.                              *)
LEMMA FreshKept ==
  ASSUME TypeOK, TypeOK', now' >= now, NEW c \in Crawlers, Fresh(c),
         crawlPc'[c] = crawlPc[c],
         cur'[c].src = cur[c].src, cur'[c].page = cur[c].page,
         cur'[c].staleBefore = cur[c].staleBefore, cur'[c].dst = cur[c].dst,
         \/ cur'[c].left = cur[c].left
         \/ crawlPc[c] = "nofollow",
         \A v \in Urls : updated'[<<cur[c].src, v>>] = updated[<<cur[c].src, v>>]
  PROVE  Fresh(c)'
<1>1. /\ cur[c] \in Work /\ now \in Int /\ now' \in Int /\ cur[c].src \in Urls
      /\ \A v \in Urls : updated[<<cur[c].src, v>>] \in Int
  BY WorkFields, Clock, ThresholdAssumption DEF TypeOK
<1>2. cur[c].staleBefore \in Int
  BY <1>1, WorkFields, Clock
<1>3. CASE crawlPc[c] = "nofollow"
  BY <1>1, <1>3 DEF Fresh
<1>4. CASE crawlPc[c] # "nofollow"
  BY <1>1, <1>2, <1>4 DEF Fresh
<1> QED
  BY <1>3, <1>4

LEMMA PageStep == IInv /\ PageInv /\ [Next]_vars => PageInv'
<1> SUFFICES ASSUME IInv, PageInv, [Next]_vars PROVE PageInv'
  OBVIOUS
<1> USE DEF store, crawlVars, rankVars
<1>0. TypeOK /\ TypeOK' /\ StoreKept
  BY StoreStep, TypeStep DEF IInv
<1>1. /\ now \in Int /\ now' \in Int /\ now' >= now
      /\ \A p \in Urls \X Urls : updated[p] \in Int /\ updated'[p] \in Int
      /\ cur \in [Crawlers -> Work] /\ cur' \in [Crawlers -> Work]
      /\ crawlPc \in [Crawlers -> {"idle", "crawl", "fetched", "nofollow", "links", "edge"}]
      /\ settled \in [Urls -> SUBSET SUBSET Urls]
      /\ \A c \in Crawlers : cur[c].src \in Urls
  BY <1>0, Clock, ThresholdAssumption, WorkFields DEF TypeOK, StoreKept
<1>2. \A p \in Urls \X Urls : updated'[p] <= now'
  <2> TAKE p \in Urls \X Urls
  <2>1. CASE p \in Edges(updated')
    BY <1>0, <1>1, <2>1 DEF StoreKept, PageInv
  <2>2. CASE p \notin Edges(updated')
    BY <1>0, <1>1, <2>2, Clock, ThresholdAssumption DEF Edges, TypeOK
  <2> QED
    BY <2>1, <2>2
(* A step that changes neither edges nor history.                          *)
<1>3. ASSUME UNCHANGED <<updated, settled>>,
             \A c \in Crawlers : Active(c)' =>
               /\ Active(c) /\ cur'[c].src = cur[c].src
               /\ cur'[c].alone => cur[c].alone /\ (Fresh(c) => Fresh(c)')
      PROVE  PageInv'
  <2>1. SettledPage'
    BY <1>3 DEF PageInv, SettledPage, Out
  <2>2. \A c \in Crawlers : Active(c) =>
          settled'[cur[c].src] = {} /\ (cur[c].alone => Fresh(c))
    BY <1>3 DEF PageInv
  <2> QED
    BY <1>2, <1>3, <2>1, <2>2, PageKept
<1>4. ASSUME UNCHANGED <<updated, settled, crawlPc, cur>> PROVE PageInv'
  <2>1. \A c \in Crawlers : Fresh(c) => Fresh(c)'
    BY <1>0, <1>1, <1>4, FreshKept
  <2> QED
    BY <1>3, <1>4, <2>1 DEF Active
<1>5. ASSUME NEW c \in Crawlers, Crawl(c) PROVE PageInv'
  <2> USE DEF Goto
  <2>1. ASSUME UNCHANGED <<updated, settled>>,
               \A d \in Crawlers \ {c} : crawlPc'[d] = crawlPc[d] /\ cur'[d] = cur[d],
               Active(c)' => /\ Active(c) /\ cur'[c].src = cur[c].src
                             /\ cur'[c].alone => cur[c].alone /\ (Fresh(c) => Fresh(c)')
        PROVE  PageInv'
    <3>1. \A d \in Crawlers \ {c} : Fresh(d) => Fresh(d)'
      BY <1>0, <1>1, <2>1, FreshKept
    <3> QED
      BY <1>3, <2>1, <3>1 DEF Active
  <2>2. CASE CrawlBegin(c) \/ CrawlEnd(c) \/ Fail(c) \/ \E u \in Urls : Dismiss(c, u)
    BY <1>1, <2>1, <2>2 DEF CrawlBegin, CrawlEnd, Fail, Dismiss, Active
  <2>3. ASSUME NEW u \in Urls, NEW p \in Pages, Fetch(c, u, p) PROVE PageInv'
    BY <1>1, <2>1, <2>3 DEF Fetch, Active
  <2>4. ASSUME NEW v \in Urls, UpsertNoFollow(c, v) PROVE PageInv'
    <3>1. /\ crawlPc[c] = "nofollow" /\ UNCHANGED <<crawlPc, updated, settled>>
          /\ cur' = [cur EXCEPT ![c].left = @ \ {v}]
      BY <2>4 DEF UpsertNoFollow
    <3>2. /\ cur'[c].src = cur[c].src /\ cur'[c].page = cur[c].page
          /\ cur'[c].staleBefore = cur[c].staleBefore /\ cur'[c].dst = cur[c].dst
          /\ cur'[c].alone = cur[c].alone
      BY <1>1, <3>1 DEF Work
    <3>3. Fresh(c) => Fresh(c)'
      BY <1>0, <1>1, <3>1, <3>2, FreshKept
    <3> QED
      BY <1>1, <2>1, <3>1, <3>2, <3>3 DEF Active
  <2>5. CASE MarkTime(c)
    <3>1. /\ crawlPc[c] = "nofollow" /\ crawlPc' = [crawlPc EXCEPT ![c] = "links"]
          /\ UNCHANGED <<updated, settled, now>>
          /\ cur' = [cur EXCEPT ![c].staleBefore = now, ![c].left = cur[c].page.links]
      BY <2>5 DEF MarkTime
    <3>2. /\ cur'[c].src = cur[c].src /\ cur'[c].page = cur[c].page
          /\ cur'[c].staleBefore = now /\ cur'[c].left = cur[c].page.links
          /\ cur'[c].alone = cur[c].alone /\ crawlPc'[c] = "links"
          /\ \A d \in Crawlers \ {c} : crawlPc'[d] = crawlPc[d] /\ cur'[d] = cur[d]
      BY <1>1, <3>1 DEF Work
    <3>3. Fresh(c) => Fresh(c)'
      BY <1>1, <3>1, <3>2 DEF Fresh
    <3> QED
      BY <1>1, <2>1, <3>1, <3>2, <3>3 DEF Active
  <2>6. ASSUME NEW v \in Urls, UpsertDestination(c, v) PROVE PageInv'
    <3>1. /\ crawlPc[c] = "links" /\ crawlPc' = [crawlPc EXCEPT ![c] = "edge"]
          /\ UNCHANGED <<updated, settled, now>> /\ v \in cur[c].left
          /\ cur' = [cur EXCEPT ![c].dst = v]
      BY <2>6 DEF UpsertDestination
    <3>2. /\ cur'[c].src = cur[c].src /\ cur'[c].page = cur[c].page
          /\ cur'[c].staleBefore = cur[c].staleBefore /\ cur'[c].left = cur[c].left
          /\ cur'[c].alone = cur[c].alone /\ cur'[c].dst = v /\ crawlPc'[c] = "edge"
          /\ \A d \in Crawlers \ {c} : crawlPc'[d] = crawlPc[d] /\ cur'[d] = cur[d]
      BY <1>1, <3>1 DEF Work
    <3>3. Fresh(c) => Fresh(c)'
      BY <1>1, <3>1, <3>2 DEF Fresh
    <3> QED
      BY <1>1, <2>1, <3>1, <3>2, <3>3 DEF Active
  <2>7. CASE UpsertSource(c)
    <3> DEFINE u == cur[c].src
               others == {d \in Crawlers \ {c} : Updating(d, u)}
    <3>1. /\ crawlPc[c] = "fetched" /\ crawlPc' = [crawlPc EXCEPT ![c] = "nofollow"]
          /\ now' = now + 1 /\ updated' = updated
          /\ cur' = [d \in Crawlers |->
               IF d = c THEN [cur[c] EXCEPT !.left = cur[c].page.nofollow,
                                            !.alone = (others = {})]
               ELSE [cur[d] EXCEPT !.alone = @ /\ d \notin others]]
          /\ settled' = [settled EXCEPT ![u] = {}]
      BY <2>7 DEF UpsertSource
    <3>2. /\ cur'[c].src = u /\ cur'[c].alone = (others = {}) /\ crawlPc'[c] = "nofollow"
          /\ u \in Urls
      BY <1>1, <3>1 DEF Work
    <3>3. ASSUME NEW d \in Crawlers \ {c}
          PROVE  /\ crawlPc'[d] = crawlPc[d]
                 /\ cur'[d].src = cur[d].src /\ cur'[d].page = cur[d].page
                 /\ cur'[d].staleBefore = cur[d].staleBefore /\ cur'[d].dst = cur[d].dst
                 /\ cur'[d].left = cur[d].left
                 /\ cur'[d].alone = (cur[d].alone /\ d \notin others)
      <4>1. cur[d] \in Work /\ cur'[d] = [cur[d] EXCEPT !.alone = cur[d].alone /\ d \notin others]
        BY <1>1, <3>1
      <4> QED
        BY <1>1, <3>1, <4>1 DEF Work
    <3>4. SettledPage'
      BY <1>1, <3>1 DEF PageInv, SettledPage, Out
    <3>5. ASSUME NEW d \in Crawlers, Active(d)'
          PROVE  /\ settled'[cur'[d].src] = {}
                 /\ cur'[d].alone => Lone(d)' /\ Fresh(d)'
      <4>1. CASE d = c
        <5>1. \A v \in Urls : updated'[<<u, v>>] < now'
          <6> TAKE v \in Urls
          <6>1. <<u, v>> \in Urls \X Urls
            BY <3>2
          <6>2. updated[<<u, v>>] <= now /\ updated[<<u, v>>] \in Int
            BY <1>1, <6>1 DEF PageInv
          <6>3. now' = now + 1 /\ now \in Int /\ updated' = updated
            BY <1>1, <3>1
          <6> QED
            BY <6>2, <6>3
        <5>2. Fresh(c)'
          BY <3>2, <5>1 DEF Fresh
        <5>3. ASSUME others = {} PROVE Lone(c)'
          BY <3>2, <3>3, <5>3 DEF Lone, Active, Updating
        <5> QED
          BY <1>1, <3>1, <3>2, <4>1, <5>2, <5>3
      <4>2. CASE d # c
        <5>1. Active(d) /\ crawlPc'[d] = crawlPc[d] /\ cur'[d].src = cur[d].src /\ cur[d].src \in Urls
          BY <1>1, <3>3, <3>5, <4>2 DEF Active
        <5>2. settled'[cur'[d].src] = {}
          <6>1. settled[cur[d].src] = {}
            BY <5>1 DEF PageInv
          <6>2. settled'[cur[d].src] = {}
            BY <1>1, <3>1, <5>1, <6>1
          <6> QED
            BY <5>1, <6>2
        <5>3. ASSUME cur'[d].alone PROVE Lone(d)' /\ Fresh(d)'
          <6>1. cur[d].alone /\ cur[d].src # u
            BY <3>3, <4>2, <5>1, <5>3 DEF Updating, Active
          <6>2. Lone(d) /\ Fresh(d)
            BY <5>1, <6>1 DEF PageInv
          <6>3. Fresh(d)'
            BY <1>0, <1>1, <3>1, <3>3, <4>2, <6>2, FreshKept
          <6> QED
            BY <3>2, <3>3, <4>2, <6>1, <6>2, <6>3 DEF Lone, Active
        <5> QED
          BY <5>2, <5>3
      <4> QED
        BY <4>1, <4>2
    <3> QED
      BY <1>2, <3>4, <3>5 DEF PageInv
(* An edge of the page is made, or its stale ones are removed.             *)
  <2>8. ASSUME Active(c), Active(c)' => cur'[c].src = cur[c].src /\ cur'[c].alone = cur[c].alone
                                        /\ (Fresh(c) /\ cur[c].alone => Fresh(c)'),
               \A d \in Crawlers \ {c} : crawlPc'[d] = crawlPc[d] /\ cur'[d] = cur[d],
               \A p \in Urls \X Urls : p[1] # cur[c].src => updated'[p] = updated[p],
               \A u \in Urls : u # cur[c].src => settled'[u] = settled[u],
               \/ settled' = settled
               \/ /\ cur[c].alone /\ ~Active(c)'
                  /\ settled'[cur[c].src] = {Out(updated', cur[c].src)}
        PROVE  PageInv'
    <3>1. settled[cur[c].src] = {}
      BY <2>8 DEF PageInv
    <3>2. SettledPage'
      <4> SUFFICES ASSUME NEW u \in Urls, NEW links \in settled'[u]
                   PROVE  Out(updated', u) = links
        BY DEF SettledPage
      <4>1. CASE u = cur[c].src
        BY <2>8, <3>1, <4>1
      <4>2. CASE u # cur[c].src
        <5>1. \A v \in Urls : updated'[<<u, v>>] = updated[<<u, v>>]
          BY <2>8, <4>2
        <5>2. links \in settled[u]
          BY <2>8, <4>2
        <5>3. Out(updated, u) = links
          BY <5>2 DEF PageInv, SettledPage
        <5> QED
          BY <5>1, <5>3 DEF Out
      <4> QED
        BY <4>1, <4>2
    <3>3. ASSUME NEW d \in Crawlers \ {c}, Active(d)'
          PROVE  /\ Active(d) /\ cur'[d].src = cur[d].src
                 /\ settled'[cur[d].src] = {}
                 /\ cur'[d].alone => cur[d].alone /\ Fresh(d)'
      <4>1. Active(d) /\ cur'[d] = cur[d] /\ crawlPc'[d] = crawlPc[d] /\ cur[d].src \in Urls
        BY <1>1, <2>8, <3>3 DEF Active
      <4>2. settled'[cur[d].src] = {}
        BY <2>8, <4>1 DEF PageInv, Lone
      <4>3. ASSUME cur[d].alone PROVE Fresh(d)'
        <5>1. cur[c].src # cur[d].src /\ Fresh(d)
          BY <2>8, <4>1, <4>3 DEF PageInv, Lone
        <5> QED
          BY <1>0, <1>1, <2>8, <4>1, <5>1, FreshKept
      <4> QED
        BY <4>1, <4>2, <4>3
    <3>4. Active(c)' =>
            /\ Active(c) /\ cur'[c].src = cur[c].src
            /\ settled'[cur[c].src] = {}
            /\ cur'[c].alone => cur[c].alone /\ Fresh(c)'
      BY <2>8, <3>1 DEF PageInv
    <3> QED
      BY <1>2, <3>2, <3>3, <3>4, PageKept
  <2>9. CASE AddPageEdge(c)
    <3> DEFINE w == cur[c]
    <3>1. /\ crawlPc[c] = "edge" /\ crawlPc' = [crawlPc EXCEPT ![c] = "links"]
          /\ updated' = UpsertEdge(updated, w.src, w.dst, now)
          /\ cur' = [cur EXCEPT ![c].left = @ \ {w.dst}, ![c].dst = AnyUrl]
          /\ UNCHANGED <<now, settled>>
      BY <2>9 DEF AddPageEdge
    <3>2. /\ w \in Work /\ w.src \in Urls /\ w.dst \in Urls /\ w.staleBefore \in Int
      BY <1>1, WorkFields, Clock
    <3>3. /\ cur'[c].src = w.src /\ cur'[c].page = w.page
          /\ cur'[c].staleBefore = w.staleBefore /\ cur'[c].left = w.left \ {w.dst}
          /\ cur'[c].alone = w.alone /\ crawlPc'[c] = "links"
          /\ \A d \in Crawlers \ {c} : crawlPc'[d] = crawlPc[d] /\ cur'[d] = cur[d]
      BY <1>1, <3>1 DEF Work
    <3>4. /\ updated' = [updated EXCEPT ![<<w.src, w.dst>>] = now]
          /\ updated \in [Urls \X Urls -> Time \cup {Absent}]
      BY <1>0, <3>1 DEF UpsertEdge, TypeOK
    <3>5. \A p \in Urls \X Urls : p[1] # w.src => updated'[p] = updated[p]
      BY <3>4
    <3>6. Fresh(c) => Fresh(c)'
      <4>1. \A v \in Urls : updated'[<<w.src, v>>] = IF v = w.dst THEN now ELSE updated[<<w.src, v>>]
        BY <3>2, <3>4
      <4> QED
        BY <1>1, <3>1, <3>2, <3>3, <4>1 DEF Fresh
    <3> QED
      BY <1>1, <2>8, <3>1, <3>3, <3>5, <3>6 DEF Active
  <2>10. CASE FinishPage(c)
    <3> DEFINE w == cur[c]
    <3>1. /\ crawlPc[c] = "links" /\ w.left = {} /\ crawlPc' = [crawlPc EXCEPT ![c] = "crawl"]
          /\ updated' = RemoveStaleEdges(updated, w.src, w.staleBefore)
          /\ cur' = [cur EXCEPT ![c] = NoWork]
          /\ settled' = IF w.alone THEN [settled EXCEPT ![w.src] = {w.page.links}] ELSE settled
      BY <2>10 DEF FinishPage
    <3>2. /\ w \in Work /\ w.src \in Urls /\ w.staleBefore \in Int /\ w.staleBefore >= 0
          /\ w.page.links \in SUBSET Urls /\ Absent = -1
      BY <1>1, WorkFields, Clock
    <3>3. /\ Active(c) /\ ~Active(c)'
          /\ \A d \in Crawlers \ {c} : crawlPc'[d] = crawlPc[d] /\ cur'[d] = cur[d]
      BY <1>1, <3>1 DEF Active
    <3>4. /\ \A p \in Urls \X Urls : p[1] # w.src => updated'[p] = updated[p]
          /\ \A v \in Urls : updated'[<<w.src, v>>] =
               IF updated[<<w.src, v>>] < w.staleBefore THEN Absent ELSE updated[<<w.src, v>>]
      BY <3>1, <3>2 DEF RemoveStaleEdges
    <3>5. ASSUME w.alone PROVE Out(updated', w.src) = w.page.links
      <4>1. \A v \in Urls : updated[<<w.src, v>>] >= w.staleBefore <=> v \in w.page.links
        BY <3>1, <3>3, <3>5 DEF PageInv, Fresh
      <4>2. ASSUME NEW v \in Urls PROVE updated'[<<w.src, v>>] # Absent <=> v \in w.page.links
        BY <1>1, <3>2, <3>4, <4>1
      <4> QED
        BY <3>2, <4>2 DEF Out
    <3>6. \/ settled' = settled
          \/ w.alone /\ settled'[w.src] = {Out(updated', w.src)}
      BY <1>1, <3>1, <3>2, <3>5
    <3>7. \A u \in Urls : u # w.src => settled'[u] = settled[u]
      BY <1>1, <3>1
    <3> QED
      BY <2>8, <3>3, <3>4, <3>6, <3>7
  <2> QED
    BY <1>5, <2>2, <2>3, <2>4, <2>5, <2>6, <2>7, <2>9, <2>10 DEF Crawl
<1>6. CASE Rank
  BY <1>4, <1>6 DEF Rank, RankBegin, LoadLinks, LoadEdges, Compute, PersistScore, RankEnd
<1>7. ASSUME NEW u \in Urls, SubmitLink(u) PROVE PageInv'
  BY <1>4, <1>7 DEF SubmitLink
<1>8. CASE UNCHANGED vars
  BY <1>4, <1>8 DEF vars
<1> QED
  BY <1>5, <1>6, <1>7, <1>8 DEF Next

(* No page was updated yet.                                                *)
LEMMA InitPageInv == Init => PageInv
<1> SUFFICES ASSUME Init PROVE PageInv
  OBVIOUS
<1>1. \A p \in Urls \X Urls : updated[p] <= now
  BY Clock, ThresholdAssumption DEF Init, NoEdges
<1>2. \A c \in Crawlers : ~Active(c)
  BY DEF Init, Active
<1>3. SettledPage
  BY DEF Init, SettledPage
<1> QED
  BY <1>1, <1>2, <1>3 DEF PageInv

(* After an update nobody shared, a page's edges are the links of the page.*)
THEOREM PageSettled == Spec => []SettledPage
<1>1. Init => PageInv
  BY InitPageInv
<1>2. IInv /\ PageInv /\ [Next]_vars => PageInv'
  BY PageStep
<1>3. PageInv => SettledPage
  BY DEF PageInv
<1> QED
  BY <1>1, <1>2, <1>3, CrawlAndRankInvariant, PTL DEF Spec

-----------------------------------------------------------------------------
(* A link the crawler is still to retrieve in its pass.                    *)
Awaits(c, u) == u \in todo[c] \/ (crawlPc[c] = "fetched" /\ cur[c].src = u)

(* No other crawler has the link in its partition.                         *)
Sole(c, u) == \A d \in Crawlers : u \in Part[d] => d = c

Ripe(u) == 0 <= retrieved[u] /\ retrieved[u] < now - ReIndexThreshold

(* What a crawler awaits is of its partition, it awaits it once, and it is *)
(* old enough as long as nobody else can retrieve it.                      *)
PoliteInv ==
  \A c \in Crawlers :
    /\ \A u \in Urls : Awaits(c, u) => u \in Part[c] /\ (Sole(c, u) => Ripe(u))
    /\ crawlPc[c] = "fetched" => cur[c].src \notin todo[c]

(* Only UpsertSource touches the timestamp of a known link.                *)
LEMMA RetrievedStep ==
  ASSUME TypeOK, [Next]_vars, NEW u \in Urls, retrieved[u] >= 0,
         \A c \in Crawlers : UpsertSource(c) => cur[c].src # u
  PROVE  retrieved'[u] = retrieved[u]
<1> USE DEF store, crawlVars, rankVars
<1>1. /\ \A v \in Urls : retrieved[v] \in Int
      /\ retrieved \in [Urls -> Time \cup {Absent}]
  BY Clock DEF TypeOK
<1>2. ASSUME NEW v \in Urls, retrieved' = UpsertLink(retrieved, v, 0)
      PROVE  retrieved'[u] = retrieved[u]
  BY <1>1, <1>2 DEF UpsertLink
<1>3. ASSUME NEW c \in Crawlers, Crawl(c) PROVE retrieved'[u] = retrieved[u]
  <2>1. CASE UpsertSource(c)
    BY <1>1, <2>1 DEF UpsertSource, UpsertLink
  <2>2. ASSUME NEW v \in Urls, UpsertNoFollow(c, v) \/ UpsertDestination(c, v)
        PROVE  retrieved'[u] = retrieved[u]
    BY <1>2, <2>2 DEF UpsertNoFollow, UpsertDestination
  <2> QED
    BY <1>3, <2>1, <2>2 DEF Crawl, CrawlBegin, CrawlEnd, Fail, Dismiss, Fetch, MarkTime,
         AddPageEdge, FinishPage
<1>4. ASSUME NEW v \in Urls, SubmitLink(v) PROVE retrieved'[u] = retrieved[u]
  BY <1>2, <1>4 DEF SubmitLink
<1>5. CASE Rank
  BY <1>5 DEF Rank, RankBegin, LoadLinks, LoadEdges, Compute, PersistScore, RankEnd
<1>6. CASE UNCHANGED vars
  BY <1>6 DEF vars
<1> QED
  BY <1>3, <1>4, <1>5, <1>6 DEF Next

LEMMA PoliteStep == TypeOK /\ PoliteInv /\ [Next]_vars => PoliteInv'
<1> SUFFICES ASSUME TypeOK, PoliteInv, [Next]_vars PROVE PoliteInv'
  OBVIOUS
<1> USE DEF store, crawlVars, rankVars, Goto
<1>1. /\ now \in Int /\ now' \in Int /\ now' >= now
      /\ ReIndexThreshold \in Int /\ \A v \in Urls : retrieved[v] \in Int
      /\ cur \in [Crawlers -> Work] /\ \A c \in Crawlers : cur[c].src \in Urls
      /\ crawlPc \in [Crawlers -> {"idle", "crawl", "fetched", "nofollow", "links", "edge"}]
      /\ todo \in [Crawlers -> SUBSET Urls]
  BY TypeStep, StoreStep, Clock, ThresholdAssumption, WorkFields DEF TypeOK, StoreKept
<1>2. ASSUME NEW u \in Urls, Ripe(u), \A c \in Crawlers : UpsertSource(c) => cur[c].src # u
      PROVE  Ripe(u)'
  <2>1. retrieved'[u] = retrieved[u]
    BY <1>2, RetrievedStep DEF Ripe
  <2> QED
    BY <1>1, <1>2, <2>1 DEF Ripe
(* A step after which nobody awaits more links.                            *)
<1>3. ASSUME \A c \in Crawlers : ~UpsertSource(c),
             \A c \in Crawlers :
               /\ todo'[c] \subseteq todo[c]
               /\ crawlPc'[c] = "fetched" => crawlPc[c] = "fetched" /\ cur'[c].src = cur[c].src
      PROVE  PoliteInv'
  BY <1>2, <1>3 DEF PoliteInv, Awaits, Sole
<1>4. ASSUME NEW c \in Crawlers, UpsertSource(c) PROVE PoliteInv'
  <2>1. /\ crawlPc[c] = "fetched" /\ crawlPc' = [crawlPc EXCEPT ![c] = "nofollow"]
        /\ UNCHANGED todo
    BY <1>4 DEF UpsertSource
  <2>2. \A d \in Crawlers : cur'[d].src = cur[d].src
    BY <1>1, <1>4 DEF UpsertSource, Work
  <2>3. \A d \in Crawlers : UpsertSource(d) => d = c
    <3> SUFFICES ASSUME NEW d \in Crawlers, UpsertSource(d), d # c PROVE FALSE
      OBVIOUS
    <3>1. crawlPc[d] = "fetched" /\ crawlPc' = [crawlPc EXCEPT ![d] = "nofollow"]
      BY DEF UpsertSource
    <3> QED
      BY <1>1, <2>1, <3>1
  <2>4. ASSUME NEW d \in Crawlers, NEW u \in Urls, Awaits(d, u)'
        PROVE  u \in Part[d] /\ (Sole(d, u) => Ripe(u)')
    <3>1. Awaits(d, u) /\ (d = c => u # cur[c].src)
      BY <1>1, <2>1, <2>2, <2>4 DEF Awaits, PoliteInv
    <3>2. u \in Part[d] /\ (Sole(d, u) => Ripe(u))
      BY <3>1 DEF PoliteInv
    <3>3. ASSUME Sole(d, u) PROVE cur[c].src # u
      <4>1. cur[c].src \in Part[c]
        BY <1>1, <2>1 DEF PoliteInv, Awaits
      <4> QED
        BY <3>1, <3>3, <4>1 DEF Sole
    <3> QED
      BY <1>2, <2>3, <3>2, <3>3
  <2>5. \A d \in Crawlers : crawlPc'[d] = "fetched" => cur'[d].src \notin todo'[d]
    BY <1>1, <2>1, <2>2 DEF PoliteInv
  <2> QED
    BY <2>4, <2>5 DEF PoliteInv, Sole
<1>5. ASSUME NEW c \in Crawlers, CrawlBegin(c) PROVE PoliteInv'
  <2>1. /\ todo' = [todo EXCEPT ![c] = LinksBefore(retrieved, Part[c], now - ReIndexThreshold)]
        /\ crawlPc[c] = "idle" /\ crawlPc' = [crawlPc EXCEPT ![c] = "crawl"]
        /\ UNCHANGED <<retrieved, now, cur>>
    BY <1>5 DEF CrawlBegin
  <2>2. \A u \in todo'[c] : u \in Part[c] /\ Ripe(u)
    <3> TAKE u \in todo'[c]
    <3>1. u \in LinksBefore(retrieved, Part[c], now - ReIndexThreshold)
      BY <1>1, <2>1
    <3>2. u \in Part[c] /\ retrieved[u] # Absent /\ retrieved[u] < now - ReIndexThreshold
          /\ u \in Urls
      BY <3>1 DEF LinksBefore, Known
    <3>3. retrieved[u] >= 0
      BY <3>2, Clock DEF TypeOK
    <3> QED
      BY <1>1, <3>2, <3>3 DEF Ripe
  <2>3. \A d \in Crawlers \ {c} : todo'[d] = todo[d] /\ crawlPc'[d] = crawlPc[d]
    BY <2>1
  <2>4. crawlPc'[c] = "crawl"
    BY <1>1, <2>1
  <2> QED
    BY <2>1, <2>2, <2>3, <2>4 DEF PoliteInv, Awaits, Sole, Ripe
<1>6. ASSUME NEW c \in Crawlers, NEW u \in Urls, NEW p \in Pages, Fetch(c, u, p)
      PROVE  PoliteInv'
  <2>1. /\ crawlPc' = [crawlPc EXCEPT ![c] = "fetched"] /\ u \in todo[c]
        /\ todo' = [todo EXCEPT ![c] = @ \ {u}]
        /\ cur' = [cur EXCEPT ![c].src = u, ![c].page = p]
        /\ UNCHANGED <<retrieved, now>>
    BY <1>6 DEF Fetch
  <2>2. /\ crawlPc'[c] = "fetched" /\ cur'[c].src = u /\ todo'[c] = todo[c] \ {u}
        /\ \A d \in Crawlers \ {c} : /\ todo'[d] = todo[d] /\ crawlPc'[d] = crawlPc[d]
                                     /\ cur'[d] = cur[d]
    BY <1>1, <2>1 DEF Work
  <2>3. ASSUME NEW d \in Crawlers, NEW v \in Urls, Awaits(d, v)' PROVE Awaits(d, v)
    BY <2>1, <2>2, <2>3 DEF Awaits
  <2>4. \A v \in Urls : Ripe(v) => Ripe(v)'
    BY <2>1 DEF Ripe
  <2>5. ASSUME NEW d \in Crawlers, crawlPc'[d] = "fetched" PROVE cur'[d].src \notin todo'[d]
    <3>1. CASE d = c
      BY <2>2, <3>1
    <3>2. CASE d # c
      BY <2>2, <2>5, <3>2 DEF PoliteInv
    <3> QED
      BY <3>1, <3>2
  <2> QED
    BY <2>3, <2>4, <2>5 DEF PoliteInv, Sole
<1>7. ASSUME NEW c \in Crawlers, Crawl(c) PROVE PoliteInv'
  <2>1. CASE UpsertSource(c) \/ CrawlBegin(c) \/ \E u \in Urls, p \in Pages : Fetch(c, u, p)
    BY <1>4, <1>5, <1>6, <2>1
  <2>2. ASSUME \A d \in Crawlers \ {c} : /\ todo'[d] = todo[d] /\ crawlPc'[d] = crawlPc[d]
                                         /\ cur'[d] = cur[d],
               todo'[c] \subseteq todo[c],
               crawlPc'[c] = "fetched" => crawlPc[c] = "fetched" /\ cur'[c].src = cur[c].src
        PROVE  PoliteInv'
    <3>1. CASE \E d \in Crawlers : UpsertSource(d)
      BY <1>4, <3>1
    <3> QED
      BY <1>3, <2>2, <3>1
  <2>3. CASE CrawlEnd(c) \/ Fail(c) \/ \E u \in Urls : Dismiss(c, u)
    BY <1>1, <2>2, <2>3 DEF CrawlEnd, Fail, Dismiss
  <2>4. CASE MarkTime(c) \/ AddPageEdge(c) \/ FinishPage(c)
    BY <1>1, <2>2, <2>4 DEF MarkTime, AddPageEdge, FinishPage
  <2>5. ASSUME NEW v \in Urls, UpsertNoFollow(c, v) \/ UpsertDestination(c, v)
        PROVE  PoliteInv'
    BY <1>1, <2>2, <2>5 DEF UpsertNoFollow, UpsertDestination
  <2> QED
    BY <1>7, <2>1, <2>3, <2>4, <2>5 DEF Crawl
<1>8. ASSUME UNCHANGED <<todo, crawlPc, cur>> PROVE PoliteInv'
  BY <1>3, <1>4, <1>8
<1>9. CASE Rank
  BY <1>8, <1>9 DEF Rank, RankBegin, LoadLinks, LoadEdges, Compute, PersistScore, RankEnd
<1>10. ASSUME NEW u \in Urls, SubmitLink(u) PROVE PoliteInv'
  BY <1>8, <1>10 DEF SubmitLink
<1>11. CASE UNCHANGED vars
  BY <1>8, <1>11 DEF vars
<1> QED
  BY <1>7, <1>9, <1>10, <1>11 DEF Next

(* A link in one crawler's partition only is not retrieved again before    *)
(* the threshold passed.                                                   *)
THEOREM PolitelyCrawled == Spec => PoliteCrawl
<1> DEFINE Due(u) == /\ Cardinality({c \in Crawlers : u \in Part[c]}) = 1
                     /\ retrieved[u] > 0 /\ retrieved'[u] # retrieved[u]
           Rested == \A u \in Urls : Due(u) => retrieved'[u] > retrieved[u] + ReIndexThreshold
<1>1. Init => PoliteInv
  BY DEF Init, PoliteInv, Awaits
<1>2. TypeOK /\ PoliteInv /\ [Next]_vars => PoliteInv'
  BY PoliteStep
<1>3. TypeOK /\ PoliteInv /\ [Next]_vars => Rested
  <2> SUFFICES ASSUME TypeOK, PoliteInv, [Next]_vars, NEW u \in Urls, Due(u)
               PROVE  retrieved'[u] > retrieved[u] + ReIndexThreshold
    OBVIOUS
  <2>1. /\ retrieved[u] \in Int /\ now \in Int /\ ReIndexThreshold \in Int
        /\ retrieved[u] > 0 /\ retrieved'[u] # retrieved[u]
    BY Clock, ThresholdAssumption DEF TypeOK
  <2>2. PICK c \in Crawlers : UpsertSource(c) /\ cur[c].src = u
    BY <2>1, RetrievedStep
  <2>3. Awaits(c, u)
    BY <2>2 DEF Awaits, UpsertSource
  <2>4. Sole(c, u)
    <3> DEFINE owners == {d \in Crawlers : u \in Part[d]}
    <3>1. IsFiniteSet(owners)
      BY CrawlersAssumption, FS_Subset
    <3>2. PICK d : owners = {d}
      BY <3>1, FS_Singleton
    <3>3. c \in owners
      BY <2>3 DEF PoliteInv
    <3> QED
      BY <3>2, <3>3 DEF Sole
  <2>5. retrieved[u] < now - ReIndexThreshold
    BY <2>3, <2>4 DEF PoliteInv, Ripe
  <2>6. retrieved'[u] = IF retrieved[u] > now + 1 THEN retrieved[u] ELSE now + 1
    <3>1. retrieved \in [Urls -> Time \cup {Absent}]
      BY DEF TypeOK
    <3>2. retrieved' = UpsertLink(retrieved, u, now + 1)
      BY <2>2 DEF UpsertSource
    <3> QED
      BY <3>1, <3>2 DEF UpsertLink
  <2> QED
    BY <2>1, <2>5, <2>6
<1>4. PoliteInv /\ TypeOK /\ [Next]_vars => [Rested]_vars
  BY <1>3
<1> QED
  BY <1>1, <1>2, <1>4, CrawlAndRankTypes, PTL DEF Spec, PoliteCrawl

=============================================================================
