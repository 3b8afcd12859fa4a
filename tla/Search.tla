------------------------------- MODULE Search -------------------------------
(***************************************************************************)
(* Searching while the index changes: the iterators of bleve/iterator.go   *)
(* and elasticsearch/iterator.go, which fetch results batch by batch, and  *)
(* the front-end's result page that consumes one.                          *)
(*                                                                         *)
(* A handler runs on its own between requests of one user; other handlers  *)
(* share nothing with it but the index.                                    *)
(***************************************************************************)
EXTENDS TextIndex

CONSTANTS
  BatchSize,      \* batchSize of the iterators
  ResultsPerPage

ASSUME PageAssumption ==
  BatchSize \in Nat \ {0} /\ ResultsPerPage \in Nat \ {0}

VARIABLES
  pc,         \* the handler: "idle", "iterate", or how the request ended
  query,      \* its type and offset
  from, hits, total,  \* searchReq.From and the current batch rs
  cumIdx, rsIdx,
  matched,    \* matchedDocs
  pagination, \* the links of the page last rendered
  failed,     \* history: a search failed during this request
  lost,       \* history: a match disappeared during this request
  first,      \* history: the query whose pages are followed from the start
  shown       \* history: documents on these pages

iterVars  == <<from, hits, total, cumIdx, rsIdx>>
pageVars  == <<pc, query, matched, pagination>>
histVars  == <<failed, lost, first, shown>>
vars      == <<backend, storeVars, iterVars, pageVars, histVars>>

NoLink == -1
Offsets == 0 .. Cardinality(Links) + 1

Init ==
  /\ StoreInit
  /\ pc = "idle" /\ query = [type |-> "match", offset |-> 0]
  /\ from = 0 /\ hits = <<>> /\ total = 0 /\ cumIdx = 0 /\ rsIdx = 0
  /\ matched = <<>>
  /\ pagination = [type |-> "match", prev |-> NoLink, next |-> NoLink]
  /\ failed = FALSE /\ lost = FALSE
  /\ first = "none" /\ shown = <<>>

TypeOK ==
  /\ StoreTypeOK
  /\ pc \in {"idle", "iterate", "rendered", "error", "panic"}
  /\ query \in [type : {"match", "phrase"}, offset : Offsets]
  /\ hits \in Seq(Links) /\ Len(hits) <= BatchSize /\ rsIdx \in 0..Len(hits)
  /\ total \in 0..Cardinality(Links) /\ cumIdx \in Nat /\ from \in Nat
  /\ pc = "iterate" => cumIdx = query.offset + Len(matched)
  /\ matched \in Seq(Links) /\ Len(matched) <= ResultsPerPage
  /\ pagination \in [type : {"match"}, prev : Offsets \cup {NoLink}, next : Offsets \cup {NoLink}]
  /\ failed \in BOOLEAN /\ lost \in BOOLEAN
  /\ first \in {"none", "match", "phrase"} /\ shown \in Seq(Links)

-----------------------------------------------------------------------------
(* The index changes.                                                      *)
Change ==
  /\ Write
  /\ lost' = (lost \/ \E l \in Links : Matches(query.type, idx[l]) /\ ~Matches(query.type, idx'[l]))
  /\ first' = IF idx' # idx \/ docs' # docs THEN "none" ELSE first
  /\ UNCHANGED <<backend, iterVars, pageVars, failed, shown>>

-----------------------------------------------------------------------------
(* The iterator.                                                           *)
(* Variant with a bug: the size of a batch is not set.                     *)
BatchToEnd(type, at) == SubSeq(Hits(type), at + 1, Len(Hits(type)))

Batch(type, at) == SubSeq(Hits(type), at + 1, Min({at + BatchSize, Len(Hits(type))}))

(* renderSearchResults: runQuery searches.                                 *)
Request(type, offset) ==
  /\ pc # "iterate"
  /\ query' = [type |-> type, offset |-> offset]
  /\ matched' = <<>> /\ lost' = FALSE
  /\ \/ /\ pc' = "iterate" /\ failed' = FALSE
        /\ from' = offset /\ hits' = Batch(type, offset)
        /\ total' = Len(Hits(type))
        /\ cumIdx' = offset /\ rsIdx' = 0
     \/ /\ pc' = "error" /\ failed' = TRUE
        /\ from' = offset /\ hits' = <<>> /\ total' = 0 /\ cumIdx' = offset /\ rsIdx' = 0
  /\ UNCHANGED <<backend, storeVars, pagination>>

(* A new query, of which the user may ask for any page.                    *)
NewQuery(type, offset) ==
  /\ Request(type, offset)
  /\ first' = IF offset = 0 THEN type ELSE "none"
  /\ shown' = <<>>

(* The links of the last page have its words without quotes.               *)
FollowNext ==
  /\ pc = "rendered" /\ pagination.next # NoLink
  /\ Request(pagination.type, pagination.next)
  /\ UNCHANGED <<first, shown>>

FollowPrev ==
  /\ pc = "rendered" /\ pagination.prev # NoLink
  /\ Request(pagination.type, pagination.prev)
  /\ first' = "none" /\ shown' = <<>>

(* Next: the batch is used up.  An empty batch is indexed all the same,    *)
(* and the Elasticsearch iterator cannot be closed after a failed search.  *)
MoreHits == pc = "iterate" /\ cumIdx < total
BatchUsedUp == rsIdx >= Len(hits)

(* Variant with a bug: the next batch is searched from the same position.  *)
FetchSameBatch ==
  /\ MoreHits /\ BatchUsedUp
  /\ hits' = Batch(query.type, from) /\ total' = Len(Hits(query.type)) /\ rsIdx' = 0
  /\ pc' = IF hits' = <<>> THEN "panic" ELSE "iterate"
  /\ UNCHANGED <<backend, storeVars, from, cumIdx, query, matched, pagination, histVars>>

FetchBatch ==
  /\ MoreHits /\ BatchUsedUp
  /\ from' = from + BatchSize
  /\ \/ /\ hits' = Batch(query.type, from + BatchSize)
        /\ total' = Len(Hits(query.type))
        /\ rsIdx' = 0
        /\ pc' = IF hits' = <<>> THEN "panic" ELSE "iterate"
        /\ UNCHANGED failed
     \/ /\ failed' = TRUE
        /\ pc' = IF backend = "es" THEN "panic" ELSE "error"
        /\ UNCHANGED <<hits, total, rsIdx>>
  /\ UNCHANGED <<backend, storeVars, cumIdx, query, matched, pagination, lost, first, shown>>

(* runQuery: the loop has ended and the page's links are made.             *)
Render ==
  LET shownTo == query.offset + Len(matched)
      prev    == query.offset - ResultsPerPage IN
  /\ pc' = "rendered"
  /\ pagination' = [type |-> "match",
                    prev |-> IF query.offset = 0 THEN NoLink ELSE IF prev > 0 THEN prev ELSE 0,
                    next |-> IF shownTo < total THEN shownTo ELSE NoLink]
  /\ shown' = shown \o matched

(* Variant with a bug: the lookup does not wait for the lock.              *)
LockFreeAlways == TRUE

LockFree == op = Idle

(* Next: the document is looked up, by bleve's iterator in the map, under  *)
(* the lock.  The loop asks for one document more than it shows.           *)
NextDocument ==
  /\ MoreHits /\ ~BatchUsedUp
  /\ backend = "bleve" => LockFree
  /\ IF backend = "bleve" /\ docs[hits[rsIdx + 1]] = Absent
     THEN /\ pc' = "error"
          /\ UNCHANGED <<cumIdx, rsIdx, matched, pagination, shown>>
     ELSE /\ cumIdx' = cumIdx + 1 /\ rsIdx' = rsIdx + 1
          /\ IF Len(matched) < ResultsPerPage
             THEN matched' = Append(matched, hits[rsIdx + 1]) /\ UNCHANGED <<pc, pagination, shown>>
             ELSE Render /\ UNCHANGED matched
  /\ UNCHANGED <<backend, storeVars, from, hits, total, query, failed, lost, first>>

NoMoreHits ==
  /\ pc = "iterate" /\ cumIdx >= total
  /\ Render
  /\ UNCHANGED <<backend, storeVars, iterVars, query, matched, failed, lost, first>>

Handler == FetchBatch \/ NextDocument \/ NoMoreHits

Next == \/ Change
        \/ \E type \in {"match", "phrase"}, offset \in Offsets : NewQuery(type, offset)
        \/ FollowNext \/ FollowPrev
        \/ Handler

Spec == Init /\ [][Next]_vars

-----------------------------------------------------------------------------
(* Properties.                                                             *)

(* A request fails only because a search failed, or because a document     *)
(* that matched was indexed again with a text that does not; not because   *)
(* documents are added, change their rank or move to another batch while   *)
(* the handler pages through them (bleve/iterator.go 36-62, indexer.go     *)
(* 84-89: the index may show a document before the map has it).            *)
FailsOnlyDisturbed == pc \in {"error", "panic"} => failed \/ lost

(* Who follows the links from the first page to the last of a match query  *)
(* over an index that stays as it is sees every match once, though batches *)
(* and pages differ in size (frontend.go 256-286, iterator.go 42-50).      *)
PagesComplete ==
  pc = "rendered" /\ first = "match" /\ pagination.next = NoLink => shown = Hits("match")
=============================================================================
