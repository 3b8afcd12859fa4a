----------------------------- MODULE TextIndex -----------------------------
(***************************************************************************)
(* The two text indexes.  bleve/indexer.go keeps the documents in a map    *)
(* and a copy of their text and rank in a search index, writes both under  *)
(* a lock and searches the index without it.  elasticsearch/indexer.go     *)
(* sends partial documents to a store whose searches see them only after   *)
(* the next refresh.                                                       *)
(*                                                                         *)
(* A text is what queries tell apart: which kinds of query it matches.     *)
(***************************************************************************)
EXTENDS Integers, FiniteSets, SequencesExt

CONSTANTS
  Backends,   \* subset of {"bleve", "es"}
  Links,      \* numbers, in the order of relevance
  Texts,      \* "words", "phrase", "other"; "" is a placeholder's
  Ranks,      \* PageRank scores
  Indexed,    \* documents an index may hold when a behaviour begins
  MaxWrites   \* bound: calls of Index and UpdateScore

Absent == [text |-> "none", rank |-> 0]
Docs   == [text : Texts, rank : Ranks] \cup {Absent}

ASSUME LinksAssumption == Links \subseteq Nat /\ IsFiniteSet(Links)
ASSUME TextsAssumption == "" \in Texts /\ Texts \subseteq {"", "words", "phrase", "other"}
ASSUME RanksAssumption == 0 \in Ranks /\ Ranks \subseteq Nat
ASSUME IndexedAssumption == Indexed \subseteq [Links -> Docs]
ASSUME BoundAssumption == MaxWrites \in Nat /\ Backends \subseteq {"bleve", "es"}

VARIABLES
  backend,  \* fixed
  docs,     \* Indexer.docs, or the documents Elasticsearch has accepted
  idx,      \* what a search looks at
  op,       \* the call that holds the lock, between its two writes
  torn,     \* history: documents whose last write failed half-way
  said,     \* history: for each link the last text and the last rank given
  writes

storeVars == <<docs, idx, op, torn, said, writes>>

Idle == [kind |-> "none"]

StoreInit ==
  /\ backend \in Backends
  /\ docs \in Indexed /\ idx = docs /\ said = docs
  /\ op = Idle /\ torn = {} /\ writes = 0

StoreTypeOK ==
  /\ backend \in Backends
  /\ docs \in [Links -> Docs] /\ idx \in [Links -> Docs] /\ said \in [Links -> Docs]
  /\ op # Idle => op.kind \in {"index", "score"} /\ op.link \in Links
  /\ torn \subseteq Links /\ writes \in 0..MaxWrites

Begin == op = Idle /\ writes < MaxWrites /\ writes' = writes + 1

TextSaid(l, t) == said' = [said EXCEPT ![l] = [text |-> t, rank |-> said[l].rank]]
RankSaid(l, r) == said' = [said EXCEPT ![l] =
                    [text |-> IF said[l] = Absent THEN "" ELSE said[l].text, rank |-> r]]

-----------------------------------------------------------------------------
(* Variant with a bug: the new document replaces the rank as well.         *)
CopyFresh(l, t) == [text |-> t, rank |-> 0]

(* The document to store: the rank is the one of the stored document.      *)
CopyDoc(l, t) == [text |-> t, rank |-> docs[l].rank]

(* Index: the search index first; when that fails nothing has changed.     *)
BleveIndex(l, t) ==
  /\ backend = "bleve" /\ Begin
  /\ \/ /\ idx' = [idx EXCEPT ![l] = CopyDoc(l, t)]
        /\ op' = [kind |-> "index", link |-> l, doc |-> CopyDoc(l, t)]
        /\ torn' = torn \ {l}
        /\ TextSaid(l, t)
     \/ UNCHANGED <<idx, op, torn, said>>
  /\ UNCHANGED docs

BleveIndexStore ==
  /\ op # Idle /\ op.kind = "index"
  /\ docs' = [docs EXCEPT ![op.link] = op.doc]
  /\ op' = Idle
  /\ UNCHANGED <<idx, torn, said, writes>>

(* UpdateScore: the document in the map first, or a placeholder.           *)
Scored(l, r) == [text |-> IF docs[l] = Absent THEN "" ELSE docs[l].text, rank |-> r]

BleveUpdateScore(l, r) ==
  /\ backend = "bleve" /\ Begin
  /\ docs' = [docs EXCEPT ![l] = Scored(l, r)]
  /\ op' = [kind |-> "score", link |-> l]
  /\ RankSaid(l, r)
  /\ UNCHANGED <<idx, torn>>

(* When the search index fails the map keeps the new rank.                 *)
BleveUpdateScoreIndex ==
  /\ op # Idle /\ op.kind = "score"
  /\ op' = Idle
  /\ \/ idx' = [idx EXCEPT ![op.link] = docs[op.link]] /\ torn' = torn \ {op.link}
     \/ torn' = torn \cup {op.link} /\ UNCHANGED idx
  /\ UNCHANGED <<docs, said, writes>>

-----------------------------------------------------------------------------
(* Elasticsearch.  A request that fails has been carried out or has not.   *)

(* makeDoc has no rank, and fields that are missing are not updated.       *)
Upserted(l, t) == [docs[l] EXCEPT !.text = t]

EsIndex(l, t) ==
  /\ backend = "es" /\ Begin
  /\ \/ docs' = [docs EXCEPT ![l] = Upserted(l, t)] /\ TextSaid(l, t)
     \/ UNCHANGED <<docs, said>>
  /\ UNCHANGED <<idx, op, torn>>

EsUpdateScore(l, r) ==
  /\ backend = "es" /\ Begin
  /\ \/ docs' = [docs EXCEPT ![l] = Scored(l, r)] /\ RankSaid(l, r)
     \/ UNCHANGED <<docs, said>>
  /\ UNCHANGED <<idx, op, torn>>

EsRefresh ==
  /\ backend = "es" /\ idx # docs
  /\ idx' = docs
  /\ UNCHANGED <<docs, op, torn, said, writes>>

Write == \/ \E l \in Links : \/ \E t \in Texts \ {""} : BleveIndex(l, t) \/ EsIndex(l, t)
                             \/ \E r \in Ranks \ {0} : BleveUpdateScore(l, r) \/ EsUpdateScore(l, r)
         \/ BleveIndexStore \/ BleveUpdateScoreIndex \/ EsRefresh

-----------------------------------------------------------------------------
(* What a search finds: matching documents by rank, then by relevance.     *)
(* Elasticsearch adds the two up; its order is as fixed by the index.      *)
Matches(type, d) == d.text = "phrase" \/ (type = "match" /\ d.text = "words")

Found(type)    == {l \in Links : Matches(type, idx[l])}
Precedes(k, l) == idx[k].rank > idx[l].rank \/ (idx[k].rank = idx[l].rank /\ k < l)
Before(l, S)   == Cardinality({k \in S : Precedes(k, l)})

Hits(type) ==
  [i \in 1..Cardinality(Found(type)) |->
     CHOOSE l \in Found(type) : Before(l, Found(type)) = i - 1]

(* Indexing a document again keeps its rank, a new rank keeps its text,    *)
(* in whichever order crawler and ranker come; and with no call under way  *)
(* the search index holds what the map holds, except for documents whose   *)
(* rank could not be written there (bleve/indexer.go 75-90, 148-151,       *)
(* elasticsearch/indexer.go 64-69).                                        *)
NeitherUndoesTheOther ==
  op = Idle => /\ docs = said
               /\ backend = "bleve" => \A l \in Links \ torn : idx[l] = docs[l]
=============================================================================
