---------------------------- MODULE SearchProofs ----------------------------
(***************************************************************************)
(* Proofs about the text indexes of TextIndex for any set of links, texts  *)
(* and ranks and any number of writes, and about the front-end's handler   *)
(* that searches them, for any sizes of batches and pages.                 *)
(***************************************************************************)
EXTENDS Search, FiniteSetTheorems, TLAPS

(* Outside the documents whose rank could not be written, the search index *)
(* is the map, but for the document a call is about to write.              *)
SameBut(S) == \A l \in Links \ S : idx[l] = docs[l]

(* The documents are what was said, and a call under way leaves only its   *)
(* own document behind.                                                    *)
DocsInv ==
  /\ docs \in [Links -> Docs] /\ idx \in [Links -> Docs] /\ said \in [Links -> Docs]
  /\ torn \subseteq Links
  /\ backend = "es" => op = Idle
  /\ op = Idle => docs = said
  /\ backend = "bleve" /\ op = Idle => SameBut(torn)

IndexInv ==
  op # Idle /\ op.kind = "index" =>
    /\ op.link \in Links \ torn
    /\ op.doc = said[op.link] /\ op.doc = idx[op.link]
    /\ said = [docs EXCEPT ![op.link] = op.doc]
    /\ SameBut(torn \cup {op.link})

ScoreInv ==
  op # Idle /\ op.kind = "score" =>
    /\ op.link \in Links
    /\ docs = said
    /\ SameBut(torn \cup {op.link})

IInv == DocsInv /\ IndexInv /\ ScoreInv

-----------------------------------------------------------------------------
(* A document keeps the field that is not written.                         *)
LEMMA MakesDocs ==
  ASSUME DocsInv, NEW l \in Links, NEW t \in Texts, NEW r \in Ranks
  PROVE  /\ CopyDoc(l, t) \in Docs
         /\ Upserted(l, t) = CopyDoc(l, t)
         /\ Scored(l, r) \in Docs
<1>1. docs[l] \in Docs /\ 0 \in Ranks /\ "" \in Texts
  BY RanksAssumption, TextsAssumption DEF DocsInv
<1>2. CASE docs[l] = Absent
  <2>1. docs[l].rank = 0 /\ docs[l] = [text |-> "none", rank |-> 0]
    BY <1>2 DEF Absent
  <2>2. [docs[l] EXCEPT !.text = t] = [text |-> t, rank |-> 0]
    BY <2>1
  <2>3. CopyDoc(l, t) = [text |-> t, rank |-> 0] /\ Upserted(l, t) = CopyDoc(l, t)
    BY <2>1, <2>2 DEF CopyDoc, Upserted
  <2>4. Scored(l, r) = [text |-> "", rank |-> r]
    BY <1>2 DEF Scored
  <2>5. \A q \in Ranks, x \in Texts : [text |-> x, rank |-> q] \in Docs
    BY DEF Docs
  <2> QED
    BY <1>1, <2>3, <2>4, <2>5
<1>3. CASE docs[l] # Absent
  <2>1. docs[l] \in [text : Texts, rank : Ranks]
    BY <1>1, <1>3 DEF Docs
  <2> QED
    BY <1>3, <2>1 DEF CopyDoc, Upserted, Scored, Docs
<1> QED
  BY <1>2, <1>3

(* The search index is written first: the document is in no map yet.       *)
LEMMA IndexStep ==
  ASSUME IInv, NEW l \in Links, NEW t \in Texts, BleveIndex(l, t), backend' = backend
  PROVE  IInv'
<1> USE DEF BleveIndex, Begin
<1>1. docs = said /\ SameBut(torn)
  BY DEF IInv, DocsInv
<1>2. CASE UNCHANGED <<idx, op, torn, said>>
  BY <1>2 DEF IInv, DocsInv, IndexInv, ScoreInv, SameBut, storeVars
<1>3. CASE /\ idx' = [idx EXCEPT ![l] = CopyDoc(l, t)]
           /\ op' = [kind |-> "index", link |-> l, doc |-> CopyDoc(l, t)]
           /\ torn' = torn \ {l}
           /\ TextSaid(l, t)
  <2>1. CopyDoc(l, t) \in Docs /\ 0 \in Ranks
    BY MakesDocs, RanksAssumption DEF IInv
  <2>2. said' = [docs EXCEPT ![l] = CopyDoc(l, t)]
    BY <1>1, <1>3 DEF TextSaid, CopyDoc
  <2>3. op' # Idle /\ op'.kind = "index" /\ op'.link = l /\ op'.doc = CopyDoc(l, t)
    BY <1>3 DEF Idle
  <2>4. DocsInv'
    BY <1>3, <2>1, <2>2, <2>3 DEF IInv, DocsInv
  <2>5. IndexInv'
    BY <1>1, <1>3, <2>1, <2>2, <2>3 DEF IInv, DocsInv, IndexInv, SameBut
  <2> QED
    BY <2>3, <2>4, <2>5 DEF IInv, ScoreInv
<1> QED
  BY <1>2, <1>3

(* Then the map.                                                           *)
LEMMA IndexStoreStep ==
  ASSUME IInv, BleveIndexStore, backend' = backend
  PROVE  IInv'
<1> USE DEF BleveIndexStore
<1>1. op # Idle /\ op.kind = "index" /\ docs' = said /\ said' = said /\ op' = Idle
  BY DEF IInv, IndexInv
<1>2. \A l \in Links \ torn : idx[l] = docs'[l]
  BY <1>1 DEF IInv, IndexInv, DocsInv, SameBut
<1>3. DocsInv'
  BY <1>1, <1>2 DEF IInv, DocsInv, SameBut
<1> QED
  BY <1>1, <1>3 DEF IInv, IndexInv, ScoreInv

(* A new rank is written to the map first.                                 *)
LEMMA ScoreStep ==
  ASSUME IInv, NEW l \in Links, NEW r \in Ranks, BleveUpdateScore(l, r), backend' = backend
  PROVE  IInv'
<1> USE DEF BleveUpdateScore, Begin
<1>1. docs = said /\ SameBut(torn)
  BY DEF IInv, DocsInv
<1>2. Scored(l, r) \in Docs
  BY MakesDocs, TextsAssumption DEF IInv
<1>3. said' = docs'
  BY <1>1 DEF RankSaid, Scored
<1>4. op' # Idle /\ op'.kind = "score" /\ op'.link = l
  BY DEF Idle
<1>5. DocsInv'
  BY <1>2, <1>3, <1>4 DEF IInv, DocsInv
<1>6. ScoreInv'
  BY <1>1, <1>3, <1>4 DEF IInv, DocsInv, ScoreInv, SameBut
<1> QED
  BY <1>4, <1>5, <1>6 DEF IInv, IndexInv

(* Then to the search index, or the document is torn.                      *)
LEMMA ScoreIndexStep ==
  ASSUME IInv, BleveUpdateScoreIndex, backend' = backend
  PROVE  IInv'
<1> USE DEF BleveUpdateScoreIndex
<1>1. op # Idle /\ op.kind = "score" /\ op.link \in Links /\ docs = said /\ SameBut(torn \cup {op.link})
  BY DEF IInv, ScoreInv
<1>2. op' = Idle /\ docs' = docs /\ said' = said
  OBVIOUS
<1>3. DocsInv' /\ SameBut(torn)'
  <2>1. CASE idx' = [idx EXCEPT ![op.link] = docs[op.link]] /\ torn' = torn \ {op.link}
    BY <1>1, <1>2, <2>1 DEF IInv, DocsInv, SameBut
  <2>2. CASE torn' = torn \cup {op.link} /\ UNCHANGED idx
    BY <1>1, <1>2, <2>2 DEF IInv, DocsInv, SameBut
  <2> QED
    BY <2>1, <2>2
<1> QED
  BY <1>2, <1>3 DEF IInv, IndexInv, ScoreInv

(* Elasticsearch writes a document in one request.                         *)
LEMMA EsStep ==
  ASSUME IInv, NEW l \in Links, NEW t \in Texts, NEW r \in Ranks,
         backend' = backend,
         EsIndex(l, t) \/ EsUpdateScore(l, r) \/ EsRefresh
  PROVE  IInv'
<1>1. backend = "es" /\ op = Idle /\ op' = Idle /\ docs = said /\ torn' = torn
  BY DEF IInv, DocsInv, EsIndex, EsUpdateScore, EsRefresh, Begin
<1>2. CopyDoc(l, t) \in Docs /\ Upserted(l, t) = CopyDoc(l, t) /\ Scored(l, r) \in Docs
  BY MakesDocs DEF IInv
<1>3. docs' = said' /\ docs' \in [Links -> Docs] /\ idx' \in [Links -> Docs]
  <2>1. CASE EsIndex(l, t)
    BY <1>1, <1>2, <2>1 DEF IInv, DocsInv, EsIndex, TextSaid, CopyDoc
  <2>2. CASE EsUpdateScore(l, r)
    <3>1. docs' \in [Links -> Docs] /\ idx' = idx
      BY <1>1, <1>2, <2>2 DEF IInv, DocsInv, EsUpdateScore
    <3>2. docs' = said'
      BY <1>1, <2>2 DEF EsUpdateScore, RankSaid, Scored
    <3> QED
      BY <3>1, <3>2 DEF IInv, DocsInv
  <2>3. CASE EsRefresh
    BY <1>1, <2>3 DEF IInv, DocsInv, EsRefresh
  <2> QED
    BY <2>1, <2>2, <2>3
<1> QED
  BY <1>1, <1>3 DEF IInv, DocsInv, IndexInv, ScoreInv

(* Rank and relevance order the documents.                                 *)
LEMMA PrecedesOrder ==
  ASSUME idx \in [Links -> Docs]
  PROVE  /\ \A l \in Links : ~Precedes(l, l)
         /\ \A k, l \in Links : k # l => Precedes(k, l) \/ Precedes(l, k)
         /\ \A k, l, m \in Links : Precedes(k, l) /\ Precedes(l, m) => Precedes(k, m)
<1>1. \A l \in Links : idx[l].rank \in Int /\ l \in Int
  <2>1. \A d \in Docs : d.rank \in Int
    <3>1. Absent.rank \in Int
      BY DEF Absent
    <3>2. Ranks \subseteq Int
      BY RanksAssumption
    <3> QED
      BY <3>1, <3>2 DEF Docs
  <2> QED
    BY <2>1, LinksAssumption
<1> QED
  BY <1>1 DEF Precedes

(* So the number of documents before one is its place.                     *)
LEMMA BeforeOrder ==
  ASSUME idx \in [Links -> Docs], NEW S \in SUBSET Links
  PROVE  /\ IsFiniteSet(S) /\ Cardinality(S) \in Nat
         /\ \A l \in S : Before(l, S) \in 0..(Cardinality(S) - 1)
         /\ \A k, l \in S : Precedes(k, l) => Before(k, S) < Before(l, S)
<1> DEFINE B(l) == {k \in S : Precedes(k, l)}
<1>1. IsFiniteSet(S) /\ Cardinality(S) \in Nat
  BY LinksAssumption, FS_Subset, FS_CardinalityType
<1>2. \A l \in S : IsFiniteSet(B(l)) /\ Cardinality(B(l)) \in Nat /\ Before(l, S) = Cardinality(B(l))
  BY <1>1, FS_Subset, FS_CardinalityType DEF Before
<1>3. ASSUME NEW l \in S PROVE Before(l, S) \in 0..(Cardinality(S) - 1)
  <2>1. B(l) \subseteq S \ {l}
    BY PrecedesOrder
  <2>2. IsFiniteSet(S \ {l}) /\ Cardinality(S \ {l}) = Cardinality(S) - 1
    BY <1>1, FS_RemoveElement
  <2>3. Cardinality(B(l)) <= Cardinality(S) - 1
    BY <2>1, <2>2, FS_Subset
  <2> QED
    BY <1>1, <1>2, <2>3
<1>4. ASSUME NEW k \in S, NEW l \in S, Precedes(k, l) PROVE Before(k, S) < Before(l, S)
  <2>1. k \notin B(k) /\ B(k) \cup {k} \subseteq B(l)
    BY <1>4, PrecedesOrder
  <2>2. Cardinality(B(k) \cup {k}) = Cardinality(B(k)) + 1
    BY <1>2, <2>1, FS_AddElement
  <2>3. Cardinality(B(k) \cup {k}) <= Cardinality(B(l))
    BY <1>2, <2>1, FS_Subset
  <2>4. /\ Before(k, S) = Cardinality(B(k)) /\ Cardinality(B(k)) \in Nat
        /\ Before(l, S) = Cardinality(B(l)) /\ Cardinality(B(l)) \in Nat
    BY <1>2
  <2> HIDE DEF B
  <2> QED
    BY <2>2, <2>3, <2>4
<1> QED
  BY <1>1, <1>3, <1>4

(* A search finds every matching document once: its result is a sequence   *)
(* of them, as long as there are matches, in which each has its place.     *)
LEMMA HitsOrdered ==
  ASSUME idx \in [Links -> Docs], NEW type
  PROVE  /\ Cardinality(Found(type)) \in 0..Cardinality(Links)
         /\ Hits(type) \in Seq(Links) /\ Len(Hits(type)) = Cardinality(Found(type))
         /\ \A i \in 1..Len(Hits(type)) :
              Hits(type)[i] \in Found(type) /\ Before(Hits(type)[i], Found(type)) = i - 1
<1> DEFINE S == Found(type)
           n == Cardinality(S)
           place == [l \in S |-> Before(l, S)]
<1>1. S \subseteq Links
  BY DEF Found
<1>2. /\ IsFiniteSet(S) /\ n \in Nat
      /\ \A l \in S : Before(l, S) \in 0..(n - 1)
      /\ \A k, l \in S : Precedes(k, l) => Before(k, S) < Before(l, S)
  BY <1>1, BeforeOrder
<1>3. n <= Cardinality(Links) /\ Cardinality(Links) \in Nat
  BY <1>1, LinksAssumption, FS_Subset, FS_CardinalityType
<1> HIDE DEF n, S
<1>4. place \in Injection(S, 0..(n - 1))
  <2>1. place \in [S -> 0..(n - 1)]
    BY <1>2
  <2>2. ASSUME NEW k \in S, NEW l \in S, place[k] = place[l] PROVE k = l
    BY <1>1, <1>2, <2>2, PrecedesOrder
  <2> QED
    BY <2>1, <2>2 DEF Injection, IsInjective
<1>5. IsFiniteSet(0..(n - 1)) /\ Cardinality(0..(n - 1)) = n
  BY <1>2, FS_Interval
<1>6. place \in Surjection(S, 0..(n - 1))
  BY <1>2, <1>4, <1>5, FS_Injection DEF n
<1>7. ASSUME NEW i \in 1..n PROVE \E l \in S : Before(l, S) = i - 1
  <2>1. i - 1 \in 0..(n - 1)
    BY <1>2
  <2> QED
    BY <1>6, <2>1 DEF Surjection
<1>8. Hits(type) = [i \in 1..n |-> CHOOSE l \in S : Before(l, S) = i - 1]
  BY DEF Hits, n, S
<1>9. ASSUME NEW i \in 1..n PROVE Hits(type)[i] \in S /\ Before(Hits(type)[i], S) = i - 1
  BY <1>7, <1>8
<1>10. Hits(type) \in Seq(Links) /\ Len(Hits(type)) = n
  BY <1>1, <1>2, <1>8, <1>9
<1> QED
  BY <1>2, <1>3, <1>9, <1>10 DEF n, S
-----------------------------------------------------------------------------
(* A handler of the front-end.                                             *)

(* A document that the search index shows is in the map, whenever nobody   *)
(* holds the lock.                                                         *)
StoredInv ==
  backend = "bleve" =>
    /\ \A l \in torn : docs[l] # Absent
    /\ op # Idle /\ op.kind = "score" => docs[op.link] # Absent

(* The iterator stands inside its batch, a short batch is the last one,    *)
(* and while no match disappears a search finds no fewer than the last.    *)
IterInv ==
  pc = "iterate" =>
    /\ cumIdx = from + rsIdx
    /\ Len(hits) < BatchSize => from + Len(hits) >= total
    /\ ~lost => total <= Cardinality(Found(query.type))
    /\ backend = "bleve" => \A i \in 1..Len(hits) : idx[hits[i]] # Absent

(* The pages followed from the first one show the beginning of the hits,   *)
(* the batch and the page being made go on where they end.                 *)
PageInv ==
  first = "match" =>
    /\ query.type = "match"
    /\ pc = "iterate" =>
         /\ total = Len(Hits("match"))
         /\ query.offset <= total /\ Len(shown) = query.offset
         /\ \A i \in 1..Len(shown) : shown[i] = Hits("match")[i]
         /\ \A i \in 1..Len(hits) : from + i <= total /\ hits[i] = Hits("match")[from + i]
         /\ \A i \in 1..Len(matched) :
              query.offset + i <= total /\ matched[i] = Hits("match")[query.offset + i]
    /\ pc = "rendered" =>
         /\ Len(shown) <= Len(Hits("match"))
         /\ \A i \in 1..Len(shown) : shown[i] = Hits("match")[i]
         /\ pagination.next = IF Len(shown) < Len(Hits("match")) THEN Len(shown) ELSE NoLink

HandlerInv == IterInv /\ PageInv /\ FailsOnlyDisturbed

-----------------------------------------------------------------------------
(* What a search finds depends on the index alone.                         *)
LEMMA HitsSame ==
  ASSUME idx' = idx
  PROVE  \A type : Found(type)' = Found(type) /\ Hits(type)' = Hits(type)
  BY DEF Hits, Found, Before, Precedes, Matches

(* A batch is the part of the hits at its position.                        *)
LEMMA BatchPart ==
  ASSUME idx \in [Links -> Docs], NEW type, NEW at \in Nat
  PROVE  /\ Batch(type, at) \in Seq(Links) /\ Len(Batch(type, at)) <= BatchSize
         /\ Len(Batch(type, at)) < BatchSize => at + Len(Batch(type, at)) >= Len(Hits(type))
         /\ at < Len(Hits(type)) => Len(Batch(type, at)) > 0
         /\ \A i \in 1..Len(Batch(type, at)) :
              /\ at + i <= Len(Hits(type)) /\ Batch(type, at)[i] = Hits(type)[at + i]
              /\ idx[Batch(type, at)[i]] # Absent
<1> DEFINE h == Hits(type)
           to == Min({at + BatchSize, Len(h)})
<1>1. /\ h \in Seq(Links) /\ Len(h) \in Nat
      /\ \A i \in 1..Len(h) : h[i] \in Found(type)
  BY HitsOrdered
<1>2. BatchSize \in Nat \ {0}
  BY PageAssumption
<1>3. Batch(type, at) = SubSeq(h, at + 1, to)
  BY DEF Batch
<1>4. \A l \in Found(type) : idx[l] # Absent
  BY DEF Found, Matches, Absent
<1> HIDE DEF h
<1>5. /\ to <= at + BatchSize /\ to <= Len(h) /\ to \in Nat
      /\ to = at + BatchSize \/ to = Len(h)
  <2>1. \E x \in {at + BatchSize, Len(h)} : \A y \in {at + BatchSize, Len(h)} : x <= y
    BY <1>1, <1>2
  <2> QED
    BY <1>1, <1>2, <2>1 DEF Min
<1> HIDE DEF to
<1>6. CASE at < to
  <2>1. Len(SubSeq(h, at + 1, to)) = to - at /\ SubSeq(h, at + 1, to) \in Seq(Links)
    BY <1>1, <1>5, <1>6
  <2>2. \A i \in 1..(to - at) : SubSeq(h, at + 1, to)[i] = h[at + i] /\ at + i \in 1..Len(h)
    BY <1>1, <1>5, <1>6
  <2> QED
    BY <1>1, <1>2, <1>3, <1>4, <1>5, <1>6, <2>1, <2>2 DEF h
<1>7. CASE at >= to
  <2>1. SubSeq(h, at + 1, to) = <<>>
    BY <1>1, <1>5, <1>7
  <2> QED
    BY <1>1, <1>2, <1>3, <1>5, <1>7, <2>1 DEF h
<1> QED
  BY <1>5, <1>6, <1>7

-----------------------------------------------------------------------------
(* A write to an index leaves every document it showed.                    *)
LEMMA WriteStep ==
  ASSUME IInv, IInv', StoreTypeOK, StoredInv, Write, backend' = backend
  PROVE  /\ StoreTypeOK' /\ StoredInv'
         /\ backend = "bleve" => \A l \in Links : idx[l] # Absent => idx'[l] # Absent
<1> USE DEF Begin
<1>1. /\ docs' \in [Links -> Docs] /\ idx' \in [Links -> Docs] /\ said' \in [Links -> Docs]
      /\ torn' \subseteq Links
  BY DEF IInv, DocsInv
<1>2. \A l \in Links : \A t \in Texts : CopyDoc(l, t) # Absent
  BY TextsAssumption DEF CopyDoc, Absent
<1>3. ASSUME NEW l \in Links, NEW r \in Ranks PROVE Scored(l, r) # Absent
  <2>1. docs[l] # Absent => docs[l].text \in Texts
    BY DEF IInv, DocsInv, Docs
  <2> QED
    BY <2>1, TextsAssumption DEF Scored, Absent
<1>4. ASSUME NEW l \in Links, NEW t \in Texts, BleveIndex(l, t)
      PROVE  /\ StoreTypeOK' /\ StoredInv'
             /\ \A k \in Links : idx[k] # Absent => idx'[k] # Absent
  <2>1. docs' = docs /\ torn' \subseteq torn
    BY <1>4 DEF BleveIndex
  <2>2. op' = Idle \/ (op'.kind = "index" /\ op'.link = l)
    BY <1>4 DEF BleveIndex
  <2>3. writes' \in 0..MaxWrites
    BY <1>4, BoundAssumption DEF BleveIndex, StoreTypeOK
  <2>4. \A k \in Links : idx[k] # Absent => idx'[k] # Absent
    BY <1>2, <1>4 DEF BleveIndex, StoreTypeOK
  <2>5. StoreTypeOK'
    BY <1>1, <2>2, <2>3 DEF StoreTypeOK
  <2>6. StoredInv'
    BY <2>1, <2>2 DEF StoredInv
  <2> QED
    BY <2>4, <2>5, <2>6
<1>5. CASE BleveIndexStore
  <2>1. op # Idle /\ op.kind = "index" /\ op' = Idle /\ UNCHANGED <<idx, torn, writes>>
    BY <1>5 DEF BleveIndexStore
  <2>2. op.link \notin torn
    BY <2>1 DEF IInv, IndexInv
  <2>3. \A l \in torn : docs'[l] = docs[l]
    BY <1>5, <2>1, <2>2 DEF BleveIndexStore, StoreTypeOK
  <2> QED
    BY <1>1, <2>1, <2>3 DEF StoreTypeOK, StoredInv
<1>6. ASSUME NEW l \in Links, NEW r \in Ranks, BleveUpdateScore(l, r)
      PROVE  StoreTypeOK' /\ StoredInv' /\ idx' = idx
  <2>1. /\ op' = [kind |-> "score", link |-> l] /\ UNCHANGED <<idx, torn>>
        /\ docs' = [docs EXCEPT ![l] = Scored(l, r)] /\ writes' \in 0..MaxWrites
    BY <1>6, BoundAssumption DEF BleveUpdateScore, StoreTypeOK
  <2>2. StoreTypeOK'
    BY <1>1, <2>1 DEF StoreTypeOK
  <2>3. StoredInv'
    BY <1>3, <2>1 DEF StoredInv, StoreTypeOK
  <2> QED
    BY <2>1, <2>2, <2>3
<1>7. CASE BleveUpdateScoreIndex
  <2>1. /\ op # Idle /\ op.kind = "score" /\ op' = Idle /\ docs' = docs
        /\ torn' \subseteq torn \cup {op.link} /\ writes' = writes
    BY <1>7 DEF BleveUpdateScoreIndex
  <2>2. backend = "bleve" /\ op.link \in Links
    BY <2>1, BoundAssumption DEF IInv, DocsInv, ScoreInv, StoreTypeOK
  <2>3. docs[op.link] # Absent
    BY <2>1, <2>2 DEF StoredInv
  <2>4. \A l \in Links : idx[l] # Absent => idx'[l] # Absent
    BY <1>7, <2>2, <2>3 DEF BleveUpdateScoreIndex, StoreTypeOK
  <2> QED
    BY <1>1, <2>1, <2>3, <2>4 DEF StoreTypeOK, StoredInv
<1>8. ASSUME backend = "es", op' = op, writes' \in 0..MaxWrites PROVE StoreTypeOK' /\ StoredInv'
  BY <1>1, <1>8 DEF StoreTypeOK, StoredInv
<1>9. CASE EsRefresh
  BY <1>8, <1>9 DEF EsRefresh, StoreTypeOK
<1>10. ASSUME NEW l \in Links, NEW t \in Texts, EsIndex(l, t)
       PROVE  backend = "es" /\ StoreTypeOK' /\ StoredInv'
  BY <1>8, <1>10, BoundAssumption DEF EsIndex, StoreTypeOK
<1>11. ASSUME NEW l \in Links, NEW r \in Ranks, EsUpdateScore(l, r)
       PROVE  backend = "es" /\ StoreTypeOK' /\ StoredInv'
  BY <1>8, <1>11, BoundAssumption DEF EsUpdateScore, StoreTypeOK
<1>12. EsRefresh => backend = "es"
  BY DEF EsRefresh
<1> QED
  BY <1>4, <1>5, <1>6, <1>7, <1>9, <1>10, <1>11, <1>12, Zenon DEF Write
-----------------------------------------------------------------------------
(* The invariant holds of the index that a behaviour begins with.          *)
LEMMA InitInv == Init => IInv
  BY IndexedAssumption DEF Init, StoreInit, IInv, DocsInv, IndexInv, ScoreInv, SameBut

(* A handler changes nothing of it.                                        *)
LEMMA Inductive == IInv /\ [Next]_vars => IInv'
<1> SUFFICES ASSUME IInv, [Next]_vars PROVE IInv'
  OBVIOUS
<1>1. CASE UNCHANGED <<backend, storeVars>>
  BY <1>1 DEF storeVars, IInv, DocsInv, IndexInv, ScoreInv, SameBut
<1>2. CASE Write /\ UNCHANGED backend
  <2> USE <1>2
  <2>1. ASSUME NEW l \in Links, NEW t \in Texts \ {""}, BleveIndex(l, t) \/ EsIndex(l, t) PROVE IInv'
    <3>1. 0 \in Ranks
      BY RanksAssumption
    <3> QED
      BY <2>1, <3>1, IndexStep, EsStep
  <2>2. ASSUME NEW l \in Links, NEW r \in Ranks \ {0},
               BleveUpdateScore(l, r) \/ EsUpdateScore(l, r)
        PROVE  IInv'
    <3>1. "" \in Texts
      BY TextsAssumption
    <3> QED
      BY <2>2, <3>1, ScoreStep, EsStep
  <2>3. CASE EsRefresh
    BY <2>3 DEF EsRefresh, IInv, DocsInv, IndexInv, ScoreInv
  <2> QED
    BY <2>1, <2>2, <2>3, IndexStoreStep, ScoreIndexStep DEF Write
<1> QED
  BY <1>1, <1>2 DEF Next, Change, NewQuery, FollowNext, FollowPrev, Request, Handler,
     FetchBatch, NextDocument, NoMoreHits, vars, storeVars

(* A request of the user begins with a search.                             *)
LEMMA RequestStep ==
  ASSUME TypeOK, NEW type \in {"match", "phrase"}, NEW offset \in Offsets,
         Request(type, offset),
         first' \in {"none", "match", "phrase"}, shown' \in Seq(Links),
         first' = "match" =>
           /\ type = "match" /\ offset <= Len(Hits("match")) /\ Len(shown') = offset
           /\ \A i \in 1..Len(shown') : shown'[i] = Hits("match")[i]
  PROVE  TypeOK' /\ HandlerInv'
<1> USE DEF Request
<1>1. /\ UNCHANGED <<backend, storeVars, pagination>>
      /\ query' = [type |-> type, offset |-> offset]
      /\ matched' = <<>> /\ from' = offset /\ cumIdx' = offset /\ rsIdx' = 0 /\ lost' = FALSE
      /\ pc' \in {"iterate", "error"}
  OBVIOUS
<1>2. idx \in [Links -> Docs] /\ idx' = idx /\ StoreTypeOK'
  BY <1>1 DEF TypeOK, StoreTypeOK, storeVars
<1>3. offset \in Nat
  BY LinksAssumption, FS_CardinalityType DEF Offsets
<1>4. /\ Found(type)' = Found(type) /\ Hits(type)' = Hits(type)
      /\ Found(query.type)' = Found(type) /\ Hits("match")' = Hits("match")
  BY <1>1, <1>2, HitsSame DEF Found, Matches
<1>5. CASE pc' = "error"
  <2>1. failed' = TRUE /\ hits' = <<>> /\ total' = 0
    BY <1>5
  <2>2. TypeOK'
    <3>1. BatchSize \in Nat /\ ResultsPerPage \in Nat /\ Cardinality(Links) \in Nat
      BY PageAssumption, LinksAssumption, FS_CardinalityType
    <3>2. query' \in [type : {"match", "phrase"}, offset : Offsets]
      BY <1>1
    <3>3. hits' \in Seq(Links) /\ Len(hits') = 0 /\ matched' \in Seq(Links) /\ Len(matched') = 0
      BY <1>1, <2>1
    <3>4. pc' \in {"idle", "iterate", "rendered", "error", "panic"} /\ (pc' # "iterate")
      BY <1>5
    <3>5. rsIdx' \in 0..Len(hits') /\ total' \in 0..Cardinality(Links) /\ cumIdx' \in Nat /\ from' \in Nat
      BY <1>1, <1>3, <2>1, <3>1, <3>3
    <3>6. Len(hits') <= BatchSize /\ Len(matched') <= ResultsPerPage
      BY <3>1, <3>3
    <3>7. pagination' \in [type : {"match"}, prev : Offsets \cup {NoLink}, next : Offsets \cup {NoLink}]
      BY <1>1 DEF TypeOK
    <3>8. failed' \in BOOLEAN /\ lost' \in BOOLEAN
      BY <1>1, <2>1
    <3> QED
      BY <1>2, <3>2, <3>3, <3>4, <3>5, <3>6, <3>7, <3>8 DEF TypeOK
  <2> QED
    BY <1>1, <1>5, <2>1, <2>2 DEF HandlerInv, IterInv, PageInv, FailsOnlyDisturbed
<1>6. CASE pc' = "iterate"
  <2>1. failed' = FALSE /\ hits' = Batch(type, offset) /\ total' = Len(Hits(type))
    BY <1>6
  <2>2. /\ hits' \in Seq(Links) /\ Len(hits') <= BatchSize
        /\ Len(hits') < BatchSize => offset + Len(hits') >= total'
        /\ \A i \in 1..Len(hits') : /\ offset + i <= total' /\ hits'[i] = Hits(type)[offset + i]
                                    /\ idx[hits'[i]] # Absent
    BY <1>2, <1>3, <2>1, BatchPart
  <2>3. total' = Cardinality(Found(type)) /\ total' \in 0..Cardinality(Links)
    BY <1>2, <2>1, HitsOrdered
  <2>4. TypeOK'
    <3>1. BatchSize \in Nat /\ ResultsPerPage \in Nat
      BY PageAssumption
    <3>2. query' \in [type : {"match", "phrase"}, offset : Offsets] /\ query'.offset = offset
      BY <1>1
    <3>3. matched' \in Seq(Links) /\ Len(matched') = 0
      BY <1>1
    <3>4. pc' \in {"idle", "iterate", "rendered", "error", "panic"} /\ cumIdx' = offset + Len(matched')
      BY <1>1, <1>3, <1>6, <3>3
    <3>5. rsIdx' \in 0..Len(hits') /\ cumIdx' \in Nat /\ from' \in Nat /\ Len(matched') <= ResultsPerPage
      BY <1>1, <1>3, <2>2, <3>1, <3>3
    <3>6. pagination' \in [type : {"match"}, prev : Offsets \cup {NoLink}, next : Offsets \cup {NoLink}]
      BY <1>1 DEF TypeOK
    <3>7. failed' \in BOOLEAN /\ lost' \in BOOLEAN
      BY <1>1, <2>1
    <3> QED
      BY <1>2, <2>2, <2>3, <3>2, <3>3, <3>4, <3>5, <3>6, <3>7 DEF TypeOK
  <2>5. IterInv'
    BY <1>1, <1>2, <1>3, <1>4, <2>2, <2>3 DEF IterInv
  <2>6. PageInv'
    BY <1>1, <1>3, <1>4, <1>6, <2>1, <2>2 DEF PageInv
  <2> QED
    BY <1>6, <2>4, <2>5, <2>6 DEF HandlerInv, FailsOnlyDisturbed
<1> QED
  BY <1>1, <1>5, <1>6

(* The index changes under the handler.                                    *)
LEMMA ChangeStep ==
  ASSUME TypeOK, IInv, IInv', StoredInv, HandlerInv, Change
  PROVE  TypeOK' /\ StoredInv' /\ HandlerInv'
<1>1. /\ UNCHANGED <<backend, iterVars, pageVars, failed, shown>>
      /\ first' = IF idx' # idx \/ docs' # docs THEN "none" ELSE first
      /\ lost' = (lost \/ \E l \in Links : /\ Matches(query.type, idx[l])
                                           /\ ~Matches(query.type, idx'[l]))
  BY DEF Change
<1>2. /\ StoreTypeOK' /\ StoredInv'
      /\ backend = "bleve" => \A l \in Links : idx[l] # Absent => idx'[l] # Absent
  BY WriteStep DEF Change, TypeOK
<1>3. TypeOK'
  BY <1>1, <1>2 DEF TypeOK, iterVars, pageVars
<1>4. ASSUME ~lost' PROVE Cardinality(Found(query.type)) <= Cardinality(Found(query.type)')
  <2>1. Found(query.type) \subseteq Found(query.type)' /\ Found(query.type)' \subseteq Links
    BY <1>1, <1>4 DEF Found, pageVars
  <2>2. IsFiniteSet(Found(query.type)')
    BY <2>1, LinksAssumption, FS_Subset
  <2> QED
    BY <2>1, <2>2, FS_Subset
<1>5. IterInv'
  <2>1. CASE pc = "iterate"
    <3>1. ~lost' => total <= Cardinality(Found(query.type)')
      <4>1. Cardinality(Found(query.type)) \in Nat /\ Cardinality(Found(query.type)') \in Nat /\ total \in Nat
        <5>1. Found(query.type) \subseteq Links /\ Found(query.type)' \subseteq Links
          BY DEF Found
        <5>2. total \in Nat
          BY LinksAssumption, FS_CardinalityType DEF TypeOK
        <5> QED
          BY <5>1, <5>2, LinksAssumption, FS_Subset, FS_CardinalityType
      <4>2. ~lost' => ~lost
        BY <1>1
      <4> QED
        BY <2>1, <4>1, <4>2, <1>4 DEF HandlerInv, IterInv
    <3>2. backend = "bleve" => \A i \in 1..Len(hits) : idx'[hits[i]] # Absent
      BY <1>2, <2>1 DEF HandlerInv, IterInv, TypeOK
    <3> QED
      BY <1>1, <2>1, <3>1, <3>2 DEF HandlerInv, IterInv, iterVars, pageVars
  <2> QED
    BY <1>1, <2>1 DEF IterInv, pageVars
<1>6. PageInv'
  <2>1. CASE first' = "match"
    <3>1. idx' = idx /\ first = "match"
      BY <1>1, <2>1
    <3>2. Hits("match")' = Hits("match")
      BY <3>1, HitsSame
    <3> QED
      BY <1>1, <3>1, <3>2 DEF HandlerInv, PageInv, iterVars, pageVars
  <2> QED
    BY <2>1 DEF PageInv
<1>7. FailsOnlyDisturbed'
  BY <1>1 DEF HandlerInv, FailsOnlyDisturbed, pageVars
<1> QED
  BY <1>2, <1>3, <1>5, <1>6, <1>7 DEF HandlerInv

(* The next batch begins where the last one ended.                         *)
LEMMA FetchStep ==
  ASSUME TypeOK, HandlerInv, FetchBatch
  PROVE  TypeOK' /\ HandlerInv'
<1>1. /\ pc = "iterate" /\ cumIdx < total /\ rsIdx >= Len(hits)
      /\ from' = from + BatchSize
      /\ UNCHANGED <<backend, storeVars, cumIdx, query, matched, pagination, lost, first, shown>>
  BY DEF FetchBatch, MoreHits, BatchUsedUp
<1>2. /\ idx \in [Links -> Docs] /\ idx' = idx /\ StoreTypeOK'
      /\ from \in Nat /\ BatchSize \in Nat \ {0} /\ total \in Nat /\ cumIdx \in Nat
      /\ rsIdx = Len(hits) /\ Len(hits) \in 0..BatchSize
  BY <1>1, PageAssumption, LinksAssumption, FS_CardinalityType DEF TypeOK, StoreTypeOK, storeVars
<1>3. cumIdx = from + BatchSize
  BY <1>1, <1>2 DEF HandlerInv, IterInv
<1> SUFFICES ASSUME NEW type, type = query.type PROVE TypeOK' /\ HandlerInv'
  OBVIOUS
<1>4. /\ Found(type)' = Found(type) /\ Hits(type)' = Hits(type)
      /\ Found(query.type)' = Found(type) /\ Hits("match")' = Hits("match")
  BY <1>1, <1>2, HitsSame DEF Found, Matches
<1>5. CASE failed' = TRUE /\ pc' \in {"panic", "error"} /\ UNCHANGED <<hits, total, rsIdx>>
  <2>1. TypeOK'
    BY <1>1, <1>2, <1>5 DEF TypeOK
  <2> QED
    BY <1>1, <1>5, <2>1 DEF HandlerInv, IterInv, PageInv, FailsOnlyDisturbed
<1>6. CASE /\ hits' = Batch(type, from + BatchSize) /\ total' = Len(Hits(type)) /\ rsIdx' = 0
           /\ pc' = IF hits' = <<>> THEN "panic" ELSE "iterate"
           /\ failed' = failed
  <2>1. /\ hits' \in Seq(Links) /\ Len(hits') <= BatchSize
        /\ Len(hits') < BatchSize => cumIdx + Len(hits') >= total'
        /\ cumIdx < total' => Len(hits') > 0
        /\ \A i \in 1..Len(hits') : /\ cumIdx + i <= total' /\ hits'[i] = Hits(type)[cumIdx + i]
                                    /\ idx[hits'[i]] # Absent
    BY <1>2, <1>3, <1>6, BatchPart
  <2>2. total' = Cardinality(Found(type)) /\ total' \in 0..Cardinality(Links)
    BY <1>2, <1>6, HitsOrdered
  <2>3. TypeOK'
    BY <1>1, <1>2, <1>3, <1>6, <2>1, <2>2 DEF TypeOK
  <2>4. ~lost => pc' = "iterate"
    <3>1. ASSUME ~lost PROVE total <= total'
      BY <1>1, <2>2, <3>1 DEF HandlerInv, IterInv
    <3> QED
      BY <1>1, <1>2, <1>6, <2>1, <2>2, <3>1
  <2>5. IterInv'
    BY <1>1, <1>2, <1>3, <1>4, <1>6, <2>1, <2>2 DEF IterInv
  <2>6. PageInv'
    <3>1. CASE first = "match" /\ pc' = "iterate"
      <4>1. total' = Len(Hits("match")) /\ type = "match" /\ total = total'
        BY <1>1, <1>6, <3>1 DEF HandlerInv, PageInv
      <4>2. \A i \in 1..Len(hits') : from' + i <= total' /\ hits'[i] = Hits("match")[from' + i]
        BY <1>1, <1>3, <2>1, <4>1
      <4> QED
        BY <1>1, <1>4, <3>1, <4>1, <4>2 DEF HandlerInv, PageInv
    <3> QED
      BY <1>1, <1>6, <3>1 DEF HandlerInv, PageInv
  <2>7. FailsOnlyDisturbed'
    BY <1>1, <1>6, <2>4 DEF FailsOnlyDisturbed
  <2> QED
    BY <2>3, <2>5, <2>6, <2>7 DEF HandlerInv
<1> QED
  BY <1>5, <1>6 DEF FetchBatch

(* The page shows what follows the pages before it.                        *)
LEMMA RenderStep ==
  ASSUME TypeOK, IterInv, PageInv, pc = "iterate", Render,
         UNCHANGED <<backend, storeVars, query, total, hits, matched, failed, lost, first>>,
         rsIdx' \in 0..Len(hits), cumIdx' \in Nat, from' = from,
         cumIdx >= total \/ Len(matched) = ResultsPerPage
  PROVE  TypeOK' /\ HandlerInv'
<1> DEFINE upTo == query.offset + Len(matched)
<1>1. /\ pc' = "rendered" /\ shown' = shown \o matched
      /\ pagination'.next = IF upTo < total THEN upTo ELSE NoLink
      /\ pagination'.type = "match"
  BY DEF Render
<1>c. Cardinality(Links) \in Nat
  BY LinksAssumption, FS_CardinalityType
<1>t. total \in Nat /\ query.offset \in Nat /\ shown \in Seq(Links) /\ matched \in Seq(Links)
  BY <1>c DEF TypeOK, Offsets
<1>2. /\ Cardinality(Links) \in Nat /\ total \in Nat /\ upTo \in Nat /\ query.offset \in Nat
      /\ shown \in Seq(Links) /\ matched \in Seq(Links) /\ StoreTypeOK' /\ idx' = idx
  BY <1>c, <1>t DEF TypeOK, StoreTypeOK, storeVars
<1>3. pagination' \in [type : {"match"}, prev : Offsets \cup {NoLink}, next : Offsets \cup {NoLink}]
  <2>1. ResultsPerPage \in Nat /\ query.offset \in Offsets /\ total \in 0..Cardinality(Links)
    BY PageAssumption DEF TypeOK
  <2> QED
    <3>1. (upTo < total => upTo \in Offsets) /\ 0 \in Offsets
      BY <1>2, <2>1 DEF Offsets
    <3>2. ASSUME query.offset # 0, query.offset - ResultsPerPage > 0
          PROVE  query.offset - ResultsPerPage \in Offsets
      BY <1>c, <1>t, <2>1, <3>2 DEF Offsets
    <3> QED
      BY <3>1, <3>2 DEF Render
<1>4. TypeOK'
  BY <1>1, <1>2, <1>3 DEF TypeOK
<1>5. PageInv'
  <2>1. CASE first = "match"
    <3>1. Hits("match")' = Hits("match")
      BY <1>2, HitsSame
    <3>2. /\ total = Len(Hits("match")) /\ query.offset <= total /\ Len(shown) = query.offset
          /\ \A i \in 1..Len(shown) : shown[i] = Hits("match")[i]
          /\ \A i \in 1..Len(matched) :
               query.offset + i <= total /\ matched[i] = Hits("match")[query.offset + i]
      BY <2>1 DEF PageInv
    <3>3. upTo <= total
      BY <1>2, <3>2
    <3>4. Len(shown') = upTo
      BY <1>1, <1>2, <3>2
    <3>5. \A i \in 1..Len(shown') : shown'[i] = Hits("match")[i]
      <4> TAKE i \in 1..Len(shown')
      <4>1. CASE i <= Len(shown)
        BY <1>1, <1>2, <3>2, <4>1
      <4>2. CASE i > Len(shown)
        <5>0. /\ Len(shown) \in Nat /\ Len(matched) \in Nat /\ i \in Nat
              /\ i <= Len(shown) + Len(matched)
          BY <1>2, <3>2, <3>4
        <5>1. i - Len(shown) \in 1..Len(matched) /\ shown'[i] = matched[i - Len(shown)]
          BY <1>1, <1>2, <4>2, <5>0
        <5>2. query.offset + (i - Len(shown)) = i
          BY <1>2, <3>2, <3>4
        <5> QED
          BY <3>2, <5>1, <5>2
      <4> QED
        BY <1>2, <3>4, <4>1, <4>2
    <3> QED
      BY <1>1, <2>1, <3>1, <3>2, <3>3, <3>4, <3>5 DEF PageInv
  <2> QED
    BY <2>1 DEF PageInv
<1> QED
  BY <1>1, <1>4, <1>5 DEF HandlerInv, IterInv, FailsOnlyDisturbed

(* A document of the batch is looked up and taken, or fills no page.       *)
LEMMA DocumentStep ==
  ASSUME TypeOK, DocsInv, StoredInv, HandlerInv, NextDocument
  PROVE  TypeOK' /\ HandlerInv'
<1>1. /\ pc = "iterate" /\ cumIdx < total /\ rsIdx < Len(hits)
      /\ UNCHANGED <<backend, storeVars, from, hits, total, query, failed, lost, first>>
  BY DEF NextDocument, MoreHits, BatchUsedUp, TypeOK
<1>2. /\ hits \in Seq(Links) /\ rsIdx \in Nat /\ rsIdx + 1 \in 1..Len(hits) /\ hits[rsIdx + 1] \in Links
      /\ cumIdx \in Nat /\ StoreTypeOK' /\ idx' = idx /\ matched \in Seq(Links) /\ from \in Nat
  BY <1>1 DEF TypeOK, StoreTypeOK, storeVars
<1>3. backend = "bleve" => docs[hits[rsIdx + 1]] # Absent
  <2>1. ASSUME backend = "bleve" PROVE op = Idle /\ idx[hits[rsIdx + 1]] # Absent
    BY <1>1, <1>2, <2>1 DEF NextDocument, LockFree, HandlerInv, IterInv
  <2> QED
    BY <1>2, <2>1 DEF DocsInv, SameBut, StoredInv
<1>4. /\ cumIdx' = cumIdx + 1 /\ rsIdx' = rsIdx + 1
      /\ IF Len(matched) < ResultsPerPage
           THEN /\ matched' = Append(matched, hits[rsIdx + 1])
                /\ UNCHANGED <<pc, pagination, shown>>
           ELSE Render /\ UNCHANGED matched
  BY <1>3 DEF NextDocument
<1>5. CASE Len(matched) < ResultsPerPage
  <2>1. /\ matched' \in Seq(Links) /\ Len(matched') = Len(matched) + 1
        /\ \A i \in 1..Len(matched) : matched'[i] = matched[i]
        /\ matched'[Len(matched) + 1] = hits[rsIdx + 1]
    <3>1. matched' = Append(matched, hits[rsIdx + 1])
      BY <1>4, <1>5
    <3> QED
      BY <1>2, <3>1
  <2>2. TypeOK'
    <3>1. ResultsPerPage \in Nat /\ query.offset \in Nat /\ cumIdx = query.offset + Len(matched)
      BY <1>1, PageAssumption, LinksAssumption, FS_CardinalityType DEF TypeOK, Offsets
    <3>2. Len(matched') <= ResultsPerPage /\ cumIdx' = query.offset + Len(matched')
      BY <1>2, <1>4, <1>5, <2>1, <3>1
    <3>3. rsIdx' \in 0..Len(hits) /\ cumIdx' \in Nat
      BY <1>2, <1>4
    <3>4. UNCHANGED <<pc, pagination, shown>>
      BY <1>4, <1>5
    <3> QED
      BY <1>1, <1>2, <2>1, <3>2, <3>3, <3>4 DEF TypeOK
  <2>3. Found(query.type)' = Found(query.type) /\ Hits("match")' = Hits("match")
    BY <1>1, <1>2, HitsSame DEF Found, Matches
  <2>4. IterInv'
    BY <1>1, <1>2, <1>4, <1>5, <2>3 DEF HandlerInv, IterInv
  <2>5. PageInv'
    <3>1. CASE first = "match"
      <4>1. /\ total = Len(Hits("match")) /\ query.offset <= total
            /\ from + rsIdx + 1 <= total /\ hits[rsIdx + 1] = Hits("match")[from + rsIdx + 1]
            /\ from + rsIdx = query.offset + Len(matched)
        BY <1>1, <1>2, <3>1 DEF HandlerInv, PageInv, IterInv, TypeOK
      <4>2. query.offset \in Nat
        BY LinksAssumption, FS_CardinalityType DEF TypeOK, Offsets
      <4>3. \A i \in 1..Len(matched') :
              query.offset + i <= total /\ matched'[i] = Hits("match")[query.offset + i]
        <5> TAKE i \in 1..Len(matched')
        <5>1. CASE i = Len(matched) + 1
          <6>1. Len(matched) \in Nat /\ from \in Nat /\ rsIdx \in Nat
            BY <1>2
          <6>2. query.offset + i = from + rsIdx + 1
            BY <4>1, <4>2, <5>1, <6>1
          <6> QED
            BY <2>1, <4>1, <5>1, <6>2
        <5>2. CASE i \in 1..Len(matched)
          BY <1>1, <2>1, <3>1, <5>2 DEF HandlerInv, PageInv
        <5> QED
          BY <1>2, <2>1, <5>1, <5>2
      <4> QED
        BY <1>1, <1>4, <1>5, <2>3, <3>1, <4>3 DEF HandlerInv, PageInv
    <3> QED
      BY <1>1, <3>1 DEF PageInv
  <2> QED
    BY <1>1, <1>4, <1>5, <2>2, <2>4, <2>5 DEF HandlerInv, FailsOnlyDisturbed
<1>6. CASE ~(Len(matched) < ResultsPerPage)
  <2>1. Len(matched) = ResultsPerPage
    BY <1>2, <1>6, PageAssumption DEF TypeOK
  <2> QED
    BY <1>1, <1>2, <1>4, <1>6, <2>1, RenderStep DEF HandlerInv
<1> QED
  BY <1>5, <1>6

(* Every step of the front-end, and every write.                           *)
SearchInv == TypeOK /\ IInv /\ StoredInv /\ HandlerInv

LEMMA SearchInit == Init => SearchInv
<1> SUFFICES ASSUME Init PROVE SearchInv
  OBVIOUS
<1>1. IInv
  BY InitInv
<1>2. backend \in Backends /\ Cardinality(Links) \in Nat
  BY LinksAssumption, FS_CardinalityType DEF Init, StoreInit
<1>3. StoreTypeOK
  BY <1>1, <1>2, BoundAssumption DEF Init, StoreInit, StoreTypeOK, IInv, DocsInv
<1>4. TypeOK
  <2>1. /\ hits \in Seq(Links) /\ matched \in Seq(Links) /\ shown \in Seq(Links)
        /\ Len(hits) = 0 /\ Len(matched) = 0
    BY DEF Init
  <2>2. query \in [type : {"match", "phrase"}, offset : Offsets]
    BY <1>2 DEF Init, Offsets
  <2>3. pagination \in [type : {"match"}, prev : Offsets \cup {NoLink}, next : Offsets \cup {NoLink}]
    BY DEF Init
  <2>4. /\ pc = "idle" /\ rsIdx = 0 /\ total = 0 /\ cumIdx = 0 /\ from = 0
        /\ failed = FALSE /\ lost = FALSE /\ first = "none"
    BY DEF Init
  <2>5. BatchSize \in Nat /\ ResultsPerPage \in Nat /\ total \in 0..Cardinality(Links)
    BY <1>2, <2>4, PageAssumption
  <2>6. rsIdx \in 0..Len(hits) /\ Len(hits) <= BatchSize /\ Len(matched) <= ResultsPerPage
    BY <2>1, <2>4, <2>5
  <2>7. pc \in {"idle", "iterate", "rendered", "error", "panic"} /\ pc # "iterate"
    BY <2>4
  <2>8. failed \in BOOLEAN /\ lost \in BOOLEAN /\ first \in {"none", "match", "phrase"}
    BY <2>4
  <2>9. cumIdx \in Nat /\ from \in Nat
    BY <2>4
  <2> QED
    BY <1>3, <2>1, <2>2, <2>3, <2>5, <2>6, <2>7, <2>8, <2>9 DEF TypeOK
<1> QED
  BY <1>1, <1>4 DEF SearchInv, Init, StoreInit, StoredInv, HandlerInv, IterInv, PageInv, FailsOnlyDisturbed

LEMMA SearchStep == SearchInv /\ [Next]_vars => SearchInv'
<1> SUFFICES ASSUME SearchInv, [Next]_vars PROVE SearchInv'
  OBVIOUS
<1> USE DEF SearchInv
<1>1. IInv'
  BY Inductive
<1>2. CASE Change
  BY <1>1, <1>2, ChangeStep
<1>3. ASSUME UNCHANGED <<backend, storeVars>> PROVE StoredInv'
  BY <1>3 DEF storeVars, StoredInv
<1>4. ASSUME NEW type \in {"match", "phrase"}, NEW offset \in Offsets, NewQuery(type, offset)
      PROVE  SearchInv'
  <2>1. /\ Request(type, offset) /\ UNCHANGED <<backend, storeVars>>
        /\ first' = IF offset = 0 THEN type ELSE "none"
        /\ shown' = <<>>
    BY <1>4 DEF NewQuery, Request
  <2>2. Len(Hits("match")) \in Nat
    BY HitsOrdered DEF TypeOK, StoreTypeOK
  <2>3. TypeOK' /\ HandlerInv'
    BY <2>1, <2>2, RequestStep
  <2> QED
    BY <1>1, <1>3, <2>1, <2>3
<1>5. CASE FollowNext
  <2>1. /\ pc = "rendered" /\ Request("match", pagination.next) /\ UNCHANGED <<backend, storeVars>>
        /\ first' = first /\ shown' = shown /\ pagination.next \in Offsets
    BY <1>5 DEF FollowNext, Request, TypeOK
  <2>2. first \in {"none", "match", "phrase"} /\ shown \in Seq(Links)
    BY DEF TypeOK
  <2>3. first = "match" => /\ pagination.next <= Len(Hits("match")) /\ Len(shown) = pagination.next
                           /\ \A i \in 1..Len(shown) : shown[i] = Hits("match")[i]
    BY <1>5, <2>1, <2>2 DEF FollowNext, HandlerInv, PageInv
  <2> SUFFICES ASSUME NEW offset, offset = pagination.next PROVE SearchInv'
    OBVIOUS
  <2>4. TypeOK' /\ HandlerInv'
    BY <2>1, <2>2, <2>3, RequestStep
  <2> QED
    BY <1>1, <1>3, <2>1, <2>4
<1>6. CASE FollowPrev
  <2>1. /\ Request("match", pagination.prev) /\ UNCHANGED <<backend, storeVars>>
        /\ first' = "none" /\ shown' = <<>> /\ pagination.prev \in Offsets
    BY <1>6 DEF FollowPrev, Request, TypeOK
  <2> SUFFICES ASSUME NEW offset, offset = pagination.prev PROVE SearchInv'
    OBVIOUS
  <2>2. TypeOK' /\ HandlerInv'
    BY <2>1, RequestStep
  <2> QED
    BY <1>1, <1>3, <2>1, <2>2
<1>7. CASE FetchBatch
  BY <1>1, <1>3, <1>7, FetchStep DEF FetchBatch
<1>8. CASE NextDocument
  BY <1>1, <1>3, <1>8, DocumentStep DEF NextDocument, IInv
<1>9. CASE NoMoreHits
  <2>1. rsIdx \in 0..Len(hits) /\ cumIdx \in Nat
    BY DEF TypeOK
  <2> QED
    BY <1>1, <1>3, <1>9, <2>1, RenderStep DEF NoMoreHits, iterVars, HandlerInv
<1>10. CASE UNCHANGED vars
  <2>1. idx' = idx
    BY <1>10 DEF vars, storeVars
  <2>2. Found(query.type)' = Found(query.type) /\ Hits("match")' = Hits("match")
    BY <1>10, <2>1, HitsSame DEF Found, Matches, vars, pageVars
  <2>3. StoreTypeOK' /\ StoredInv'
    BY <1>10 DEF vars, storeVars, StoreTypeOK, StoredInv, TypeOK
  <2>4. TypeOK'
    BY <1>10, <2>3 DEF vars, iterVars, pageVars, histVars, TypeOK
  <2>5. HandlerInv'
    BY <1>10, <2>1, <2>2
       DEF vars, iterVars, pageVars, histVars, HandlerInv, IterInv, PageInv, FailsOnlyDisturbed
  <2> QED
    BY <1>1, <2>3, <2>4, <2>5
<1> QED
  BY <1>2, <1>4, <1>5, <1>6, <1>7, <1>8, <1>9, <1>10 DEF Next, Handler

-----------------------------------------------------------------------------
(* Theorems.                                                               *)

(* So it holds in every state.                                             *)
THEOREM Invariance == Spec => []IInv
<1> QED
  BY InitInv, Inductive, PTL DEF Spec

(* Crawler and ranker write different fields of a document, and neither    *)
(* undoes the other, in whichever order their calls come and fail: the map *)
(* holds what was said last, and between calls the search index agrees     *)
(* with it outside the documents whose rank could not be written           *)
(* (bleve/indexer.go 75-90, 122-151, elasticsearch/indexer.go 64-69).      *)
THEOREM FieldsKept == Spec => []NeitherUndoesTheOther
<1>1. IInv => NeitherUndoesTheOther
  BY DEF IInv, DocsInv, SameBut, NeitherUndoesTheOther
<1> QED
  BY <1>1, Invariance, PTL
(* The handler's invariant holds in every state.                           *)
THEOREM SearchInvariance == Spec => []SearchInv
<1> QED
  BY SearchInit, SearchStep, PTL DEF Spec

(* The variables stay in their ranges: no page is longer than its limit    *)
(* and links nowhere but into the hits (frontend.go 256-286).              *)
THEOREM SearchTypes == Spec => []TypeOK
<1>1. SearchInv => TypeOK
  BY DEF SearchInv
<1> QED
  BY <1>1, SearchInvariance, PTL

(* A request fails only because a search failed or a match disappeared;    *)
(* the next batch is never empty and the map never lacks a document of it  *)
(* for another reason (bleve/iterator.go 36-62, indexer.go 84-89).         *)
THEOREM FailureHasCause == Spec => []FailsOnlyDisturbed
<1>1. SearchInv => FailsOnlyDisturbed
  BY DEF SearchInv, HandlerInv
<1> QED
  BY <1>1, SearchInvariance, PTL

(* The pages of a match query, followed from the first to the last over an *)
(* index that stays as it is, show the hits in order and nothing else      *)
(* (frontend.go 256-286, iterator.go 42-50).                               *)
THEOREM EveryMatchShown == Spec => []PagesComplete
<1>1. SearchInv => PagesComplete
  <2> SUFFICES ASSUME SearchInv, pc = "rendered", first = "match", pagination.next = NoLink
               PROVE  shown = Hits("match")
    BY DEF PagesComplete
  <2>1. /\ Hits("match") \in Seq(Links) /\ shown \in Seq(Links)
    BY HitsOrdered DEF SearchInv, TypeOK, StoreTypeOK
  <2>2. /\ Len(shown) <= Len(Hits("match"))
        /\ \A i \in 1..Len(shown) : shown[i] = Hits("match")[i]
        /\ pagination.next = IF Len(shown) < Len(Hits("match")) THEN Len(shown) ELSE NoLink
    BY DEF SearchInv, HandlerInv, PageInv
  <2>3. Len(shown) = Len(Hits("match"))
    BY <2>1, <2>2 DEF NoLink
  <2> QED
    BY <2>1, <2>2, <2>3
<1> QED
  BY <1>1, SearchInvariance, PTL
=============================================================================
