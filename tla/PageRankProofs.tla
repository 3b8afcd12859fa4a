--------------------------- MODULE PageRankProofs ---------------------------
(***************************************************************************)
(* That the parallel PageRank calculation is the power iteration, loses no *)
(* score and contracts, on every graph and with any number of workers.     *)
(***************************************************************************)
EXTENDS PageRank, FiniteSetTheorems, WellFoundedInduction, TLAPS

(* What the workers are at: a score whose change is to be added to SAD, to *)
(* be stored and handed on, or a dead end's share to be added to the       *)
(* residual.                                                               *)
Tasks == [pc : {"load", "cas", "spread"}, page : Pages, score : Nat,
          name : {"SAD", "residual_0", "residual_1"}, value : Nat, old : Nat]

At(w, p)    == busy[w] # Free /\ busy[w].page = p
Adding(p)   == \E w \in Workers : At(w, p) /\ busy[w].name = "SAD" /\ busy[w].pc # "spread"
Storing(p)  == \E w \in Workers : At(w, p) /\ busy[w].name = "SAD"
Handling(p) == \E w \in Workers : At(w, p)

(* The pages whose change is in SAD, whose score is stored and handed on,  *)
(* and with which the superstep is done.                                   *)
Counted == {p \in pages \ todo : ~Adding(p)}
Spread  == {p \in pages \ todo : ~Storing(p)}
Settled == {p \in pages \ todo : ~Handling(p)}

(* What the pages of S send to v, and to the residual, when their scores   *)
(* are those of r.                                                         *)
Share(r, n)         == [q \in Pages |-> r[q] \div n]
Shares(r)           == [q \in Pages |-> r[q] \div Cardinality(Out(q))]
Incoming(r, S, v)   == Sum(Shares(r), {q \in S : v \in Out(q)})
Residual(r, S)      == Sum(Share(r, Cardinality(pages)), {q \in S : Out(q) = {}})

(* The scores a superstep computes, from those of the one before.          *)
First  == [p \in Pages |-> IF p \in pages THEN One \div Cardinality(pages) ELSE 0]
Target == IF superstep = 1 THEN First ELSE Abstract!Iterate(ranked)
Change == [p \in Pages |-> Abs(ranked[p] - Target[p])]

Closed == \A q \in pages : Out(q) \subseteq pages

TypeInv ==
  /\ pages \subseteq Pages /\ links \subseteq Pages \X Pages
  /\ pc \in {"idle", "pre", "step", "scored", "failed", "cancelled"}
  /\ superstep \in 0..MaxSuperstep
  /\ score \in [Pages -> Nat] /\ inbox \in [Pages -> Nat] /\ outbox \in [Pages -> Nat]
  /\ todo \subseteq pages
  /\ busy \in [Workers -> Tasks \cup {Free}]
  /\ acc \in [Aggregators -> [cur : Nat, prev : Nat]]
  /\ failed \in BOOLEAN /\ passes \in 0..MaxPasses
  /\ ranked \in [Pages -> Nat] /\ lastSAD \in Nat

(* Workers are at different pages, of a superstep that is not over.        *)
WorkerInv ==
  /\ pc # "step" => todo = {}
  /\ \A w \in Workers : busy[w] # Free =>
       /\ pc = "step" /\ superstep > 0 /\ busy[w].page \in pages \ todo
       /\ busy[w].name \in {"SAD", ResidualOutputAccName(superstep)}
       /\ busy[w].pc = "spread" => busy[w].name = "SAD"
  /\ \A w, x \in Workers : busy[w] # Free /\ busy[x] # Free /\ busy[w].page = busy[x].page => w = x

CountInv ==
  pc \in {"pre", "step"} =>
    acc["page_count"].cur =
      IF superstep > 0 THEN Cardinality(pages)
      ELSE IF pc = "pre" THEN 0 ELSE Cardinality(pages \ todo)

(* What a superstep starts from.                                           *)
RoundInv ==
  /\ \A p \in Pages \ pages : score[p] = 0 /\ ranked[p] = 0
  /\ pc = "pre" => score = ranked /\ outbox = Zero /\ ~failed
  /\ pc \in {"pre", "step"} =>
       /\ superstep = 0 => score = Zero /\ acc["SAD"].cur = 0 /\ ~failed
       /\ superstep <= 1 => ranked = Zero
       /\ superstep > 1 =>
            /\ Closed /\ acc[ResidualInputAccName(superstep)].cur = Residual(ranked, pages)
            /\ \A v \in IF pc = "pre" THEN pages ELSE todo : inbox[v] = Incoming(ranked, pages, v)

(* How far it has come.                                                    *)
StepInv ==
  pc = "step" /\ superstep > 0 =>
    /\ \A p \in pages : score[p] = IF p \in Spread THEN Target[p] ELSE ranked[p]
    /\ \A w \in Workers : busy[w] # Free =>
         LET p == busy[w].page IN
         IF busy[w].name = "SAD" THEN busy[w].score = Target[p] /\ busy[w].value = Change[p]
         ELSE busy[w].value = Target[p] \div Cardinality(pages) /\ Out(p) = {}
    /\ acc["SAD"].cur = Sum(Change, Counted)
    /\ acc[ResidualOutputAccName(superstep)].cur = Residual(Target, Settled)
    /\ ~failed => /\ \A q \in Spread : Out(q) \subseteq pages
                  /\ \A v \in pages : outbox[v] = Incoming(Target, Spread, v)

EndInv ==
  pc = "scored" =>
    /\ superstep > 1 /\ score = ranked /\ Closed
    /\ acc[ResidualOutputAccName(superstep)].cur = Residual(ranked, pages)
    /\ \A v \in pages : outbox[v] = Incoming(ranked, pages, v)

IInv == TypeInv /\ WorkerInv /\ CountInv /\ RoundInv /\ StepInv /\ EndInv

-----------------------------------------------------------------------------
LEMMA NatRule ==
  ASSUME NEW N, N \subseteq Nat, 0 \in N, \A n \in N : n + 1 \in N PROVE N = Nat
<1> SUFFICES ASSUME Nat \ N # {} PROVE FALSE
  OBVIOUS
<1>1. \E n \in Nat \ N : \A m \in Nat \ N : ~ (<<m, n>> \in OpToRel(<, Nat))
  <2> DEFINE T == Nat \ N
             R == OpToRel(<, Nat)
  <2>1. IsWellFoundedOn(R, Nat) /\ T \subseteq Nat /\ T # {}
    BY NatLessThanWellFounded
  <2> HIDE DEF R, T
  <2>2. \E x \in T : \A y \in T : ~ (<<y, x>> \in R)
    BY <2>1, WFMin
  <2> QED BY <2>2 DEF R, T
<1>2. PICK n \in Nat \ N : \A m \in Nat \ N : ~ (m < n)
  BY <1>1 DEF OpToRel
<1>3. n # 0 /\ n - 1 \in Nat /\ n - 1 \in N
  BY <1>2
<1> QED BY <1>3, <1>2

LEMMA FiniteRule ==
  ASSUME NEW X, IsFiniteSet(X), NEW F, {} \in F,
         \A S \in SUBSET X : \A x \in X \ S : S \in F => S \cup {x} \in F
  PROVE  \A S \in SUBSET X : S \in F
<1> DEFINE N == {n \in Nat : \A S \in SUBSET X : Cardinality(S) = n => S \in F}
<1>1. \A S \in SUBSET X : IsFiniteSet(S) /\ Cardinality(S) \in Nat
  BY FS_Subset, FS_CardinalityType
<1>2. 0 \in N
  BY <1>1, FS_EmptySet
<1>3. ASSUME NEW n \in N PROVE n + 1 \in N
  <2>n. n \in Nat
    OBVIOUS
  <2> SUFFICES ASSUME NEW S \in SUBSET X, Cardinality(S) = n + 1 PROVE S \in F
    OBVIOUS
  <2>1. S # {}
    <3> HIDE DEF N
    <3>1. Cardinality({}) = 0
      BY FS_EmptySet
    <3>2. S = {} => Cardinality(S) = 0
      BY <3>1
    <3> QED BY <2>n, <3>2
  <2>2. PICK x \in S : TRUE
    BY <2>1
  <2>3. Cardinality(S \ {x}) = n /\ S \ {x} \in SUBSET X
    <3> HIDE DEF N
    <3>1. Cardinality(S \ {x}) = Cardinality(S) - 1
      BY <1>1, FS_RemoveElement
    <3> QED BY <3>1, <2>n
  <2>4. S \ {x} \in F /\ x \in X \ (S \ {x}) /\ (S \ {x}) \cup {x} = S
    BY <2>3, <1>3
  <2> QED BY <2>4, <2>3
<1>4. N = Nat
  <2> HIDE DEF N
  <2>1. N \subseteq Nat
    BY DEF N
  <2> QED BY <1>2, <1>3, <2>1, NatRule
<1> QED BY <1>1, <1>4

Any(s) == CHOOSE x \in s : TRUE
Folds(g, f, X) == g = [s \in SUBSET X |-> IF s = {} THEN 0 ELSE f[Any(s)] + g[s \ {Any(s)}]]

(* Picking the elements one by one, as MapThenFoldSet does, ends.          *)
LEMMA SmallerSet ==
  ASSUME NEW X, IsFiniteSet(X), NEW s \in SUBSET X, s # {}
  PROVE  /\ Any(s) \in s /\ s \ {Any(s)} \in SUBSET X
         /\ Cardinality(s) \in Nat \ {0} /\ Cardinality(s \ {Any(s)}) = Cardinality(s) - 1
<1>1. Any(s) \in s
  BY DEF Any
<1>2. IsFiniteSet(s) /\ Cardinality(s) \in Nat
  BY FS_Subset, FS_CardinalityType
<1>3. Cardinality(s) # 0
  BY <1>2, FS_EmptySet
<1> QED BY <1>1, <1>2, <1>3, FS_RemoveElement

LEMMA FoldExists ==
  ASSUME NEW X, IsFiniteSet(X), NEW f, \A x \in X : f[x] \in Int
  PROVE  \E g \in [SUBSET X -> Int] : Folds(g, f, X)
<1> DEFINE Upto(g, n) ==
             \A s \in SUBSET X : Cardinality(s) <= n =>
               g[s] = IF s = {} THEN 0 ELSE f[Any(s)] + g[s \ {Any(s)}]
           N == {n \in Nat : \E g \in [SUBSET X -> Int] : Upto(g, n)}
<1>1. \A s \in SUBSET X : IsFiniteSet(s) /\ Cardinality(s) \in Nat
  BY FS_Subset, FS_CardinalityType
<1>2. 0 \in N
  <2>1. [s \in SUBSET X |-> 0] \in [SUBSET X -> Int]
    OBVIOUS
  <2>2. \A s \in SUBSET X : Cardinality(s) <= 0 => s = {}
    BY <1>1, FS_EmptySet
  <2>3. Upto([s \in SUBSET X |-> 0], 0)
    BY <2>2
  <2> QED BY <2>1, <2>3
<1>3. ASSUME NEW n \in N PROVE n + 1 \in N
  <2>1. n \in Nat
    OBVIOUS
  <2>2. PICK g \in [SUBSET X -> Int] : Upto(g, n)
    OBVIOUS
  <2> HIDE DEF N
  <2> DEFINE h == [s \in SUBSET X |-> IF s = {} THEN 0 ELSE f[Any(s)] + g[s \ {Any(s)}]]
  <2>3. h \in [SUBSET X -> Int]
    <3>1. \A s \in SUBSET X : s # {} => f[Any(s)] \in Int /\ g[s \ {Any(s)}] \in Int
      BY SmallerSet
    <3> QED BY <3>1
  <2>4. ASSUME NEW s \in SUBSET X, Cardinality(s) <= n PROVE h[s] = g[s]
    BY <2>2, <2>4
  <2>5. Upto(h, n + 1)
    <3> SUFFICES ASSUME NEW s \in SUBSET X, Cardinality(s) <= n + 1, s # {}
                 PROVE  h[s] = f[Any(s)] + h[s \ {Any(s)}]
      BY FS_EmptySet
    <3>1. s \ {Any(s)} \in SUBSET X /\ Cardinality(s \ {Any(s)}) <= n
      BY <2>1, SmallerSet
    <3>2. h[s \ {Any(s)}] = g[s \ {Any(s)}]
      BY <3>1, <2>4
    <3> QED BY <3>2
  <2> HIDE DEF h
  <2> QED BY <2>1, <2>3, <2>5 DEF N
<1>4. N = Nat
  <2> HIDE DEF N
  <2>1. N \subseteq Nat
    BY DEF N
  <2> QED BY <1>2, <1>3, <2>1, NatRule
<1>5. PICK g \in [SUBSET X -> Int] : Upto(g, Cardinality(X))
  BY <1>1, <1>4
<1>6. \A s \in SUBSET X : Cardinality(s) <= Cardinality(X)
  BY FS_Subset
<1>7. g = [s \in SUBSET X |-> IF s = {} THEN 0 ELSE f[Any(s)] + g[s \ {Any(s)}]]
  BY <1>5, <1>6
<1> QED BY <1>7 DEF Folds

(* What it comes to does not depend on the set it is picked from.          *)
LEMMA FoldUnique ==
  ASSUME NEW X, IsFiniteSet(X), NEW Y, IsFiniteSet(Y), NEW f, NEW g, NEW h,
         Folds(g, f, X), Folds(h, f, Y)
  PROVE  \A s \in SUBSET (X \cap Y) : g[s] = h[s]
<1> DEFINE N == {n \in Nat : \A s \in SUBSET (X \cap Y) : Cardinality(s) = n => g[s] = h[s]}
<1>1. \A s \in SUBSET X : IsFiniteSet(s) /\ Cardinality(s) \in Nat
  BY FS_Subset, FS_CardinalityType
<1>2. 0 \in N
  BY <1>1, FS_EmptySet DEF Folds
<1>3. ASSUME NEW n \in N PROVE n + 1 \in N
  <2>1. n \in Nat
    OBVIOUS
  <2> SUFFICES ASSUME NEW s \in SUBSET (X \cap Y), Cardinality(s) = n + 1 PROVE g[s] = h[s]
    OBVIOUS
  <2>2. s # {}
    BY <2>1, FS_EmptySet
  <2>3. Cardinality(s \ {Any(s)}) = n /\ s \ {Any(s)} \in SUBSET (X \cap Y)
    <3> HIDE DEF N
    <3> QED BY <2>1, <2>2, SmallerSet
  <2>4. g[s \ {Any(s)}] = h[s \ {Any(s)}]
    BY <2>3
  <2> QED BY <2>2, <2>4 DEF Folds
<1>4. N = Nat
  <2> HIDE DEF N
  <2>1. N \subseteq Nat
    BY DEF N
  <2> QED BY <1>2, <1>3, <2>1, NatRule
<1> QED BY <1>1, <1>4

LEMMA SumDef ==
  ASSUME NEW f, NEW X PROVE Sum(f, X) = (CHOOSE g : Folds(g, f, X))[X]
  BY DEF Sum, MapThenSumSet, MapThenFoldSet, Folds, Any

(* Sum, as a recursion.                                                    *)
LEMMA SumRec ==
  ASSUME NEW X, IsFiniteSet(X), NEW f, \A x \in X : f[x] \in Int
  PROVE  /\ Sum(f, X) \in Int
         /\ X = {} => Sum(f, X) = 0
         /\ X # {} => Sum(f, X) = f[Any(X)] + Sum(f, X \ {Any(X)})
<1> DEFINE g == CHOOSE e : Folds(e, f, X)
           Y == X \ {Any(X)}
           h == CHOOSE e : Folds(e, f, Y)
<1>1. Folds(g, f, X) /\ Sum(f, X) = g[X]
  BY FoldExists, SumDef
<1>2. PICK k \in [SUBSET X -> Int] : Folds(k, f, X)
  BY FoldExists
<1>3. g[X] = k[X]
  <2> HIDE DEF g
  <2> QED BY <1>1, <1>2, FoldUnique
<1>4. IsFiniteSet(Y) /\ Y \subseteq X
  BY FS_RemoveElement
<1>5. Folds(h, f, Y) /\ Sum(f, Y) = h[Y]
  <2>1. \A x \in Y : f[x] \in Int
    OBVIOUS
  <2> HIDE DEF Y
  <2> QED BY <1>4, <2>1, FoldExists, SumDef
<1>6. g[Y] = h[Y]
  <2> HIDE DEF g, h, Y
  <2>1. Y \in SUBSET (X \cap Y)
    BY <1>4
  <2> QED BY <1>1, <1>4, <1>5, <2>1, FoldUnique
<1>7. X # {} => g[X] = f[Any(X)] + g[Y]
  <2> HIDE DEF g
  <2> QED BY <1>1 DEF Folds
<1>8. X = {} => g[X] = 0
  <2> HIDE DEF g
  <2> QED BY <1>1 DEF Folds
<1> HIDE DEF g, h
<1> QED BY <1>1, <1>2, <1>3, <1>5, <1>6, <1>7, <1>8

(* Any element may be taken out first.                                     *)
LEMMA SumRemove ==
  ASSUME NEW X, IsFiniteSet(X), NEW f, \A x \in X : f[x] \in Int
  PROVE  \A x \in X : Sum(f, X) = f[x] + Sum(f, X \ {x})
<1> DEFINE P(S) == \A x \in S : Sum(f, S) = f[x] + Sum(f, S \ {x})
           N == {n \in Nat : \A S \in SUBSET X : Cardinality(S) = n => P(S)}
<1>1. \A S \in SUBSET X : /\ IsFiniteSet(S) /\ Cardinality(S) \in Nat
                         /\ \A x \in S : Cardinality(S \ {x}) = Cardinality(S) - 1
  BY FS_Subset, FS_CardinalityType, FS_RemoveElement
<1>2. 0 \in N
  <2>1. \A S \in SUBSET X : Cardinality(S) = 0 => S = {}
    BY <1>1, FS_EmptySet
  <2> QED BY <2>1
<1>3. ASSUME NEW n \in N PROVE n + 1 \in N
  <2>1. n \in Nat
    OBVIOUS
  <2> SUFFICES ASSUME NEW S \in SUBSET X, Cardinality(S) = n + 1, NEW x \in S
               PROVE  Sum(f, S) = f[x] + Sum(f, S \ {x})
    OBVIOUS
  <2> DEFINE c == Any(S)
  <2>2. c \in S /\ Sum(f, S) = f[c] + Sum(f, S \ {c})
    BY <1>1, SumRec, SmallerSet
  <2>3. CASE c = x
    BY <2>2, <2>3
  <2>4. CASE c # x
    <3>1. P(S \ {c}) /\ P(S \ {x})
      <4>1. Cardinality(S \ {c}) = n /\ Cardinality(S \ {x}) = n
        <5> HIDE DEF N, P, c
        <5> QED BY <1>1, <2>1, <2>2
      <4> QED BY <4>1
    <3>2. Sum(f, S \ {c}) = f[x] + Sum(f, (S \ {c}) \ {x})
      BY <3>1, <2>4
    <3>3. Sum(f, S \ {x}) = f[c] + Sum(f, (S \ {x}) \ {c})
      BY <3>1, <2>2, <2>4
    <3>4. (S \ {x}) \ {c} = (S \ {c}) \ {x}
      OBVIOUS
    <3>5. IsFiniteSet((S \ {x}) \ {c}) /\ \A y \in (S \ {x}) \ {c} : f[y] \in Int
      BY <1>1
    <3>6. Sum(f, (S \ {x}) \ {c}) \in Int
      <4> HIDE DEF c
      <4> QED BY <3>5, SumRec
    <3>7. f[x] \in Int /\ f[c] \in Int
      BY <2>2
    <3> HIDE DEF P, N, c
    <3>8. Sum(f, S) = f[c] + (f[x] + Sum(f, (S \ {x}) \ {c}))
      BY <2>2, <3>2, <3>4
    <3>9. Sum(f, S) = f[x] + (f[c] + Sum(f, (S \ {x}) \ {c}))
      BY <3>6, <3>7, <3>8
    <3> QED BY <3>3, <3>9
  <2> QED BY <2>3, <2>4
<1>4. N = Nat
  <2> HIDE DEF N
  <2>1. N \subseteq Nat
    BY DEF N
  <2> QED BY <1>2, <1>3, <2>1, NatRule
<1> QED BY <1>1, <1>4

(* The laws of sums that the rest is proved from.                          *)
LEMMA SumLaws ==
  ASSUME NEW X, IsFiniteSet(X), NEW f, \A x \in X : f[x] \in Int
  PROVE  /\ \A S \in SUBSET X : Sum(f, S) \in Int
         /\ Sum(f, {}) = 0
         /\ \A S \in SUBSET X : \A x \in X \ S : Sum(f, S \cup {x}) = Sum(f, S) + f[x]
<1>1. \A S \in SUBSET X : IsFiniteSet(S) /\ \A x \in S : f[x] \in Int
  BY FS_Subset
<1>2. \A S \in SUBSET X : Sum(f, S) \in Int
  BY <1>1, SumRec
<1>3. Sum(f, {}) = 0
  BY <1>1, SumRec
<1>4. ASSUME NEW S \in SUBSET X, NEW x \in X \ S PROVE Sum(f, S \cup {x}) = Sum(f, S) + f[x]
  <2>1. S \cup {x} \in SUBSET X /\ (S \cup {x}) \ {x} = S
    OBVIOUS
  <2>2. Sum(f, S \cup {x}) = f[x] + Sum(f, (S \cup {x}) \ {x})
    <3> DEFINE T == S \cup {x}
    <3>1. IsFiniteSet(T) /\ (\A y \in T : f[y] \in Int) /\ x \in T
      BY <1>1, <2>1
    <3> HIDE DEF T
    <3>2. Sum(f, T) = f[x] + Sum(f, T \ {x})
      BY <3>1, SumRemove
    <3> QED BY <3>2 DEF T
  <2>3. Sum(f, S \cup {x}) = f[x] + Sum(f, S)
    BY <2>1, <2>2
  <2>4. f[x] \in Int /\ Sum(f, S) \in Int
    BY <1>2
  <2> QED BY <2>3, <2>4
<1> QED BY <1>2, <1>3, <1>4

(* Sums of the same, of naturals, of what is below, of sums and multiples. *)
LEMMA SumSame ==
  ASSUME NEW X, IsFiniteSet(X), NEW f, NEW g, \A x \in X : f[x] \in Int /\ f[x] = g[x]
  PROVE  Sum(f, X) = Sum(g, X)
<1> DEFINE F == {S \in SUBSET X : Sum(f, S) = Sum(g, S)}
<1>1. \A x \in X : f[x] \in Int /\ g[x] \in Int
  OBVIOUS
<1>2. {} \in F
  BY <1>1, SumLaws
<1>3. ASSUME NEW S \in SUBSET X, NEW x \in X \ S, S \in F PROVE S \cup {x} \in F
  <2>1. Sum(f, S \cup {x}) = Sum(f, S) + f[x] /\ Sum(g, S \cup {x}) = Sum(g, S) + g[x]
    BY <1>1, SumLaws
  <2> QED BY <2>1, <1>3
<1> HIDE DEF F
<1>4. \A S \in SUBSET X : S \in F
  BY <1>2, <1>3, FiniteRule
<1> QED BY <1>4 DEF F

LEMMA SumLinear ==
  ASSUME NEW X, IsFiniteSet(X), NEW f, NEW g, NEW h, NEW a \in Int, NEW b \in Int,
         \A x \in X : f[x] \in Int /\ g[x] \in Int /\ h[x] = a * f[x] + b * g[x]
  PROVE  Sum(h, X) = a * Sum(f, X) + b * Sum(g, X)
<1> DEFINE F == {S \in SUBSET X : Sum(h, S) = a * Sum(f, S) + b * Sum(g, S)}
<1>1. \A x \in X : f[x] \in Int /\ g[x] \in Int /\ h[x] \in Int
  OBVIOUS
<1>2. {} \in F
  BY <1>1, SumLaws
<1>3. ASSUME NEW S \in SUBSET X, NEW x \in X \ S, S \in F PROVE S \cup {x} \in F
  <2>1. /\ Sum(f, S \cup {x}) = Sum(f, S) + f[x] /\ Sum(g, S \cup {x}) = Sum(g, S) + g[x]
        /\ Sum(h, S \cup {x}) = Sum(h, S) + h[x]
        /\ Sum(f, S) \in Int /\ Sum(g, S) \in Int /\ Sum(h, S) \in Int
    BY <1>1, SumLaws
  <2>2. Sum(h, S) = a * Sum(f, S) + b * Sum(g, S)
    BY <1>3
  <2>3. h[x] = a * f[x] + b * g[x] /\ f[x] \in Int /\ g[x] \in Int
    OBVIOUS
  <2>4. a * (Sum(f, S) + f[x]) = a * Sum(f, S) + a * f[x]
    BY <2>1, <2>3
  <2>5. b * (Sum(g, S) + g[x]) = b * Sum(g, S) + b * g[x]
    BY <2>1, <2>3
  <2> QED BY <2>1, <2>2, <2>3, <2>4, <2>5
<1> HIDE DEF F
<1>4. \A S \in SUBSET X : S \in F
  BY <1>2, <1>3, FiniteRule
<1> QED BY <1>4 DEF F

LEMMA SumMonotone ==
  ASSUME NEW X, IsFiniteSet(X), NEW f, NEW g,
         \A x \in X : f[x] \in Int /\ g[x] \in Int /\ f[x] <= g[x]
  PROVE  Sum(f, X) <= Sum(g, X)
<1> DEFINE F == {S \in SUBSET X : Sum(f, S) <= Sum(g, S)}
<1>1. \A x \in X : f[x] \in Int /\ g[x] \in Int
  OBVIOUS
<1>2. {} \in F
  BY <1>1, SumLaws
<1>3. ASSUME NEW S \in SUBSET X, NEW x \in X \ S, S \in F PROVE S \cup {x} \in F
  <2>1. /\ Sum(f, S \cup {x}) = Sum(f, S) + f[x] /\ Sum(g, S \cup {x}) = Sum(g, S) + g[x]
        /\ Sum(f, S) \in Int /\ Sum(g, S) \in Int
    BY <1>1, SumLaws
  <2>2. f[x] <= g[x] /\ f[x] \in Int /\ g[x] \in Int
    OBVIOUS
  <2>3. Sum(f, S) <= Sum(g, S)
    BY <1>3
  <2> QED BY <2>1, <2>2, <2>3
<1> HIDE DEF F
<1>4. \A S \in SUBSET X : S \in F
  BY <1>2, <1>3, FiniteRule
<1> QED BY <1>4 DEF F

-----------------------------------------------------------------------------
(* Numbers.                                                                *)
LEMMA Division ==
  ASSUME NEW x \in Nat, NEW d \in Nat \ {0} PROVE x \div d \in Nat /\ d * (x \div d) <= x
  OBVIOUS

LEMMA DampedType ==
  /\ \A x \in Nat : Damped(x) \in Nat
  /\ Damped(One) <= One
<1>1. DampNum \in Nat /\ DampDen \in Nat \ {0} /\ DampNum <= DampDen /\ One \in Nat
  BY ConfigAssumption
<1>2. ASSUME NEW x \in Nat PROVE Damped(x) \in Nat /\ Damped(x) <= x
  <2>1. DampNum * x \in Nat /\ DampNum * x <= DampDen * x
    BY <1>1
  <2> DEFINE q == (DampNum * x) \div DampDen
  <2>2. q \in Nat /\ DampDen * q <= DampNum * x
    BY <1>1, <2>1, Division
  <2>3. DampDen * q <= DampDen * x
    BY <2>1, <2>2, <1>1
  <2> HIDE DEF q
  <2>4. q <= x
    BY <1>1, <2>2, <2>3
  <2> QED BY <2>2, <2>4 DEF Damped, q
<1> QED BY <1>1, <1>2

(* The residual is written to one accumulator and read from the other.     *)
LEMMA Residuals ==
  ASSUME NEW s \in Nat
  PROVE  /\ ResidualOutputAccName(s) \in {"residual_0", "residual_1"}
         /\ ResidualInputAccName(s) \in {"residual_0", "residual_1"}
         /\ ResidualOutputAccName(s) # ResidualInputAccName(s)
         /\ ResidualInputAccName(s + 1) = ResidualOutputAccName(s)
<1>1. s % 2 \in {0, 1} /\ (s + 1) % 2 \in {0, 1} /\ (s + 1) % 2 # s % 2 /\ ((s + 1) + 1) % 2 = s % 2
  OBVIOUS
<1> QED BY <1>1 DEF ResidualOutputAccName, ResidualInputAccName

-----------------------------------------------------------------------------
(* Sums of scores.                                                         *)
LEMMA SumNat ==
  ASSUME NEW X, IsFiniteSet(X), NEW f, \A x \in X : f[x] \in Nat
  PROVE  Sum(f, X) \in Nat
<1> DEFINE F == {S \in SUBSET X : Sum(f, S) \in Nat}
<1>1. \A x \in X : f[x] \in Int
  OBVIOUS
<1>2. {} \in F
  BY <1>1, SumLaws
<1>3. ASSUME NEW S \in SUBSET X, NEW x \in X \ S, S \in F PROVE S \cup {x} \in F
  <2>1. Sum(f, S \cup {x}) = Sum(f, S) + f[x] /\ Sum(f, S) \in Int
    BY <1>1, SumLaws
  <2> QED BY <2>1, <1>3
<1> HIDE DEF F
<1>4. \A S \in SUBSET X : S \in F
  BY <1>2, <1>3, FiniteRule
<1> QED BY <1>4 DEF F

(* The sums of PowerIteration are these.                                   *)
LEMMA AbstractSum == \A f, S : Abstract!Sum(f, S) = Sum(f, S)
  BY DEF Sum, Abstract!Sum, MapThenSumSet, MapThenFoldSet,
         Abstract!MapThenSumSet, Abstract!MapThenFoldSet

LEMMA AbstractCardinality == \A S : Abstract!Cardinality(S) = Cardinality(S)
  BY DEF Abstract!Cardinality, Cardinality

LEMMA FinitePages ==
  ASSUME pages \subseteq Pages
  PROVE  /\ IsFiniteSet(pages) /\ Cardinality(pages) \in Nat
         /\ pages # {} => Cardinality(pages) \in Nat \ {0}
         /\ \A S \in SUBSET Pages : IsFiniteSet(S) /\ Cardinality(S) \in Nat
         /\ \A q \in Pages : Out(q) \in SUBSET Pages /\ (Out(q) # {} =>
              Cardinality(Out(q)) \in Nat \ {0})
<1>1. \A S \in SUBSET Pages : IsFiniteSet(S) /\ Cardinality(S) \in Nat /\ (S # {} =>
        Cardinality(S) # 0)
  BY PagesAssumption, FS_Subset, FS_CardinalityType, FS_EmptySet
<1>2. \A q \in Pages : Out(q) \in SUBSET Pages
  BY DEF Out
<1> QED BY <1>1, <1>2

(* What is sent, and left, by pages whose scores are numbers.              *)
LEMMA IncomingLaws ==
  ASSUME pages \subseteq Pages, NEW r \in [Pages -> Nat], NEW v
  PROVE  /\ \A S \in SUBSET pages : Incoming(r, S, v) \in Nat
         /\ Incoming(r, {}, v) = 0
         /\ \A S \in SUBSET pages : \A q \in pages \ S :
              Incoming(r, S \cup {q}, v) =
                Incoming(r, S, v) + IF v \in Out(q) THEN r[q] \div Cardinality(Out(q)) ELSE 0
<1> DEFINE from(S) == {q \in S : v \in Out(q)}
<1>1. \A S \in SUBSET pages : IsFiniteSet(from(S)) /\ from(S) \subseteq Pages
  BY FinitePages
<1>2. \A q \in from(pages) : Shares(r)[q] \in Nat /\ Shares(r)[q] = r[q] \div Cardinality(Out(q))
  BY FinitePages, Division DEF Shares
<1>3. \A S \in SUBSET pages : Sum(Shares(r), from(S)) \in Nat
  <2> SUFFICES ASSUME NEW S \in SUBSET pages PROVE Sum(Shares(r), from(S)) \in Nat
    OBVIOUS
  <2>1. IsFiniteSet(from(S)) /\ \A q \in from(S) : Shares(r)[q] \in Nat
    BY <1>1, <1>2
  <2> HIDE DEF from
  <2> QED BY <2>1, SumNat
<1>4. Sum(Shares(r), {}) = 0
  <2>1. IsFiniteSet({}) /\ \A q \in {} : Shares(r)[q] \in Int
    BY FS_EmptySet
  <2> QED BY <2>1, SumRec
<1>5. ASSUME NEW S \in SUBSET pages, NEW q \in pages \ S
      PROVE  Sum(Shares(r), from(S \cup {q})) =
               Sum(Shares(r), from(S)) + IF v \in Out(q) THEN r[q] \div Cardinality(Out(q)) ELSE 0
  <2>1. CASE v \notin Out(q)
    <3>1. from(S \cup {q}) = from(S)
      BY <2>1
    <3>2. Sum(Shares(r), from(S)) \in Nat
      BY <1>3
    <3> HIDE DEF from
    <3> QED BY <2>1, <3>1, <3>2
  <2>2. CASE v \in Out(q)
    <3>1. from(S \cup {q}) = from(S) \cup {q} /\ q \in from(pages) \ from(S)
          /\ from(S) \in SUBSET from(pages)
      BY <2>2
    <3>2. IsFiniteSet(from(pages)) /\ \A x \in from(pages) : Shares(r)[x] \in Int
      BY <1>1, <1>2
    <3>3. Sum(Shares(r), from(S) \cup {q}) = Sum(Shares(r), from(S)) + Shares(r)[q]
      <4> HIDE DEF from
      <4> QED BY <3>1, <3>2, SumLaws
    <3>4. Shares(r)[q] = r[q] \div Cardinality(Out(q))
      BY <3>1, <1>2
    <3> QED BY <2>2, <3>1, <3>3, <3>4
  <2> QED BY <2>1, <2>2
<1>6. from({}) = {}
  OBVIOUS
<1> QED BY <1>3, <1>4, <1>5, <1>6 DEF Incoming

LEMMA ResidualLaws ==
  ASSUME pages \subseteq Pages, NEW r \in [Pages -> Nat]
  PROVE  /\ \A S \in SUBSET pages : Residual(r, S) \in Nat
         /\ Residual(r, {}) = 0
         /\ \A S \in SUBSET pages : \A q \in pages \ S :
              Residual(r, S \cup {q}) =
                Residual(r, S) + IF Out(q) = {} THEN r[q] \div Cardinality(pages) ELSE 0
<1> DEFINE n == Cardinality(pages)
           from(S) == {q \in S : Out(q) = {}}
<1>1. \A S \in SUBSET pages : IsFiniteSet(from(S)) /\ from(S) \subseteq Pages
  BY FinitePages
<1>2. \A q \in from(pages) : Share(r, n)[q] \in Nat /\ Share(r, n)[q] = r[q] \div n
  <2> SUFFICES ASSUME NEW q \in from(pages)
  PROVE  Share(r, n)[q] \in Nat /\ Share(r, n)[q] = r[q] \div n
    OBVIOUS
  <2>1. n \in Nat \ {0} /\ r[q] \in Nat /\ q \in Pages
    BY FinitePages
  <2> HIDE DEF n
  <2> QED BY <2>1, Division DEF Share
<1> HIDE DEF n
<1>3. \A S \in SUBSET pages : Sum(Share(r, n), from(S)) \in Nat
  <2> SUFFICES ASSUME NEW S \in SUBSET pages PROVE Sum(Share(r, n), from(S)) \in Nat
    OBVIOUS
  <2>1. IsFiniteSet(from(S)) /\ \A q \in from(S) : Share(r, n)[q] \in Nat
    BY <1>1, <1>2
  <2> HIDE DEF from
  <2> QED BY <2>1, SumNat
<1>4. Sum(Share(r, n), {}) = 0
  <2>1. IsFiniteSet({}) /\ \A q \in {} : Share(r, n)[q] \in Int
    BY FS_EmptySet
  <2> QED BY <2>1, SumRec
<1>5. ASSUME NEW S \in SUBSET pages, NEW q \in pages \ S
      PROVE  Sum(Share(r, n), from(S \cup {q})) =
               Sum(Share(r, n), from(S)) + IF Out(q) = {} THEN r[q] \div n ELSE 0
  <2>1. CASE Out(q) # {}
    <3>1. from(S \cup {q}) = from(S)
      BY <2>1
    <3>2. Sum(Share(r, n), from(S)) \in Nat
      BY <1>3
    <3> HIDE DEF from
    <3> QED BY <2>1, <3>1, <3>2
  <2>2. CASE Out(q) = {}
    <3>1. from(S \cup {q}) = from(S) \cup {q} /\ q \in from(pages) \ from(S)
          /\ from(S) \in SUBSET from(pages)
      BY <2>2
    <3>2. IsFiniteSet(from(pages)) /\ \A x \in from(pages) : Share(r, n)[x] \in Int
      <4>1. IsFiniteSet(from(pages))
        BY <1>1
      <4> HIDE DEF from
      <4> QED BY <4>1, <1>2
    <3>3. Sum(Share(r, n), from(S) \cup {q}) = Sum(Share(r, n), from(S)) + Share(r, n)[q]
      <4> HIDE DEF from
      <4> QED BY <3>1, <3>2, SumLaws
    <3>4. Share(r, n)[q] = r[q] \div n
      BY <3>1, <1>2
    <3> QED BY <2>2, <3>1, <3>3, <3>4
  <2> QED BY <2>1, <2>2
<1>6. from({}) = {}
  OBVIOUS
<1> QED BY <1>3, <1>4, <1>5, <1>6 DEF Residual, n

-----------------------------------------------------------------------------
(* The scores of a superstep.                                              *)

(* PowerIteration follows the links of a page to loaded pages; when all    *)
(* links lead to loaded pages these are the neighbours of compute.go.      *)
LEMMA IterateIs ==
  ASSUME pages \subseteq Pages, Closed, NEW r \in [Pages -> Nat]
  PROVE  /\ Abstract!Iterate(r) \in [Pages -> Nat]
         /\ \A p \in Pages \ pages : Abstract!Iterate(r)[p] = 0
         /\ \A p \in pages :
              Abstract!Iterate(r)[p] =
                (One - Damped(One)) \div Cardinality(pages)
                  + Damped(Incoming(r, pages, p)) + Damped(Residual(r, pages))
<1>1. \A q \in pages : Abstract!Out(q) = Out(q)
  BY DEF Closed, Out, Abstract!Out
<1>2. \A x : Abstract!Damped(x) = Damped(x)
  BY DEF Damped, Abstract!Damped
<1>3. ASSUME NEW p \in pages PROVE Abstract!Incoming(r, p) = Incoming(r, pages, p)
  <2> DEFINE from == {q \in pages : p \in Out(q)}
             f    == [q \in from |-> r[q] \div Cardinality(Abstract!Out(q))]
  <2>1. {q \in pages : p \in Abstract!Out(q)} = from
    BY <1>1
  <2>2. IsFiniteSet(from) /\ \A q \in from : Shares(r)[q] \in Int /\ Shares(r)[q] = f[q]
    <3>1. IsFiniteSet(from)
      BY FinitePages
    <3>2. \A q \in from : Shares(r)[q] \in Nat /\ Shares(r)[q] = r[q] \div Cardinality(Out(q))
      BY FinitePages, Division DEF Shares
    <3>3. \A q \in from : f[q] = r[q] \div Cardinality(Out(q))
      BY <1>1, <2>1
    <3> QED BY <3>1, <3>2, <3>3
  <2>3. Sum(f, from) = Incoming(r, pages, p)
    <3>1. Sum(Shares(r), from) = Sum(f, from)
      <4> HIDE DEF from, f
      <4> QED BY <2>2, SumSame
    <3> QED BY <3>1 DEF Incoming
  <2>4. Abstract!Sum(f, from) = Sum(f, from)
    BY AbstractSum
  <2> QED BY <2>1, <2>3, <2>4, AbstractCardinality DEF Abstract!Incoming
<1>4. Abstract!Residual(r) = Residual(r, pages)
  <2> DEFINE from == {q \in pages : Out(q) = {}}
             n == Cardinality(pages)
             f == [q \in from |-> r[q] \div n]
  <2>1. Abstract!DeadEnds = from
    BY <1>1 DEF Abstract!DeadEnds
  <2>2. IsFiniteSet(from) /\ \A q \in from : Share(r, n)[q] \in Int /\ Share(r, n)[q] = f[q]
    <3>1. IsFiniteSet(from) /\ \A q \in from : n \in Nat \ {0} /\ q \in Pages /\ r[q] \in Nat
      BY FinitePages
    <3> HIDE DEF n
    <3> QED BY <3>1, Division DEF Share
  <2>3. Sum(f, from) = Residual(r, pages)
    <3>1. Sum(Share(r, n), from) = Sum(f, from)
      <4> HIDE DEF from, f
      <4> QED BY <2>2, SumSame
    <3> QED BY <3>1 DEF Residual
  <2>4. Abstract!Sum(f, from) = Sum(f, from)
    BY AbstractSum
  <2> QED BY <2>1, <2>3, <2>4, AbstractCardinality DEF Abstract!Residual
<1>5. ASSUME NEW p \in pages
      PROVE  /\ Abstract!Iterate(r)[p] =
                  (One - Damped(One)) \div Cardinality(pages)
                    + Damped(Incoming(r, pages, p)) + Damped(Residual(r, pages))
             /\ Abstract!Iterate(r)[p] \in Nat
  <2>1. Abstract!Iterate(r)[p] =
          (One - Damped(One)) \div Cardinality(pages)
            + Damped(Incoming(r, pages, p)) + Damped(Residual(r, pages))
    BY <1>2, <1>3, <1>4, AbstractCardinality DEF Abstract!Iterate
  <2>2. (One - Damped(One)) \div Cardinality(pages) \in Nat
    <3>1. One - Damped(One) \in Nat /\ Cardinality(pages) \in Nat \ {0}
      BY FinitePages, DampedType, ConfigAssumption
    <3> QED BY <3>1, Division
  <2>3. Damped(Incoming(r, pages, p)) \in Nat /\ Damped(Residual(r, pages)) \in Nat
    BY DampedType, IncomingLaws, ResidualLaws
  <2> QED BY <2>1, <2>2, <2>3
<1>6. \A p \in Pages \ pages : Abstract!Iterate(r)[p] = 0
  BY DEF Abstract!Iterate
<1>7. Abstract!Iterate(r) = [p \in Pages |-> Abstract!Iterate(r)[p]]
  BY DEF Abstract!Iterate
<1>8. \A p \in Pages : Abstract!Iterate(r)[p] \in Nat
  BY <1>5, <1>6
<1> QED BY <1>5, <1>6, <1>7, <1>8

LEMMA TargetType ==
  ASSUME TypeInv, RoundInv, pc = "step", superstep > 0
  PROVE  /\ Target \in [Pages -> Nat]
         /\ \A p \in Pages \ pages : Target[p] = 0
<1>1. pages \subseteq Pages /\ ranked \in [Pages -> Nat] /\ superstep \in Nat
  BY BoundsAssumption DEF TypeInv
<1>2. CASE superstep = 1
  <2>1. \A p \in pages : One \div Cardinality(pages) \in Nat
    <3>1. \A p \in pages : Cardinality(pages) \in Nat \ {0}
      BY <1>1, FinitePages
    <3> QED BY <3>1, Division, ConfigAssumption
  <2> QED BY <1>1, <1>2, <2>1 DEF Target, First
<1>3. CASE superstep # 1
  <2>1. Closed
    BY <1>1, <1>3 DEF RoundInv
  <2> QED BY <1>1, <1>3, <2>1, IterateIs DEF Target
<1> QED BY <1>2, <1>3

(* A worker computes it from the messages and the two accumulators.        *)
LEMMA NewScoreIs ==
  ASSUME TypeInv, CountInv, RoundInv, pc = "step", superstep > 0, NEW v \in todo
  PROVE  NewScore(v) = Target[v]
<1>1. pages \subseteq Pages /\ ranked \in [Pages -> Nat] /\ superstep \in Nat /\ v \in pages
  BY BoundsAssumption DEF TypeInv
<1>2. acc["page_count"].cur = Cardinality(pages)
  BY DEF CountInv
<1>3. CASE superstep = 1
  BY <1>1, <1>2, <1>3 DEF NewScore, Target, First, A!Get
<1>4. CASE superstep # 1
  <2>1. /\ Closed /\ inbox[v] = Incoming(ranked, pages, v)
        /\ acc[ResidualInputAccName(superstep)].cur = Residual(ranked, pages)
    BY <1>1, <1>4 DEF RoundInv
  <2> QED BY <1>1, <1>2, <1>4, <2>1, IterateIs DEF NewScore, Target, A!Get
<1> QED BY <1>3, <1>4

-----------------------------------------------------------------------------
LEMMA RankInit == Init => IInv
<1> SUFFICES ASSUME Init PROVE IInv
  OBVIOUS
<1>1. TypeInv
  <2>1. A!New \in [cur : Nat, prev : Nat]
    BY DEF A!New
  <2>2. 0 \in 0..MaxSuperstep /\ 0 \in 0..MaxPasses
    BY BoundsAssumption
  <2> QED BY <2>1, <2>2 DEF Init, TypeInv, Zero
<1>2. WorkerInv /\ CountInv /\ StepInv /\ EndInv
  BY DEF Init, WorkerInv, CountInv, StepInv, EndInv
<1>3. RoundInv
  BY DEF Init, RoundInv, Zero
<1> QED BY <1>1, <1>2, <1>3 DEF IInv

LEMMA FreeIsNoTask == Free \notin Tasks /\ \A t \in Tasks : t # Free
  BY DEF Free, Tasks

(* The divisions of a superstep are by what is there.                      *)
LEMMA CountPositive ==
  ASSUME IInv, pc = "step", superstep > 0, NEW p \in pages
  PROVE  A!Get(acc["page_count"]) = Cardinality(pages) /\ Cardinality(pages) \in Nat \ {0}
<1>1. acc["page_count"].cur = Cardinality(pages)
  BY DEF IInv, CountInv
<1>2. pages \subseteq Pages /\ pages # {}
  BY DEF IInv, TypeInv
<1> QED BY <1>1, <1>2, FinitePages DEF A!Get

LEMMA AbsNat == \A x, y \in Nat : Abs(x - y) \in Nat /\ Abs(x - y) = Abs(y - x)
  BY DEF Abs

LEMMA ExecutorTypes ==
  ASSUME IInv, (\E l \in Loads : Load(l)) \/ Calculator \/ ContextExpires \/ Scores
  PROVE  TypeInv'
<1>1. CASE \E l \in Loads : Load(l)
  <2>1. PICK l \in Loads : Load(l)
    BY <1>1
  <2>2. l.pages \subseteq Pages /\ l.links \subseteq Pages \X Pages
    BY LoadsAssumption
  <2>3. A!New \in [cur : Nat, prev : Nat] /\ 0 \in 0..MaxSuperstep /\ Zero \in [Pages -> Nat]
    BY BoundsAssumption DEF A!New, Zero
  <2>4. passes + 1 \in 0..MaxPasses
    BY <2>1, BoundsAssumption DEF Load, IInv, TypeInv
  <2>5. todo = {}
    BY <2>1 DEF Load, IInv, WorkerInv
  <2>6. pages' \subseteq Pages /\ links' \subseteq Pages \X Pages
    BY <2>1, <2>2 DEF Load
  <2>7. acc' \in [Aggregators -> [cur : Nat, prev : Nat]]
    BY <2>1, <2>3 DEF Load
  <2> QED BY <2>1, <2>3, <2>4, <2>5, <2>6, <2>7 DEF Load, IInv, TypeInv
<1>2. CASE PreStep
  <2>1. A!Set(0) \in [cur : Nat, prev : Nat]
    BY DEF A!Set
  <2>2. acc' \in [Aggregators -> [cur : Nat, prev : Nat]]
    BY <1>2, <2>1 DEF PreStep, IInv, TypeInv
  <2> QED BY <1>2, <2>2 DEF PreStep, graphVars, IInv, TypeInv
<1>3. CASE PostStep
  <2>1. A!Get(acc["SAD"]) \in Nat
    BY DEF A!Get, IInv, TypeInv, Aggregators
  <2>2. ranked' \in [Pages -> Nat] /\ lastSAD' \in Nat
    BY <1>3, <2>1 DEF PostStep, IInv, TypeInv
  <2>3. superstep' \in 0..MaxSuperstep
    BY <1>3, BoundsAssumption DEF PostStep, IInv, TypeInv
  <2>4. inbox' \in [Pages -> Nat] /\ outbox' \in [Pages -> Nat]
    BY <1>3 DEF PostStep, Zero, IInv, TypeInv
  <2>5. pc' \in {"idle", "pre", "step", "scored", "failed", "cancelled"}
    BY <1>3 DEF PostStep
  <2> QED BY <1>3, <2>2, <2>3, <2>4, <2>5 DEF PostStep, graphVars, IInv, TypeInv
<1>4. CASE ContextExpires \/ Scores
  BY <1>4 DEF ContextExpires, Scores, graphVars, stepVars, IInv, TypeInv
<1> QED BY <1>1, <1>2, <1>3, <1>4 DEF Calculator

LEMMA CountPageTypes ==
  ASSUME IInv, NEW w \in Workers, NEW v \in Pages, CountPage(w, v) PROVE TypeInv'
<1>1. acc' \in [Aggregators -> [cur : Nat, prev : Nat]]
  <2>1. acc["page_count"] \in [cur : Nat, prev : Nat]
    BY DEF IInv, TypeInv, Aggregators
  <2>2. A!AddInt(acc["page_count"], 1) \in [cur : Nat, prev : Nat]
    BY <2>1 DEF A!AddInt
  <2> QED BY <2>2 DEF CountPage, IInv, TypeInv
<1> QED BY <1>1 DEF CountPage, graphVars, IInv, TypeInv

LEMMA ComputeScoreTypes ==
  ASSUME IInv, NEW w \in Workers, NEW v \in Pages, ComputeScore(w, v) PROVE TypeInv'
<1>1. NewScore(v) = Target[v] /\ Target[v] \in Nat
  BY NewScoreIs, TargetType DEF ComputeScore, IInv, TypeInv
<1>2. Abs(score[v] - NewScore(v)) \in Nat
  BY <1>1, AbsNat DEF IInv, TypeInv
<1>3. [pc |-> "load", page |-> v, score |-> NewScore(v),
       name |-> "SAD", value |-> Abs(score[v] - NewScore(v)), old |-> 0] \in Tasks
  BY <1>1, <1>2 DEF Tasks
<1>4. busy' \in [Workers -> Tasks \cup {Free}]
  BY <1>3 DEF ComputeScore, IInv, TypeInv
<1>5. inbox' \in [Pages -> Nat]
  BY DEF ComputeScore, IInv, TypeInv
<1> QED BY <1>4, <1>5 DEF ComputeScore, graphVars, IInv, TypeInv

(* What a worker that is at something is at.                               *)
LEMMA TaskIs ==
  ASSUME IInv, NEW w \in Workers, busy[w] # Free
  PROVE  /\ busy[w] \in Tasks /\ busy[w].name \in Aggregators
         /\ busy[w].page \in pages \ todo /\ busy[w].page \in Pages
         /\ pc = "step" /\ superstep > 0 /\ superstep \in Nat
         /\ acc[busy[w].name].cur \in Nat
<1>1. busy[w] \in Tasks
  BY DEF IInv, TypeInv
<1>2. busy[w].name \in Aggregators
  BY <1>1 DEF Tasks, Aggregators
<1> QED BY <1>1, <1>2, BoundsAssumption DEF IInv, TypeInv, WorkerInv

LEMMA LoadSumTypes == ASSUME IInv, NEW w \in Workers, LoadSum(w) PROVE TypeInv'
<1>1. busy[w] \in Tasks /\ acc[busy[w].name].cur \in Nat
  BY TaskIs DEF LoadSum
<1>2. [busy[w] EXCEPT !.pc = "cas", !.old = A!Get(acc[busy[w].name])] \in Tasks
  BY <1>1 DEF Tasks, A!Get
<1>3. busy' \in [Workers -> Tasks \cup {Free}]
  BY <1>2 DEF LoadSum, IInv, TypeInv
<1> QED BY <1>3 DEF LoadSum, graphVars, IInv, TypeInv

LEMMA SwapSumTypes == ASSUME IInv, NEW w \in Workers, SwapSum(w) PROVE TypeInv'
<1>1. busy[w] \in Tasks /\ busy[w].name \in Aggregators
  BY TaskIs DEF SwapSum
<1>2. busy[w].old \in Nat /\ busy[w].value \in Nat
  BY <1>1 DEF Tasks
<1>3. acc[busy[w].name] \in [cur : Nat, prev : Nat]
  BY <1>1 DEF IInv, TypeInv
<1>4. A!Swapped(acc[busy[w].name], busy[w].old, busy[w].value) \in [cur : Nat, prev : Nat]
  BY <1>2, <1>3 DEF A!Swapped
<1>5. acc' \in [Aggregators -> [cur : Nat, prev : Nat]]
  BY <1>4 DEF SwapSum, IInv, TypeInv
<1>6. [busy[w] EXCEPT !.pc = "load"] \in Tasks /\ [busy[w] EXCEPT !.pc = "spread"] \in Tasks
  BY <1>1 DEF Tasks
<1>7. busy' \in [Workers -> Tasks \cup {Free}]
  BY <1>6 DEF SwapSum, IInv, TypeInv
<1> QED BY <1>5, <1>7 DEF SwapSum, graphVars, IInv, TypeInv

LEMMA SpreadScoreTypes == ASSUME IInv, NEW w \in Workers, SpreadScore(w) PROVE TypeInv'
<1> DEFINE b == busy[w]
<1>1. /\ b \in Tasks /\ b.page \in pages /\ b.page \in Pages
      /\ pc = "step" /\ superstep > 0 /\ superstep \in Nat
  BY TaskIs DEF SpreadScore
<1>2. b.score \in Nat
  BY <1>1 DEF Tasks
<1>3. b.score \div A!Get(acc["page_count"]) \in Nat
  BY <1>1, <1>2, CountPositive, Division
<1>4. [b EXCEPT !.pc = "load", !.name = ResidualOutputAccName(superstep),
                !.value = b.score \div A!Get(acc["page_count"])] \in Tasks
  BY <1>1, <1>3, Residuals DEF Tasks
<1>5. busy' \in [Workers -> Tasks \cup {Free}]
  <2> HIDE DEF b
  <2>1. busy' = [busy EXCEPT ![w] = [b EXCEPT !.pc = "load", !.name = ResidualOutputAccName(superstep),
                !.value = b.score \div A!Get(acc["page_count"])]] \/ busy' = [busy EXCEPT ![w] = Free]
    BY DEF SpreadScore, b
  <2> QED BY <1>4, <2>1 DEF IInv, TypeInv
<1>6. score' \in [Pages -> Nat]
  BY <1>2 DEF SpreadScore, IInv, TypeInv
<1>7. outbox' \in [Pages -> Nat]
  <2>1. CASE UNCHANGED outbox
    BY <2>1 DEF IInv, TypeInv
  <2>2. CASE Out(b.page) # {} /\ outbox' = [p \in Pages |->
             outbox[p] + IF p \in Out(b.page) THEN b.score \div Cardinality(Out(b.page)) ELSE 0]
    <3>1. Cardinality(Out(b.page)) \in Nat \ {0}
      BY <1>1, <2>2, FinitePages DEF IInv, TypeInv
    <3>2. b.score \div Cardinality(Out(b.page)) \in Nat
      BY <1>2, <3>1, Division
    <3> QED BY <2>2, <3>2 DEF IInv, TypeInv
  <2> QED BY <2>1, <2>2 DEF SpreadScore
<1>8. failed' \in BOOLEAN
  BY DEF SpreadScore, IInv, TypeInv
<1> QED BY <1>5, <1>6, <1>7, <1>8 DEF SpreadScore, graphVars, IInv, TypeInv

LEMMA TypeStep == IInv /\ [Next]_vars => TypeInv'
<1> SUFFICES ASSUME IInv, [Next]_vars PROVE TypeInv'
  OBVIOUS
<1>1. CASE UNCHANGED vars
  BY <1>1 DEF vars, graphVars, stepVars, IInv, TypeInv
<1>2. ASSUME NEW w \in Workers, Worker(w) PROVE TypeInv'
  BY <1>2, CountPageTypes, ComputeScoreTypes, LoadSumTypes, SwapSumTypes, SpreadScoreTypes DEF Worker
<1> QED BY <1>1, <1>2, ExecutorTypes DEF Next

-----------------------------------------------------------------------------
LEMMA WorkerStep == IInv /\ [Next]_vars => WorkerInv'
<1> SUFFICES ASSUME IInv, [Next]_vars PROVE WorkerInv'
  OBVIOUS
<1>1. CASE UNCHANGED vars
  BY <1>1 DEF vars, graphVars, stepVars, IInv, WorkerInv
<1>2. CASE (\E l \in Loads : Load(l)) \/ Calculator \/ ContextExpires \/ Scores
  <2>1. (\A w \in Workers : busy'[w] = Free) /\ (pc' # "step" => todo' = {})
    BY <1>2 DEF Load, Calculator, PreStep, PostStep, ContextExpires, Scores, stepVars, IInv, WorkerInv
  <2> QED BY <2>1 DEF WorkerInv
<1>3. ASSUME NEW w \in Workers, Worker(w) PROVE WorkerInv'
  <2>1. busy \in [Workers -> Tasks \cup {Free}] /\ superstep \in Nat
    BY BoundsAssumption DEF IInv, TypeInv
  <2>2. /\ UNCHANGED <<pages, pc, superstep>> /\ pc = "step" /\ todo' \subseteq todo
        /\ \A x \in Workers : x # w => busy'[x] = busy[x]
    BY <1>3, <2>1
       DEF Worker, CountPage, ComputeScore, LoadSum, SwapSum, SpreadScore, graphVars, IInv,
           WorkerInv
  <2>3. ASSUME NEW v \in Pages, CountPage(w, v) PROVE WorkerInv'
    BY <2>1, <2>2, <2>3 DEF CountPage, IInv, WorkerInv
  <2>4. ASSUME NEW v \in Pages, ComputeScore(w, v) PROVE WorkerInv'
    <3>1. /\ superstep > 0 /\ v \in todo /\ todo' = todo \ {v}
          /\ busy'[w].page = v /\ busy'[w].name = "SAD" /\ busy'[w].pc = "load"
             /\ todo \subseteq pages
      BY <2>1, <2>4 DEF ComputeScore, IInv, TypeInv
    <3>2. \A x \in Workers : x # w /\ busy[x] # Free => busy[x].page # v
      BY <3>1 DEF IInv, WorkerInv
    <3> QED BY <2>2, <3>1, <3>2 DEF IInv, WorkerInv
  <2>5. CASE LoadSum(w) \/ SwapSum(w) \/ SpreadScore(w)
    <3>1. /\ busy[w] # Free /\ busy[w] \in Tasks /\ busy[w].page \in pages \ todo /\ superstep > 0
          /\ busy[w].name \in {"SAD", ResidualOutputAccName(superstep)} /\ todo' = todo
      BY <2>5, TaskIs DEF LoadSum, SwapSum, SpreadScore, IInv, WorkerInv
    <3>2. busy'[w] # Free =>
            /\ busy'[w].page = busy[w].page
            /\ busy'[w].name \in {"SAD", ResidualOutputAccName(superstep)}
            /\ busy'[w].pc = "spread" => busy'[w].name = "SAD"
      <4>1. CASE LoadSum(w)
        <5>1. busy[w].pc = "load"
              /\ busy'[w] = [busy[w] EXCEPT !.pc = "cas", !.old = A!Get(acc[busy[w].name])]
          BY <2>1, <4>1 DEF LoadSum
        <5>2. busy'[w].page = busy[w].page /\ busy'[w].name = busy[w].name /\ busy'[w].pc = "cas"
          BY <3>1, <5>1 DEF Tasks
        <5> QED BY <3>1, <5>2
      <4>2. CASE SwapSum(w)
        <5>1. \/ busy'[w] = [busy[w] EXCEPT !.pc = "load"]
              \/ busy'[w] = [busy[w] EXCEPT !.pc = "spread"] /\ busy[w].name = "SAD"
              \/ busy'[w] = Free
          BY <2>1, <4>2 DEF SwapSum
        <5> QED BY <3>1, <5>1 DEF Tasks
      <4>3. CASE SpreadScore(w)
        <5>1. \/ busy'[w] = [busy[w] EXCEPT !.pc = "load", !.name = ResidualOutputAccName(superstep),
                                !.value = busy[w].score \div A!Get(acc["page_count"])]
              \/ busy'[w] = Free
          BY <2>1, <4>3 DEF SpreadScore
        <5> QED BY <3>1, <5>1 DEF Tasks
      <4> QED BY <2>5, <4>1, <4>2, <4>3
    <3> QED BY <2>2, <3>1, <3>2 DEF IInv, WorkerInv
  <2> QED BY <1>3, <2>3, <2>4, <2>5 DEF Worker
<1> QED BY <1>1, <1>2, <1>3 DEF Next

(* The pages are counted once each in superstep 0.                         *)
LEMMA CountStep == IInv /\ [Next]_vars => CountInv'
<1> SUFFICES ASSUME IInv, [Next]_vars PROVE CountInv'
  OBVIOUS
<1>0. /\ superstep \in Nat /\ acc \in [Aggregators -> [cur : Nat, prev : Nat]]
         /\ pages \subseteq Pages
      /\ todo \subseteq pages /\ "page_count" \in Aggregators /\ "SAD" # "page_count"
      /\ ResidualOutputAccName(superstep) # "page_count"
  BY BoundsAssumption, Residuals DEF IInv, TypeInv, Aggregators
<1>1. CASE UNCHANGED vars
  BY <1>1 DEF vars, graphVars, stepVars, IInv, CountInv
<1>2. CASE \E l \in Loads : Load(l)
  BY <1>2, <1>0 DEF Load, A!New, CountInv
<1>3. CASE PreStep
  <2>1. acc'["page_count"] = acc["page_count"] /\ pages \ todo' = {}
    BY <1>3, <1>0 DEF PreStep
  <2>2. Cardinality({}) = 0
    BY FS_EmptySet
  <2> QED BY <1>3, <1>0, <2>1, <2>2 DEF PreStep, graphVars, IInv, CountInv
<1>4. CASE PostStep
  <2>1. pages \ todo = pages
    BY <1>4 DEF PostStep
  <2> QED BY <1>4, <1>0, <2>1 DEF PostStep, graphVars, IInv, CountInv
<1>5. CASE ContextExpires \/ Scores
  BY <1>5 DEF ContextExpires, Scores, CountInv
<1>6. ASSUME NEW w \in Workers, NEW v \in Pages, CountPage(w, v) PROVE CountInv'
  <2>1. v \in todo /\ todo' = todo \ {v} /\ UNCHANGED <<pages, pc, superstep>> /\ superstep = 0
        /\ pc = "step"
    BY <1>6 DEF CountPage, graphVars
  <2>2. acc'["page_count"].cur = acc["page_count"].cur + 1
    BY <1>6, <1>0 DEF CountPage, A!AddInt
  <2>3. pages \ todo' = (pages \ todo) \cup {v} /\ v \notin pages \ todo
    BY <2>1, <1>0
  <2>4. IsFiniteSet(pages \ todo) /\ Cardinality(pages \ todo) \in Nat
    <3>1. pages \ todo \in SUBSET Pages
      BY <1>0
    <3> QED BY <1>0, <3>1, FinitePages
  <2>5. Cardinality(pages \ todo') = Cardinality(pages \ todo) + 1
    BY <2>3, <2>4, FS_AddElement
  <2>6. acc["page_count"].cur = Cardinality(pages \ todo)
    BY <2>1 DEF IInv, CountInv
  <2> QED BY <2>1, <2>2, <2>5, <2>6 DEF CountInv
<1>7. ASSUME NEW w \in Workers,
             (\E v \in Pages : ComputeScore(w, v)) \/ LoadSum(w) \/ SwapSum(w) \/ SpreadScore(w)
      PROVE  CountInv'
  <2>1. superstep > 0 /\ pc = "step" /\ UNCHANGED <<pages, pc, superstep>>
    BY <1>7 DEF ComputeScore, LoadSum, SwapSum, SpreadScore, graphVars, IInv, WorkerInv
  <2>2. acc'["page_count"] = acc["page_count"]
    <3>1. CASE SwapSum(w)
      <4>1. busy[w].name # "page_count"
        BY <3>1, <1>0 DEF SwapSum, IInv, WorkerInv
      <4> QED BY <3>1, <4>1, <1>0 DEF SwapSum
    <3> QED BY <1>7, <3>1 DEF ComputeScore, LoadSum, SpreadScore
  <2> QED BY <2>1, <2>2 DEF IInv, CountInv
<1> QED BY <1>1, <1>2, <1>3, <1>4, <1>5, <1>6, <1>7 DEF Next, Calculator, Worker

-----------------------------------------------------------------------------
(* How far the pages are, by what the workers are at.                      *)
LEMMA PageAt ==
  ASSUME IInv, NEW w \in Workers, busy[w] # Free
  PROVE  /\ busy[w].page \in pages \ todo /\ busy[w].page \notin Settled
         /\ busy[w].page \in Counted <=> busy[w].name # "SAD" \/ busy[w].pc = "spread"
         /\ busy[w].page \in Spread <=> busy[w].name # "SAD"
<1>1. /\ busy[w].page \in pages \ todo
      /\ \A x \in Workers : At(x, busy[w].page) => x = w
  BY DEF IInv, WorkerInv, At
<1>2. At(w, busy[w].page)
  BY DEF At
<1> QED BY <1>1, <1>2 DEF Counted, Spread, Settled, Adding, Storing, Handling

LEMMA OneWorker ==
  ASSUME IInv, NEW w \in Workers, busy[w] # Free, UNCHANGED <<pages, todo>>,
         \A x \in Workers : x # w => busy'[x] = busy[x],
         busy'[w] # Free => busy'[w].page = busy[w].page
  PROVE  /\ Counted' \ {busy[w].page} = Counted \ {busy[w].page}
         /\ Spread' \ {busy[w].page} = Spread \ {busy[w].page}
         /\ Settled' \ {busy[w].page} = Settled \ {busy[w].page}
         /\ busy[w].page \in Settled' <=> busy'[w] = Free
         /\ busy[w].page \in Counted' <=>
              busy'[w] = Free \/ busy'[w].name # "SAD" \/ busy'[w].pc = "spread"
         /\ busy[w].page \in Spread' <=> busy'[w] = Free \/ busy'[w].name # "SAD"
<1> SUFFICES ASSUME NEW p, p = busy[w].page
             PROVE  /\ Counted' \ {p} = Counted \ {p} /\ Spread' \ {p} = Spread \ {p}
                    /\ Settled' \ {p} = Settled \ {p}
                    /\ p \in Settled' <=> busy'[w] = Free
                    /\ p \in Counted' <=>
                         busy'[w] = Free \/ busy'[w].name # "SAD" \/ busy'[w].pc = "spread"
                    /\ p \in Spread' <=> busy'[w] = Free \/ busy'[w].name # "SAD"
  OBVIOUS
<1>1. p \in pages \ todo /\ \A x \in Workers : x # w => ~ At(x, p)
  BY DEF IInv, WorkerInv, At
<1>2. \A x \in Workers : \A q : x # w \/ q # p => (At(x, q)' <=> At(x, q))
  BY DEF At
<1>3. At(w, p)' <=> busy'[w] # Free
  BY DEF At
<1>4. \A q : q # p => (Adding(q)' <=> Adding(q)) /\ (Storing(q)' <=> Storing(q))
                      /\ (Handling(q)' <=> Handling(q))
  <2> SUFFICES ASSUME NEW q, q # p
               PROVE  (Adding(q)' <=> Adding(q)) /\ (Storing(q)' <=> Storing(q))
                      /\ (Handling(q)' <=> Handling(q))
    OBVIOUS
  <2>1. ~ At(w, q) /\ ~ At(w, q)'
    BY <1>2 DEF At
  <2>2. \A x \in Workers : x # w => (At(x, q)' <=> At(x, q)) /\ busy'[x] = busy[x]
    BY <1>2
  <2> QED BY <2>1, <2>2 DEF Adding, Storing, Handling
<1>5. /\ Handling(p)' <=> busy'[w] # Free
      /\ Adding(p)' <=> busy'[w] # Free /\ busy'[w].name = "SAD" /\ busy'[w].pc # "spread"
      /\ Storing(p)' <=> busy'[w] # Free /\ busy'[w].name = "SAD"
  <2>1. \A x \in Workers : x # w => ~ At(x, p)'
    BY <1>1, <1>2
  <2> QED BY <2>1, <1>3 DEF Adding, Storing, Handling
<1>6. \A q : /\ q \in Counted' <=> q \in pages \ todo /\ ~ Adding(q)'
             /\ q \in Spread' <=> q \in pages \ todo /\ ~ Storing(q)'
             /\ q \in Settled' <=> q \in pages \ todo /\ ~ Handling(q)'
             /\ q \in Counted <=> q \in pages \ todo /\ ~ Adding(q)
             /\ q \in Spread <=> q \in pages \ todo /\ ~ Storing(q)
             /\ q \in Settled <=> q \in pages \ todo /\ ~ Handling(q)
  BY DEF Counted, Spread, Settled
<1>7. /\ Counted' \ {p} = Counted \ {p} /\ Spread' \ {p} = Spread \ {p}
      /\ Settled' \ {p} = Settled \ {p}
  BY <1>4, <1>6
<1>8. /\ p \in Settled' <=> busy'[w] = Free
      /\ p \in Counted' <=> busy'[w] = Free \/ busy'[w].name # "SAD" \/ busy'[w].pc = "spread"
      /\ p \in Spread' <=> busy'[w] = Free \/ busy'[w].name # "SAD"
  BY <1>1, <1>5, <1>6
<1> QED BY <1>7, <1>8

(* How a step of one worker moves its page, and no other.                  *)
LEMMA PageMoves ==
  ASSUME IInv, NEW w \in Workers, NEW p, busy[w] # Free, p = busy[w].page,
         UNCHANGED <<pages, todo>>, \A x \in Workers : x # w => busy'[x] = busy[x],
         busy'[w] # Free => busy'[w].page = p,
         NEW counted, counted <=> busy[w].name # "SAD" \/ busy[w].pc = "spread",
         NEW counts, counts <=> busy'[w] = Free \/ busy'[w].name # "SAD" \/ busy'[w].pc = "spread",
         NEW spread, spread <=> busy[w].name # "SAD",
         NEW spreads, spreads <=> busy'[w] = Free \/ busy'[w].name # "SAD"
  PROVE  /\ p \in pages /\ p \notin Settled
         /\ busy'[w] = Free => Settled' = Settled \cup {p}
         /\ busy'[w] # Free => Settled' = Settled
         /\ (counted <=> counts) => Counted' = Counted
         /\ ~counted /\ counts => p \notin Counted /\ Counted' = Counted \cup {p}
         /\ (spread <=> spreads) => Spread' = Spread
         /\ ~spread /\ spreads => p \notin Spread /\ Spread' = Spread \cup {p}
<1>1. /\ p \in pages /\ p \notin Settled
      /\ p \in Counted <=> busy[w].name # "SAD" \/ busy[w].pc = "spread"
      /\ p \in Spread <=> busy[w].name # "SAD"
  BY PageAt
<1>2. /\ Counted' \ {p} = Counted \ {p} /\ Spread' \ {p} = Spread \ {p}
      /\ Settled' \ {p} = Settled \ {p}
      /\ p \in Settled' <=> busy'[w] = Free
      /\ p \in Counted' <=> busy'[w] = Free \/ busy'[w].name # "SAD" \/ busy'[w].pc = "spread"
      /\ p \in Spread' <=> busy'[w] = Free \/ busy'[w].name # "SAD"
  BY OneWorker
<1>3. \A S, T : /\ S \ {p} = T \ {p} /\ (p \in S <=> p \in T) => S = T
                /\ S \ {p} = T \ {p} /\ p \in S /\ p \notin T => S = T \cup {p}
  OBVIOUS
<1> QED BY <1>1, <1>2, <1>3

LEMMA TakenPage ==
  ASSUME IInv, NEW w \in Workers, NEW v \in Pages, ComputeScore(w, v)
  PROVE  Counted' = Counted /\ Spread' = Spread /\ Settled' = Settled
<1>1. /\ v \in todo /\ todo' = todo \ {v} /\ busy[w] = Free /\ pages' = pages
      /\ busy'[w] # Free /\ busy'[w].page = v /\ busy'[w].name = "SAD" /\ busy'[w].pc = "load"
      /\ \A x \in Workers : x # w => busy'[x] = busy[x]
  BY DEF ComputeScore, Free, graphVars, IInv, TypeInv
<1>2. \A x \in Workers : ~ At(x, v)
  BY <1>1 DEF At, IInv, WorkerInv
<1>3. \A x \in Workers : \A q : q # v => (At(x, q)' <=> At(x, q)) /\ (At(x, q) => busy'[x] = busy[x])
  BY <1>1 DEF At
<1>4. At(w, v)'
  BY <1>1 DEF At
<1>5. \A q : q # v => (Adding(q)' <=> Adding(q)) /\ (Storing(q)' <=> Storing(q))
                      /\ (Handling(q)' <=> Handling(q))
  BY <1>3 DEF Adding, Storing, Handling
<1>6. Adding(v)' /\ Storing(v)' /\ Handling(v)'
  BY <1>1, <1>4 DEF Adding, Storing, Handling
<1>7. \A q : /\ q \in Counted' <=> q \in pages \ todo' /\ ~ Adding(q)'
             /\ q \in Spread' <=> q \in pages \ todo' /\ ~ Storing(q)'
             /\ q \in Settled' <=> q \in pages \ todo' /\ ~ Handling(q)'
             /\ q \in Counted <=> q \in pages \ todo /\ ~ Adding(q)
             /\ q \in Spread <=> q \in pages \ todo /\ ~ Storing(q)
             /\ q \in Settled <=> q \in pages \ todo /\ ~ Handling(q)
  BY <1>1 DEF Counted, Spread, Settled
<1> QED BY <1>1, <1>5, <1>6, <1>7

(* When all workers are free the superstep is done with the pages that are *)
(* not waiting.                                                            *)
LEMMA AllFree ==
  ASSUME \A w \in Workers : busy[w] = Free
  PROVE  Counted = pages \ todo /\ Spread = pages \ todo /\ Settled = pages \ todo
  BY DEF Counted, Spread, Settled, Adding, Storing, Handling, At

-----------------------------------------------------------------------------
(* On the same graph the same is computed.                                 *)
LEMMA GraphSame ==
  ASSUME UNCHANGED <<pages, links>>
  PROVE  /\ \A r, S : Residual(r, S)' = Residual(r, S)
         /\ \A r, S, v : Incoming(r, S, v)' = Incoming(r, S, v)
         /\ \A r : Abstract!Iterate(r)' = Abstract!Iterate(r)
         /\ \A q : Out(q)' = Out(q)
         /\ Closed' <=> Closed
  BY DEF Residual, Share, Incoming, Shares, Out, Closed, Abstract!Iterate, Abstract!Incoming,
         Abstract!Residual, Abstract!DeadEnds, Abstract!Out

LEMMA RoundSame ==
  ASSUME UNCHANGED <<pages, links, superstep, ranked>>
  PROVE  Target' = Target /\ Change' = Change
  BY GraphSame DEF Target, Change, First

LEMMA SumEmpty == \A f : Sum(f, {}) = 0
<1> SUFFICES ASSUME NEW f PROVE Sum(f, {}) = 0
  OBVIOUS
<1>1. IsFiniteSet({}) /\ \A q \in {} : f[q] \in Int
  BY FS_EmptySet
<1> QED BY <1>1, SumRec

LEMMA NothingSent == \A r, v : Incoming(r, {}, v) = 0 /\ Residual(r, {}) = 0
  BY SumEmpty DEF Incoming, Residual

(* The scores at the end of a superstep that did not fail are those it is  *)
(* to compute.                                                             *)
LEMMA StepDone ==
  ASSUME IInv, pc = "step", superstep > 0, todo = {}, \A w \in Workers : busy[w] = Free
  PROVE  /\ score = Target /\ acc["SAD"].cur = Sum(Change, pages)
         /\ acc[ResidualOutputAccName(superstep)].cur = Residual(score, pages)
         /\ ~failed => Closed /\ \A v \in pages : outbox[v] = Incoming(score, pages, v)
<1>1. Counted = pages /\ Spread = pages /\ Settled = pages
  BY AllFree
<1>2. Target \in [Pages -> Nat] /\ \A p \in Pages \ pages : Target[p] = 0
  BY TargetType DEF IInv
<1>3. score = Target
  BY <1>1, <1>2 DEF IInv, TypeInv, RoundInv, StepInv
<1> QED BY <1>1, <1>3 DEF IInv, StepInv, Closed

LEMMA ExecutorRound ==
  ASSUME IInv, (\E l \in Loads : Load(l)) \/ Calculator \/ ContextExpires \/ Scores
  PROVE  RoundInv'
<1>0. /\ superstep \in Nat /\ acc \in [Aggregators -> [cur : Nat, prev : Nat]]
      /\ {"SAD", "residual_0", "residual_1"} \subseteq Aggregators
  BY BoundsAssumption DEF IInv, TypeInv, Aggregators
<1>1. CASE \E l \in Loads : Load(l)
  BY <1>1, <1>0 DEF Load, RoundInv, Zero, A!New
<1>2. CASE PreStep
  <2>1. UNCHANGED <<pages, links, superstep, ranked, score, inbox, outbox, failed>>
    BY <1>2 DEF PreStep, graphVars
  <2>2. /\ acc'["SAD"].cur = 0
        /\ acc'[ResidualInputAccName(superstep)] = acc[ResidualInputAccName(superstep)]
    BY <1>2, <1>0, Residuals DEF PreStep, A!Set
  <2>3. pc = "pre" /\ pc' = "step" /\ todo' = pages
    BY <1>2 DEF PreStep
  <2>4. superstep > 1 => /\ Closed'
        /\ acc'[ResidualInputAccName(superstep)].cur = Residual(ranked, pages)'
                         /\ \A v \in pages : inbox'[v] = Incoming(ranked, pages, v)'
    BY <2>1, <2>2, <2>3, GraphSame DEF IInv, RoundInv
  <2> QED BY <2>1, <2>2, <2>3, <2>4 DEF IInv, RoundInv
<1>3. CASE PostStep
  <2>1. /\ pc = "step" /\ todo = {} /\ (\A w \in Workers : busy[w] = Free)
        /\ UNCHANGED <<pages, links, score, acc, failed>>
    BY <1>3 DEF PostStep, graphVars
  <2>2. \A p \in Pages \ pages : score'[p] = 0 /\ ranked'[p] = 0
    BY <1>3, <2>1 DEF PostStep, IInv, RoundInv
  <2>3. CASE pc' # "pre"
    <3>1. pc' # "step"
      BY <1>3 DEF PostStep
    <3> QED BY <2>1, <2>2, <2>3, <3>1 DEF RoundInv
  <2>4. CASE pc' = "pre"
    <3>1. /\ ~failed /\ ranked' = score /\ superstep' = superstep + 1
          /\ inbox' = outbox /\ outbox' = Zero
      BY <1>3, <2>4 DEF PostStep
    <3>2. CASE superstep = 0
      BY <2>1, <2>2, <2>4, <3>1, <3>2 DEF IInv, RoundInv
    <3>3. CASE superstep # 0
      <4>1. /\ Closed /\ \A v \in pages : outbox[v] = Incoming(score, pages, v)
            /\ acc[ResidualOutputAccName(superstep)].cur = Residual(score, pages)
        BY <1>0, <2>1, <3>1, <3>3, StepDone
      <4>2. /\ Closed' /\ \A v \in pages : inbox'[v] = Incoming(ranked, pages, v)'
            /\ acc'[ResidualInputAccName(superstep')].cur = Residual(ranked, pages)'
        BY <1>0, <2>1, <3>1, <4>1, GraphSame, Residuals
      <4> QED BY <1>0, <2>1, <2>2, <2>4, <3>1, <3>3, <4>2 DEF RoundInv
    <3> QED BY <3>2, <3>3
  <2> QED BY <2>3, <2>4
<1>4. CASE ContextExpires \/ Scores
  BY <1>4 DEF ContextExpires, Scores, graphVars, stepVars, IInv, RoundInv
<1> QED BY <1>1, <1>2, <1>3, <1>4 DEF Calculator

LEMMA WorkerRound == ASSUME IInv, NEW w \in Workers, Worker(w) PROVE RoundInv'
<1>0. /\ superstep \in Nat /\ acc \in [Aggregators -> [cur : Nat, prev : Nat]]
      /\ {"SAD", "residual_0", "residual_1", "page_count"} \subseteq Aggregators
      /\ inbox \in [Pages -> Nat] /\ score \in [Pages -> Nat] /\ todo \subseteq pages
         /\ pages \subseteq Pages
  BY BoundsAssumption DEF IInv, TypeInv, Aggregators
<1>1. UNCHANGED <<pages, links, pc, superstep, ranked>> /\ pc = "step"
  BY DEF Worker, CountPage, ComputeScore, LoadSum, SwapSum, SpreadScore, graphVars, IInv, WorkerInv
<1>2. \A p \in Pages \ pages : score'[p] = 0 /\ ranked'[p] = 0
  <2>1. \A p \in Pages \ pages : score'[p] = score[p]
    <3>1. CASE SpreadScore(w)
      <4>1. busy[w].page \in pages
        BY <3>1, TaskIs DEF SpreadScore
      <4> QED BY <3>1, <4>1, <1>0 DEF SpreadScore
    <3> QED BY <3>1 DEF Worker, CountPage, ComputeScore, LoadSum, SwapSum
  <2> QED BY <2>1, <1>1 DEF IInv, RoundInv
<1>3. superstep = 0 => score' = Zero /\ acc'["SAD"].cur = 0 /\ ~failed'
  <2> SUFFICES ASSUME superstep = 0 PROVE score' = Zero /\ acc'["SAD"].cur = 0 /\ ~failed'
    OBVIOUS
  <2>1. \E v \in Pages : CountPage(w, v)
    BY DEF Worker, ComputeScore, LoadSum, SwapSum, SpreadScore, IInv, WorkerInv
  <2> QED BY <2>1, <1>0, <1>1 DEF CountPage, IInv, RoundInv
<1>4. ASSUME superstep > 1
      PROVE  /\ acc'[ResidualInputAccName(superstep)] = acc[ResidualInputAccName(superstep)]
             /\ \A v \in todo' : v \in todo /\ inbox'[v] = inbox[v]
  <2>1. ~ \E v \in Pages : CountPage(w, v)
    BY <1>4 DEF CountPage
  <2>2. CASE SwapSum(w)
    <3>1. busy[w].name # ResidualInputAccName(superstep)
      BY <2>2, <1>0, Residuals DEF SwapSum, IInv, WorkerInv
    <3> QED BY <2>2, <3>1, <1>0, Residuals DEF SwapSum
  <2>3. ASSUME NEW v \in Pages, ComputeScore(w, v)
        PROVE  acc' = acc /\ \A x \in todo' : x \in todo /\ inbox'[x] = inbox[x]
    BY <2>3, <1>0 DEF ComputeScore
  <2>4. CASE LoadSum(w) \/ SpreadScore(w)
    BY <2>4 DEF LoadSum, SpreadScore
  <2> QED BY <2>1, <2>2, <2>3, <2>4 DEF Worker
<1>5. superstep > 1 => /\ Closed'
      /\ acc'[ResidualInputAccName(superstep)].cur = Residual(ranked, pages)'
                       /\ \A v \in todo' : inbox'[v] = Incoming(ranked, pages, v)'
  BY <1>1, <1>4, GraphSame DEF IInv, RoundInv
<1> QED BY <1>1, <1>2, <1>3, <1>5 DEF IInv, RoundInv

LEMMA RoundStep == IInv /\ [Next]_vars => RoundInv'
<1>1. ASSUME IInv, UNCHANGED vars PROVE RoundInv'
  <2>1. UNCHANGED <<pages, links, pc, superstep, ranked, score, inbox, outbox, acc, todo, failed>>
    BY <1>1 DEF vars, graphVars, stepVars
  <2> QED BY <1>1, <2>1, GraphSame DEF IInv, RoundInv
<1> QED BY <1>1, ExecutorRound, WorkerRound DEF Next

-----------------------------------------------------------------------------
(* A calculation ends with what its last superstep handed on.              *)
LEMMA EndStep == IInv /\ [Next]_vars => EndInv'
<1> SUFFICES ASSUME IInv, [Next]_vars PROVE EndInv'
  OBVIOUS
<1>0. superstep \in Nat
  BY BoundsAssumption DEF IInv, TypeInv
<1>1. CASE UNCHANGED vars
  <2>1. UNCHANGED <<pages, links, pc, superstep, ranked, score, outbox, acc>>
    BY <1>1 DEF vars, graphVars, stepVars
  <2> QED BY <2>1, GraphSame DEF IInv, EndInv
<1>2. CASE PostStep /\ pc' = "scored"
  <2>1. /\ pc = "step" /\ todo = {} /\ (\A w \in Workers : busy[w] = Free)
        /\ UNCHANGED <<pages, links, score, acc, superstep, outbox>> /\ ~failed /\ ranked' = score
        /\ superstep > 1
    BY <1>2 DEF PostStep, graphVars, KeepRunning
  <2>2. /\ Closed /\ \A v \in pages : outbox[v] = Incoming(score, pages, v)
        /\ acc[ResidualOutputAccName(superstep)].cur = Residual(score, pages)
    BY <1>0, <2>1, StepDone
  <2> QED BY <2>1, <2>2, GraphSame DEF EndInv
<1>3. CASE ~ (PostStep /\ pc' = "scored") /\ Next
  <2>1. pc' # "scored"
    <3>1. ASSUME NEW w \in Workers, Worker(w) PROVE pc' = pc /\ pc = "step"
      BY <3>1 DEF Worker, CountPage, ComputeScore, LoadSum, SwapSum, SpreadScore, IInv, WorkerInv
    <3> QED BY <1>3, <3>1 DEF Next, Load, Calculator, PreStep, ContextExpires, Scores
  <2> QED BY <2>1 DEF EndInv
<1> QED BY <1>1, <1>2, <1>3

-----------------------------------------------------------------------------
(* A superstep, one load or CAS at a time.                                 *)
LEMMA PreStepStep == ASSUME IInv, PreStep, superstep > 0 PROVE StepInv'
<1>1. /\ UNCHANGED <<pages, links, superstep, ranked, score, outbox, busy, failed>>
      /\ pc = "pre" /\ todo' = pages
  BY DEF PreStep, graphVars
<1>2. score = ranked /\ outbox = Zero /\ ~failed /\ pages \subseteq Pages /\ superstep \in Nat
  BY <1>1, BoundsAssumption DEF IInv, RoundInv, TypeInv
<1>3. \A w \in Workers : busy[w] = Free
  BY <1>1 DEF IInv, WorkerInv
<1>4. Counted' = {} /\ Spread' = {} /\ Settled' = {}
  BY <1>1 DEF Counted, Spread, Settled
<1>5. acc'["SAD"].cur = 0 /\ acc'[ResidualOutputAccName(superstep)].cur = 0
  BY <1>2, Residuals DEF PreStep, A!Set, IInv, TypeInv, Aggregators
<1>6. /\ Sum(Change, Counted)' = 0 /\ Residual(Target, Settled)' = 0
      /\ \A v \in pages : Incoming(Target, Spread, v)' = 0
  <2>1. Sum(Change, Counted)' = 0
    BY <1>4, SumEmpty
  <2>2. Residual(Target, Settled)' = 0 /\ \A v \in pages : Incoming(Target, Spread, v)' = 0
    BY <1>1, <1>4, GraphSame, NothingSent
  <2> QED BY <2>1, <2>2
<1>7. \A v \in pages : outbox'[v] = 0
  BY <1>1, <1>2 DEF Zero
<1> QED BY <1>1, <1>2, <1>3, <1>4, <1>5, <1>6, <1>7 DEF StepInv

(* What a worker step is seen from the others.                             *)
LEMMA WorkerFrame ==
  ASSUME IInv, NEW w \in Workers,
         (\E v \in Pages : ComputeScore(w, v)) \/ LoadSum(w) \/ SwapSum(w) \/ SpreadScore(w)
  PROVE  /\ UNCHANGED <<pages, links, pc, superstep, ranked>> /\ pc = "step" /\ superstep > 0
         /\ Target' = Target /\ Change' = Change
         /\ Target \in [Pages -> Nat] /\ Change \in [Pages -> Nat]
         /\ \A x \in Workers : x # w => busy'[x] = busy[x]
         /\ pages \subseteq Pages /\ superstep \in Nat
<1>1. /\ UNCHANGED <<pages, links, pc, superstep, ranked>> /\ pc = "step" /\ superstep > 0
      /\ \A x \in Workers : x # w => busy'[x] = busy[x]
  BY DEF ComputeScore, LoadSum, SwapSum, SpreadScore, graphVars, IInv, WorkerInv, TypeInv
<1>2. Target \in [Pages -> Nat] /\ ranked \in [Pages -> Nat]
  BY <1>1, TargetType DEF IInv, TypeInv
<1>3. Change \in [Pages -> Nat]
  BY <1>2, AbsNat DEF Change
<1> QED BY <1>1, <1>2, <1>3, RoundSame, BoundsAssumption DEF IInv, TypeInv

LEMMA ComputeScoreStep ==
  ASSUME IInv, NEW w \in Workers, NEW v \in Pages, ComputeScore(w, v) PROVE StepInv'
<1>1. /\ UNCHANGED <<pages, links, pc, superstep, ranked>> /\ pc = "step" /\ superstep > 0
      /\ Target' = Target /\ Change' = Change /\ \A x \in Workers : x # w => busy'[x] = busy[x]
  BY WorkerFrame
<1>2. /\ UNCHANGED <<score, outbox, acc, failed>> /\ v \in todo /\ v \in pages
      /\ busy'[w].page = v /\ busy'[w].name = "SAD" /\ busy'[w].score = NewScore(v)
      /\ busy'[w].value = Abs(score[v] - NewScore(v))
  BY DEF ComputeScore, IInv, TypeInv
<1>3. Counted' = Counted /\ Spread' = Spread /\ Settled' = Settled
  BY TakenPage
<1>4. NewScore(v) = Target[v]
  BY <1>1, <1>2, NewScoreIs DEF IInv
<1>5. Abs(score[v] - NewScore(v)) = Change[v]
  <2>1. v \notin Spread
    BY <1>2 DEF Spread
  <2>2. score[v] = ranked[v]
    BY <1>1, <1>2, <2>1 DEF IInv, StepInv
  <2> QED BY <1>4, <2>2 DEF Change
<1>6. Residual(Target, Settled)' = Residual(Target, Settled)
      /\ \A x : Incoming(Target, Spread, x)' = Incoming(Target, Spread, x)
  BY <1>1, <1>3, GraphSame
<1>7. \A q : Out(q)' = Out(q)
  BY <1>1, GraphSame
<1> QED BY <1>1, <1>2, <1>3, <1>4, <1>5, <1>6, <1>7 DEF IInv, StepInv

LEMMA LoadSumStep == ASSUME IInv, NEW w \in Workers, LoadSum(w) PROVE StepInv'
<1>1. /\ UNCHANGED <<pages, links, pc, superstep, ranked>> /\ pc = "step" /\ superstep > 0
      /\ Target' = Target /\ Change' = Change /\ \A x \in Workers : x # w => busy'[x] = busy[x]
  BY WorkerFrame
<1>2. UNCHANGED <<score, outbox, acc, failed, todo>> /\ busy[w] # Free /\ busy[w] \in Tasks
  BY TaskIs DEF LoadSum
<1>3. busy[w].pc = "load"
      /\ busy'[w] = [busy[w] EXCEPT !.pc = "cas", !.old = A!Get(acc[busy[w].name])]
  BY DEF LoadSum, IInv, TypeInv
<1>4. /\ busy'[w] # Free /\ busy'[w].page = busy[w].page /\ busy'[w].name = busy[w].name
      /\ busy'[w].score = busy[w].score /\ busy'[w].value = busy[w].value /\ busy'[w].pc = "cas"
  BY <1>2, <1>3 DEF Tasks, Free
<1>5. Counted' = Counted /\ Spread' = Spread /\ Settled' = Settled
  <2>1. UNCHANGED <<pages, todo>>
    BY <1>1, <1>2
  <2>2. SUFFICES ASSUME NEW p, p = busy[w].page
                 PROVE  Counted' = Counted /\ Spread' = Spread /\ Settled' = Settled
    OBVIOUS
  <2> QED BY <2>1, <2>2, <1>1, <1>2, <1>3, <1>4, PageMoves
<1>6. Residual(Target, Settled)' = Residual(Target, Settled)
      /\ \A x : Incoming(Target, Spread, x)' = Incoming(Target, Spread, x)
  BY <1>1, <1>5, GraphSame
<1>7. \A q : Out(q)' = Out(q)
  BY <1>1, GraphSame
<1> QED BY <1>1, <1>2, <1>4, <1>5, <1>6, <1>7 DEF IInv, StepInv

(* A CAS that succeeds adds what is to be added, of one page.              *)
LEMMA SwapSumStep == ASSUME IInv, NEW w \in Workers, SwapSum(w) PROVE StepInv'
<1>1. /\ UNCHANGED <<pages, links, pc, superstep, ranked>> /\ pc = "step" /\ superstep > 0
      /\ Target' = Target /\ Change' = Change /\ \A x \in Workers : x # w => busy'[x] = busy[x]
      /\ Target \in [Pages -> Nat] /\ Change \in [Pages -> Nat] /\ pages \subseteq Pages
         /\ superstep \in Nat
  BY WorkerFrame
<1>2. /\ UNCHANGED <<score, outbox, failed, todo>> /\ busy[w] # Free /\ busy[w] \in Tasks
      /\ busy[w].pc = "cas" /\ busy[w].page \in pages
  BY TaskIs DEF SwapSum
<1> SUFFICES ASSUME NEW p, p = busy[w].page, NEW b, b = busy[w] PROVE StepInv'
  OBVIOUS
<1>3. /\ acc \in [Aggregators -> [cur : Nat, prev : Nat]] /\ b.name \in Aggregators
      /\ b.name \in {"SAD", ResidualOutputAccName(superstep)}
      /\ ResidualOutputAccName(superstep) \in Aggregators \ {"SAD"} /\ "SAD" \in Aggregators
  BY <1>1, <1>2, TaskIs, Residuals DEF IInv, TypeInv, WorkerInv, Aggregators
<1>a. IF b.name = "SAD" THEN b.score = Target[p] /\ b.value = Change[p]
      ELSE b.value = Target[p] \div Cardinality(pages) /\ Out(p) = {}
  BY <1>1, <1>2 DEF IInv, StepInv
<1>4. CASE ~A!Swaps(acc[b.name], b.old)
  <2>1. busy'[w] = [b EXCEPT !.pc = "load"] /\ acc' = acc
    BY <1>3, <1>4 DEF SwapSum, A!Swapped, IInv, TypeInv
  <2>2. /\ busy'[w] # Free /\ busy'[w].page = p /\ busy'[w].name = b.name
        /\ busy'[w].score = b.score /\ busy'[w].value = b.value /\ busy'[w].pc = "load"
    BY <1>2, <2>1 DEF Tasks, Free
  <2>3. Counted' = Counted /\ Spread' = Spread /\ Settled' = Settled
    <3>1. UNCHANGED <<pages, todo>>
      BY <1>1, <1>2
    <3> QED BY <3>1, <1>1, <1>2, <2>2, PageMoves
  <2>4. Residual(Target, Settled)' = Residual(Target, Settled)
        /\ \A x : Incoming(Target, Spread, x)' = Incoming(Target, Spread, x)
    BY <1>1, <2>3, GraphSame
  <2>5. \A q : Out(q)' = Out(q)
    BY <1>1, GraphSame
  <2>6. ASSUME NEW x \in Workers, busy'[x] # Free, NEW q, q = busy'[x].page
        PROVE  IF busy'[x].name = "SAD" THEN busy'[x].score = Target[q] /\ busy'[x].value = Change[q]
               ELSE busy'[x].value = Target[q] \div Cardinality(pages) /\ Out(q) = {}
    <3>1. CASE x = w
      BY <2>6, <3>1, <1>1, <1>a, <2>2, <2>5
    <3>2. CASE x # w
      BY <2>6, <3>2, <1>1, <2>5 DEF IInv, StepInv
    <3> QED BY <3>1, <3>2
  <2> QED BY <1>1, <1>2, <2>1, <2>3, <2>4, <2>5, <2>6 DEF IInv, StepInv
<1>5. CASE A!Swaps(acc[b.name], b.old)
  <2>1. acc' = [acc EXCEPT ![b.name].cur = @ + b.value]
    BY <1>3, <1>5 DEF SwapSum, A!Swapped, A!Swaps
  <2>2. CASE b.name = "SAD"
    <3>1. busy'[w] = [b EXCEPT !.pc = "spread"]
      BY <1>5, <2>2 DEF SwapSum, IInv, TypeInv
    <3>2. /\ busy'[w] # Free /\ busy'[w].page = p /\ busy'[w].name = "SAD"
          /\ busy'[w].score = b.score /\ busy'[w].value = b.value /\ busy'[w].pc = "spread"
      BY <1>2, <2>2, <3>1 DEF Tasks, Free
    <3>3. Counted' = Counted \cup {p} /\ p \notin Counted /\ Spread' = Spread /\ Settled' = Settled
      <4>1. UNCHANGED <<pages, todo>>
        BY <1>1, <1>2
      <4> QED BY <4>1, <1>1, <1>2, <2>2, <3>2, PageMoves
    <3>4. Counted \in SUBSET pages /\ p \in pages \ Counted
      BY <1>2, <3>3 DEF Counted
    <3>5. Sum(Change, Counted \cup {p}) = Sum(Change, Counted) + Change[p]
      <4>1. IsFiniteSet(pages) /\ \A x \in pages : Change[x] \in Int
        BY <1>1, FinitePages
      <4> QED BY <3>4, <4>1, SumLaws
    <3>6. /\ acc'["SAD"].cur = acc["SAD"].cur + Change[p]
          /\ acc'[ResidualOutputAccName(superstep)] = acc[ResidualOutputAccName(superstep)]
      BY <1>3, <1>a, <2>1, <2>2
    <3>7. acc'["SAD"].cur = Sum(Change, Counted)'
      BY <1>1, <3>3, <3>5, <3>6 DEF IInv, StepInv
    <3>8. Residual(Target, Settled)' = Residual(Target, Settled)
          /\ \A x : Incoming(Target, Spread, x)' = Incoming(Target, Spread, x)
      BY <1>1, <3>3, GraphSame
    <3>9. \A q : Out(q)' = Out(q)
      BY <1>1, GraphSame
    <3> QED BY <1>1, <1>2, <1>a, <2>2, <3>2, <3>3, <3>6, <3>7, <3>8, <3>9 DEF IInv, StepInv
  <2>3. CASE b.name # "SAD"
    <3>1. busy'[w] = Free
      BY <1>5, <2>3 DEF SwapSum, IInv, TypeInv
    <3>3. Settled' = Settled \cup {p} /\ p \notin Settled /\ Spread' = Spread /\ Counted' = Counted
      <4>1. UNCHANGED <<pages, todo>>
        BY <1>1, <1>2
      <4> QED BY <4>1, <1>1, <1>2, <2>3, <3>1, PageMoves
    <3>4. Settled \in SUBSET pages /\ p \in pages \ Settled
      BY <1>2, <3>3 DEF Settled
    <3>5. Residual(Target, Settled \cup {p}) = Residual(Target, Settled) + (Target[p] \div Cardinality(pages))
      BY <1>1, <1>a, <2>3, <3>4, ResidualLaws
    <3>6. /\ acc'[ResidualOutputAccName(superstep)].cur =
               acc[ResidualOutputAccName(superstep)].cur + (Target[p] \div Cardinality(pages))
          /\ acc'["SAD"] = acc["SAD"]
      BY <1>3, <1>a, <2>1, <2>3
    <3>7. acc'[ResidualOutputAccName(superstep)].cur = Residual(Target, Settled)'
      BY <1>1, <3>3, <3>5, <3>6, GraphSame DEF IInv, StepInv
    <3>8. \A x : Incoming(Target, Spread, x)' = Incoming(Target, Spread, x)
      BY <1>1, <3>3, GraphSame
    <3>9. \A q : Out(q)' = Out(q)
      BY <1>1, GraphSame
    <3> QED BY <1>1, <1>2, <3>1, <3>3, <3>6, <3>7, <3>8, <3>9 DEF IInv, StepInv
  <2> QED BY <2>2, <2>3
<1> QED BY <1>4, <1>5

(* A page's score is stored and handed on at once.                         *)
LEMMA SpreadScoreStep == ASSUME IInv, NEW w \in Workers, SpreadScore(w) PROVE StepInv'
<1>1. /\ UNCHANGED <<pages, links, pc, superstep, ranked>> /\ pc = "step" /\ superstep > 0
      /\ Target' = Target /\ Change' = Change /\ \A x \in Workers : x # w => busy'[x] = busy[x]
      /\ Target \in [Pages -> Nat] /\ pages \subseteq Pages /\ superstep \in Nat
  BY WorkerFrame
<1>2. /\ UNCHANGED <<acc, todo>> /\ busy[w] # Free /\ busy[w] \in Tasks /\ busy[w].pc = "spread"
      /\ busy[w].page \in pages
  BY TaskIs DEF SpreadScore
<1> SUFFICES ASSUME NEW p, p = busy[w].page, NEW b, b = busy[w] PROVE StepInv'
  OBVIOUS
<1>3. b.name = "SAD" /\ b.score = Target[p] /\ p \in Pages
  BY <1>1, <1>2 DEF IInv, StepInv, WorkerInv
<1>4. score' = [score EXCEPT ![p] = Target[p]]
  BY <1>3 DEF SpreadScore
<1>5. \/ /\ Out(p) = {} /\ UNCHANGED <<outbox, failed>>
         /\ busy'[w] = [b EXCEPT !.pc = "load", !.name = ResidualOutputAccName(superstep),
                                 !.value = b.score \div A!Get(acc["page_count"])]
      \/ /\ Out(p) # {} /\ Out(p) \subseteq pages /\ busy'[w] = Free /\ failed' = failed
         /\ outbox' = [x \in Pages |->
              outbox[x] + IF x \in Out(p) THEN Target[p] \div Cardinality(Out(p)) ELSE 0]
      \/ ~ (Out(p) \subseteq pages) /\ failed' /\ busy'[w] = Free
  BY <1>3 DEF SpreadScore, IInv, TypeInv
<1>6. busy'[w] # Free =>
        /\ busy'[w].page = p /\ busy'[w].name = ResidualOutputAccName(superstep)
        /\ busy'[w].name # "SAD" /\ Out(p) = {}
        /\ busy'[w].value = Target[p] \div Cardinality(pages)
  <2>1. A!Get(acc["page_count"]) = Cardinality(pages)
    BY <1>1, <1>2, CountPositive
  <2> QED BY <1>1, <1>2, <1>3, <1>5, <2>1, Residuals DEF Tasks
<1>7. /\ Spread' = Spread \cup {p} /\ p \notin Spread /\ Counted' = Counted
      /\ Settled' = IF busy'[w] = Free THEN Settled \cup {p} ELSE Settled
      /\ p \notin Settled
  <2>1. UNCHANGED <<pages, todo>>
    BY <1>1, <1>2
  <2> QED BY <2>1, <1>1, <1>2, <1>3, <1>6, PageMoves
<1>8. Spread \in SUBSET pages /\ p \in pages \ Spread /\ Settled \in SUBSET pages
      /\ p \in pages \ Settled
  BY <1>2, <1>7 DEF Spread, Settled
<1>9. \A q \in pages : score'[q] = IF q \in Spread' THEN Target'[q] ELSE ranked'[q]
  BY <1>1, <1>4, <1>7 DEF IInv, StepInv, TypeInv
<1>11. acc'["SAD"].cur = Sum(Change, Counted)'
  BY <1>1, <1>2, <1>7 DEF IInv, StepInv
<1>12. acc'[ResidualOutputAccName(superstep)].cur = Residual(Target, Settled)'
  <2>1. CASE busy'[w] # Free
    BY <2>1, <1>1, <1>2, <1>7, GraphSame DEF IInv, StepInv
  <2>2. CASE busy'[w] = Free
    <3>1. Out(p) # {}
      <4>1. b.pc = "spread"
            /\ busy'[w] # [b EXCEPT !.pc = "load", !.name = ResidualOutputAccName(superstep),
                                 !.value = b.score \div A!Get(acc["page_count"])]
        BY <2>2, <1>2 DEF Free, Tasks
      <4> QED BY <4>1, <1>5
    <3>2. Residual(Target, Settled \cup {p}) = Residual(Target, Settled) + 0
      BY <1>1, <1>8, <3>1, ResidualLaws
    <3>3. Residual(Target, Settled) \in Nat
      BY <1>1, <1>8, ResidualLaws
    <3> QED BY <2>2, <3>2, <3>3, <1>1, <1>2, <1>7, GraphSame DEF IInv, StepInv
  <2> QED BY <2>1, <2>2
<1>13. ASSUME ~failed'
       PROVE  /\ \A q \in Spread' : Out(q) \subseteq pages
              /\ \A v \in pages : outbox'[v] = Incoming(Target, Spread, v)'
  <2>1. ~failed /\ Out(p) \subseteq pages
    BY <1>5, <1>13
  <2>2. \A q \in Spread' : Out(q) \subseteq pages
    BY <2>1, <1>1, <1>7 DEF IInv, StepInv
  <2>3. ASSUME NEW v \in pages PROVE outbox'[v] = Incoming(Target, Spread, v)'
    <3>1. Incoming(Target, Spread \cup {p}, v) =
            Incoming(Target, Spread, v) + IF v \in Out(p) THEN Target[p] \div Cardinality(Out(p)) ELSE 0
      BY <1>1, <1>8, IncomingLaws
    <3>2. outbox[v] = Incoming(Target, Spread, v)
      BY <2>1, <1>1 DEF IInv, StepInv
    <3>3. Incoming(Target, Spread, v) \in Nat
      BY <1>1, <1>8, IncomingLaws
    <3>4. outbox'[v] = outbox[v] + IF v \in Out(p) THEN Target[p] \div Cardinality(Out(p)) ELSE 0
      BY <1>1, <1>5, <2>1, <3>2, <3>3
    <3> QED BY <3>1, <3>2, <3>4, <1>1, <1>7, GraphSame
  <2> QED BY <2>2, <2>3
<1>14. \A q : Out(q)' = Out(q)
  BY <1>1, GraphSame
<1> QED BY <1>1, <1>2, <1>6, <1>9, <1>11, <1>12, <1>13, <1>14 DEF IInv, StepInv

LEMMA StepStep == IInv /\ [Next]_vars => StepInv'
<1> SUFFICES ASSUME IInv, [Next]_vars PROVE StepInv'
  OBVIOUS
<1>1. CASE UNCHANGED vars
  <2>1. /\ UNCHANGED <<pages, links, pc, superstep, ranked, score, outbox, acc, todo, failed, busy>>
    BY <1>1 DEF vars, graphVars, stepVars
  <2>2. Counted' = Counted /\ Spread' = Spread /\ Settled' = Settled
    BY <2>1 DEF Counted, Spread, Settled, Adding, Storing, Handling, At
  <2>3. /\ Target' = Target /\ Change' = Change
           /\ Residual(Target, Settled)' = Residual(Target, Settled)
        /\ \A x : Incoming(Target, Spread, x)' = Incoming(Target, Spread, x)
        /\ \A q : Out(q)' = Out(q)
    BY <2>1, <2>2, GraphSame, RoundSame
  <2> QED BY <2>1, <2>2, <2>3 DEF IInv, StepInv
<1>2. CASE (\E l \in Loads : Load(l)) \/ PostStep \/ ContextExpires \/ Scores
  <2>1. pc' # "step"
    BY <1>2 DEF Load, PostStep, ContextExpires, Scores
  <2> QED BY <2>1 DEF StepInv
<1>3. CASE PreStep
  <2>1. superstep' = superstep
    BY <1>3 DEF PreStep
  <2> QED BY <1>3, <2>1, PreStepStep DEF StepInv
<1>4. ASSUME NEW w \in Workers, NEW v \in Pages, CountPage(w, v) PROVE StepInv'
  <2>1. superstep' = 0
    BY <1>4 DEF CountPage
  <2> QED BY <2>1 DEF StepInv
<1> QED BY <1>1, <1>2, <1>3, <1>4, ComputeScoreStep, LoadSumStep, SwapSumStep, SpreadScoreStep
        DEF Next, Calculator, Worker

-----------------------------------------------------------------------------
(* What the workers and the executor maintain.                             *)
THEOREM RankInvariance == Spec => []IInv
<1>1. IInv /\ [Next]_vars => IInv'
  BY TypeStep, WorkerStep, CountStep, RoundStep, StepStep, EndStep DEF IInv
<1> QED BY RankInit, <1>1, PTL DEF Spec

(* Scores, messages and sums never leave the natural numbers, a worker is  *)
(* only ever at a page taken off the list, and no superstep comes after    *)
(* the last (compute.go 23-77, calculator.go 68-111).                      *)
THEOREM RankTypes == Spec => []TypeOK
<1>1. IInv => TypeOK
  BY DEF IInv, TypeInv, WorkerInv, TypeOK, Sums
<1> QED BY <1>1, RankInvariance, PTL

-----------------------------------------------------------------------------
(* The steps of the power iteration.                                       *)
LEMMA AbstractNone ==
  ASSUME pc \notin {"idle", "failed", "cancelled"}, pc' \in {"idle", "failed", "cancelled"},
         UNCHANGED <<pages, links, ranked>>
  PROVE  Abstract!Again
  BY DEF Abstract!Again, round

LEMMA MovedIs ==
  ASSUME TypeInv, Target \in [Pages -> Nat], superstep > 1
  PROVE  Abstract!Moved(ranked, Target) = Sum(Change, pages)
<1> DEFINE f == [p \in pages |-> Abstract!Abs(ranked[p] - Target[p])]
<1>1. /\ IsFiniteSet(pages) /\ pages \subseteq Pages /\ ranked \in [Pages -> Nat]
  BY FinitePages DEF TypeInv
<1>2. \A p \in pages : f[p] = Change[p]
  BY <1>1 DEF Change, Abs, Abstract!Abs
<1>3. \A p \in pages : f[p] \in Int /\ Change[p] \in Int
  <2>1. \A p \in Pages : Change[p] \in Nat
    BY <1>1, AbsNat DEF Change
  <2> QED BY <2>1, <1>1, <1>2
<1> HIDE DEF f
<1>4. Sum(f, pages) = Sum(Change, pages)
  BY <1>1, <1>2, <1>3, SumSame
<1> QED BY <1>4, AbstractSum DEF Abstract!Moved, f

LEMMA PostStepMaps == ASSUME IInv, PostStep PROVE [Abstract!Next]_Abstract!vars
<1>1. /\ UNCHANGED <<pages, links>> /\ pc = "step" /\ todo = {}
      /\ \A w \in Workers : busy[w] = Free
  BY DEF PostStep, graphVars
<1>2. superstep \in Nat /\ TypeInv
  BY BoundsAssumption DEF IInv, TypeInv
<1>3. CASE failed
  <2>1. pc' = "failed" /\ ranked' = ranked
    BY <1>3 DEF PostStep
  <2> QED BY <1>1, <2>1, AbstractNone DEF Abstract!Next
<1>4. CASE ~failed /\ superstep = 0
  <2>1. ranked' = ranked
    BY <1>1, <1>4 DEF PostStep, IInv, RoundInv
  <2>2. pc' = "pre" /\ superstep' = 1
    BY <1>4 DEF PostStep, KeepRunning
  <2>3. round = "first" /\ round' = "first"
    BY <1>1, <1>4, <2>2 DEF round
  <2> QED BY <1>1, <2>1, <2>3 DEF Abstract!vars
<1>5. CASE ~failed /\ superstep = 1
  <2>1. ranked' = Target /\ Target = First
    BY <1>1, <1>5, StepDone DEF PostStep, Target
  <2>2. pc' = "pre" /\ superstep' = 2
    BY <1>5 DEF PostStep, KeepRunning
  <2>3. round = "first" /\ round' = "more"
    BY <1>1, <1>5, <2>2 DEF round
  <2> QED BY <1>1, <2>1, <2>3, AbstractCardinality DEF Abstract!Next, Abstract!First, First
<1>6. CASE ~failed /\ superstep > 1
  <2>1. ranked' = Target /\ Target = Abstract!Iterate(ranked) /\ acc["SAD"].cur = Sum(Change, pages)
    BY <1>1, <1>6, <1>2, StepDone DEF PostStep, Target
  <2>2. Abstract!Moved(ranked, ranked') = acc["SAD"].cur
    BY <2>1, <1>2, <1>6, MovedIs, TargetType, <1>1 DEF IInv
  <2>3. round = "more"
    BY <1>1, <1>2, <1>6 DEF round
  <2>4. round' = IF acc["SAD"].cur < MinSAD THEN "end" ELSE "more"
    BY <1>2, <1>6 DEF PostStep, KeepRunning, A!Get, round
  <2> QED BY <1>1, <2>1, <2>2, <2>3, <2>4 DEF Abstract!Next, Abstract!More
<1> QED BY <1>2, <1>3, <1>4, <1>5, <1>6

(* Whatever the order in which the workers take vertices and their sums    *)
(* are added up, superstep 1 gives every page the same score, every later  *)
(* one computes an iteration of the power method on the loaded graph, and  *)
(* the calculation stops when, and only when, one has moved less than      *)
(* MinSAD in sum (compute.go 23-77, calculator.go 68-111).                 *)
THEOREM RanksArePowerIteration == Spec => ImplementsPowerIteration
<1>1. Init => Abstract!Init
  BY DEF Init, Abstract!Init, Zero, round
<1>2. IInv /\ [Next]_vars => [Abstract!Next]_Abstract!vars
  <2> SUFFICES ASSUME IInv, [Next]_vars PROVE [Abstract!Next]_Abstract!vars
    OBVIOUS
  <2>1. CASE UNCHANGED vars
    BY <2>1 DEF vars, graphVars, Abstract!vars, round
  <2>2. ASSUME NEW l \in Loads, Load(l) PROVE Abstract!Load
    <3>1. l.pages \in SUBSET Pages /\ l.links \subseteq Pages \X Pages
      BY <2>2, LoadsAssumption
    <3>2. ranked' = Zero /\ round = "none" /\ round' = "first"
      BY <2>2 DEF Load, round
    <3> QED BY <2>2, <3>1, <3>2 DEF Load, Abstract!Load, Zero
  <2>3. CASE PreStep
    BY <2>3 DEF PreStep, graphVars, Abstract!vars, round
  <2>4. CASE PostStep
    BY <2>4, PostStepMaps
  <2>5. CASE ContextExpires \/ Scores
    <3>1. Abstract!Again
      BY <2>5, AbstractNone DEF ContextExpires, Scores, graphVars
    <3> QED BY <3>1 DEF Abstract!Next
  <2>6. ASSUME NEW w \in Workers, Worker(w) PROVE UNCHANGED Abstract!vars
    BY <2>6 DEF Worker, CountPage, ComputeScore, LoadSum, SwapSum, SpreadScore, graphVars,
                Abstract!vars, round
  <2> QED BY <2>1, <2>2, <2>3, <2>4, <2>5, <2>6 DEF Next, Calculator, Abstract!Next
<1> QED BY <1>1, <1>2, RankInvariance, PTL DEF Spec, ImplementsPowerIteration, Abstract!Spec

-----------------------------------------------------------------------------
(* Divisions without a rest.                                               *)
LEMMA Bounds ==
  ASSUME NEW d \in Nat \ {0}, NEW x \in Int
  PROVE  x \div d \in Int /\ d * (x \div d) <= x /\ x < d * (x \div d) + d
  OBVIOUS

LEMMA Quotient == ASSUME NEW d \in Nat \ {0}, NEW m \in Int PROVE (d * m) \div d = m
<1> DEFINE x == d * m
           q == x \div d
<1>1. x \in Int /\ q \in Int /\ d * q <= x /\ x < d * q + d
  BY Bounds
<1>2. x = d * m
  OBVIOUS
<1> HIDE DEF x, q
<1>3. ~ (q < m)
  <2> SUFFICES ASSUME q + 1 <= m PROVE FALSE
    BY <1>1
  <2>1. d * (q + 1) <= d * m
    BY <1>1
  <2>2. d * (q + 1) = d * q + d
    BY <1>1
  <2> QED BY <2>1, <2>2, <1>1, <1>2
<1>4. ~ (m < q)
  <2> SUFFICES ASSUME m + 1 <= q PROVE FALSE
    BY <1>1
  <2>1. d * (m + 1) <= d * q
    BY <1>1
  <2>2. d * (m + 1) = d * m + d
    BY <1>1
  <2> QED BY <2>1, <2>2, <1>1, <1>2
<1> QED BY <1>1, <1>3, <1>4 DEF x, q

LEMMA DividesIs ==
  ASSUME NEW d \in Nat \ {0}, NEW x \in Int
  PROVE  Divides(d, x) <=> \E m \in Int : x = d * m
  BY Bounds, Quotient DEF Divides

LEMMA DividesSums ==
  ASSUME NEW d \in Nat \ {0}, NEW x \in Int, NEW y \in Int, Divides(d, x), Divides(d, y)
  PROVE  Divides(d, x + y) /\ Divides(d, x - y) /\ Divides(d, y - x)
<1>1. PICK m \in Int : x = d * m
  BY DividesIs
<1>2. PICK k \in Int : y = d * k
  BY DividesIs
<1>3. x + y = d * (m + k) /\ x - y = d * (m - k) /\ y - x = d * (k - m)
  BY <1>1, <1>2
<1>4. x + y \in Int /\ x - y \in Int /\ y - x \in Int /\ m + k \in Int /\ m - k \in Int
      /\ k - m \in Int
  BY <1>1, <1>2
<1> QED BY <1>3, <1>4, DividesIs

LEMMA DividesParts ==
  ASSUME NEW d \in Nat \ {0}, NEW e \in Nat \ {0}, NEW x \in Int, Divides(d * e, x)
  PROVE  /\ Divides(d, x) /\ Divides(e, x)
         /\ x \div d \in Int /\ d * (x \div d) = x /\ Divides(e, x \div d)
<1>1. d * e \in Nat \ {0}
  OBVIOUS
<1>2. PICK m \in Int : x = (d * e) * m
  BY <1>1, DividesIs
<1>3. x = d * (e * m) /\ x = e * (d * m) /\ e * m \in Int /\ d * m \in Int
  BY <1>2
<1>4. x \div d = e * m
  BY <1>3, Quotient
<1> QED BY <1>3, <1>4, DividesIs DEF Divides

LEMMA DividesChain ==
  ASSUME NEW d \in Nat \ {0}, NEW e \in Nat \ {0}, NEW x \in Int, Divides(d, e), Divides(e, x)
  PROVE  Divides(d, x)
<1>1. PICK m \in Int : x = e * m
  BY DividesIs
<1>2. PICK k \in Int : e = d * k
  BY DividesIs
<1>3. x = d * (k * m) /\ k * m \in Int
  BY <1>1, <1>2
<1> QED BY <1>3, DividesIs

(* What is damped by a factor of DampNum / DampDen.                        *)
LEMMA DampedExact ==
  ASSUME NEW g \in Nat \ {0}, NEW x \in Int, Divides(DampDen * g, x)
  PROVE  /\ Damped(x) \in Int /\ DampDen * Damped(x) = DampNum * x
         /\ Divides(g, Damped(x))
<1>1. DampNum \in Nat /\ DampDen \in Nat \ {0}
  BY ConfigAssumption
<1>2. DampDen * g \in Nat \ {0}
  BY <1>1
<1>3. PICK m \in Int : x = (DampDen * g) * m
  BY <1>2, DividesIs
<1>4. DampNum * x = DampDen * (g * (DampNum * m))
  BY <1>1, <1>3
<1>5. DampNum * m \in Int /\ g * (DampNum * m) \in Int
  BY <1>1
<1>6. Damped(x) = g * (DampNum * m)
  BY <1>1, <1>4, <1>5, Quotient DEF Damped
<1> QED BY <1>4, <1>5, <1>6, DividesIs

(* Shares differ by the share of the difference.                           *)
LEMMA ShareDifference ==
  ASSUME NEW n \in Nat \ {0}, NEW x \in Nat, NEW y \in Nat, Divides(n, x), Divides(n, y)
  PROVE  /\ x \div n \in Nat /\ y \div n \in Nat /\ Abs(x - y) \div n \in Nat
         /\ Abs((x \div n) - (y \div n)) = Abs(x - y) \div n
         /\ Divides(n, Abs(x - y))
<1>1. x \div n \in Nat /\ y \div n \in Nat /\ Abs(x - y) \in Nat /\ Abs(x - y) \div n \in Nat
  BY Division, AbsNat
<1>2. Divides(n, x - y) /\ Divides(n, y - x)
  BY DividesSums
<1>3. Divides(n, Abs(x - y))
  BY <1>2 DEF Abs
<1> DEFINE a == x \div n
           b == y \div n
<1>4. x = n * a /\ y = n * b
  BY DEF Divides
<1>5. x - y = n * (a - b) /\ y - x = n * (b - a) /\ a - b \in Int /\ b - a \in Int
  BY <1>1, <1>4
<1>6. (x - y) \div n = a - b /\ (y - x) \div n = b - a
  BY <1>5, Quotient
<1>a. a \in Int /\ b \in Int
  BY <1>1
<1> HIDE DEF a, b
<1>7. x < y <=> a < b
  <2>1. a < b => n * (b - a) > 0
    BY <1>a
  <2>2. b <= a => n * (a - b) >= 0
    BY <1>a
  <2> QED BY <2>1, <2>2, <1>a, <1>5
<1>8. Abs(a - b) = Abs(x - y) \div n
  BY <1>1, <1>5, <1>6, <1>7 DEF Abs, a, b
<1> QED BY <1>1, <1>3, <1>8 DEF a, b

-----------------------------------------------------------------------------
(* More sums.                                                              *)
LEMMA SumPart ==
  ASSUME NEW X, IsFiniteSet(X), NEW O \in SUBSET X, NEW c \in Int, NEW f,
         \A x \in X : f[x] = IF x \in O THEN c ELSE 0
  PROVE  Sum(f, X) = Cardinality(O) * c
<1> DEFINE F == {S \in SUBSET X : Sum(f, S) = Cardinality(S \cap O) * c}
<1>1. \A x \in X : f[x] \in Int
  OBVIOUS
<1>2. {} \in F
  <2>1. {} \cap O = {} /\ Cardinality({}) = 0
    BY FS_EmptySet
  <2> QED BY <2>1, <1>1, SumLaws
<1>3. ASSUME NEW S \in SUBSET X, NEW x \in X \ S, S \in F PROVE S \cup {x} \in F
  <2>1. Sum(f, S \cup {x}) = Sum(f, S) + f[x] /\ Sum(f, S) \in Int
    BY <1>1, SumLaws
  <2>2. Sum(f, S) = Cardinality(S \cap O) * c
    BY <1>3
  <2>3. IsFiniteSet(S \cap O) /\ Cardinality(S \cap O) \in Nat
    BY FS_Subset, FS_CardinalityType
  <2>4. CASE x \in O
    <3>1. (S \cup {x}) \cap O = (S \cap O) \cup {x} /\ x \notin S \cap O
      BY <2>4
    <3>2. Cardinality((S \cup {x}) \cap O) = Cardinality(S \cap O) + 1
      BY <2>3, <3>1, FS_AddElement
    <3>3. (Cardinality(S \cap O) + 1) * c = Cardinality(S \cap O) * c + c
      BY <2>3
    <3> QED BY <2>1, <2>2, <2>4, <3>2, <3>3
  <2>5. CASE x \notin O
    <3>1. (S \cup {x}) \cap O = S \cap O
      BY <2>5
    <3>2. Sum(f, S \cup {x}) = Sum(f, S)
      BY <2>1, <2>5
    <3>3. Sum(f, S \cup {x}) = Cardinality((S \cup {x}) \cap O) * c
      BY <2>2, <3>1, <3>2
    <3> QED BY <3>3
  <2> QED BY <2>4, <2>5
<1> HIDE DEF F
<1>4. \A S \in SUBSET X : S \in F
  BY <1>2, <1>3, FiniteRule
<1>5. X \cap O = O
  OBVIOUS
<1> QED BY <1>4, <1>5 DEF F

LEMMA SumDivides ==
  ASSUME NEW X, IsFiniteSet(X), NEW d \in Nat \ {0}, NEW f,
         \A x \in X : f[x] \in Int /\ Divides(d, f[x])
  PROVE  Divides(d, Sum(f, X))
<1> DEFINE F == {S \in SUBSET X : Divides(d, Sum(f, S))}
<1>1. \A x \in X : f[x] \in Int
  OBVIOUS
<1>2. {} \in F
  <2>1. 0 = d * 0
    OBVIOUS
  <2>2. Divides(d, 0)
    BY <2>1, DividesIs
  <2> QED BY <2>2, <1>1, SumLaws
<1>3. ASSUME NEW S \in SUBSET X, NEW x \in X \ S, S \in F PROVE S \cup {x} \in F
  <2>1. Sum(f, S \cup {x}) = Sum(f, S) + f[x] /\ Sum(f, S) \in Int
    BY <1>1, SumLaws
  <2> QED BY <2>1, <1>1, <1>3, DividesSums
<1> HIDE DEF F
<1>4. \A S \in SUBSET X : S \in F
  BY <1>2, <1>3, FiniteRule
<1> QED BY <1>4 DEF F

LEMMA SumDifference ==
  ASSUME NEW X, IsFiniteSet(X), NEW f, NEW g, NEW h,
         \A x \in X : /\ f[x] \in Int /\ g[x] \in Int /\ h[x] \in Int
                      /\ Abs(f[x] - g[x]) <= h[x]
  PROVE  Abs(Sum(f, X) - Sum(g, X)) <= Sum(h, X)
<1> DEFINE F == {S \in SUBSET X : Abs(Sum(f, S) - Sum(g, S)) <= Sum(h, S)}
<1>1. \A x \in X : f[x] \in Int /\ g[x] \in Int /\ h[x] \in Int
  OBVIOUS
<1>2. {} \in F
  BY <1>1, SumLaws DEF Abs
<1>3. ASSUME NEW S \in SUBSET X, NEW x \in X \ S, S \in F PROVE S \cup {x} \in F
  <2>1. /\ Sum(f, S \cup {x}) = Sum(f, S) + f[x] /\ Sum(g, S \cup {x}) = Sum(g, S) + g[x]
        /\ Sum(h, S \cup {x}) = Sum(h, S) + h[x]
        /\ Sum(f, S) \in Int /\ Sum(g, S) \in Int /\ Sum(h, S) \in Int
    BY <1>1, SumLaws
  <2>2. Abs(Sum(f, S) - Sum(g, S)) <= Sum(h, S)
    BY <1>3
  <2>3. f[x] \in Int /\ g[x] \in Int /\ h[x] \in Int /\ Abs(f[x] - g[x]) <= h[x]
    OBVIOUS
  <2> QED BY <2>1, <2>2, <2>3 DEF Abs
<1> HIDE DEF F
<1>4. \A S \in SUBSET X : S \in F
  BY <1>2, <1>3, FiniteRule
<1> QED BY <1>4 DEF F

-----------------------------------------------------------------------------
(* What the pages of S hold, they send, or leave to all pages.             *)
Whole(r)   == \A q \in pages : \A n \in 1..Cardinality(Pages) : Divides(n, r[q])
Sent(r, S) == [v \in Pages |-> Incoming(r, S, v)]

LEMMA PageCounts ==
  ASSUME pages \subseteq Pages, Closed
  PROVE  /\ pages # {} => Cardinality(pages) \in 1..Cardinality(Pages)
         /\ \A q \in pages : /\ Out(q) \in SUBSET pages
                             /\ Out(q) # {} => Cardinality(Out(q)) \in 1..Cardinality(Pages)
<1>1. \A S \in SUBSET Pages : S # {} => Cardinality(S) \in 1..Cardinality(Pages)
  <2> SUFFICES ASSUME NEW S \in SUBSET Pages, S # {} PROVE Cardinality(S) \in 1..Cardinality(Pages)
    OBVIOUS
  <2>1. /\ IsFiniteSet(S) /\ Cardinality(S) <= Cardinality(Pages)
        /\ Cardinality(S) \in Nat /\ Cardinality(Pages) \in Nat /\ Cardinality(S) # 0
    BY PagesAssumption, FS_Subset, FS_CardinalityType, FS_EmptySet
  <2> QED BY <2>1
<1>2. \A q \in pages : Out(q) \in SUBSET pages
  BY DEF Closed
<1> QED BY <1>1, <1>2

LEMMA AllSent ==
  ASSUME pages \subseteq Pages, Closed, NEW r \in [Pages -> Nat], Whole(r)
  PROVE  Sum(Sent(r, pages), pages) + Cardinality(pages) * Residual(r, pages) = Sum(r, pages)
<1> DEFINE n == Cardinality(pages)
           F == {S \in SUBSET pages : Sum(Sent(r, S), pages) + n * Residual(r, S) = Sum(r, S)}
<1>1. /\ IsFiniteSet(pages) /\ n \in Nat /\ \A q \in pages : r[q] \in Int
      /\ \A S \in SUBSET pages : \A v \in pages : Sent(r, S)[v] \in Int
  <2>1. \A v : \A S \in SUBSET pages : Incoming(r, S, v) \in Nat
    BY IncomingLaws
  <2>2. \A S \in SUBSET pages : \A v \in pages : Sent(r, S)[v] \in Int
    BY <2>1 DEF Sent
  <2> QED BY <2>2, FinitePages
<1>2. {} \in F
  <2>1. \A v \in pages : Sent(r, {})[v] = 0
    BY IncomingLaws DEF Sent
  <2>2. Sum(Sent(r, {}), pages) = Cardinality({}) * 0
    BY <2>1, <1>1, SumPart
  <2>3. Cardinality({}) = 0
    BY FS_EmptySet
  <2>4. Residual(r, {}) = 0 /\ Sum(r, {}) = 0
    BY ResidualLaws, SumEmpty
  <2>5. n * 0 = 0
    BY <1>1
  <2> QED BY <2>2, <2>3, <2>4, <2>5
<1>3. ASSUME NEW S \in SUBSET pages, NEW q \in pages \ S, S \in F PROVE S \cup {q} \in F
  <2> DEFINE T == S \cup {q}
             k == Cardinality(Out(q))
             c == IF Out(q) = {} THEN 0 ELSE r[q] \div k
             part == [v \in Pages |-> IF v \in Out(q) THEN c ELSE 0]
  <2>1. /\ Out(q) \in SUBSET pages /\ k \in Nat /\ n \in 1..Cardinality(Pages)
        /\ Out(q) # {} => k \in Nat \ {0} /\ k \in 1..Cardinality(Pages)
        /\ n \in Nat \ {0} /\ T \in SUBSET pages /\ r[q] \in Nat
    BY PageCounts, FinitePages
  <2>2. /\ Out(q) # {} => r[q] \div k \in Nat /\ k * (r[q] \div k) = r[q]
        /\ r[q] \div n \in Nat /\ n * (r[q] \div n) = r[q]
    <3> HIDE DEF k, n
    <3> QED BY <2>1, Division DEF Whole, Divides
  <2>3. c \in Nat
    BY <2>2
  <2>4. Sum(Sent(r, T), pages) = Sum(Sent(r, S), pages) + Sum(part, pages)
    <3>1. \A v \in pages : Sent(r, T)[v] = Sent(r, S)[v] + part[v]
      BY IncomingLaws DEF Sent
    <3>2. \A v \in pages : /\ Sent(r, S)[v] \in Int /\ part[v] \in Int
                           /\ Sent(r, T)[v] = 1 * Sent(r, S)[v] + 1 * part[v]
      <4> SUFFICES ASSUME NEW v \in pages
                   PROVE  /\ Sent(r, S)[v] \in Int /\ part[v] \in Int
                          /\ Sent(r, T)[v] = 1 * Sent(r, S)[v] + 1 * part[v]
        OBVIOUS
      <4>1. Sent(r, S)[v] \in Int /\ part[v] \in Int
        BY <1>1, <2>3
      <4> HIDE DEF part, T
      <4> QED BY <4>1, <3>1
    <3> HIDE DEF part, T
    <3>3. Sum(Sent(r, T), pages) = 1 * Sum(Sent(r, S), pages) + 1 * Sum(part, pages)
      BY <3>2, <1>1, SumLinear
    <3>4. Sum(Sent(r, S), pages) \in Int /\ Sum(part, pages) \in Int
      BY <3>2, <1>1, SumLaws
    <3> QED BY <3>3, <3>4
  <2>5. Sum(part, pages) = k * c
    <3>1. \A v \in pages : part[v] = IF v \in Out(q) THEN c ELSE 0
      OBVIOUS
    <3> HIDE DEF part, c
    <3> QED BY <3>1, <2>1, <2>3, <1>1, SumPart
  <2>6. k * c + (IF Out(q) = {} THEN r[q] ELSE 0) = r[q]
    <3>1. CASE Out(q) = {}
      BY <3>1, <2>1
    <3>2. CASE Out(q) # {}
      <4>1. k * c = r[q]
        BY <3>2, <2>2
      <4> HIDE DEF k, c
      <4> QED BY <3>2, <4>1, <2>1
    <3> QED BY <3>1, <3>2
  <2>7. n * Residual(r, T) = n * Residual(r, S) + IF Out(q) = {} THEN r[q] ELSE 0
    <3>1. /\ Residual(r, T) = Residual(r, S) + IF Out(q) = {} THEN r[q] \div n ELSE 0
          /\ Residual(r, S) \in Nat
      BY ResidualLaws
    <3>2. n * (Residual(r, S) + (r[q] \div n)) = n * Residual(r, S) + n * (r[q] \div n)
      <4> HIDE DEF n
      <4> QED BY <3>1, <2>1, <2>2
    <3>3. n * Residual(r, S) \in Nat
      BY <3>1, <2>1
    <3> QED BY <3>1, <3>2, <3>3, <2>2
  <2>8. /\ Sum(r, T) = Sum(r, S) + r[q] /\ Sum(r, S) \in Int
        /\ Sum(Sent(r, S), pages) \in Int /\ n * Residual(r, S) \in Int
    <3>1. Residual(r, S) \in Nat
      BY ResidualLaws
    <3> QED BY <3>1, <1>1, <2>1, SumLaws
  <2>9. Sum(Sent(r, S), pages) + n * Residual(r, S) = Sum(r, S)
    BY <1>3
  <2>10. Sum(Sent(r, T), pages) + n * Residual(r, T) = Sum(r, T)
    <3>1. k * c \in Nat
      BY <2>1, <2>3
    <3> HIDE DEF k, c, n, T, part
    <3> QED BY <3>1, <2>1, <2>4, <2>5, <2>6, <2>7, <2>8, <2>9
  <2> QED BY <2>1, <2>10
<1> HIDE DEF F
<1>4. \A S \in SUBSET pages : S \in F
  BY <1>1, <1>2, <1>3, FiniteRule
<1> QED BY <1>4 DEF F

(* What is divided among pages stays a multiple.                           *)
LEMMA SentDivides ==
  ASSUME pages \subseteq Pages, Closed, NEW r \in [Pages -> Nat], NEW d \in Nat \ {0},
         \A q \in pages : \A n \in 1..Cardinality(Pages) : Divides(n * d, r[q])
  PROVE  Divides(d, Residual(r, pages)) /\ \A v : Divides(d, Incoming(r, pages, v))
<1>1. ASSUME NEW q \in pages, NEW n \in 1..Cardinality(Pages)
      PROVE  r[q] \div n \in Int /\ Divides(d, r[q] \div n)
  <2>1. n \in Nat \ {0} /\ r[q] \in Int /\ Divides(n * d, r[q])
    BY PagesAssumption, FS_CardinalityType
  <2> QED BY <2>1, DividesParts
<1>2. Divides(d, Residual(r, pages))
  <2> DEFINE from == {q \in pages : Out(q) = {}}
             n == Cardinality(pages)
  <2>1. IsFiniteSet(from)
    BY FinitePages
  <2>2. \A q \in from : Share(r, n)[q] \in Int /\ Divides(d, Share(r, n)[q])
    <3>1. \A q \in from : q \in pages /\ n \in 1..Cardinality(Pages) /\ q \in Pages
      BY PageCounts
    <3> HIDE DEF n, from
    <3> QED BY <3>1, <1>1 DEF Share
  <2> HIDE DEF from
  <2> QED BY <2>1, <2>2, SumDivides DEF Residual, from
<1>3. ASSUME NEW v PROVE Divides(d, Incoming(r, pages, v))
  <2> DEFINE from == {q \in pages : v \in Out(q)}
  <2>1. IsFiniteSet(from)
    BY FinitePages
  <2>2. \A q \in from : Shares(r)[q] \in Int /\ Divides(d, Shares(r)[q])
    <3>1. \A q \in from : q \in pages /\ Cardinality(Out(q)) \in 1..Cardinality(Pages) /\ q \in Pages
      BY PageCounts
    <3> HIDE DEF from
    <3> QED BY <3>1, <1>1 DEF Shares
  <2> HIDE DEF from
  <2> QED BY <2>1, <2>2, SumDivides DEF Incoming, from
<1> QED BY <1>2, <1>3

-----------------------------------------------------------------------------
(* An iteration, when no division leaves a rest.                           *)
Multiples(r, s) == \A q \in pages : Divides(Grain[s], r[q])

Teleport == (One - Damped(One)) \div Cardinality(pages)

LEMMA Grains ==
  ASSUME NEW s \in 1..MaxSuperstep
  PROVE  /\ Grain[s] \in Nat \ {0} /\ DampDen * Grain[s] \in Nat \ {0}
         /\ s > 1 => Grain[s - 1] \in Nat \ {0} /\ s - 1 \in 1..MaxSuperstep
<1>1. s > 1 => s - 1 \in 1..MaxSuperstep
  BY BoundsAssumption
<1>2. Grain[s] \in Nat \ {0} /\ (s > 1 => Grain[s - 1] \in Nat \ {0})
  BY <1>1, ExactAssumption
<1>3. DampDen * Grain[s] \in Nat \ {0}
  BY <1>2, ConfigAssumption
<1> QED BY <1>1, <1>2, <1>3

LEMMA MultiplesWhole ==
  ASSUME pages \subseteq Pages, NEW r \in [Pages -> Nat], NEW s \in 1..MaxSuperstep, Multiples(r, s)
  PROVE  Whole(r)
<1> SUFFICES ASSUME NEW q \in pages, NEW n \in 1..Cardinality(Pages) PROVE Divides(n, r[q])
  BY DEF Whole
<1>1. n \in Nat \ {0} /\ r[q] \in Int /\ Grain[s] \in Nat \ {0} /\ Divides(n, Grain[s])
  BY Grains, ExactAssumption, PagesAssumption, FS_CardinalityType
<1> QED BY <1>1, DividesChain DEF Multiples

LEMMA KeptExact ==
  ASSUME NEW e \in Nat \ {0}, Divides(DampDen * e, One)
  PROVE  Divides(e, One - Damped(One)) /\ One - Damped(One) \in Int
<1> SUFFICES ASSUME NEW d \in Nat \ {0}, d = DampDen, NEW x \in Int, x = One,
                    NEW y \in Int, y = Damped(One)
             PROVE  Divides(e, x - y)
  BY DampedExact, ConfigAssumption
<1>1. Divides(d * e, x)
  OBVIOUS
<1>2. Divides(e, x)
  BY <1>1, DividesParts
<1>3. Divides(e, y)
  BY DampedExact, ConfigAssumption
<1> QED BY <1>2, <1>3, DividesSums

LEMMA IterateExact ==
  ASSUME pages \subseteq Pages, pages # {}, Closed, NEW r \in [Pages -> Nat],
         NEW s \in 2..MaxSuperstep, Multiples(r, s - 1)
  PROVE  /\ \A x \in {Residual(r, pages)} \cup {Incoming(r, pages, v) : v \in pages} :
              Damped(x) \in Int /\ DampDen * Damped(x) = DampNum * x /\ Divides(Grain[s], Damped(x))
         /\ Damped(One) \in Int /\ DampDen * Damped(One) = DampNum * One
         /\ Teleport \in Int /\ Cardinality(pages) * Teleport = One - Damped(One)
         /\ Divides(Grain[s], Teleport)
         /\ Multiples(Abstract!Iterate(r), s)
<1> DEFINE n == Cardinality(pages)
           g == Grain[s]
           It == Abstract!Iterate(r)
<1>1. /\ s \in 1..MaxSuperstep /\ s > 1 /\ g \in Nat \ {0} /\ DampDen * g \in Nat \ {0}
      /\ Grain[s - 1] \in Nat \ {0} /\ DampDen \in Nat \ {0} /\ One \in Nat
  BY Grains, BoundsAssumption, ConfigAssumption
<1>2. \A m \in 1..Cardinality(Pages) :
        /\ m \in Nat \ {0} /\ m * (DampDen * g) \in Nat \ {0}
        /\ Divides(m * (DampDen * g), Grain[s - 1]) /\ Divides(m * (DampDen * g), One)
  <2> SUFFICES ASSUME NEW m \in 1..Cardinality(Pages)
               PROVE  /\ m \in Nat \ {0} /\ m * (DampDen * g) \in Nat \ {0}
                      /\ Divides(m * (DampDen * g), Grain[s - 1]) /\ Divides(m * (DampDen * g), One)
    OBVIOUS
  <2>1. m \in Nat \ {0}
    BY PagesAssumption, FS_CardinalityType
  <2>2. Divides(m * (DampDen * g), Grain[s - 1]) /\ Divides(m * (DampDen * g), One)
    BY <1>1, ExactAssumption
  <2>3. m * (DampDen * g) \in Nat \ {0}
    <3> DEFINE e == DampDen * g
    <3>1. e \in Nat \ {0}
      BY <1>1
    <3> HIDE DEF e
    <3>2. m * e \in Nat \ {0}
      BY <2>1, <3>1
    <3> QED BY <3>2 DEF e
  <2> QED BY <2>1, <2>2, <2>3
<1>3. n \in 1..Cardinality(Pages)
  BY PageCounts
<1> HIDE DEF g, n
<1>4. ASSUME NEW q \in pages, NEW m \in 1..Cardinality(Pages) PROVE Divides(m * (DampDen * g), r[q])
  <2>1. r[q] \in Int /\ Divides(Grain[s - 1], r[q])
    BY DEF Multiples
  <2>2. m * (DampDen * g) \in Nat \ {0} /\ Divides(m * (DampDen * g), Grain[s - 1])
    BY <1>2
  <2> QED BY <1>1, <2>1, <2>2, DividesChain
<1>5. /\ Divides(DampDen * g, Residual(r, pages)) /\ Residual(r, pages) \in Nat
      /\ \A v \in pages : Divides(DampDen * g, Incoming(r, pages, v)) /\ Incoming(r, pages, v) \in Nat
  <2>1. Divides(DampDen * g, Residual(r, pages)) /\ \A v : Divides(DampDen * g, Incoming(r, pages, v))
    BY <1>1, <1>4, SentDivides
  <2>2. Residual(r, pages) \in Nat /\ \A v : Incoming(r, pages, v) \in Nat
    BY IncomingLaws, ResidualLaws
  <2> QED BY <2>1, <2>2
<1>6. \A x \in {Residual(r, pages)} \cup {Incoming(r, pages, v) : v \in pages} :
        Damped(x) \in Int /\ DampDen * Damped(x) = DampNum * x /\ Divides(g, Damped(x))
  BY <1>1, <1>5, DampedExact
<1>7. /\ Damped(One) \in Int /\ DampDen * Damped(One) = DampNum * One
      /\ Teleport \in Int /\ n * Teleport = One - Damped(One) /\ Divides(g, Teleport)
  <2>1. n \in Nat \ {0} /\ n * g \in Nat \ {0} /\ n * (DampDen * g) = DampDen * (n * g)
    BY <1>1, <1>2, <1>3
  <2>2. Divides(DampDen * (n * g), One)
    BY <1>2, <1>3, <2>1
  <2>3. /\ Damped(One) \in Int /\ DampDen * Damped(One) = DampNum * One
        /\ Divides(n * g, Damped(One))
    BY <2>1, <2>2, <1>1, DampedExact
  <2>5. Divides(n * g, One - Damped(One)) /\ One - Damped(One) \in Int
    BY <2>1, <2>2, KeptExact
  <2>6. /\ (One - Damped(One)) \div n \in Int
        /\ n * ((One - Damped(One)) \div n) = One - Damped(One)
        /\ Divides(g, (One - Damped(One)) \div n)
    BY <2>1, <2>5, <1>1, DividesParts
  <2> QED BY <2>3, <2>6 DEF Teleport, n
<1>8. ASSUME NEW p \in pages PROVE Divides(g, It[p])
  <2>1. It[p] = Teleport + Damped(Incoming(r, pages, p)) + Damped(Residual(r, pages))
    BY IterateIs DEF Teleport
  <2>2. /\ Divides(g, Damped(Incoming(r, pages, p))) /\ Damped(Incoming(r, pages, p)) \in Int
        /\ Divides(g, Damped(Residual(r, pages))) /\ Damped(Residual(r, pages)) \in Int
    BY <1>6
  <2>3. Divides(g, Teleport + Damped(Incoming(r, pages, p)))
    BY <1>1, <1>7, <2>2, DividesSums
  <2>4. Teleport + Damped(Incoming(r, pages, p)) \in Int
    BY <1>7, <2>2
  <2> HIDE DEF It
  <2> QED BY <1>1, <2>1, <2>2, <2>3, <2>4, DividesSums
<1> QED BY <1>6, <1>7, <1>8 DEF Multiples, g, n

(* What is kept, and what goes through the links and the dead ends.        *)
LEMMA IterateMass ==
  ASSUME pages \subseteq Pages, pages # {}, Closed, NEW r \in [Pages -> Nat],
         NEW s \in 2..MaxSuperstep, Multiples(r, s - 1), Sum(r, pages) = One
  PROVE  Sum(Abstract!Iterate(r), pages) = One
<1> DEFINE n == Cardinality(pages)
           It == Abstract!Iterate(r)
           D == Damped(Residual(r, pages))
           kept == [v \in Pages |-> Teleport + D]
           read == [v \in Pages |-> Damped(Sent(r, pages)[v])]
<1>1. /\ IsFiniteSet(pages) /\ n \in Nat /\ Whole(r)
      /\ Residual(r, pages) \in Nat /\ \A v \in pages : Sent(r, pages)[v] \in Nat
  <2>1. s - 1 \in 1..MaxSuperstep
    BY BoundsAssumption
  <2>2. \A v : Incoming(r, pages, v) \in Nat
    BY IncomingLaws
  <2>3. \A v \in pages : Sent(r, pages)[v] \in Nat
    BY <2>2 DEF Sent
  <2> QED BY <2>1, <2>3, FinitePages, ResidualLaws, MultiplesWhole
<1>2. /\ D \in Int /\ DampDen * D = DampNum * Residual(r, pages)
      /\ Damped(One) \in Int /\ DampDen * Damped(One) = DampNum * One
      /\ Teleport \in Int /\ n * Teleport = One - Damped(One)
  BY IterateExact
<1>3. \A v \in pages : /\ read[v] \in Int /\ DampDen * read[v] = DampNum * Sent(r, pages)[v]
                       /\ kept[v] = Teleport + D /\ It[v] = kept[v] + read[v]
  <2>1. \A v \in pages : /\ Damped(Incoming(r, pages, v)) \in Int
                         /\ DampDen * Damped(Incoming(r, pages, v)) = DampNum * Incoming(r, pages, v)
    BY IterateExact
  <2>2. \A v \in pages : It[v] = Teleport + Damped(Incoming(r, pages, v)) + D
    BY IterateIs DEF Teleport
  <2>3. \A v \in pages : read[v] = Damped(Incoming(r, pages, v))
                         /\ Sent(r, pages)[v] = Incoming(r, pages, v)
    BY DEF Sent
  <2> HIDE DEF It, D, read
  <2> QED BY <2>1, <2>2, <2>3, <1>2
<1> HIDE DEF It, D, kept, read, n
<1>4. Sum(kept, pages) = n * (Teleport + D)
  <2>1. Teleport + D \in Int /\ \A v \in pages : kept[v] = IF v \in pages THEN Teleport + D ELSE 0
    BY <1>2, <1>3
  <2> QED BY <2>1, <1>1, SumPart DEF n
<1>5. Sum(It, pages) = Sum(kept, pages) + Sum(read, pages)
  <2>1. \A v \in pages : kept[v] \in Int /\ read[v] \in Int /\ It[v] = 1 * kept[v] + 1 * read[v]
    BY <1>2, <1>3
  <2>2. Sum(It, pages) = 1 * Sum(kept, pages) + 1 * Sum(read, pages)
    BY <2>1, <1>1, SumLinear
  <2>3. Sum(kept, pages) \in Int /\ Sum(read, pages) \in Int
    BY <2>1, <1>1, SumLaws
  <2> QED BY <2>2, <2>3
<1>6. DampDen * Sum(read, pages) = DampNum * Sum(Sent(r, pages), pages)
  <2> DEFINE h == [v \in Pages |-> DampDen * read[v]]
  <2>1. \A v \in pages :
          /\ read[v] \in Int /\ Sent(r, pages)[v] \in Int
          /\ h[v] = DampDen * read[v] + 0 * read[v]
          /\ h[v] = DampNum * Sent(r, pages)[v] + 0 * Sent(r, pages)[v]
    BY <1>1, <1>3, ConfigAssumption
  <2>2. DampDen \in Int /\ DampNum \in Int
    BY ConfigAssumption
  <2> HIDE DEF h
  <2>3. Sum(h, pages) = DampDen * Sum(read, pages) + 0 * Sum(read, pages)
    BY <2>1, <2>2, <1>1, SumLinear
  <2>4. Sum(h, pages) = DampNum * Sum(Sent(r, pages), pages) + 0 * Sum(Sent(r, pages), pages)
    BY <2>1, <2>2, <1>1, SumLinear
  <2>5. Sum(read, pages) \in Int /\ Sum(Sent(r, pages), pages) \in Int
    BY <2>1, <1>1, SumLaws
  <2> QED BY <2>2, <2>3, <2>4, <2>5
<1>7. Sum(Sent(r, pages), pages) + n * Residual(r, pages) = One
  BY <1>1, AllSent DEF n
<1>8. Sum(It, pages) \in Int /\ Sum(read, pages) \in Int /\ Sum(Sent(r, pages), pages) \in Int
  <2>1. \A v \in pages : read[v] \in Int /\ It[v] \in Int /\ Sent(r, pages)[v] \in Int
    BY <1>1, <1>2, <1>3
  <2> QED BY <2>1, <1>1, SumLaws
<1>9. Sum(It, pages) = One
  <2> DEFINE S == Sum(It, pages)
             B == Sum(read, pages)
             I == Sum(Sent(r, pages), pages)
             R == Residual(r, pages)
             E == Damped(One)
             T == Teleport
  <2>a. /\ S \in Int /\ n \in Int /\ T \in Int /\ D \in Int /\ B \in Int /\ I \in Int
        /\ R \in Int /\ E \in Int
        /\ S = n * (T + D) + B /\ DampDen * B = DampNum * I /\ DampDen * D = DampNum * R
        /\ I + n * R = One /\ n * T = One - E /\ DampDen * E = DampNum * One
    BY <1>1, <1>2, <1>4, <1>5, <1>6, <1>7, <1>8
  <2> HIDE DEF S, B, I, R, E, T
  <2>1. DampNum \in Int /\ DampDen \in Nat \ {0} /\ One \in Int
    BY ConfigAssumption
  <2>2. n * (T + D) = n * T + n * D
    BY <2>a
  <2>3. DampDen * S = DampDen * (One - E) + DampDen * (n * D) + DampDen * B
    BY <2>1, <2>2, <2>a
  <2>4. DampDen * (n * D) = n * (DampDen * D) /\ n * (DampNum * R) = DampNum * (n * R)
    BY <2>1, <2>a
  <2>5. DampDen * (n * D) = DampNum * (n * R)
    BY <2>4, <2>a
  <2>6. DampDen * (One - E) = DampDen * One - DampDen * E
    BY <2>1, <2>a
  <2>7. DampNum * (I + n * R) = DampNum * I + DampNum * (n * R)
    BY <2>1, <2>a
  <2>8. DampDen * S = DampDen * One
    <3> DEFINE a == DampDen * One
               b == DampNum * One
               c == DampNum * I
               d == DampNum * (n * R)
    <3>1. a \in Int /\ b \in Int /\ c \in Int /\ d \in Int
      BY <2>1, <2>a
    <3>2. DampDen * S = (a - b) + d + c /\ c + d = b
      BY <2>3, <2>5, <2>6, <2>7, <2>a
    <3> HIDE DEF b, c, d
    <3> QED BY <3>1, <3>2
  <2> QED BY <2>1, <2>8, <2>a DEF S
<1> QED BY <1>9 DEF It

-----------------------------------------------------------------------------
(* Two sets of scores are, after an iteration, closer by the factor.       *)
Apart(r, t) == [p \in Pages |-> Abs(r[p] - t[p])]

LEMMA ApartType ==
  ASSUME NEW r \in [Pages -> Nat], NEW t \in [Pages -> Nat] PROVE Apart(r, t) \in [Pages -> Nat]
  BY AbsNat DEF Apart

LEMMA ApartWhole ==
  ASSUME pages \subseteq Pages, NEW r \in [Pages -> Nat], NEW t \in [Pages -> Nat], Whole(r), Whole(t)
  PROVE  Whole(Apart(r, t))
<1> SUFFICES ASSUME NEW q \in pages, NEW n \in 1..Cardinality(Pages)
             PROVE  Divides(n, Apart(r, t)[q])
  BY DEF Whole
<1>1. /\ n \in Nat \ {0} /\ r[q] \in Nat /\ t[q] \in Nat /\ Divides(n, r[q]) /\ Divides(n, t[q])
      /\ Apart(r, t)[q] = Abs(r[q] - t[q])
  BY PagesAssumption, FS_CardinalityType DEF Whole, Apart
<1> QED BY <1>1, ShareDifference

LEMMA SentApart ==
  ASSUME pages \subseteq Pages, Closed, NEW r \in [Pages -> Nat], NEW t \in [Pages -> Nat],
         Whole(r), Whole(t)
  PROVE  /\ \A v : Abs(Incoming(r, pages, v) - Incoming(t, pages, v)) <= Incoming(Apart(r, t), pages, v)
         /\ Abs(Residual(r, pages) - Residual(t, pages)) <= Residual(Apart(r, t), pages)
<1> DEFINE d == Apart(r, t)
<1>1. ASSUME NEW q \in pages, NEW n \in 1..Cardinality(Pages)
      PROVE  /\ r[q] \div n \in Int /\ t[q] \div n \in Int /\ d[q] \div n \in Int
             /\ Abs((r[q] \div n) - (t[q] \div n)) <= d[q] \div n
  <2>1. /\ n \in Nat \ {0} /\ r[q] \in Nat /\ t[q] \in Nat /\ Divides(n, r[q]) /\ Divides(n, t[q])
        /\ Apart(r, t)[q] = Abs(r[q] - t[q])
    BY <1>1, PagesAssumption, FS_CardinalityType DEF Whole, Apart
  <2> SUFFICES ASSUME NEW x \in Nat, x = r[q], NEW y \in Nat, y = t[q]
               PROVE  /\ x \div n \in Int /\ y \div n \in Int /\ Abs(x - y) \div n \in Int
                      /\ Abs((x \div n) - (y \div n)) <= Abs(x - y) \div n
    BY <2>1
  <2>2. Divides(n, x) /\ Divides(n, y) /\ n \in Nat \ {0}
    BY <2>1
  <2>3. /\ x \div n \in Nat /\ y \div n \in Nat /\ Abs(x - y) \div n \in Nat
        /\ Abs((x \div n) - (y \div n)) = Abs(x - y) \div n
    BY <2>2, ShareDifference
  <2> QED BY <2>3
<1> HIDE DEF d
<1>2. ASSUME NEW v
      PROVE  Abs(Incoming(r, pages, v) - Incoming(t, pages, v)) <= Incoming(d, pages, v)
  <2> DEFINE from == {q \in pages : v \in Out(q)}
  <2>1. IsFiniteSet(from)
    BY FinitePages
  <2>2. \A q \in from : q \in pages /\ q \in Pages /\ Cardinality(Out(q)) \in 1..Cardinality(Pages)
    BY PageCounts
  <2> HIDE DEF from
  <2>3. \A q \in from : /\ Shares(r)[q] \in Int /\ Shares(t)[q] \in Int /\ Shares(d)[q] \in Int
                        /\ Abs(Shares(r)[q] - Shares(t)[q]) <= Shares(d)[q]
    BY <1>1, <2>2 DEF Shares
  <2> QED BY <2>1, <2>3, SumDifference DEF Incoming, from
<1>3. Abs(Residual(r, pages) - Residual(t, pages)) <= Residual(d, pages)
  <2> DEFINE from == {q \in pages : Out(q) = {}}
             n == Cardinality(pages)
  <2>1. IsFiniteSet(from)
    BY FinitePages
  <2>2. \A q \in from : q \in pages /\ q \in Pages /\ n \in 1..Cardinality(Pages)
    BY PageCounts
  <2> HIDE DEF from, n
  <2>3. \A q \in from : /\ Share(r, n)[q] \in Int /\ Share(t, n)[q] \in Int /\ Share(d, n)[q] \in Int
                        /\ Abs(Share(r, n)[q] - Share(t, n)[q]) <= Share(d, n)[q]
    BY <1>1, <2>2 DEF Share
  <2> QED BY <2>1, <2>3, SumDifference DEF Residual, from, n
<1> QED BY <1>2, <1>3 DEF d

LEMMA IterateApart ==
  ASSUME pages \subseteq Pages, Closed, NEW r \in [Pages -> Nat], NEW t \in [Pages -> Nat],
         NEW s \in 2..MaxSuperstep, Multiples(r, s - 1), Multiples(t, s - 1)
  PROVE  DampDen * Sum(Apart(Abstract!Iterate(r), Abstract!Iterate(t)), pages)
           <= DampNum * Sum(Apart(r, t), pages)
<1>1. CASE pages = {}
  BY <1>1, SumEmpty, ConfigAssumption
<1>2. CASE pages # {}
  <2> DEFINE n == Cardinality(pages)
             d == Apart(r, t)
             R == Residual(d, pages)
             e == Apart(Abstract!Iterate(r), Abstract!Iterate(t))
             h == [p \in Pages |-> DampNum * (Sent(d, pages)[p] + R)]
             all == [p \in Pages |-> R]
             lhs == [p \in Pages |-> DampDen * e[p]]
  <2>1. /\ Whole(r) /\ Whole(t) /\ Whole(d) /\ d \in [Pages -> Nat]
        /\ IsFiniteSet(pages) /\ n \in Nat /\ DampNum \in Int /\ DampDen \in Int
    <3>1. s - 1 \in 1..MaxSuperstep
      BY BoundsAssumption
    <3>2. Whole(r) /\ Whole(t)
      BY <3>1, MultiplesWhole
    <3> QED BY <3>2, ApartWhole, ApartType, FinitePages, ConfigAssumption
  <2>2. R \in Nat /\ \A v : Incoming(d, pages, v) \in Nat
    <3> HIDE DEF d
    <3> QED BY <2>1, IncomingLaws, ResidualLaws
  <2>3. \A p \in pages : Sent(d, pages)[p] = Incoming(d, pages, p) /\ Sent(d, pages)[p] \in Nat
    <3> HIDE DEF d
    <3> QED BY <2>2 DEF Sent
  <2>4. ASSUME NEW p \in pages PROVE e[p] \in Nat
               /\ DampDen * e[p] <= DampNum * (Sent(d, pages)[p] + R)
    <3>1. /\ Abstract!Iterate(r)[p] =
               Teleport + Damped(Incoming(r, pages, p)) + Damped(Residual(r, pages))
          /\ Abstract!Iterate(t)[p] =
               Teleport + Damped(Incoming(t, pages, p)) + Damped(Residual(t, pages))
      BY IterateIs DEF Teleport
    <3>2. /\ Incoming(r, pages, p) \in Nat /\ Incoming(t, pages, p) \in Nat
          /\ Residual(r, pages) \in Nat /\ Residual(t, pages) \in Nat
      BY IncomingLaws, ResidualLaws
    <3>3. /\ Teleport \in Int /\ Damped(Incoming(r, pages, p)) \in Int
             /\ Damped(Residual(r, pages)) \in Int
          /\ DampDen * Damped(Incoming(r, pages, p)) = DampNum * Incoming(r, pages, p)
          /\ DampDen * Damped(Residual(r, pages)) = DampNum * Residual(r, pages)
      BY <1>2, IterateExact
    <3>4. /\ Damped(Incoming(t, pages, p)) \in Int /\ Damped(Residual(t, pages)) \in Int
          /\ DampDen * Damped(Incoming(t, pages, p)) = DampNum * Incoming(t, pages, p)
          /\ DampDen * Damped(Residual(t, pages)) = DampNum * Residual(t, pages)
      BY <1>2, IterateExact
    <3>5. /\ Abs(Incoming(r, pages, p) - Incoming(t, pages, p)) <= Incoming(d, pages, p)
          /\ Abs(Residual(r, pages) - Residual(t, pages)) <= R
      BY <2>1, SentApart
    <3>6. e[p] = Abs(Abstract!Iterate(r)[p] - Abstract!Iterate(t)[p])
      BY DEF Apart
    <3>7. e[p] \in Nat
      <4>1. Abstract!Iterate(r)[p] \in Nat /\ Abstract!Iterate(t)[p] \in Nat
        BY IterateIs
      <4> QED BY <4>1, <3>6, AbsNat
    <3> HIDE DEF R, d, e
    <3>8. DampDen * e[p] <= DampNum * (Incoming(d, pages, p) + R)
      <4> DEFINE T == Teleport
                 a == Incoming(r, pages, p)
                 b == Incoming(t, pages, p)
                 c == Incoming(d, pages, p)
                 x == Residual(r, pages)
                 y == Residual(t, pages)
                 u == Damped(a)
                 v == Damped(b)
                 f == Damped(x)
                 g == Damped(y)
      <4>a. /\ T \in Int /\ a \in Nat /\ b \in Nat /\ c \in Nat /\ x \in Nat /\ y \in Nat
            /\ R \in Nat /\ u \in Int /\ v \in Int /\ f \in Int /\ g \in Int
            /\ DampDen * u = DampNum * a /\ DampDen * v = DampNum * b
            /\ DampDen * f = DampNum * x /\ DampDen * g = DampNum * y
            /\ Abs(a - b) <= c /\ Abs(x - y) <= R
        BY <3>2, <3>3, <3>4, <3>5, <2>2
      <4>b. e[p] = Abs((T + u + f) - (T + v + g))
        BY <3>1, <3>6
      <4> HIDE DEF T, a, b, c, x, y, u, v, f, g
      <4>1. DampNum \in Nat \ {0} /\ DampDen \in Nat \ {0}
        BY ConfigAssumption
      <4> DEFINE m == (u + f) - (v + g)
                 k == (a - b) + (x - y)
      <4>2. (T + u + f) - (T + v + g) = m /\ m \in Int /\ k \in Int
        BY <4>a
      <4>3. DampDen * m = DampNum * k
        <5>1. DampDen * m = (DampDen * u + DampDen * f) - (DampDen * v + DampDen * g)
          BY <4>1, <4>a
        <5>2. DampNum * k = (DampNum * a + DampNum * x) - (DampNum * b + DampNum * y)
          BY <4>1, <4>a
        <5> QED BY <5>1, <5>2, <4>a
      <4>4. k <= c + R /\ -k <= c + R /\ c + R \in Nat
        BY <4>a DEF Abs
      <4> HIDE DEF m, k
      <4>5. DampNum * k <= DampNum * (c + R) /\ DampNum * (-k) <= DampNum * (c + R)
        BY <4>1, <4>2, <4>4, <4>a
      <4>6. DampDen * (-m) = DampNum * (-k)
        <5>1. DampDen * (-m) = -(DampDen * m) /\ DampNum * (-k) = -(DampNum * k)
          BY <4>1, <4>2, <4>a
        <5> QED BY <5>1, <4>3, <4>a
      <4>7. DampDen * Abs(m) <= DampNum * (c + R)
        BY <4>3, <4>5, <4>6, <4>a DEF Abs
      <4> QED BY <4>2, <4>7, <4>b DEF c
    <3> QED BY <3>7, <3>8, <2>3
  <2>5. /\ \A p \in pages : /\ lhs[p] = DampDen * e[p] + 0 * e[p] /\ lhs[p] \in Int /\ e[p] \in Int
                            /\ h[p] = DampNum * Sent(d, pages)[p] + DampNum * all[p]
                            /\ h[p] \in Int /\ all[p] = R /\ Sent(d, pages)[p] \in Int
                               /\ all[p] \in Int
                            /\ lhs[p] <= h[p]
    <3> SUFFICES ASSUME NEW p \in pages
                 PROVE  /\ lhs[p] = DampDen * e[p] + 0 * e[p] /\ lhs[p] \in Int /\ e[p] \in Int
                        /\ h[p] = DampNum * Sent(d, pages)[p] + DampNum * all[p]
                        /\ h[p] \in Int /\ all[p] = R /\ Sent(d, pages)[p] \in Int /\ all[p] \in Int
                        /\ lhs[p] <= h[p]
      OBVIOUS
    <3>1. lhs[p] = DampDen * e[p] /\ h[p] = DampNum * (Sent(d, pages)[p] + R) /\ all[p] = R
      OBVIOUS
    <3>2. e[p] \in Nat /\ DampDen * e[p] <= DampNum * (Sent(d, pages)[p] + R)
      BY <2>4
    <3>3. Sent(d, pages)[p] \in Nat
      BY <2>3
    <3> HIDE DEF lhs, h, all, e, d, R
    <3> QED BY <3>1, <3>2, <3>3, <2>1, <2>2
  <2> HIDE DEF n, d, R, e, h, all, lhs
  <2>6. Sum(lhs, pages) <= Sum(h, pages)
    BY <2>1, <2>5, SumMonotone
  <2>7. Sum(lhs, pages) = DampDen * Sum(e, pages) + 0 * Sum(e, pages)
    BY <2>1, <2>5, SumLinear
  <2>8. Sum(h, pages) = DampNum * Sum(Sent(d, pages), pages) + DampNum * Sum(all, pages)
    BY <2>1, <2>5, SumLinear
  <2>9. Sum(all, pages) = n * R
    <3>1. R \in Int /\ \A p \in pages : all[p] = IF p \in pages THEN R ELSE 0
      BY <2>2, <2>5
    <3> QED BY <3>1, <2>1, SumPart DEF n
  <2>10. Sum(Sent(d, pages), pages) + n * R = Sum(d, pages)
    BY <2>1, AllSent DEF n, R
  <2>11. Sum(e, pages) \in Int /\ Sum(Sent(d, pages), pages) \in Int /\ Sum(all, pages) \in Int
    BY <2>1, <2>5, SumLaws
  <2>12. DampNum * Sum(Sent(d, pages), pages) + DampNum * Sum(all, pages) = DampNum * Sum(d, pages)
    BY <2>1, <2>9, <2>10, <2>11
  <2>13. DampDen * Sum(e, pages) <= DampNum * Sum(d, pages)
    BY <2>1, <2>6, <2>7, <2>8, <2>11, <2>12
  <2> QED BY <2>13 DEF e, d
<1> QED BY <1>1, <1>2

-----------------------------------------------------------------------------
(* The scores that the last superstep left, from superstep 1 on, and those *)
(* of the superstep before that.                                           *)
Last == IF pc = "scored" THEN superstep ELSE superstep - 1

MassInv ==
  pc \in {"pre", "step", "scored"} /\ superstep > 1 =>
    Multiples(ranked, Last) /\ (pages # {} => Sum(ranked, pages) = One)

ContractInv ==
  pc \in {"pre", "step", "scored"} /\ Last > 1 =>
    \E prev \in [Pages -> Nat] :
      /\ Multiples(prev, Last - 1) /\ ranked = Abstract!Iterate(prev)
      /\ lastSAD = Sum(Apart(prev, ranked), pages)

LEMMA FirstMass ==
  ASSUME pages \subseteq Pages, 1 \in 1..MaxSuperstep
  PROVE  Multiples(First, 1) /\ (pages # {} => Sum(First, pages) = One)
<1> DEFINE n == Cardinality(pages)
           m == One \div n
<1>1. CASE pages = {}
  BY <1>1 DEF Multiples
<1>2. CASE pages # {}
  <2>1. n \in Nat \ {0} /\ n \in 1..Cardinality(Pages) /\ IsFiniteSet(pages)
    <3>1. IsFiniteSet(Pages) /\ IsFiniteSet(pages) /\ n <= Cardinality(Pages)
      BY PagesAssumption, FS_Subset
    <3> QED BY <3>1, <1>2, FinitePages, FS_CardinalityType
  <2> HIDE DEF n
  <2>2. Divides(n * Grain[1], One) /\ Grain[1] \in Nat \ {0} /\ One \in Int
    BY <2>1, ExactAssumption, ConfigAssumption, Grains
  <2>3. m \in Int /\ n * m = One /\ Divides(Grain[1], m)
    BY <2>1, <2>2, DividesParts
  <2>4. \A p \in pages : First[p] = m
    BY DEF First, n
  <2> HIDE DEF m
  <2>5. Multiples(First, 1)
    BY <2>3, <2>4 DEF Multiples
  <2>6. Sum(First, pages) = n * m
    <3>1. \A p \in pages : First[p] = IF p \in pages THEN m ELSE 0
      BY <2>4
    <3> QED BY <3>1, <2>1, <2>3, SumPart DEF n
  <2> QED BY <2>3, <2>5, <2>6
<1> QED BY <1>1, <1>2

(* How a superstep that did not fail ends.                                 *)
LEMMA StepEnds ==
  ASSUME IInv, PostStep, ~failed, superstep > 0
  PROVE  /\ UNCHANGED <<pages, links>> /\ pages \subseteq Pages /\ Closed
         /\ superstep \in 1..MaxSuperstep /\ superstep \in Nat /\ pc = "step"
         /\ ranked' = Target /\ Target \in [Pages -> Nat] /\ ranked \in [Pages -> Nat]
         /\ lastSAD' = Sum(Apart(ranked, Target), pages) /\ Last' = superstep /\ Last = superstep - 1
         /\ pc' = "pre" => superstep' = superstep + 1
<1>1. /\ UNCHANGED <<pages, links>> /\ pc = "step" /\ todo = {}
      /\ \A w \in Workers : busy[w] = Free
      /\ ranked' = score /\ lastSAD' = acc["SAD"].cur
  BY DEF PostStep, graphVars, A!Get
<1>2. /\ superstep \in 1..MaxSuperstep /\ superstep \in Nat /\ pages \subseteq Pages
      /\ ranked \in [Pages -> Nat]
  BY BoundsAssumption DEF IInv, TypeInv
<1>3. score = Target /\ lastSAD' = Sum(Change, pages) /\ Closed
  BY <1>1, StepDone
<1>4. Change = Apart(ranked, Target)
  BY DEF Change, Apart
<1>5. /\ Last' = superstep /\ Last = superstep - 1
      /\ pc' = "pre" => superstep' = superstep + 1
  BY <1>1, <1>2 DEF PostStep, Last
<1> QED BY <1>1, <1>2, <1>3, <1>4, <1>5, TargetType DEF IInv

(* All other steps leave the scores of the supersteps alone.               *)
LEMMA ScoresStay ==
  ASSUME IInv, [Next]_vars, pc' \in {"pre", "step", "scored"}, superstep' # 0
  PROVE  \/ PostStep /\ ~failed
         \/ /\ UNCHANGED <<pages, links, ranked, lastSAD, superstep, Last>>
            /\ pc \in {"pre", "step", "scored"}
<1>1. CASE UNCHANGED vars
  BY <1>1 DEF vars, graphVars, Last
<1>2. ASSUME NEW l \in Loads, Load(l) PROVE FALSE
  BY <1>2 DEF Load
<1>3. CASE PreStep
  BY <1>3 DEF PreStep, graphVars, Last
<1>4. CASE PostStep
  BY <1>4 DEF PostStep
<1>5. CASE ContextExpires \/ Scores
  BY <1>5 DEF ContextExpires, Scores
<1>6. ASSUME NEW w \in Workers, Worker(w)
      PROVE  UNCHANGED <<pages, links, ranked, lastSAD, superstep, pc>>
  BY <1>6 DEF Worker, CountPage, ComputeScore, LoadSum, SwapSum, SpreadScore, graphVars
<1> QED BY <1>1, <1>2, <1>3, <1>4, <1>5, <1>6 DEF Next, Calculator, Last

LEMMA MassStep == IInv /\ MassInv /\ [Next]_vars => MassInv'
<1> SUFFICES ASSUME IInv, MassInv, [Next]_vars, pc' \in {"pre", "step", "scored"}, superstep' > 1
             PROVE  /\ Multiples(ranked, Last)'
                    /\ (pages # {} => Sum(ranked, pages) = One)'
  BY DEF MassInv
<1>1. CASE UNCHANGED <<pages, ranked, superstep, Last>> /\ pc \in {"pre", "step", "scored"}
  <2>1. Multiples(ranked, Last) /\ (pages # {} => Sum(ranked, pages) = One)
    BY <1>1 DEF MassInv
  <2> QED BY <1>1, <2>1 DEF Multiples
<1>2. CASE PostStep /\ ~failed
  <2>1. superstep > 0
    <3>1. superstep \in Nat
      BY BoundsAssumption DEF IInv, TypeInv
    <3>2. superstep = 0 => superstep' = 1
      BY <1>2 DEF PostStep, KeepRunning
    <3> QED BY <3>1, <3>2
  <2>2. /\ pages' = pages /\ pages \subseteq Pages /\ Closed
        /\ superstep \in 1..MaxSuperstep /\ superstep \in Nat /\ pc = "step"
        /\ ranked' = Target /\ ranked \in [Pages -> Nat] /\ Last' = superstep /\ Last = superstep - 1
    BY <1>2, <2>1, StepEnds
  <2>3. Multiples(Target, superstep) /\ (pages # {} => Sum(Target, pages) = One)
    <3>1. CASE superstep = 1
      BY <2>2, <3>1, FirstMass DEF Target
    <3>2. CASE superstep # 1
      <4>1. superstep \in 2..MaxSuperstep /\ superstep > 1 /\ Target = Abstract!Iterate(ranked)
        BY <2>2, <3>2 DEF Target
      <4>2. Multiples(ranked, superstep - 1) /\ (pages # {} => Sum(ranked, pages) = One)
        BY <2>2, <4>1 DEF MassInv
      <4>3. pages = {} => Multiples(Target, superstep)
        BY DEF Multiples
      <4> QED BY <2>2, <4>1, <4>2, <4>3, IterateExact, IterateMass
    <3> QED BY <3>1, <3>2
  <2> QED BY <2>2, <2>3 DEF Multiples
<1> QED BY <1>1, <1>2, ScoresStay

THEOREM MassInvariance == Spec => [](IInv /\ MassInv /\ ContractInv)
<1>1. Init => MassInv /\ ContractInv
  BY DEF Init, MassInv, ContractInv
<1>2. IInv /\ [Next]_vars => IInv'
  BY TypeStep, WorkerStep, CountStep, RoundStep, StepStep, EndStep DEF IInv
<1>3. IInv /\ MassInv /\ ContractInv /\ [Next]_vars => ContractInv'
  <2> SUFFICES ASSUME IInv, MassInv, ContractInv, [Next]_vars,
                      pc' \in {"pre", "step", "scored"}, Last' > 1
               PROVE  (\E prev \in [Pages -> Nat] :
                         /\ Multiples(prev, Last - 1) /\ ranked = Abstract!Iterate(prev)
                         /\ lastSAD = Sum(Apart(prev, ranked), pages))'
    BY DEF ContractInv
  <2>0. superstep \in Nat /\ superstep' \in Nat /\ superstep' > 1
    <3>1. superstep \in Nat /\ superstep' \in Nat
      BY <1>2, BoundsAssumption DEF IInv, TypeInv
    <3>2. pc' = "scored" => superstep' > 1
      BY <1>2 DEF IInv, EndInv
    <3>3. pc' # "scored" => Last' = superstep' - 1
      BY DEF Last
    <3> QED BY <3>1, <3>2, <3>3
  <2>1. CASE UNCHANGED <<pages, links, ranked, lastSAD, Last>> /\ pc \in {"pre", "step", "scored"}
    <3>1. PICK prev \in [Pages -> Nat] :
            /\ Multiples(prev, Last - 1) /\ ranked = Abstract!Iterate(prev)
            /\ lastSAD = Sum(Apart(prev, ranked), pages)
      BY <2>1 DEF ContractInv
    <3>2. /\ Abstract!Iterate(prev)' = Abstract!Iterate(prev)
          /\ Multiples(prev, Last - 1)' <=> Multiples(prev, Last - 1)
          /\ Sum(Apart(prev, ranked), pages)' = Sum(Apart(prev, ranked), pages)
      BY <2>1, GraphSame DEF Multiples, Apart
    <3> QED BY <3>1, <3>2, <2>1
  <2>2. CASE PostStep /\ ~failed
    <3>1. superstep > 0
      <4>1. superstep = 0 => superstep' = 1
        BY <2>2 DEF PostStep, KeepRunning
      <4> QED BY <4>1, <2>0
    <3>2. /\ UNCHANGED <<pages, links>> /\ pages \subseteq Pages /\ Closed
          /\ superstep \in 1..MaxSuperstep /\ pc = "step"
          /\ ranked' = Target /\ ranked \in [Pages -> Nat] /\ Last' = superstep
             /\ Last = superstep - 1
          /\ lastSAD' = Sum(Apart(ranked, Target), pages)
      BY <2>2, <3>1, StepEnds
    <3>3. superstep > 1 /\ Target = Abstract!Iterate(ranked) /\ Multiples(ranked, superstep - 1)
      BY <2>0, <3>2 DEF Target, MassInv
    <3> SUFFICES ASSUME NEW prev \in [Pages -> Nat], prev = ranked
                 PROVE  /\ Multiples(prev, Last - 1)' /\ ranked' = Abstract!Iterate(prev)'
                        /\ lastSAD' = Sum(Apart(prev, ranked), pages)'
      BY <3>2
    <3>4. Abstract!Iterate(prev)' = Abstract!Iterate(prev)
      BY <3>2, GraphSame
    <3> QED BY <3>2, <3>3, <3>4 DEF Multiples, Apart
  <2> QED BY <2>0, <2>1, <2>2, ScoresStay
<1> QED BY RankInit, <1>1, <1>2, <1>3, MassStep, PTL DEF Spec

(* No score gets lost and none is used twice, whatever dead ends the graph *)
(* has and however the workers interleave (compute.go 45-71, calculator.go *)
(* 80, accumulator.go 47-58).                                              *)
THEOREM MassIsConserved == Spec => []MassConserved
<1>1. IInv /\ MassInv => MassConserved
  <2> SUFFICES ASSUME IInv, MassInv, pc \in {"pre", "scored"}, superstep > 1, pages # {},
                      NEW spread, spread = IF pc = "pre" THEN inbox ELSE outbox,
                      NEW last, last = IF pc = "pre" THEN superstep - 1 ELSE superstep
               PROVE  /\ Total(score) = One
                      /\ Total(spread) + Cardinality(pages) * A!Get(acc[ResidualOutputAccName(last)]) = One
    BY DEF MassConserved
  <2>1. /\ superstep \in Nat /\ pages \subseteq Pages /\ ranked \in [Pages -> Nat]
           /\ score = ranked /\ Closed
        /\ last \in 1..MaxSuperstep /\ last \in Nat /\ last = Last
    BY BoundsAssumption DEF IInv, TypeInv, RoundInv, EndInv, Last
  <2>2. /\ Multiples(ranked, last) /\ Sum(ranked, pages) = One /\ Whole(ranked)
    <3>1. Multiples(ranked, last) /\ Sum(ranked, pages) = One
      BY <2>1 DEF MassInv
    <3> QED BY <3>1, <2>1, MultiplesWhole
  <2>3. acc[ResidualOutputAccName(last)].cur = Residual(ranked, pages)
    <3>1. CASE pc = "pre"
      <4>1. ResidualInputAccName(last + 1) = ResidualOutputAccName(last) /\ last + 1 = superstep
        BY <3>1, <2>1, Residuals
      <4> QED BY <3>1, <4>1 DEF IInv, RoundInv
    <3>2. CASE pc = "scored"
      BY <3>2 DEF IInv, EndInv
    <3> QED BY <3>1, <3>2
  <2>4. Sum(spread, pages) = Sum(Sent(ranked, pages), pages)
    <3>1. \A v \in pages : spread[v] = Incoming(ranked, pages, v)
      BY DEF IInv, RoundInv, EndInv
    <3>2. \A v : Incoming(ranked, pages, v) \in Nat
      BY <2>1, IncomingLaws
    <3>3. \A v \in pages : spread[v] \in Int /\ spread[v] = Sent(ranked, pages)[v]
      BY <3>1, <3>2, <2>1 DEF Sent
    <3> QED BY <3>3, <2>1, FinitePages, SumSame
  <2> QED BY <2>1, <2>2, <2>3, <2>4, AllSent DEF Total, A!Get
<1> QED BY <1>1, MassInvariance, PTL

-----------------------------------------------------------------------------
LEMMA MultiplesChain ==
  ASSUME pages \subseteq Pages, NEW r \in [Pages -> Nat], NEW s \in 2..MaxSuperstep, Multiples(r, s - 1)
  PROVE  Multiples(r, s)
<1> SUFFICES ASSUME NEW q \in pages PROVE Divides(Grain[s], r[q])
  BY DEF Multiples
<1>1. /\ s \in 1..MaxSuperstep /\ s > 1 /\ Grain[s] \in Nat \ {0} /\ DampDen * Grain[s] \in Nat \ {0}
      /\ Grain[s - 1] \in Nat \ {0} /\ DampDen \in Nat \ {0}
  BY Grains, BoundsAssumption, ConfigAssumption
<1>2. 1 \in 1..Cardinality(Pages)
  <2>1. Cardinality(Pages) # 0 /\ Cardinality(Pages) \in Nat
    BY PagesAssumption, FS_EmptySet, FS_CardinalityType
  <2> QED BY <2>1
<1>3. Divides(DampDen * Grain[s], Grain[s - 1])
  <2>1. Divides(1 * (DampDen * Grain[s]), Grain[s - 1])
    BY <1>1, <1>2, ExactAssumption
  <2>2. 1 * (DampDen * Grain[s]) = DampDen * Grain[s]
    BY <1>1
  <2> QED BY <2>1, <2>2
<1>4. Divides(Grain[s], Grain[s - 1])
  <2> DEFINE g == Grain[s]
             h == Grain[s - 1]
  <2>1. g \in Nat \ {0} /\ h \in Int /\ DampDen \in Nat \ {0} /\ Divides(DampDen * g, h)
    BY <1>1, <1>3
  <2> HIDE DEF g, h
  <2>2. Divides(g, h)
    BY <2>1, DividesParts
  <2> QED BY <2>2 DEF g, h
<1>5. r[q] \in Int /\ Divides(Grain[s - 1], r[q])
  BY DEF Multiples
<1> QED BY <1>1, <1>4, <1>5, DividesChain

(* From superstep 3 on the sum of absolute differences shrinks by the      *)
(* damping factor at least, on every graph, so that a calculation gets     *)
(* below MinSAD at last (calculator.go 83-89, config.go 20).               *)
THEOREM DifferenceShrinks == Spec => Contracts
<1>1. IInv /\ MassInv /\ ContractInv /\ [Next]_vars =>
        [pc = "step" /\ pc' \in {"pre", "scored"} /\ superstep > 2
           => DampDen * lastSAD' <= DampNum * lastSAD]_vars
  <2> SUFFICES ASSUME IInv, MassInv, ContractInv, [Next]_vars,
                      pc = "step", pc' \in {"pre", "scored"}, superstep > 2
               PROVE  DampDen * lastSAD' <= DampNum * lastSAD
    OBVIOUS
  <2>1. PostStep /\ ~failed
    <3>1. CASE UNCHANGED vars
      BY <3>1 DEF vars
    <3>2. ASSUME NEW w \in Workers, Worker(w) PROVE pc' = pc
      BY <3>2 DEF Worker, CountPage, ComputeScore, LoadSum, SwapSum, SpreadScore, graphVars
    <3> QED BY <3>1, <3>2 DEF Next, Calculator, Load, PreStep, PostStep, ContextExpires, Scores
  <2>2. /\ pages \subseteq Pages /\ Closed /\ superstep \in 1..MaxSuperstep /\ superstep \in Nat
        /\ ranked \in [Pages -> Nat] /\ lastSAD' = Sum(Apart(ranked, Target), pages)
        /\ Last = superstep - 1
    BY <2>1, StepEnds, BoundsAssumption DEF IInv, TypeInv
  <2>3. PICK prev \in [Pages -> Nat] :
          /\ Multiples(prev, Last - 1) /\ ranked = Abstract!Iterate(prev)
          /\ lastSAD = Sum(Apart(prev, ranked), pages)
    BY <2>2 DEF ContractInv
  <2>4. Multiples(ranked, superstep - 1) /\ Target = Abstract!Iterate(ranked)
    BY <2>2 DEF MassInv, Target
  <2>5. superstep \in 2..MaxSuperstep /\ superstep - 1 \in 2..MaxSuperstep
    BY <2>2, BoundsAssumption
  <2>6. Multiples(prev, superstep - 1)
    <3>1. Last - 1 = (superstep - 1) - 1
      BY <2>2
    <3> QED BY <3>1, <2>2, <2>3, <2>5, MultiplesChain
  <2>7. DampDen * Sum(Apart(Abstract!Iterate(prev), Abstract!Iterate(ranked)), pages)
          <= DampNum * Sum(Apart(prev, ranked), pages)
    BY <2>2, <2>4, <2>5, <2>6, IterateApart
  <2>8. Apart(Abstract!Iterate(prev), Abstract!Iterate(ranked)) = Apart(ranked, Target)
    BY <2>3, <2>4
  <2> QED BY <2>2, <2>3, <2>7, <2>8
<1> QED BY <1>1, MassInvariance, PTL DEF Spec, Contracts
=============================================================================
