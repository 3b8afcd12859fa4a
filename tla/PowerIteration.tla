--------------------------- MODULE PowerIteration ---------------------------
(***************************************************************************)
(* What a PageRank calculation promises: the power iteration of the        *)
(* literature on the loaded graph, from equal ranks until a round moves    *)
(* less than MinSAD in sum, with no workers, messages or accumulators.     *)
(* Ranks are whole numbers of units; One of them make the probability 1.   *)
(***************************************************************************)
EXTENDS Integers, FiniteSets, FiniteSetsExt

CONSTANTS Pages, One, DampNum, DampDen, MinSAD

VARIABLES
  pages, links,  \* the graph; links leave and enter its pages only
  rank,
  round          \* "none", "first", then the number of iterations, "end"

vars == <<pages, links, rank, round>>

Damped(x)  == (DampNum * x) \div DampDen
Out(p)     == {q \in pages : <<p, q>> \in links}
DeadEnds   == {p \in pages : Out(p) = {}}
Abs(x)     == IF x < 0 THEN -x ELSE x
Sum(f, S)  == MapThenSumSet(LAMBDA p : f[p], S)

(* A reader follows a link of the page with probability d, any with the    *)
(* same; from a dead end, and with probability 1 - d, goes to any page.    *)
Incoming(r, p) ==
  LET from == {q \in pages : p \in Out(q)} IN
  Sum([q \in from |-> r[q] \div Cardinality(Out(q))], from)

Residual(r) == Sum([q \in DeadEnds |-> r[q] \div Cardinality(pages)], DeadEnds)

Iterate(r) ==
  [p \in Pages |->
    IF p \notin pages THEN 0
    ELSE (One - Damped(One)) \div Cardinality(pages)
           + Damped(Incoming(r, p)) + Damped(Residual(r))]

Moved(r, s) == Sum([p \in pages |-> Abs(r[p] - s[p])], pages)

Init == /\ pages = {} /\ links = {}
        /\ rank = [p \in Pages |-> 0]
        /\ round = "none"

Load == /\ round = "none"
        /\ pages' \in SUBSET Pages
        /\ links' \in SUBSET (Pages \X Pages)
        /\ rank' = [p \in Pages |-> 0]
        /\ round' = "first"

First == /\ round = "first"
         /\ rank' = [p \in Pages |-> IF p \in pages THEN One \div Cardinality(pages) ELSE 0]
         /\ round' = "more"
         /\ UNCHANGED <<pages, links>>

More == /\ round = "more"
        /\ rank' = Iterate(rank)
        /\ round' = IF Moved(rank, rank') < MinSAD THEN "end" ELSE "more"
        /\ UNCHANGED <<pages, links>>

(* The ranks are read, or the calculation is given up, and the next one    *)
(* starts from scratch.                                                    *)
Again == /\ round' = "none"
         /\ UNCHANGED <<pages, links, rank>>

Next == Load \/ First \/ More \/ Again
Spec == Init /\ [][Next]_vars
=============================================================================
