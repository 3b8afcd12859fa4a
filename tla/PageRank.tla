------------------------------ MODULE PageRank ------------------------------
(***************************************************************************)
(* The PageRank calculation: pagerank/compute.go run by the workers of a   *)
(* bsp.Graph over the pages, the callbacks of pagerank/calculator.go       *)
(* between the supersteps, and the accumulators they share, one load or    *)
(* CAS at a time.  The barriers, queues and errors of the graph are those  *)
(* of BspGraph; here a queue is the sum of the scores in it, which is all  *)
(* that is made of them.                                                   *)
(*                                                                         *)
(* Scores are whole numbers of units, so small that every division of a    *)
(* calculation is exact (ExactAssumption), as those of the float64 scores  *)
(* all but are.                                                            *)
(***************************************************************************)
EXTENDS Integers, FiniteSets, FiniteSetsExt

CONSTANTS
  Pages,
  Loads,              \* graphs the link store may hold: [pages, links]
  Workers,            \* ComputeWorkers
  One,                \* units that make the score 1
  DampNum, DampDen,   \* DampingFactor
  MinSAD,             \* MinSADForConvergence
  Grain,              \* units that the scores of each superstep are multiples of
  MaxSuperstep,       \* bound: never reached by a calculation that converges
  MaxPasses           \* bound: update passes

ASSUME PagesAssumption == IsFiniteSet(Pages)

ASSUME LoadsAssumption ==
  Loads \subseteq [pages : SUBSET Pages, links : SUBSET (Pages \X Pages)]

(* Config.validate; a factor of 1 is let pass there but need not converge. *)
ASSUME ConfigAssumption ==
  /\ DampNum \in Nat /\ DampDen \in Nat /\ 0 < DampNum /\ DampNum < DampDen
  /\ One \in Nat /\ MinSAD \in Nat /\ 0 < MinSAD /\ MinSAD < One

ASSUME BoundsAssumption == MaxSuperstep \in Nat /\ MaxPasses \in Nat

Divides(d, x) == d * (x \div d) = x

(* A score is divided among the pages or the neighbours, n of them, and    *)
(* what that gives is damped.                                              *)
ASSUME ExactAssumption ==
  /\ Grain \in [1..MaxSuperstep -> Nat \ {0}]
  /\ \A n \in 1..Cardinality(Pages), s \in 1..MaxSuperstep :
       /\ Divides(n, Grain[s])
       /\ IF s = 1 THEN Divides(n * Grain[s], One)
          ELSE /\ Divides(n * (DampDen * Grain[s]), Grain[s - 1])
               /\ Divides(n * (DampDen * Grain[s]), One)

VARIABLES
  pages, links,    \* the loaded vertices and their edges
  pc,              \* the executor
  superstep,
  score,           \* Vertex.value
  inbox, outbox,   \* message queues of this superstep and the next
  todo,            \* vertices not yet handed to a worker
  busy,            \* what each worker is at
  acc,             \* registered aggregators
  failed,          \* a worker offered an error in this superstep
  passes,
  ranked, lastSAD  \* history: scores and SAD when the last superstep ended

graphVars == <<pages, links>>
stepVars  == <<score, inbox, outbox, todo, busy, acc, failed>>
vars == <<graphVars, pc, superstep, stepVars, passes, ranked, lastSAD>>

A == INSTANCE Accumulator

Aggregators == {"page_count", "residual_0", "residual_1", "SAD"}
Zero == [p \in Pages |-> 0]
Free == [pc |-> "free"]

Damped(x) == (DampNum * x) \div DampDen
Abs(x)    == IF x < 0 THEN -x ELSE x
Out(p)    == {q \in Pages : <<p, q>> \in links}
Sum(f, S) == MapThenSumSet(LAMBDA p : f[p], S)
Total(f)  == Sum(f, pages)

Init ==
  /\ pages = {} /\ links = {}
  /\ pc = "idle" /\ superstep = 0
  /\ score = Zero /\ inbox = Zero /\ outbox = Zero
  /\ todo = {} /\ busy = [w \in Workers |-> Free]
  /\ acc = [a \in Aggregators |-> A!New]
  /\ failed = FALSE /\ passes = 0
  /\ ranked = Zero /\ lastSAD = 0

-----------------------------------------------------------------------------
(* The calculator.                                                         *)

(* Graph.Reset, AddVertex and AddEdge for what the store yields, then      *)
(* Executor.  Edges of unknown sources and self-links are left out.        *)
Load(l) ==
  /\ pc = "idle" /\ passes < MaxPasses
  /\ passes' = passes + 1
  /\ pages' = l.pages
  /\ links' = {e \in l.links : e[1] \in l.pages /\ e[1] # e[2]}
  /\ score' = Zero /\ inbox' = Zero /\ outbox' = Zero
  /\ acc' = [a \in Aggregators |-> A!New]
  /\ superstep' = 0 /\ pc' = "pre" /\ failed' = FALSE
  /\ ranked' = Zero /\ lastSAD' = 0
  /\ UNCHANGED <<todo, busy>>

ResidualOutputAccName(s) == IF s % 2 = 0 THEN "residual_0" ELSE "residual_1"
ResidualInputAccName(s)  == IF (s + 1) % 2 = 0 THEN "residual_0" ELSE "residual_1"

(* Variant with a bug: SAD is not reset before a superstep.                *)
PreStepKeepsSad ==
  /\ pc = "pre" /\ pc' = "step"
  /\ acc' = [acc EXCEPT ![ResidualOutputAccName(superstep)] = A!Set(0)]
  /\ todo' = pages
  /\ UNCHANGED <<graphVars, superstep, score, inbox, outbox, busy, failed,
                 passes, ranked, lastSAD>>

(* The PreStep callback, then Graph.step hands out the vertices.           *)
PreStep ==
  /\ pc = "pre" /\ pc' = "step"
  /\ acc' = [acc EXCEPT !["SAD"] = A!Set(0),
                        ![ResidualOutputAccName(superstep)] = A!Set(0)]
  /\ todo' = pages
  /\ UNCHANGED <<graphVars, superstep, score, inbox, outbox, busy, failed,
                 passes, ranked, lastSAD>>

(* The context is looked at before every superstep.                        *)
ContextExpires ==
  /\ pc = "pre" /\ pc' = "cancelled"
  /\ UNCHANGED <<graphVars, superstep, stepVars, passes, ranked, lastSAD>>

(* Supersteps 0 and 1 are initialisation.                                  *)
KeepRunning == ~(superstep > 1 /\ A!Get(acc["SAD"]) < MinSAD)

(* All vertices are done: PostStepKeepRunning.                             *)
PostStep ==
  /\ pc = "step" /\ todo = {} /\ \A w \in Workers : busy[w] = Free
  /\ IF failed THEN UNCHANGED <<ranked, lastSAD>>
     ELSE ranked' = score /\ lastSAD' = A!Get(acc["SAD"])
  /\ \/ failed /\ pc' = "failed" /\ UNCHANGED <<superstep, inbox, outbox>>
     \/ /\ ~failed /\ KeepRunning /\ superstep < MaxSuperstep
        /\ superstep' = superstep + 1 /\ pc' = "pre"
        /\ inbox' = outbox /\ outbox' = Zero
     \/ /\ ~failed /\ ~KeepRunning
        /\ pc' = "scored" /\ UNCHANGED <<superstep, inbox, outbox>>
  /\ UNCHANGED <<graphVars, score, todo, busy, acc, failed, passes>>

(* Scores hands the scores to the service, which waits for its next tick.  *)
Scores ==
  /\ pc = "scored" /\ pc' = "idle"
  /\ UNCHANGED <<graphVars, superstep, stepVars, passes, ranked, lastSAD>>

-----------------------------------------------------------------------------
(* The compute function, by worker w for vertex v.                         *)
CountPage(w, v) ==
  /\ pc = "step" /\ superstep = 0 /\ v \in todo /\ busy[w] = Free
  /\ todo' = todo \ {v}
  /\ acc' = [acc EXCEPT !["page_count"] = A!AddInt(@, 1)]
  /\ UNCHANGED <<graphVars, pc, superstep, score, inbox, outbox, busy, failed,
                 passes, ranked, lastSAD>>

(* Variant with a bug: what dead ends hold is not handed on.               *)
NewScoreNoResidual(v) ==
  LET pageCount == A!Get(acc["page_count"]) IN
  IF superstep = 1 THEN One \div pageCount
  ELSE (One - Damped(One)) \div pageCount + Damped(inbox[v])

NewScore(v) ==
  LET pageCount == A!Get(acc["page_count"]) IN
  IF superstep = 1 THEN One \div pageCount
  ELSE (One - Damped(One)) \div pageCount + Damped(inbox[v])
         + Damped(A!Get(acc[ResidualInputAccName(superstep)]))

(* Variant with a bug: a vertex is not taken off the list.                 *)
ComputeScoreAgain(w, v) ==
  /\ pc = "step" /\ superstep > 0 /\ v \in todo /\ busy[w] = Free
  /\ busy' = [busy EXCEPT ![w] =
       [pc |-> "load", page |-> v, score |-> NewScore(v),
        name |-> "SAD", value |-> Abs(score[v] - NewScore(v)), old |-> 0]]
  /\ UNCHANGED <<graphVars, pc, superstep, score, inbox, outbox, todo, acc,
                 failed, passes, ranked, lastSAD>>

(* The messages are read, and the change of the score is to be added to    *)
(* SAD.                                                                    *)
ComputeScore(w, v) ==
  /\ pc = "step" /\ superstep > 0 /\ v \in todo /\ busy[w] = Free
  /\ todo' = todo \ {v}
  /\ inbox' = [inbox EXCEPT ![v] = 0]
  /\ busy' = [busy EXCEPT ![w] =
       [pc |-> "load", page |-> v, score |-> NewScore(v),
        name |-> "SAD", value |-> Abs(score[v] - NewScore(v)), old |-> 0]]
  /\ UNCHANGED <<graphVars, pc, superstep, score, outbox, acc, failed,
                 passes, ranked, lastSAD>>

LoadSum(w) ==
  /\ busy[w] # Free /\ busy[w].pc = "load"
  /\ busy' = [busy EXCEPT ![w].pc = "cas", ![w].old = A!Get(acc[busy[w].name])]
  /\ UNCHANGED <<graphVars, pc, superstep, score, inbox, outbox, todo, acc,
                 failed, passes, ranked, lastSAD>>

(* Variant with a bug: a store in place of the CAS.                        *)
StoreSum(w) ==
  LET b == busy[w] IN
  /\ b # Free /\ b.pc = "cas"
  /\ acc' = [acc EXCEPT ![b.name].cur = b.old + b.value]
  /\ busy' = [busy EXCEPT ![w] =
       IF b.name = "SAD" THEN [b EXCEPT !.pc = "spread"] ELSE Free]
  /\ UNCHANGED <<graphVars, pc, superstep, score, inbox, outbox, todo,
                 failed, passes, ranked, lastSAD>>

(* The CAS of Aggregate; the worker loads again when it fails.             *)
SwapSum(w) ==
  LET b == busy[w] IN
  /\ b # Free /\ b.pc = "cas"
  /\ acc' = [acc EXCEPT ![b.name] = A!Swapped(@, b.old, b.value)]
  /\ busy' = [busy EXCEPT ![w] =
       IF ~A!Swaps(acc[b.name], b.old) THEN [b EXCEPT !.pc = "load"]
       ELSE IF b.name = "SAD" THEN [b EXCEPT !.pc = "spread"]
       ELSE Free]
  /\ UNCHANGED <<graphVars, pc, superstep, score, inbox, outbox, todo,
                 failed, passes, ranked, lastSAD>>

(* SetValue, then the score goes to the neighbours, or for a dead end to   *)
(* the residual.  A message to an unknown vertex fails the step.           *)
SpreadScore(w) ==
  LET b == busy[w]
      out == Out(b.page) IN
  /\ b # Free /\ b.pc = "spread"
  /\ score' = [score EXCEPT ![b.page] = b.score]
  /\ \/ /\ out = {}
        /\ busy' = [busy EXCEPT ![w] =
             [b EXCEPT !.pc = "load", !.name = ResidualOutputAccName(superstep),
                       !.value = b.score \div A!Get(acc["page_count"])]]
        /\ UNCHANGED <<outbox, failed>>
     \/ /\ out # {} /\ out \subseteq pages
        /\ outbox' = [p \in Pages |->
             outbox[p] + IF p \in out THEN b.score \div Cardinality(out) ELSE 0]
        /\ busy' = [busy EXCEPT ![w] = Free]
        /\ UNCHANGED failed
     \/ /\ ~ (out \subseteq pages)
        /\ failed' = TRUE
        /\ busy' = [busy EXCEPT ![w] = Free]
        /\ UNCHANGED outbox
  /\ UNCHANGED <<graphVars, pc, superstep, inbox, todo, acc, passes, ranked, lastSAD>>

Worker(w) == \/ \E v \in Pages : CountPage(w, v) \/ ComputeScore(w, v)
             \/ LoadSum(w) \/ SwapSum(w) \/ SpreadScore(w)

Calculator == PreStep \/ PostStep

Next == \/ \E l \in Loads : Load(l)
        \/ Calculator \/ ContextExpires \/ Scores
        \/ \E w \in Workers : Worker(w)

Spec == Init /\ [][Next]_vars

(* Goroutines that can run do.  A CAS only fails after another succeeded.  *)
Fairness == WF_vars(Calculator) /\ \A w \in Workers : WF_vars(Worker(w))
FairSpec == Spec /\ Fairness

-----------------------------------------------------------------------------
(* Properties.                                                             *)

Sums == Nat
TypeOK ==
  /\ pages \subseteq Pages /\ links \subseteq Pages \X Pages
  /\ pc \in {"idle", "pre", "step", "scored", "failed", "cancelled"}
  /\ superstep \in 0..MaxSuperstep
  /\ score \in [Pages -> Sums] /\ inbox \in [Pages -> Sums] /\ outbox \in [Pages -> Sums]
  /\ todo \subseteq pages
  /\ \A w \in Workers : busy[w] = Free \/ busy[w].page \in pages \ todo
  /\ acc \in [Aggregators -> [cur : Sums, prev : Sums]]
  /\ failed \in BOOLEAN /\ passes \in 0..MaxPasses
  /\ ranked \in [Pages -> Sums] /\ lastSAD \in Sums

(* No score gets lost and none is used twice: after every superstep from 1 *)
(* on the scores sum up to 1, and so does what the next superstep will     *)
(* receive in messages and the residual, whatever dead ends the graph has  *)
(* and however the workers interleave (compute.go 45-71, calculator.go 80, *)
(* accumulator.go 47-58).                                                  *)
MassConserved ==
  pc \in {"pre", "scored"} /\ superstep > 1 /\ pages # {} =>
    LET spread == IF pc = "pre" THEN inbox ELSE outbox
        last   == IF pc = "pre" THEN superstep - 1 ELSE superstep IN
    /\ Total(score) = One
    /\ Total(spread) + Cardinality(pages) * A!Get(acc[ResidualOutputAccName(last)]) = One

(* From superstep 3 on the sum of absolute differences shrinks by the      *)
(* damping factor at least, so the calculation converges (config.go 20).   *)
Contracts ==
  [][pc = "step" /\ pc' \in {"pre", "scored"} /\ superstep > 2
       => DampDen * lastSAD' <= DampNum * lastSAD]_vars

(* A calculation ends unless a goroutine is stuck.                         *)
CalculationEnds == pc = "pre" ~> pc \in {"scored", "failed", "cancelled"}

(* The supersteps compute the power iteration and stop when it moves less  *)
(* than MinSAD, whatever the order in which the workers take vertices and  *)
(* their sums are added up.                                                *)
round ==
  IF pc \in {"idle", "failed", "cancelled"} THEN "none"
  ELSE IF pc = "scored" THEN "end"
  ELSE IF superstep <= 1 THEN "first" ELSE "more"

Abstract == INSTANCE PowerIteration WITH rank <- ranked
ImplementsPowerIteration == Abstract!Spec
=============================================================================
