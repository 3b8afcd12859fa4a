---------------------------- MODULE Accumulator ----------------------------
(***************************************************************************)
(* The lock-free accumulators of bsp/accumulator.go.  The value of one is  *)
(* the pair of sums its methods load and compare-and-swap.  Numbers are    *)
(* integers: Float64Accumulator adds fractions with a common denominator.  *)
(***************************************************************************)
EXTENDS Integers

New == [cur |-> 0, prev |-> 0]

Get(a) == a.cur

(* Both CAS operations succeed when nobody else uses the accumulator,      *)
(* which is so in the executor's callbacks.                                *)
Set(v) == [cur |-> v, prev |-> v]

(* One CAS of the loop in Float64Accumulator.Aggregate: old is the sum the *)
(* caller loaded, and the CAS fails when the sum has changed since.        *)
Swaps(a, old)          == a.cur = old
Swapped(a, old, value) == IF Swaps(a, old) THEN [a EXCEPT !.cur = old + value] ELSE a

(* IntAccumulator.Aggregate is one atomic addition.                        *)
AddInt(a, value) == [a EXCEPT !.cur = @ + value]
=============================================================================
