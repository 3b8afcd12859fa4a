----------------------------- MODULE MCPipeline -----------------------------
(* Instances of Pipeline for TLC.                                          *)
EXTENDS Pipeline

CONSTANTS a, b, c, d

(* The crawler's shape (crawler.go 49-62) with one FIFO of its two: a      *)
(* fixed pool of two, then a broadcast to two processors; Process twice.   *)
Crawler == [kinds |-> <<"fixed", "broadcast">>, workers |-> <<<<a, b>>, <<c, d>>>>,
            calls |-> 2]

(* A FIFO, then a dynamic pool that scales up to two; Process n times.     *)
Pooled(n) == [kinds |-> <<"fixed", "dynamic">>, workers |-> <<<<a>>, <<b, c>>>>,
              calls |-> n]

Pipelines == {Crawler, Pooled(1)}
Reused    == {Pooled(2)}

=============================================================================
