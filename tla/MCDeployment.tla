---------------------------- MODULE MCDeployment ----------------------------
(* Three instances of the partitioned programs, the monolith as the first  *)
(* or another instance, over nine IDs of two digits: lookups return too    *)
(* few records, the right number, or more than the IDs can be split into.  *)
(* Single instances have all settings that the flags can give them.        *)
EXTENDS Deployment

Usual == [workers |-> "positive", interval |-> "positive", threshold |-> "positive",
          listenAddr |-> "given"]

MCDeployments ==
  {[kind |-> k, instances |-> {0, 1, 2}, settings |-> Usual] : k \in {"crawler", "pagerank"}}
    \cup {[kind |-> k, instances |-> {0}, settings |-> Usual] :
            k \in {"frontend", "graph", "index", "monolith"}}
    \cup {[kind |-> "monolith", instances |-> {1}, settings |-> Usual]}
    \cup {[kind |-> k, instances |-> {0}, settings |-> cfg] :
            k \in {"crawler", "pagerank"}, cfg \in {c \in Settings : c.listenAddr = "given"}}
    \cup {[kind |-> "monolith", instances |-> {0}, settings |-> cfg] :
            cfg \in {[Usual EXCEPT !.listenAddr = "empty"], [Usual EXCEPT !.workers = "zero"]}}
=============================================================================
