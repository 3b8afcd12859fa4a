----------------------------- MODULE MCPageRank -----------------------------
(* Graphs with a dead end, with a cycle and a page nobody links to, with   *)
(* dead ends only, of one page, of none, and with a link that is not       *)
(* loaded (the source of one edge and the destination of another).         *)
EXTENDS PageRank

CONSTANTS home, news, blog

MCPages == {home, news, blog}
MCGrain == [s \in 1..6 |-> 6 * 12^(6 - s)]
MCLoads ==
  {[pages |-> {home, news, blog}, links |-> {<<home, news>>, <<home, blog>>, <<news, home>>, <<news, news>>}],
   [pages |-> {home, news, blog}, links |-> {<<home, news>>, <<news, home>>, <<blog, home>>, <<blog, news>>}],
   [pages |-> {home, news, blog}, links |-> {<<home, news>>}],
   [pages |-> {home, news}, links |-> {}],
   [pages |-> {home}, links |-> {<<home, home>>, <<news, home>>}],
   [pages |-> {}, links |-> {}],
   [pages |-> {home, news}, links |-> {<<home, news>>, <<news, blog>>, <<blog, home>>}]}
=============================================================================
