--------------------------- MODULE MCCrawlAndRank ---------------------------
(* Instances of CrawlAndRank for TLC.                                      *)
EXTENDS CrawlAndRank, TLC

CONSTANTS a, b, c1, c2

(* Both crawlers may have b: c2 was started, and c1 has not noticed yet.   *)
Overlapping == (c1 :> {a, b}) @@ (c2 :> {b})
Single      == [c \in {c1} |-> {a, b}]

(* A page with one link of each kind, one with a single link, and one that *)
(* links to all.                                                           *)
SomePages == {[nofollow |-> {a}, links |-> {b}], [nofollow |-> {}, links |-> {a}],
              [nofollow |-> {}, links |-> {a, b}]}

=============================================================================
