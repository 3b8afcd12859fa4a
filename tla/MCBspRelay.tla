----------------------------- MODULE MCBspRelay -----------------------------
(* An instance of BspRelay for TLC.                                        *)
EXTENDS BspRelay, TLC

CONSTANTS g1, g2, v1, v2, v3

(* One graph has two vertices, the other one.                              *)
Vertices == {v1, v2, v3}
Parts == v1 :> g1 @@ v2 :> g1 @@ v3 :> g2

(* The vertices of one graph are interchangeable.                          *)
Symmetric == Permutations({v1, v2})

=============================================================================
