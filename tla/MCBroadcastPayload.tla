------------------------- MODULE MCBroadcastPayload -------------------------
(* Instances of BroadcastPayload for TLC.  Objects and links are only      *)
(* compared, so permuting either gives the same behaviour.                 *)
EXTENDS BroadcastPayload, TLC

Symmetric == Permutations(Objs) \cup Permutations(Links)

=============================================================================
