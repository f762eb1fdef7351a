------------------------------- MODULE MCMcp -------------------------------
(* Instances of Mcp for TLC: a desktop of two displays. *)
EXTENDS Mcp, TLC

CONSTANTS c1, c2, c3, left, right

ThreeCalls == {c1, c2, c3}
AllOrOne   == {"all", left, right}
Symmetry   == Permutations(ThreeCalls) \cup Permutations({left, right})
=============================================================================
