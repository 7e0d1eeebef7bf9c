------------------------------ MODULE MCPosts -------------------------------
(* Users and requests are alike, so the safety runs take them up to         *)
(* permutation.                                                             *)
EXTENDS Posts, TLC

CONSTANTS alice, bob, r1, r2

Alike == Permutations({alice, bob}) \cup Permutations({r1, r2})

=============================================================================
