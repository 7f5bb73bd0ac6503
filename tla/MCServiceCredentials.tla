------------------------- MODULE MCServiceCredentials -------------------------
(* Two accounts whose credentials may take each other's place.                *)
EXTENDS ServiceCredentials, TLC

CONSTANTS ann, bob, s1, s2

Symmetry == Permutations({ann, bob}) \cup Permutations({s1, s2})
=============================================================================
