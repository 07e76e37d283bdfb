---------------------------- MODULE MCMethodCache ----------------------------
(* MethodCache.tla for TLC. *)
EXTENDS MethodCache

\* 2 and 6 collide in the smaller table; 7 hashes to the end marker in both.
Selectors == {2, 6, 7}
=============================================================================
