--------------------------- MODULE MCRateLimiter ---------------------------
(***************************************************************************)
(* Instance of RateLimiter for TLC: calls are interchangeable, and so are  *)
(* keys.                                                                   *)
(***************************************************************************)
EXTENDS RateLimiter, TLC

Symmetry == Permutations(Calls) \union Permutations(Keys)

=============================================================================
