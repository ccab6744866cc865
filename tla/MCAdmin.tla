------------------------------ MODULE MCAdmin ------------------------------
(***************************************************************************)
(* Instance of Admin for TLC: requests of one kind are interchangeable,    *)
(* and so are parameter values.                                            *)
(***************************************************************************)
EXTENDS Admin, TLC

Symmetry == Permutations(Updates) \union Permutations(Runs) \union Permutations(Settings)

=============================================================================
