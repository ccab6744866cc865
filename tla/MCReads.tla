------------------------------ MODULE MCReads --------------------------------
(***************************************************************************)
(* Reads over the instances of MCCoinNode.                                 *)
(***************************************************************************)
EXTENDS MCCoinNode, Reads

=============================================================================
