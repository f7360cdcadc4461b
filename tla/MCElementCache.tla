--------------------------- MODULE MCElementCache ---------------------------
(* FBElementCache on small instances. *)
EXTENDS FBElementCache, TLC

ElementSymmetry == Permutations(Element)
=============================================================================
