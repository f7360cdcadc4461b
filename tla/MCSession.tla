------------------------------ MODULE MCSession ------------------------------
(* FBSession on a small device. *)
EXTENDS FBSession, TLC

(* Nothing tells the applications under test apart. *)
AppSymmetry == Permutations(Bundle)
=============================================================================
