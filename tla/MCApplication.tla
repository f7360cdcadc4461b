----------------------------- MODULE MCApplication -----------------------------
(* FBApplication with few bundles, processes and objects. *)
EXTENDS FBApplication, TLC

Renamings == Permutations(Bundle) \cup Permutations(Pid)
=============================================================================
