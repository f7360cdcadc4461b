----------------------------- MODULE MCScreenCast ------------------------------
(* FBScreenCast with two images and two casts. *)
EXTENDS FBScreenCast
=============================================================================
