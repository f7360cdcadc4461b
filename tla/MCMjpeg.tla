------------------------------- MODULE MCMjpeg -------------------------------
(* FBMjpegServer with a few clients. *)
EXTENDS FBMjpegServer
=============================================================================
