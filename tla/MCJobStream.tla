---------------------------- MODULE MCJobStream ----------------------------
(* A job's stream on its own. *)
EXTENDS JobStream
=============================================================================
