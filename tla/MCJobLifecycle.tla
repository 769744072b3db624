--------------------------- MODULE MCJobLifecycle ---------------------------
(* Small instances of JobLifecycle: one account, one grant to spend. *)
EXTENDS JobLifecycle

CONSTANTS u1, j1

MCOwner == [r \in Refs |-> u1]
MCReasonOf == [r \in Refs |-> "purchase"]
=============================================================================
