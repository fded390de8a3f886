------------------------------- MODULE MCServer ------------------------------
(***************************************************************************)
(* Server on a small instance: migrations of each kind, processes that     *)
(* end early, two requests on two CIDs, and calls that fail.               *)
(***************************************************************************)
EXTENDS Server

=============================================================================
