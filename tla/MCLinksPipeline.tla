-------------------------- MODULE MCLinksPipeline --------------------------
(***************************************************************************)
(* LinksPipeline on small instances: the .cfg files name the remote nodes. *)
(***************************************************************************)
EXTENDS LinksPipeline
=============================================================================
