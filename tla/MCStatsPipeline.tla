-------------------------- MODULE MCStatsPipeline --------------------------
(***************************************************************************)
(* StatsPipeline on small instances: the .cfg files name the numbers and   *)
(* the dashboards that open.                                               *)
(***************************************************************************)
EXTENDS StatsPipeline
=============================================================================
