---------------------------- MODULE MCSseBroker ----------------------------
(***************************************************************************)
(* SseBroker on small instances: the .cfg files give topics, subscriptions *)
(* and publishers as model values.                                         *)
(***************************************************************************)
EXTENDS SseBroker
=============================================================================
