-------------------------- MODULE MCNodeLifecycle --------------------------
(***************************************************************************)
(* NodeLifecycle on small instances: the .cfg files give handlers,         *)
(* commands and settings as model values.                                  *)
(***************************************************************************)
EXTENDS NodeLifecycle, TLC

(* Requests are interchangeable. *)
HandlerSymmetry == Permutations(Handlers)
=============================================================================
