---------------------------- MODULE MCAmiClient ----------------------------
(***************************************************************************)
(* AmiClient on small instances: the .cfg files give the callers as model  *)
(* values and the bounds on calls, dials and buffers. The callers are      *)
(* interchangeable, which the safety run uses.                             *)
(***************************************************************************)
EXTENDS AmiClient, TLC

CallerSymmetry == Permutations(Callers)

=============================================================================
