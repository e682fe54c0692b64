----------------------------- MODULE MCDispatch -----------------------------
(* One dispatch of three contacts, of mode message or sdr.                  *)
(* The processes are interchangeable.                                       *)
EXTENDS Dispatch, TLC

Replicas == Permutations(Nodes)
=============================================================================
