--------------------------- MODULE MCLoopScheduler ---------------------------
(* Two LOOPs of one workspace that are due in turn. *)
EXTENDS LoopScheduler, TLC

CONSTANTS l1, l2, w1

MCOccurs == l1 :> {3} @@ l2 :> {1, 2}
MCWorkspace == l1 :> w1 @@ l2 :> w1

Symmetry == Permutations(Daemons)
=============================================================================
