----------------------------- MODULE MCAgentTurn -----------------------------
(* AgentTurn on small sets; the members of each set are interchangeable.   *)
EXTENDS AgentTurn, TLC

Symmetry ==
  Permutations(Inputs) \union Permutations(Jobs) \union Permutations(Controls)

(* What the goal properties and the steps they are about depend on.  The   *)
(* outcome and the histories guard no action; of a turn's number an action *)
(* only asks whether it is the running one, of a receipt whether it is     *)
(* there.                                                                  *)
GoalView ==
  <<queueVars, task, pc, abort, interruptReq, busy, turn # 0, accepting,
    steers, iter, terminator, interrupted, goalVars, caller, command,
    commands, stop, Range(accepted), {c \in Controls : receipt[c] = "none"},
    last>>
=============================================================================
