-------------------------- MODULE MCAgentScheduler --------------------------
(* Instances of AgentScheduler for TLC. *)
EXTENDS AgentScheduler, TLC

CONSTANTS w1, w2, x, y, c1, c2, c3

IdsDiffer == [p \in Procs |-> IF p = w1 THEN x ELSE y]

Control(scope, state) == [scope |-> scope, state |-> state]
NoControls == {}
SomeControls == {Control("account", "CLOSING_ONLY"), Control("account", "PAUSED"),
                 Control("other", "FROZEN_REVIEW")}

LeaseFaults == FaultKinds \ {"run_error"}
CrashFaults == {"crash"}
RunFaults == {"run_error"}

(* The ids of cycle rows are interchangeable.                              *)
Symmetry == Permutations(CycleIds)
=============================================================================
