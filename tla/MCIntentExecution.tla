------------------------- MODULE MCIntentExecution -------------------------
(* Instances of IntentExecution for TLC. *)
EXTENDS IntentExecution, TLC

CONSTANTS p1, p2, i1, i2

AllAgents == [p \in Procs |-> "agent"]
AgentAndDemo == [p \in Procs |-> IF p = p1 THEN "agent" ELSE "demo"]

OneUnit == [i \in Intents |-> 1]
UnevenAmounts == [i \in Intents |-> IF i = i1 THEN 1 ELSE 2]

EveryFault == FaultKinds
ContractFaults ==
    FaultKinds \ {"late_request", "mismatch", "duplicate_refused", "replacement"}
NoFaults == {}
PartialCancelFaults == {"partial_cancel"}
=============================================================================
