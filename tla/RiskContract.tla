---------------------------- MODULE RiskContract ----------------------------
(***************************************************************************)
(* What executing intents promises the account, without the states, the    *)
(* claims, the lookups and the receipts by which the code keeps it: risk   *)
(* is held before the broker may hold an order, it turns into consumed     *)
(* risk only for a filled order, and it is given back only when the order  *)
(* can no longer fill -- after which no order for the intent appears.      *)
(***************************************************************************)
EXTENDS Integers

CONSTANTS
    Intents,
    Amount,     \* Amount[i]: what intent i puts at risk
    Total(_),   \* Total(S): what the intents of S put at risk together
    Ceiling     \* what may be at risk at once

VARIABLES
    hold,      \* hold[i]: the account's reservation for i
    exposure   \* exposure[i]: what the broker may still buy, or bought

contractVars == <<hold, exposure>>

Init ==
    /\ hold = [i \in Intents |-> "none"]
    /\ exposure = [i \in Intents |-> "absent"]

AtRisk == Total({i \in Intents : hold[i] \in {"active", "consumed"}})

(* Some limit not above the ceiling leaves room for the amount.            *)
Hold(i) ==
    /\ hold[i] = "none"
    /\ \E limit \in 1..Ceiling : AtRisk + Amount[i] <= limit
    /\ hold' = [hold EXCEPT ![i] = "active"]
    /\ UNCHANGED exposure

Expose(i) ==
    /\ \/ exposure[i] = "absent" /\ hold[i] = "active"
       \/ exposure[i] = "open"
    /\ \E e \in {"open", "filled", "dead"} : exposure' = [exposure EXCEPT ![i] = e]
    /\ UNCHANGED hold

Consume(i) ==
    /\ hold[i] = "active"
    /\ exposure[i] = "filled"
    /\ hold' = [hold EXCEPT ![i] = "consumed"]
    /\ UNCHANGED exposure

Release(i) ==
    /\ hold[i] = "active"
    /\ exposure[i] \in {"absent", "dead"}
    /\ hold' = [hold EXCEPT ![i] = "released"]
    /\ UNCHANGED exposure

Next == \E i \in Intents : Hold(i) \/ Expose(i) \/ Consume(i) \/ Release(i)

Spec == Init /\ [][Next]_contractVars
=============================================================================
