-------------------------- MODULE PositionContract --------------------------
(***************************************************************************)
(* What managing positions promises, without the cycles, listings and      *)
(* cursors by which the code keeps it: a position is opened once, for      *)
(* something that was bought; it is closed at most once; it is settled and *)
(* retired only after it was sold; and what needs a person never goes back *)
(* to the machine.                                                         *)
(***************************************************************************)
CONSTANT Positions

VARIABLES
    life,   \* life[p]: what the system makes of p
    held    \* held[p]: what became of p at the broker

contractVars == <<life, held>>

Init ==
    /\ life = [p \in Positions |-> "none"]
    /\ held = [p \in Positions |-> "none"]

Become(p, stage) == life' = [life EXCEPT ![p] = stage] /\ UNCHANGED held
Turn(p, fate) == held' = [held EXCEPT ![p] = fate] /\ UNCHANGED life

Buy(p) == held[p] = "none" /\ Turn(p, "held")
Sell(p) == held[p] = "held" /\ life[p] \in {"closing", "review"} /\ Turn(p, "sold")

Close(p) == life[p] = "open" /\ Become(p, "closing")
Settle(p) == life[p] = "closing" /\ held[p] = "sold" /\ Become(p, "settled")
Retire(p) == life[p] = "settled" /\ held[p] = "sold" /\ Become(p, "closed")
SetAside(p) == life[p] \in {"open", "closing", "settled"} /\ Become(p, "review")

(* A cycle takes over all it can in one transaction.                       *)
Manage ==
    \E S \in SUBSET {p \in Positions : life[p] = "none" /\ held[p] = "held"} :
        /\ life' = [p \in Positions |-> IF p \in S THEN "open" ELSE life[p]]
        /\ UNCHANGED held

Next ==
    \/ Manage
    \/ \E p \in Positions :
          Buy(p) \/ Sell(p) \/ Close(p) \/ Settle(p) \/ Retire(p) \/ SetAside(p)

Spec == Init /\ [][Next]_contractVars
=============================================================================
