--------------------------- MODULE MCEligibility ---------------------------
(* An instance of Eligibility for TLC. *)
EXTENDS Eligibility, TLC

(* The settings of the deployment, and those of a second process on the    *)
(* same account that has no pins and another feed.                         *)
SomeProcesses ==
    {[account |-> Expected, pins |-> TRUE, feed |-> "OPRA"],
     [account |-> Expected, pins |-> FALSE, feed |-> "INDICATIVE"]}
SomeStanding == [a \in Accounts |-> [active |-> a = Expected, level3 |-> a = Expected]]

(* The earlier release knew the account with the indicative feed, with and *)
(* without pins: ineligible, which still loads, and unavailable, which     *)
(* does not.  It also knew another account.                                *)
Other == CHOOSE a \in Accounts : a # Expected
Fresh(a, pins, feed) ==
    [account |-> a, at |-> 1, active |-> TRUE, fresh |-> TRUE, positions |-> 0, orders |-> 0,
     level3 |-> TRUE, pins |-> pins, feed |-> feed, baseline |-> 0]
SomeInherited ==
    {Fresh(Expected, TRUE, "INDICATIVE"), Fresh(Expected, FALSE, "INDICATIVE"),
     Fresh(Other, TRUE, "OPRA")}

Symmetry == Permutations(Verifiers)
=============================================================================
