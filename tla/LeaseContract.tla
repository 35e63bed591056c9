--------------------------- MODULE LeaseContract ----------------------------
(***************************************************************************)
(* What the scheduler lease promises: its owner changes only after it ran  *)
(* out, every change opens a new epoch, and work is begun only in the      *)
(* newest epoch.  It does not promise that work stops when the lease does. *)
(***************************************************************************)
EXTENDS Integers

CONSTANTS Owners, Nobody

VARIABLES
    owner,   \* who was granted the lease last
    epoch,   \* the grants to a new owner so far
    live,    \* whether the lease still runs
    latest   \* the newest epoch in which work was begun, 0 before any

contractVars == <<owner, epoch, live, latest>>

Init ==
    /\ owner = Nobody
    /\ epoch = 0
    /\ live = FALSE
    /\ latest = 0

Grant(o) ==
    /\ owner = o \/ ~live
    /\ owner' = o
    /\ epoch' = IF owner = o THEN epoch ELSE epoch + 1
    /\ live' = TRUE
    /\ UNCHANGED latest

Lapse ==
    /\ live
    /\ live' = FALSE
    /\ UNCHANGED <<owner, epoch, latest>>

Begin ==
    /\ epoch > 0
    /\ latest' = epoch
    /\ UNCHANGED <<owner, epoch, live>>

Next == Lapse \/ Begin \/ \E o \in Owners : Grant(o)

Spec == Init /\ [][Next]_contractVars
=============================================================================
