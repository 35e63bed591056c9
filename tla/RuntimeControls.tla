-------------------------- MODULE RuntimeControls ---------------------------
(***************************************************************************)
(* The table runtime_controls, which operators and incidents write and     *)
(* every run reads.  Rows are only ever added, each under a fresh id;      *)
(* every row ever put counts, and the most restrictive one wins.           *)
(***************************************************************************)
EXTENDS Integers, FiniteSets

CONSTANT Scopes   \* scopes of controls; "account" is the one of this agent

ASSUME ScopesAssumption == "account" \in Scopes

VARIABLE controls   \* the rows of runtime_controls

ControlStates == {"RUNNING", "PAUSED", "CLOSING_ONLY", "FROZEN_REVIEW"}
Controls == [scope : Scopes, state : ControlStates]

Rank(state) ==
    CASE state = "FROZEN_REVIEW" -> 0
      [] state = "PAUSED" -> 1
      [] state = "CLOSING_ONLY" -> 2
      [] state = "RUNNING" -> 3

PutControl(control) == controls' = controls \cup {control}

EffectiveControlMutant ==   \* the least restrictive control wins
    LET states == {c.state : c \in {d \in controls : d.scope = "account"}}
    IN  IF states = {} THEN "RUNNING"
        ELSE CHOOSE s \in states : \A t \in states : Rank(s) >= Rank(t)

EffectiveControl ==
    LET states == {"RUNNING"} \cup {c.state : c \in {d \in controls : d.scope = "account"}}
    IN  CHOOSE s \in states : \A t \in states : Rank(s) <= Rank(t)

AllowsNewEntries(state) == state = "RUNNING"
AllowsClosing(state) == state \in {"RUNNING", "CLOSING_ONLY"}
=============================================================================
