---------------------------- MODULE PositionStore ----------------------------
(***************************************************************************)
(* The tables of managed option positions: one row and one transition      *)
(* ledger per opening intent, and the cursors into the broker's account    *)
(* activities.  Every operator that primes a variable is one transaction.  *)
(* A position, its opening intent (position-<intent>) and its close intent *)
(* (position-<intent>-close-v1) share a name here.  Positions are numbers  *)
(* in the order of their ids, which is the order in which they are listed. *)
(***************************************************************************)
EXTENDS Integers, Sequences, FiniteSets

CONSTANTS
    Positions,      \* the openings that may ever fill
    Units,          \* spreads per opening: the quantity of each leg
    ActivityTypes   \* the broker's activity types, in the order they are read

ASSUME PositionStoreAssumption ==
    /\ Positions \subseteq Nat
    /\ Units \in Nat \ {0}
    /\ ActivityTypes \in Seq({"OPASN", "OPEXP", "OPXRC", "OPTRD", "FEE"}) \ {<<>>}

VARIABLES
    opening,   \* opening[p]: the intent and its receipt, as far as they matter here
    row,       \* row[p]: state, version and close_intent_id of the position
    ledger,    \* ledger[p]: its transitions
    cursor     \* cursor[t]: the last activity of type t that was read, 0 for none

storeVars == <<opening, row, ledger, cursor>>

(* "unfilled" and "filled" are intents that are not RECONCILED; the others *)
(* are, without a receipt, with one that has no paper accounting, and with *)
(* a complete one.                                                         *)
Openings == {"unfilled", "filled", "RECONCILED", "unaccounted", "receipted"}

Active == {"OPEN", "CLOSE_PENDING"}
Review == {"ASSIGNMENT_REVIEW", "EXPIRATION_REVIEW", "RECONCILIATION_FAILED"}
TerminalOrReview == Review \cup {"CLOSED_RECONCILED"}
LifecycleStates == Active \cup {"CLOSE_FILLED"} \cup TerminalOrReview

AllowedTransitionsMutant ==   \* a rejected close reopens the position
    [s \in LifecycleStates |->
        CASE s = "OPEN"          -> {"CLOSE_PENDING"} \cup Review
          [] s = "CLOSE_PENDING" -> {"OPEN", "CLOSE_FILLED"} \cup Review
          [] s = "CLOSE_FILLED"  -> {"CLOSED_RECONCILED"} \cup Review
          [] OTHER               -> {}]

AllowedTransitions ==
    [s \in LifecycleStates |->
        CASE s = "OPEN"          -> {"CLOSE_PENDING"} \cup Review
          [] s = "CLOSE_PENDING" -> {"CLOSE_FILLED"} \cup Review
          [] s = "CLOSE_FILLED"  -> {"CLOSED_RECONCILED"} \cup Review
          [] OTHER               -> {}]

Rows == [state : LifecycleStates \cup {"absent"}, version : Nat, close : BOOLEAN]
NoRow == [state |-> "absent", version |-> 0, close |-> FALSE]
NewRow == [state |-> "OPEN", version |-> 0, close |-> FALSE]

(* transition_id: what happened, and the activity's number where it is one. *)
TransitionKinds ==
    {"activity", "order_filled", "order_rejected", "order_canceled", "closed_reconciled",
     "close_pending"}
TransitionIds == [kind : TransitionKinds, n : Nat]
Transitions == [id : TransitionIds, from : LifecycleStates, to : LifecycleStates]
Event(kind) == [kind |-> kind, n |-> 0]

StoreTypeOK ==
    /\ opening \in [Positions -> Openings]
    /\ row \in [Positions -> Rows]
    /\ ledger \in [Positions -> Seq(Transitions)]
    /\ cursor \in [DOMAIN ActivityTypes -> Nat]

StoreInit ==
    /\ opening = [p \in Positions |-> "unfilled"]
    /\ row = [p \in Positions |-> NoRow]
    /\ ledger = [p \in Positions |-> <<>>]
    /\ cursor = [t \in DOMAIN ActivityTypes |-> 0]

(* What the broker reports of the two legs of each spread.                 *)
Legs == [long : 0..Units, short : 0..Units]
Complete(l) == l.long = Units /\ l.short = Units
BothPresent(l) == l.long > 0 /\ l.short > 0
Flat(l) == l.long = 0 /\ l.short = 0

(* promote_reconciled_openings: of the RECONCILED intents without a row,   *)
(* those with an accounted receipt and both legs at the broker, in full,   *)
(* get one; the others are findings.                                       *)
Unpromoted(p) == row[p].state = "absent" /\ opening[p] \in {"RECONCILED", "unaccounted", "receipted"}
Promotable(p, broker) == Unpromoted(p) /\ opening[p] = "receipted" /\ Complete(broker[p])
PromotionFindings(broker) == {p \in Positions : Unpromoted(p) /\ ~Promotable(p, broker)}
PromoteReconciledOpenings(broker) ==
    /\ row' = [p \in Positions |-> IF Promotable(p, broker) THEN NewRow ELSE row[p]]
    /\ UNCHANGED <<opening, ledger, cursor>>

(* find_unmanaged_reconciled_openings: the broker's legs that are not the  *)
(* two full legs of an OPEN or CLOSE_PENDING position.                     *)
Unmanaged(broker) ==
    {p \in Positions :
        /\ ~Flat(broker[p])
        /\ row[p].state \in Active => ~Complete(broker[p])}

(* validate_position, whenever a row is loaded: the version counts the     *)
(* transitions, the first leaves OPEN, each starts where the one before it *)
(* ended, the last ends in the row's state, no identity is used twice, and *)
(* the close intent is the one the ledger names, if it names any.          *)
Validates(p) ==
    LET l == ledger[p]
    IN /\ row[p].version = Len(l)
       /\ l = <<>> => row[p].state \in {"absent", "OPEN"}
       /\ l # <<>> => l[1].from = "OPEN" /\ l[Len(l)].to = row[p].state
       /\ \A i \in 2..Len(l) : l[i].from = l[i - 1].to
       /\ \A i \in DOMAIN l : l[i].to \in AllowedTransitions[l[i].from]
       /\ \A i, j \in DOMAIN l : l[i].id = l[j].id => i = j
       /\ row[p].close <=> \E i \in DOMAIN l : l[i].to = "CLOSE_PENDING"

(* transition_position under the row's lock: a row that can be loaded, in  *)
(* the version the caller read, no earlier transition of that id, an       *)
(* allowed transition.  Anything else raises and changes nothing.          *)
Accepts(p, seen, to, id) ==
    /\ Validates(p)
    /\ row[p].version = seen.version
    /\ \A i \in DOMAIN ledger[p] : ledger[p][i].id # id
    /\ row[p].state \in LifecycleStates
    /\ to \in AllowedTransitions[row[p].state]
Record(p, to, id, close) ==
    /\ row' = [row EXCEPT ![p] = [state |-> to, version |-> @.version + 1, close |-> @.close \/ close]]
    /\ ledger' = [ledger EXCEPT ![p] = Append(@, [id |-> id, from |-> row[p].state, to |-> to])]
    /\ UNCHANGED <<opening, cursor>>
TransitionPosition(p, to, id) == Record(p, to, id, FALSE)

AttachCloseIntentMutant(p) == TransitionPosition(p, "CLOSE_PENDING", Event("close_pending"))

(* attach_close_intent: the close intent and the transition to             *)
(* CLOSE_PENDING in one transaction.  The intent's operation hash covers   *)
(* created_at, so a second intent of the same key never matches the first. *)
AcceptsClose(p, seen) ==
    /\ ~row[p].close
    /\ Accepts(p, seen, "CLOSE_PENDING", Event("close_pending"))
AttachCloseIntent(p) == Record(p, "CLOSE_PENDING", Event("close_pending"), TRUE)

(* advance_activity_cursor never moves a cursor back.                      *)
AdvanceActivityCursor(t, last) ==
    /\ cursor' = [cursor EXCEPT ![t] = IF last <= @ THEN @ ELSE last]
    /\ UNCHANGED <<opening, row, ledger>>
=============================================================================
