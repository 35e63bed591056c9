---------------------------- MODULE PaperBroker ----------------------------
(***************************************************************************)
(* The broker as src/ uses it: the book of orders it keeps by client order *)
(* id (= idempotency key).  External: nothing under src/ implements the    *)
(* broker.  What is assumed of it is what infrastructure/brokers.py's      *)
(* FakeBroker does (a key that is already in the book is answered with the *)
(* order it has), the statuses STATUS_MAP of infrastructure/alpaca.py      *)
(* translates, and a "replaced" order whose replacement has a new id.      *)
(***************************************************************************)
EXTENDS Integers

CONSTANTS
    Keys,             \* client order ids
    MaxReplacements   \* bound: replacements of one order

VARIABLES
    order   \* order[k]: the broker's record for client order id k

Open == {"new", "partially_filled", "replaced"}
Dead == {"rejected", "canceled"}
OrderStatuses == {"absent", "filled"} \cup Open \cup Dead

NoOrder == [status |-> "absent", id |-> 0, anyFill |-> FALSE]

(* anyFill: some contract was bought, whatever became of the rest. *)
Orders == [status : OrderStatuses, id : Nat, anyFill : BOOLEAN]

(* The records the broker may hold after it handled a request for key k.   *)
AfterRequest(k) ==
    IF order[k].status # "absent"
    THEN {order[k]}
    ELSE {[status |-> s, id |-> 1, anyFill |-> s \in {"partially_filled", "filled"}] :
             s \in {"new", "partially_filled", "filled", "rejected"}}

HandleRequest(k) == \E o \in AfterRequest(k) : order' = [order EXCEPT ![k] = o]

(* Between requests the market and the exchange move an open order.        *)
Fill(k) ==
    /\ order[k].status \in {"new", "partially_filled"}
    /\ \E s \in {"partially_filled", "filled"} \ {order[k].status} :
         order' = [order EXCEPT ![k].status = s, ![k].anyFill = TRUE]

(* canceled, expired and done_for_day: what was filled stays filled.       *)
Cancel(k) ==
    /\ order[k].status \in {"new", "partially_filled"}
    /\ order' = [order EXCEPT ![k].status = "canceled"]

Reject(k) ==
    /\ order[k].status = "new"
    /\ order' = [order EXCEPT ![k].status = "rejected"]

Replace(k) ==
    /\ order[k].status \in {"new", "partially_filled"}
    /\ order[k].id <= MaxReplacements
    /\ order' = [order EXCEPT ![k].status = "replaced"]

(* The replacement becomes the order the key is looked up to.              *)
ShowReplacement(k) ==
    /\ order[k].status = "replaced"
    /\ order' = [order EXCEPT ![k].id = @ + 1,
                              ![k].status = IF order[k].anyFill THEN "partially_filled" ELSE "new"]
=============================================================================
