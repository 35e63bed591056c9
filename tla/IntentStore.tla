---------------------------- MODULE IntentStore ----------------------------
(***************************************************************************)
(* The PostgreSQL side of one order: the rows of trade_intents,            *)
(* risk_reservations, decision_receipts and outbox that belong to an       *)
(* intent, and the transactions of infrastructure/store.py on them.        *)
(*                                                                         *)
(* Each operator below is one transaction: the code opens it with          *)
(* session.begin(), locks the intent row FOR UPDATE and either commits all *)
(* of its writes or raises and commits none, so a transaction is one       *)
(* action, and a raise is the same transaction with every row unchanged    *)
(* (the ...Allowed predicates say when the code does not raise).           *)
(*                                                                         *)
(* Intents stands for the idempotency keys: idempotency_key and intent_id  *)
(* are unique and fixed together when the intent is built.                 *)
(***************************************************************************)
EXTENDS Integers, FiniteSets, Functions

CONSTANTS
    Intents,   \* intents of the one account that trades
    Amount     \* Amount[i]: the max_loss of intent i, what it reserves

ASSUME AmountAssumption == Amount \in [Intents -> Nat \ {0}]

VARIABLES
    intentState,    \* trade_intents.state, "none" when there is no row
    brokerOrderId,  \* trade_intents.broker_order_id, NoId when NULL
    reservation,    \* risk_reservations.status, "none" when there is no row
    receipt,        \* whether decision_receipts has a row for the intent
    outbox          \* <<intent, topic>> pairs ever written to the outbox

storeVars == <<intentState, brokerOrderId, reservation, receipt, outbox>>

NoId == 0

AwaitingBroker ==
    {"SUBMITTING", "ACK_UNKNOWN", "REPLACEMENT_PENDING", "PARTIALLY_FILLED"}
NotFilled == {"REJECTED", "CANCELED"}
IntentStates ==
    {"none", "VALIDATED", "AUTHORIZED", "RECONCILED"} \cup AwaitingBroker \cup NotFilled
ReservationStates == {"none", "active", "consumed", "released"}
Topics == {"authorized", "submission_reset", "replacement_pending", "ack_unknown"}
          \cup NotFilled

StoreTypeOK ==
    /\ intentState \in [Intents -> IntentStates]
    /\ brokerOrderId \in [Intents -> Nat]
    /\ reservation \in [Intents -> ReservationStates]
    /\ receipt \in [Intents -> BOOLEAN]
    /\ outbox \subseteq Intents \X Topics

StoreInit ==
    /\ intentState = [i \in Intents |-> "none"]
    /\ brokerOrderId = [i \in Intents |-> NoId]
    /\ reservation = [i \in Intents |-> "none"]
    /\ receipt = [i \in Intents |-> FALSE]
    /\ outbox = {}

-----------------------------------------------------------------------------
(* create_intent: a second insert of the key returns the row there is.     *)
CreateIntent(i) ==
    /\ intentState' = [intentState EXCEPT ![i] = IF @ = "none" THEN "VALIDATED" ELSE @]
    /\ UNCHANGED <<brokerOrderId, reservation, receipt, outbox>>

(* What the account has at risk: the SUM over active and consumed rows.    *)
Total(intents) == SumFunctionOnSet(Amount, intents)

Reserved == Total({i \in Intents : reservation[i] \in {"active", "consumed"}})

(* authorize_with_reservation.  The row lock and the account's advisory    *)
(* lock are held from the check to the commit.  An AUTHORIZED row whose    *)
(* reservation has the same amount (it is the intent's own, always) is a   *)
(* success that writes nothing.                                            *)
AlreadyAuthorized(i) == intentState[i] = "AUTHORIZED" /\ reservation[i] # "none"

(* Mutant: the intent's own amount left out of the sum. *)
AuthorizeAllowedMutant(i, capacity) ==
    /\ intentState[i] = "VALIDATED"
    /\ capacity > 0
    /\ Reserved < capacity

AuthorizeAllowed(i, capacity) ==
    /\ intentState[i] = "VALIDATED"
    /\ capacity > 0
    /\ Reserved + Amount[i] <= capacity

AuthorizeWithReservation(i, capacity) ==
    /\ AuthorizeAllowed(i, capacity)
    /\ intentState' = [intentState EXCEPT ![i] = "AUTHORIZED"]
    /\ reservation' = [reservation EXCEPT ![i] = "active"]
    /\ outbox' = outbox \cup {<<i, "authorized">>}
    /\ UNCHANGED <<brokerOrderId, receipt>>

(* claim_submission: only an AUTHORIZED row is claimed for submission, and *)
(* the claim moves it on, so that the next caller polls instead.           *)
(* (Mutant: a claim that was never finished is handed out again.)          *)
ShouldSubmitMutant(i) == intentState[i] \in {"AUTHORIZED", "SUBMITTING"}

ShouldSubmit(i) == intentState[i] = "AUTHORIZED"

ClaimSubmission(i) ==
    /\ intentState' = [intentState EXCEPT ![i] = IF ShouldSubmit(i) THEN "SUBMITTING" ELSE @]
    /\ UNCHANGED <<brokerOrderId, reservation, receipt, outbox>>

-----------------------------------------------------------------------------
(* _BROKER_STATE_RANK and validate_broker_transition.                      *)
BrokerStateRank ==
    [s \in AwaitingBroker \cup {"RECONCILED"} |->
        CASE s = "RECONCILED" -> 2
          [] s = "PARTIALLY_FILLED" -> 1
          [] OTHER -> 0]

BrokerTransitionValid(current, next, existingId, id) ==
    /\ existingId \in {NoId, id}
    /\ current = "RECONCILED" => next = "RECONCILED" /\ existingId = id
    /\ BrokerStateRank[next] >= BrokerStateRank[current]

(* record_broker_order.  A REPLACEMENT_PENDING row takes whatever order id *)
(* it is shown and keeps its state until the replacement is filled.        *)
RecordAllowed(i, id, next) ==
    \/ intentState[i] = "REPLACEMENT_PENDING"
    \/ /\ intentState[i] \in (AwaitingBroker \ {"REPLACEMENT_PENDING"}) \cup {"RECONCILED"}
       /\ BrokerTransitionValid(intentState[i], next, brokerOrderId[i], id)

(* Mutants: risk consumed by the first fill; the first order id kept.      *)
RecordBrokerOrderEarly(i, id, next) ==
    /\ RecordAllowed(i, id, next)
    /\ brokerOrderId' = [brokerOrderId EXCEPT ![i] = id]
    /\ intentState' = [intentState EXCEPT
         ![i] = IF @ = "REPLACEMENT_PENDING" /\ next # "RECONCILED" THEN @ ELSE next]
    /\ reservation' = [reservation EXCEPT ![i] = IF next = "SUBMITTING" THEN @ ELSE "consumed"]
    /\ UNCHANGED <<receipt, outbox>>

RecordBrokerOrderFirstId(i, id, next) ==
    /\ RecordAllowed(i, id, next)
    /\ brokerOrderId' = [brokerOrderId EXCEPT ![i] = IF @ = NoId THEN id ELSE @]
    /\ intentState' = [intentState EXCEPT
         ![i] = IF @ = "REPLACEMENT_PENDING" /\ next # "RECONCILED" THEN @ ELSE next]
    /\ reservation' = [reservation EXCEPT ![i] = IF next = "RECONCILED" THEN "consumed" ELSE @]
    /\ UNCHANGED <<receipt, outbox>>

RecordBrokerOrder(i, id, next) ==
    /\ RecordAllowed(i, id, next)
    /\ brokerOrderId' = [brokerOrderId EXCEPT ![i] = id]
    /\ intentState' = [intentState EXCEPT
         ![i] = IF @ = "REPLACEMENT_PENDING" /\ next # "RECONCILED" THEN @ ELSE next]
    /\ reservation' = [reservation EXCEPT ![i] = IF next = "RECONCILED" THEN "consumed" ELSE @]
    /\ UNCHANGED <<receipt, outbox>>

(* mark_replacement_pending                                                *)
ReplacementAllowed(i) ==
    intentState[i] \in {"SUBMITTING", "REPLACEMENT_PENDING", "PARTIALLY_FILLED"}

MarkReplacementPending(i) ==
    /\ ReplacementAllowed(i)
    /\ intentState' = [intentState EXCEPT ![i] = "REPLACEMENT_PENDING"]
    /\ outbox' = outbox \cup {<<i, "replacement_pending">>}
    /\ UNCHANGED <<brokerOrderId, reservation, receipt>>

(* mark_ack_unknown                                                        *)
AckUnknownAllowed(i) == intentState[i] \in {"SUBMITTING", "ACK_UNKNOWN"}

MarkAckUnknownMutant(i) ==   \* a state that is none of IntentState
    /\ AckUnknownAllowed(i)
    /\ intentState' = [intentState EXCEPT ![i] = "UNKNOWN"]
    /\ outbox' = outbox \cup {<<i, "ack_unknown">>}
    /\ UNCHANGED <<brokerOrderId, reservation, receipt>>

MarkAckUnknown(i) ==
    /\ AckUnknownAllowed(i)
    /\ intentState' = [intentState EXCEPT ![i] = "ACK_UNKNOWN"]
    /\ outbox' = outbox \cup {<<i, "ack_unknown">>}
    /\ UNCHANGED <<brokerOrderId, reservation, receipt>>

(* mark_not_filled.  id is NoId when the broker refused the submission     *)
(* without an order (the code passes broker_order_id=None).                *)
NotFilledAllowedMutant(i, id) ==   \* only the partial fill is guarded
    /\ intentState[i] # "PARTIALLY_FILLED"
    /\ id = NoId \/ brokerOrderId[i] \in {NoId, id} \/ intentState[i] = "REPLACEMENT_PENDING"

NotFilledAllowed(i, id) ==
    /\ intentState[i] \in AwaitingBroker \ {"PARTIALLY_FILLED"}
    /\ \/ id = NoId
       \/ brokerOrderId[i] \in {NoId, id}
       \/ intentState[i] = "REPLACEMENT_PENDING"

(* Mutant: the reservation is not released.                                *)
MarkNotFilledHolding(i, state, id) ==
    /\ NotFilledAllowed(i, id)
    /\ brokerOrderId' = [brokerOrderId EXCEPT ![i] = IF id = NoId THEN @ ELSE id]
    /\ intentState' = [intentState EXCEPT ![i] = state]
    /\ outbox' = outbox \cup {<<i, state>>}
    /\ UNCHANGED <<reservation, receipt>>

MarkNotFilled(i, state, id) ==
    /\ NotFilledAllowed(i, id)
    /\ brokerOrderId' = [brokerOrderId EXCEPT ![i] = IF id = NoId THEN @ ELSE id]
    /\ intentState' = [intentState EXCEPT ![i] = state]
    /\ reservation' = [reservation EXCEPT ![i] = "released"]
    /\ outbox' = outbox \cup {<<i, state>>}
    /\ UNCHANGED receipt

(* recover_submission: gives a SUBMITTING row back; RECONCILED is a no-op, *)
(* any other state raises.                                                 *)
RecoverAllowed(i) == intentState[i] = "SUBMITTING"

RecoverSubmission(i) ==
    /\ RecoverAllowed(i)
    /\ intentState' = [intentState EXCEPT ![i] = "AUTHORIZED"]
    /\ outbox' = outbox \cup {<<i, "submission_reset">>}
    /\ UNCHANGED <<brokerOrderId, reservation, receipt>>

(* save_receipt: decision_receipts.intent_id is unique, a second insert    *)
(* raises an IntegrityError that nothing catches.                          *)
SaveReceipt(i) ==
    /\ ~receipt[i]
    /\ receipt' = [receipt EXCEPT ![i] = TRUE]
    /\ UNCHANGED <<intentState, brokerOrderId, reservation, outbox>>

-----------------------------------------------------------------------------
(* Every transaction of the store on the rows of intent i, whoever calls   *)
(* it: what all callers together can do to the tables.                     *)
Transaction(i) ==
    \/ CreateIntent(i)
    \/ \E capacity \in Nat : AuthorizeWithReservation(i, capacity)
    \/ ClaimSubmission(i)
    \/ \E id \in Nat, next \in {"SUBMITTING", "PARTIALLY_FILLED", "RECONCILED"} :
          RecordBrokerOrder(i, id, next)
    \/ MarkReplacementPending(i)
    \/ MarkAckUnknown(i)
    \/ \E state \in NotFilled, id \in Nat : MarkNotFilled(i, state, id)
    \/ RecoverSubmission(i)
    \/ SaveReceipt(i)

(* The intent row and the reservation row tell the same story: risk is held *)
(* exactly while the order may still be filled, consumed once it is, and   *)
(* released exactly when the intent ends without a fill.  The rows are     *)
(* written by different transactions of different callers.                 *)
LedgerAgrees ==
    \A i \in Intents :
        /\ reservation[i] = "none" <=> intentState[i] \in {"none", "VALIDATED"}
        /\ reservation[i] = "active" <=> intentState[i] \in {"AUTHORIZED"} \cup AwaitingBroker
        /\ reservation[i] = "consumed" <=> intentState[i] = "RECONCILED"
        /\ reservation[i] = "released" <=> intentState[i] \in NotFilled
=============================================================================
