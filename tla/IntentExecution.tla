-------------------------- MODULE IntentExecution --------------------------
(***************************************************************************)
(* Turning an approved trade intent into a broker order, exactly once:     *)
(* AutonomousTradingAgent._persist_and_execute (and its twin               *)
(* _execute_existing_intent, and DemoService.run) around                   *)
(* ExecutionOrchestrator.execute.                                          *)
(*                                                                         *)
(* A process is one call of that code: the worker, a second worker during  *)
(* a deployment, the API's run-once endpoint.  Every await of the code is  *)
(* a step boundary: each store transaction and each broker call is one     *)
(* action, and everything else may happen between two of them.  A call     *)
(* ends by a return or by a raise; both leave the process idle, for no     *)
(* state outlives the call.  Faults names what the environment may do.     *)
(***************************************************************************)
EXTENDS IntentStore

CONSTANTS
    NoIntent,         \* the work of an idle process
    Procs,            \* concurrent callers
    Caller,           \* Caller[p]: "agent" or "demo", whose code p runs
    BuyingPowers,     \* what account.buying_power may be when it is read
    AgentCeiling,     \* the agent's Decimal("1000")
    DemoCeiling,      \* the demo's Decimal("200")
    MaxReplacements,  \* bound of PaperBroker
    Faults            \* what may go wrong, a subset of FaultKinds

FaultKinds ==
    {"crash",             \* a process stops between two steps
     "lost_ack",          \* a submission ends without a usable answer
     "late_request",      \* ... and may still reach the broker later
     "submit_error",      \* an exception that is none of the broker's
     "lookup_outage",     \* BrokerLookupUnavailable
     "lookup_error",      \* any other exception of a lookup
     "refusal",           \* BrokerRejected for a key not in the book
     "duplicate_refused", \* the broker refuses a key it already has
     "replacement",       \* the broker replaces an open order
     "partial_cancel",    \* an order with fills is canceled
     "mismatch"}          \* an answer with another client order id

ASSUME ExecutionAssumption ==
    /\ NoIntent \notin Intents
    /\ Caller \in [Procs -> {"agent", "demo"}]
    /\ BuyingPowers \subseteq Nat
    /\ AgentCeiling \in Nat \ {0}
    /\ DemoCeiling \in Nat \ {0}
    /\ MaxReplacements \in Nat
    /\ Faults \subseteq FaultKinds

VARIABLES
    order,         \* the broker's book (PaperBroker)
    wire,          \* intents with a submission still on its way to the broker
    pc,            \* pc[p]: the await at which the call of p stands
    work,          \* work[p]: the intent p executes, NoIntent when idle
    shouldSubmit,  \* the SubmissionClaim p holds: should_submit ...
    claimState,    \* ... and state
    reply          \* what the broker last answered p

callVars == <<pc, work, shouldSubmit, claimState, reply>>
vars == <<storeVars, order, wire, callVars>>

Broker == INSTANCE PaperBroker WITH Keys <- Intents

Points == {"idle", "down", "find_receipt", "get_state", "authorize", "claim", "submit",
           "lookup", "poll", "settle", "receipt"}
ReplyKinds == {"none", "order", "replaced", "missing", "unavailable", "error",
               "refused", "mismatch"}
Replies == [kind : ReplyKinds, status : Broker!OrderStatuses, id : Nat]
Answer(kind) == [kind |-> kind, status |-> "absent", id |-> NoId]
NoReply == Answer("none")

(* How _map_order reads a record of the book.                              *)
Read(o) ==
    CASE o.status = "absent"   -> Answer("missing")
      [] o.status = "replaced" -> Answer("replaced")
      [] OTHER -> [kind |-> "order", status |-> o.status, id |-> o.id]

TypeOK ==
    /\ StoreTypeOK
    /\ order \in [Intents -> Broker!Orders]
    /\ wire \subseteq Intents
    /\ pc \in [Procs -> Points]
    /\ work \in [Procs -> Intents \cup {NoIntent}]
    /\ \A p \in Procs : pc[p] \notin {"idle", "down"} => work[p] \in Intents
    /\ shouldSubmit \in [Procs -> BOOLEAN]
    /\ claimState \in [Procs -> IntentStates]
    /\ reply \in [Procs -> Replies]

Init ==
    /\ StoreInit
    /\ order = [i \in Intents |-> Broker!NoOrder]
    /\ wire = {}
    /\ pc = [p \in Procs |-> "idle"]
    /\ work = [p \in Procs |-> NoIntent]
    /\ shouldSubmit = [p \in Procs |-> FALSE]
    /\ claimState = [p \in Procs |-> "none"]
    /\ reply = [p \in Procs |-> NoReply]

-----------------------------------------------------------------------------
(* Where a call goes next.                                                 *)

GoTo(p, point) ==
    /\ pc' = [pc EXCEPT ![p] = point]
    /\ UNCHANGED <<work, shouldSubmit, claimState, reply>>

Hear(p, answer, point) ==
    /\ pc' = [pc EXCEPT ![p] = point]
    /\ reply' = [reply EXCEPT ![p] = answer]
    /\ UNCHANGED <<work, shouldSubmit, claimState>>

(* No state of a call outlives it.                                         *)
Leave(p, point) ==
    /\ pc' = [pc EXCEPT ![p] = point]
    /\ work' = [work EXCEPT ![p] = NoIntent]
    /\ shouldSubmit' = [shouldSubmit EXCEPT ![p] = FALSE]
    /\ claimState' = [claimState EXCEPT ![p] = "none"]
    /\ reply' = [reply EXCEPT ![p] = NoReply]

EndCall(p) == Leave(p, "idle")

Raise(p) == EndCall(p) /\ UNCHANGED storeVars

(* The states in which the caller goes on to execute an intent it did not  *)
(* just authorize.                                                         *)
Resumable(p) ==
    IF Caller[p] = "agent"
    THEN {"AUTHORIZED", "SUBMITTING", "REPLACEMENT_PENDING", "PARTIALLY_FILLED", "RECONCILED"}
    ELSE {"AUTHORIZED", "SUBMITTING", "RECONCILED"}

Capacity(p, buyingPower) ==
    IF Caller[p] = "demo" THEN DemoCeiling
    ELSE IF buyingPower < AgentCeiling THEN buyingPower ELSE AgentCeiling

-----------------------------------------------------------------------------
(* The caller: persist, look for a receipt, authorize.                     *)

Persist(p, i) ==
    /\ pc[p] = "idle"
    /\ CreateIntent(i)
    /\ pc' = [pc EXCEPT ![p] = "find_receipt"]
    /\ work' = [work EXCEPT ![p] = i]
    /\ UNCHANGED <<shouldSubmit, claimState, reply, order, wire>>

FindReceipt(p) ==
    /\ pc[p] = "find_receipt"
    /\ IF receipt[work[p]] THEN EndCall(p) ELSE GoTo(p, "get_state")
    /\ UNCHANGED <<storeVars, order, wire>>

GetState(p) ==
    /\ pc[p] = "get_state"
    /\ LET state == intentState[work[p]] IN
         IF state = "VALIDATED" THEN GoTo(p, "authorize")
         ELSE IF state \in Resumable(p) THEN GoTo(p, "claim")
         ELSE EndCall(p)
    /\ UNCHANGED <<storeVars, order, wire>>

Authorize(p) ==
    /\ pc[p] = "authorize"
    /\ LET i == work[p] IN
         \E buyingPower \in BuyingPowers :
           \/ /\ AuthorizeWithReservation(i, Capacity(p, buyingPower))
              /\ GoTo(p, "claim")
           \/ /\ Capacity(p, buyingPower) > 0
              /\ AlreadyAuthorized(i)
              /\ GoTo(p, "claim")
              /\ UNCHANGED storeVars
           \/ /\ ~AuthorizeAllowed(i, Capacity(p, buyingPower))
              /\ Capacity(p, buyingPower) > 0 => ~AlreadyAuthorized(i)
              /\ Raise(p)
    /\ UNCHANGED <<order, wire>>

-----------------------------------------------------------------------------
(* ExecutionOrchestrator.execute: claim, then submit or poll.              *)

Claim(p) ==
    /\ pc[p] = "claim"
    /\ LET i == work[p] IN
         \/ /\ intentState[i] \in AwaitingBroker \cup {"AUTHORIZED", "RECONCILED"}
            /\ ClaimSubmission(i)
            /\ shouldSubmit' = [shouldSubmit EXCEPT ![p] = ShouldSubmit(i)]
            /\ claimState' = [claimState EXCEPT ![p] = intentState'[i]]
            /\ pc' = [pc EXCEPT ![p] = IF ShouldSubmit(i) THEN "submit" ELSE "poll"]
            /\ UNCHANGED <<work, reply>>
         \/ /\ intentState[i] \in NotFilled \cup {"VALIDATED"}
            /\ Raise(p)
    /\ UNCHANGED <<order, wire>>

(* broker.submit answers with the order the broker has for the key.        *)
SubmitAnswered(p) ==
    /\ pc[p] = "submit"
    /\ LET i == work[p] IN
         /\ order[i].status = "absent" \/ "duplicate_refused" \notin Faults
         /\ Broker!HandleRequest(i)
         /\ \/ Hear(p, Read(order'[i]), "settle")
            \/ "mismatch" \in Faults /\ Hear(p, Answer("mismatch"), "settle")
    /\ UNCHANGED <<storeVars, wire>>

SubmitRefused(p) ==
    /\ pc[p] = "submit"
    /\ IF order[work[p]].status = "absent"
       THEN "refusal" \in Faults
       ELSE "duplicate_refused" \in Faults
    /\ Hear(p, Answer("refused"), "settle")
    /\ UNCHANGED <<storeVars, order, wire>>

(* The submission of i ends with nothing known: the broker handled it, or  *)
(* never will, or has yet to receive it.                                   *)
RequestOutcome(i) ==
    \/ Broker!HandleRequest(i) /\ UNCHANGED wire
    \/ UNCHANGED <<order, wire>>
    \/ /\ "late_request" \in Faults
       /\ wire' = wire \cup {i}
       /\ UNCHANGED order

SubmitUnknown(p) ==
    /\ pc[p] = "submit"
    /\ "lost_ack" \in Faults
    /\ RequestOutcome(work[p])
    /\ GoTo(p, "lookup")
    /\ UNCHANGED storeVars

SubmitError(p) ==
    /\ pc[p] = "submit"
    /\ "submit_error" \in Faults
    /\ RequestOutcome(work[p])
    /\ Hear(p, Answer("error"), "settle")
    /\ UNCHANGED storeVars

(* get_by_client_order_id: the book, or one of the ways it can fail.       *)
LookupAnswers(i) ==
    {Read(order[i])}
    \cup (IF "lookup_outage" \in Faults THEN {Answer("unavailable")} ELSE {})
    \cup (IF "lookup_error" \in Faults THEN {Answer("error")} ELSE {})
    \cup (IF "mismatch" \in Faults THEN {Answer("mismatch")} ELSE {})

(* The lookup after UnknownSubmission: every answer leads to a transaction *)
Lookup(p) ==
    /\ pc[p] = "lookup"
    /\ \E answer \in LookupAnswers(work[p]) : Hear(p, answer, "settle")
    /\ UNCHANGED <<storeVars, order, wire>>

(* The lookup of a caller that did not win the claim: only an order is     *)
(* acted on, "replaced", a miss and an outage all propagate as a raise.    *)
Poll(p) ==
    /\ pc[p] = "poll"
    /\ \E answer \in LookupAnswers(work[p]) :
         IF answer.kind \in {"order", "mismatch"}
         THEN Hear(p, answer, "settle")
         ELSE EndCall(p)
    /\ UNCHANGED <<storeVars, order, wire>>

-----------------------------------------------------------------------------
(* ExecutionOrchestrator.execute: what the broker's answer does to the row.*)

Settling(p, kinds) == pc[p] = "settle" /\ reply[p].kind \in kinds

SettleReplaced(p) ==
    /\ Settling(p, {"replaced"})
    /\ IF ReplacementAllowed(work[p])
       THEN MarkReplacementPending(work[p]) /\ EndCall(p)
       ELSE Raise(p)
    /\ UNCHANGED <<order, wire>>

SettleUnavailable(p) ==
    /\ Settling(p, {"unavailable"})
    /\ IF AckUnknownAllowed(work[p])
       THEN MarkAckUnknown(work[p]) /\ EndCall(p)
       ELSE Raise(p)
    /\ UNCHANGED <<order, wire>>

SettleUnsubmitted(p) ==
    /\ Settling(p, {"missing", "error", "mismatch"})
    /\ IF RecoverAllowed(work[p])
       THEN RecoverSubmission(work[p]) /\ EndCall(p)
       ELSE Raise(p)
    /\ UNCHANGED <<order, wire>>

(* BrokerRejected, or an order whose status is rejected or canceled.       *)
SettleNotFilled(p) ==
    /\ \/ Settling(p, {"refused"})
       \/ Settling(p, {"order"}) /\ reply[p].status \in Broker!Dead
    /\ LET state == IF reply[p].status = "canceled" THEN "CANCELED" ELSE "REJECTED" IN
         IF NotFilledAllowed(work[p], reply[p].id)
         THEN MarkNotFilled(work[p], state, reply[p].id) /\ EndCall(p)
         ELSE Raise(p)
    /\ UNCHANGED <<order, wire>>

NextState(status) ==
    CASE status = "new" -> "SUBMITTING"
      [] status = "partially_filled" -> "PARTIALLY_FILLED"
      [] status = "filled" -> "RECONCILED"

(* Mutant: a receipt for every order that has a fill.                      *)
SettleOrderMutant(p) ==
    /\ Settling(p, {"order"})
    /\ reply[p].status \in {"new", "partially_filled", "filled"}
    /\ LET i == work[p]
           next == NextState(reply[p].status)
           Return == IF next # "SUBMITTING" THEN GoTo(p, "receipt") ELSE EndCall(p)
       IN  \/ claimState[p] = "RECONCILED" /\ Return /\ UNCHANGED storeVars
           \/ claimState[p] # "RECONCILED" /\ RecordBrokerOrder(i, reply[p].id, next) /\ Return
           \/ claimState[p] # "RECONCILED" /\ ~RecordAllowed(i, reply[p].id, next) /\ Raise(p)
    /\ UNCHANGED <<order, wire>>

(* The order is recorded unless the claim already found it reconciled, and *)
(* a filled one is followed by the receipt.                                *)
SettleOrder(p) ==
    /\ Settling(p, {"order"})
    /\ reply[p].status \in {"new", "partially_filled", "filled"}
    /\ LET i == work[p]
           next == NextState(reply[p].status)
           Return == IF next = "RECONCILED" THEN GoTo(p, "receipt") ELSE EndCall(p)
       IN  \/ claimState[p] = "RECONCILED" /\ Return /\ UNCHANGED storeVars
           \/ claimState[p] # "RECONCILED" /\ RecordBrokerOrder(i, reply[p].id, next) /\ Return
           \/ claimState[p] # "RECONCILED" /\ ~RecordAllowed(i, reply[p].id, next) /\ Raise(p)
    /\ UNCHANGED <<order, wire>>

(* The caller saves the receipt in a transaction of its own.               *)
WriteReceipt(p) ==
    /\ pc[p] = "receipt"
    /\ IF receipt[work[p]] THEN Raise(p) ELSE SaveReceipt(work[p]) /\ EndCall(p)
    /\ UNCHANGED <<order, wire>>

-----------------------------------------------------------------------------
(* A process dies; its request may be anywhere between it and the broker.  *)
Crash(p) ==
    /\ "crash" \in Faults
    /\ pc[p] \notin {"idle", "down"}
    /\ Leave(p, "down")
    /\ IF pc[p] = "submit" THEN RequestOutcome(work[p]) ELSE UNCHANGED <<order, wire>>
    /\ UNCHANGED storeVars

Restart(p) ==
    /\ pc[p] = "down"
    /\ GoTo(p, "idle")
    /\ UNCHANGED <<storeVars, order, wire>>

(* The broker's side.                                                      *)
LateArrival(i) ==
    /\ i \in wire
    /\ wire' = wire \ {i}
    /\ Broker!HandleRequest(i)
    /\ UNCHANGED <<storeVars, callVars>>

MarketMoves(i) ==
    /\ \/ Broker!Fill(i)
       \/ Broker!Reject(i)
       \/ Broker!Cancel(i) /\ ("partial_cancel" \in Faults \/ ~order[i].anyFill)
       \/ Broker!Replace(i) /\ "replacement" \in Faults
       \/ Broker!ShowReplacement(i)
    /\ UNCHANGED <<storeVars, wire, callVars>>

Call(p) ==
    \/ FindReceipt(p) \/ GetState(p) \/ Authorize(p) \/ Claim(p)
    \/ SubmitAnswered(p) \/ SubmitRefused(p) \/ SubmitUnknown(p) \/ SubmitError(p)
    \/ Lookup(p) \/ Poll(p)
    \/ SettleReplaced(p) \/ SettleUnavailable(p) \/ SettleUnsubmitted(p)
    \/ SettleNotFilled(p) \/ SettleOrder(p) \/ WriteReceipt(p)
    \/ Restart(p)

Next ==
    \/ \E p \in Procs : Call(p) \/ Crash(p) \/ \E i \in Intents : Persist(p, i)
    \/ \E i \in Intents : LateArrival(i) \/ MarketMoves(i)

Spec == Init /\ [][Next]_vars

-----------------------------------------------------------------------------
(* Invariants.                                                             *)

(* claim_submission admits one submitter of an intent at a time, through   *)
(* every reset of the claim by recover_submission (execution.py:24-61).    *)
Submitting(p) == shouldSubmit[p] /\ pc[p] \in {"submit", "lookup", "settle"}

SingleSubmitter ==
    \A p, q \in Procs : Submitting(p) /\ Submitting(q) /\ work[p] = work[q] => p = q

(* The account never has more at risk than the ceiling a caller applies,   *)
(* whatever buying power each concurrent caller read (store.py:500-508).   *)
Ceiling == IF AgentCeiling > DemoCeiling THEN AgentCeiling ELSE DemoCeiling

RiskWithinCeiling == Reserved <= Ceiling

(* A reconciled intent names the order that was filled: not an earlier one *)
(* that was replaced, and never an order that is not filled.               *)
ReconciledIsFilled ==
    \A i \in Intents : intentState[i] = "RECONCILED" =>
        order[i].status = "filled" /\ brokerOrderId[i] = order[i].id

(* A receipt says "filled": it exists for reconciled intents only, though  *)
(* the receipt and the reconciliation are separate transactions.           *)
ReceiptIsReconciled ==
    \A i \in Intents : receipt[i] => intentState[i] = "RECONCILED"

(* Released risk belongs to no contracts at all (store.py:689-693).        *)
ReleasedIsUnfilled ==
    \A i \in Intents : reservation[i] = "released" => ~order[i].anyFill

-----------------------------------------------------------------------------
(* Action properties.                                                      *)

(* An outcome is final: no late or repeated answer moves an intent that is *)
(* reconciled, rejected or canceled, nor its reservation.                  *)
OutcomeIsFinal ==
    [][\A i \in Intents : intentState[i] \in {"RECONCILED"} \cup NotFilled =>
          intentState'[i] = intentState[i] /\ reservation'[i] = reservation[i]]_vars

-----------------------------------------------------------------------------
(* The implementation relation: the reservation rows and the broker's book *)
(* follow RiskContract.                                                    *)
Exposure(o) ==
    IF o.status \in Broker!Open THEN "open"
    ELSE IF o.status \in Broker!Dead THEN "dead" ELSE o.status

Contract == INSTANCE RiskContract WITH
    hold <- reservation,
    exposure <- [i \in Intents |-> Exposure(order[i])]

KeepsRiskContract == Contract!Spec

-----------------------------------------------------------------------------
(* Inductive strengthenings of the invariants, for the proofs.             *)

(* Whoever holds the claim of an intent keeps it out of AUTHORIZED, and    *)
(* only the holder can give it back.                                       *)
ClaimHeld ==
    \A p \in Procs :
        /\ Submitting(p) => intentState[work[p]] \notin {"none", "VALIDATED", "AUTHORIZED"}
        /\ pc[p] \in {"submit", "lookup"} => shouldSubmit[p]
        /\ pc[p] = "poll" => ~shouldSubmit[p]
        /\ Settling(p, {"missing", "error", "refused"}) => shouldSubmit[p]
        /\ ~Settling(p, {"mismatch"})

(* An answer that an order is filled or dead stays true of the book, and a *)
(* call on its way to a receipt or past a reconciled claim is right that   *)
(* the intent is reconciled.                                               *)
AnswersStand ==
    \A p \in Procs :
        /\ Settling(p, {"order"}) /\ reply[p].status \in {"filled"} \cup Broker!Dead =>
              order[work[p]].status = reply[p].status /\ order[work[p]].id = reply[p].id
        /\ \/ pc[p] = "receipt"
           \/ pc[p] \in {"submit", "lookup", "poll", "settle"} /\ claimState[p] = "RECONCILED"
           => intentState[work[p]] = "RECONCILED"

(* As long as the broker has no order for a claimed intent, the intent is  *)
(* still waiting for one, and so is its reservation; and nothing that the  *)
(* broker does not know of can make it open one.                           *)
ClaimIsOpen ==
    /\ wire = {}
    /\ \A p \in Procs :
        /\ Submitting(p) /\ order[work[p]].status = "absent" =>
              intentState[work[p]] \in AwaitingBroker
        /\ Settling(p, {"refused"}) => order[work[p]].status = "absent"
        /\ Settling(p, {"order", "replaced"}) => order[work[p]].status # "absent"

-----------------------------------------------------------------------------
(* Fairness: the awaits of a running call return, a process that died is   *)
(* restarted, and every process keeps being called.  Which intent a call   *)
(* is about is not promised: the scheduler's next tick builds its own.     *)
(* The broker and the market owe nothing.                                  *)
Fairness ==
    \A p \in Procs :
        /\ WF_vars(Call(p))
        /\ WF_vars(\E i \in Intents : Persist(p, i))

FairSpec == Spec /\ Fairness

(* An order the broker filled is eventually a reconciled intent with a     *)
(* receipt (README.md:22 "Reconciles broker state after execution").       *)
FillIsReconciled ==
    \A i \in Intents : order[i].status = "filled" ~> intentState[i] = "RECONCILED" /\ receipt[i]

=============================================================================
