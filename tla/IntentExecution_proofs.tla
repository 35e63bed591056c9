----------------------- MODULE IntentExecution_proofs -----------------------
(***************************************************************************)
(* Theorems about IntentExecution for any number of callers and intents,   *)
(* any amounts and any faults (unless a theorem excludes one).             *)
(***************************************************************************)
EXTENDS IntentExecution, FiniteSetLemmas, TLAPS

-----------------------------------------------------------------------------
(* The broker's records have their type, and a request or a market move    *)
(* changes only its own key.                                               *)

LEMMA HandleRequestType ==
    ASSUME order \in [Intents -> Broker!Orders], NEW i \in Intents, Broker!HandleRequest(i)
    PROVE  order' \in [Intents -> Broker!Orders]
<1>1. PICK o \in Broker!AfterRequest(i) : order' = [order EXCEPT ![i] = o]
  BY DEF Broker!HandleRequest
<1>2. o \in Broker!Orders
  <2>1. CASE order[i].status # "absent"
    BY <2>1, <1>1 DEF Broker!AfterRequest
  <2>2. CASE order[i].status = "absent"
    <3>1. PICK s \in {"new", "partially_filled", "filled", "rejected"} :
              o = [status |-> s, id |-> 1, anyFill |-> s \in {"partially_filled", "filled"}]
      BY <2>2, <1>1 DEF Broker!AfterRequest
    <3>2. (s \in {"partially_filled", "filled"}) \in BOOLEAN
      OBVIOUS
    <3>3. s \in Broker!OrderStatuses
      BY DEF Broker!OrderStatuses, Broker!Open, Broker!Dead
    <3>4. QED
      BY <3>1, <3>2, <3>3 DEF Broker!Orders
  <2>3. QED
    BY <2>1, <2>2
<1>3. QED
  BY <1>1, <1>2

LEMMA MarketMovesType ==
    ASSUME order \in [Intents -> Broker!Orders], NEW i \in Intents, MarketMoves(i)
    PROVE  order' \in [Intents -> Broker!Orders]
<1>1. CASE Broker!Fill(i)
  <2>1. PICK s \in {"partially_filled", "filled"} :
            order' = [order EXCEPT ![i].status = s, ![i].anyFill = TRUE]
    BY <1>1 DEF Broker!Fill
  <2>2. s \in Broker!OrderStatuses
    BY DEF Broker!OrderStatuses, Broker!Open
  <2>3. QED
    BY <2>1, <2>2 DEF Broker!Orders
<1>2. CASE Broker!Reject(i)
  BY <1>2 DEF Broker!Reject, Broker!Orders, Broker!OrderStatuses, Broker!Open, Broker!Dead
<1>3. CASE Broker!Cancel(i)
  BY <1>3 DEF Broker!Cancel, Broker!Orders, Broker!OrderStatuses, Broker!Open, Broker!Dead
<1>4. CASE Broker!Replace(i)
  BY <1>4 DEF Broker!Replace, Broker!Orders, Broker!OrderStatuses, Broker!Open, Broker!Dead
<1>5. CASE Broker!ShowReplacement(i)
  BY <1>5 DEF Broker!ShowReplacement, Broker!Orders, Broker!OrderStatuses, Broker!Open, Broker!Dead
<1>6. QED
  BY <1>1, <1>2, <1>3, <1>4, <1>5 DEF MarketMoves

LEMMA ReadType ==
    ASSUME NEW o \in Broker!Orders
    PROVE  Read(o) \in Replies
BY DEF Read, Replies, ReplyKinds, Answer, NoId, Broker!Orders, Broker!OrderStatuses

LEMMA AnswerType ==
    ASSUME NEW kind \in ReplyKinds
    PROVE  Answer(kind) \in Replies
BY DEF Replies, Answer, NoId, Broker!OrderStatuses

LEMMA LookupAnswersType ==
    ASSUME order \in [Intents -> Broker!Orders], NEW i \in Intents
    PROVE  LookupAnswers(i) \subseteq Replies
BY ReadType, AnswerType DEF LookupAnswers, ReplyKinds

(* A transaction keeps the rows well typed.                                *)
LEMMA TransactionType ==
    ASSUME StoreTypeOK, NEW i \in Intents, Transaction(i)
    PROVE  StoreTypeOK'
<1> USE DEF StoreTypeOK, IntentStates, ReservationStates, AwaitingBroker, NotFilled, Topics
<1>1. CASE CreateIntent(i)
  BY <1>1 DEF CreateIntent
<1>2. ASSUME NEW capacity \in Nat, AuthorizeWithReservation(i, capacity) PROVE StoreTypeOK'
  BY <1>2 DEF AuthorizeWithReservation
<1>3. CASE ClaimSubmission(i)
  BY <1>3 DEF ClaimSubmission
<1>4. ASSUME NEW id \in Nat, NEW next \in {"SUBMITTING", "PARTIALLY_FILLED", "RECONCILED"},
             RecordBrokerOrder(i, id, next)
      PROVE  StoreTypeOK'
  BY <1>4 DEF RecordBrokerOrder
<1>5. CASE MarkReplacementPending(i)
  BY <1>5 DEF MarkReplacementPending
<1>6. CASE MarkAckUnknown(i)
  BY <1>6 DEF MarkAckUnknown
<1>7. ASSUME NEW state \in NotFilled, NEW id \in Nat, MarkNotFilled(i, state, id)
      PROVE  StoreTypeOK'
  BY <1>7 DEF MarkNotFilled
<1>8. CASE RecoverSubmission(i)
  BY <1>8 DEF RecoverSubmission
<1>9. CASE SaveReceipt(i)
  BY <1>9 DEF SaveReceipt
<1>10. QED
  BY <1>1, <1>2, <1>3, <1>4, <1>5, <1>6, <1>7, <1>8, <1>9 DEF Transaction

-----------------------------------------------------------------------------
(* What a step of the composition does to the tables is one transaction.   *)

LEMMA CapacityType ==
    ASSUME NEW p \in Procs, NEW buyingPower \in BuyingPowers
    PROVE  Capacity(p, buyingPower) \in Nat
BY ExecutionAssumption DEF Capacity

LEMMA CallIsTransaction ==
    ASSUME TypeOK, NEW p \in Procs, Call(p)
    PROVE  UNCHANGED storeVars \/ Transaction(work[p])
<1>1. CASE FindReceipt(p) \/ GetState(p) \/ Restart(p)
  BY <1>1 DEF FindReceipt, GetState, Restart
<1>2. CASE Authorize(p)
  BY <1>2, CapacityType DEF Authorize, Raise, Transaction
<1>3. CASE Claim(p)
  BY <1>3 DEF Claim, Raise, Transaction
<1>4. CASE SubmitAnswered(p) \/ SubmitRefused(p) \/ SubmitUnknown(p) \/ SubmitError(p)
  BY <1>4 DEF SubmitAnswered, SubmitRefused, SubmitUnknown, SubmitError
<1>5. CASE Lookup(p) \/ Poll(p)
  BY <1>5 DEF Lookup, Poll
<1>6. CASE SettleReplaced(p)
  BY <1>6 DEF SettleReplaced, Raise, Transaction
<1>7. CASE SettleUnavailable(p)
  BY <1>7 DEF SettleUnavailable, Raise, Transaction
<1>8. CASE SettleUnsubmitted(p)
  BY <1>8 DEF SettleUnsubmitted, Raise, Transaction
<1>9. CASE SettleNotFilled(p)
  <2>1. reply[p].id \in Nat
    BY DEF TypeOK, Replies
  <2>2. QED
    BY <1>9, <2>1 DEF SettleNotFilled, Raise, Transaction, NotFilled
<1>10. CASE SettleOrder(p)
  <2>1. reply[p].id \in Nat
    BY DEF TypeOK, Replies
  <2>2. NextState(reply[p].status) \in {"SUBMITTING", "PARTIALLY_FILLED", "RECONCILED"}
    BY <1>10 DEF SettleOrder, NextState
  <2>3. QED
    BY <1>10, <2>1, <2>2 DEF SettleOrder, Raise, Transaction
<1>11. CASE WriteReceipt(p)
  BY <1>11 DEF WriteReceipt, Raise, Transaction
<1>12. QED
  BY <1>1, <1>2, <1>3, <1>4, <1>5, <1>6, <1>7, <1>8, <1>9, <1>10, <1>11 DEF Call

LEMMA StepIsTransaction ==
    ASSUME TypeOK, [Next]_vars
    PROVE  UNCHANGED storeVars \/ \E i \in Intents : Transaction(i)
<1>1. ASSUME NEW p \in Procs, Call(p)
      PROVE  UNCHANGED storeVars \/ \E i \in Intents : Transaction(i)
  <2>1. pc[p] \notin {"idle", "down"} \/ Restart(p)
    BY <1>1 DEF Call, FindReceipt, GetState, Authorize, Claim, SubmitAnswered, SubmitRefused,
                SubmitUnknown, SubmitError, Lookup, Poll, SettleReplaced, SettleUnavailable,
                SettleUnsubmitted, SettleNotFilled, SettleOrder, WriteReceipt, Settling
  <2>2. CASE work[p] \in Intents
    BY <1>1, <2>2, CallIsTransaction
  <2>3. CASE Restart(p)
    BY <2>3 DEF Restart
  <2>4. QED
    BY <2>1, <2>2, <2>3 DEF TypeOK
<1>2. ASSUME NEW p \in Procs, Crash(p)
      PROVE  UNCHANGED storeVars
  BY <1>2 DEF Crash
<1>3. ASSUME NEW p \in Procs, NEW i \in Intents, Persist(p, i)
      PROVE  Transaction(i)
  BY <1>3 DEF Persist, Transaction
<1>4. ASSUME NEW i \in Intents, LateArrival(i) \/ MarketMoves(i)
      PROVE  UNCHANGED storeVars
  BY <1>4 DEF LateArrival, MarketMoves
<1>5. CASE UNCHANGED vars
  BY <1>5 DEF vars, storeVars
<1>6. QED
  BY <1>1, <1>2, <1>3, <1>4, <1>5 DEF Next

-----------------------------------------------------------------------------
(* Type correctness.  CallTypeOK is the part of TypeOK about the calls.    *)

CallTypeOK ==
    /\ pc \in [Procs -> Points]
    /\ work \in [Procs -> Intents \cup {NoIntent}]
    /\ \A p \in Procs : pc[p] \notin {"idle", "down"} => work[p] \in Intents
    /\ shouldSubmit \in [Procs -> BOOLEAN]
    /\ claimState \in [Procs -> IntentStates]
    /\ reply \in [Procs -> Replies]

LEMMA GoToType ==
    ASSUME CallTypeOK, NEW p \in Procs, pc[p] \notin {"idle", "down"}, NEW point \in Points, GoTo(p, point)
    PROVE  CallTypeOK'
BY DEF CallTypeOK, GoTo

LEMMA HearType ==
    ASSUME CallTypeOK, NEW p \in Procs, pc[p] \notin {"idle", "down"}, NEW point \in Points,
           NEW answer \in Replies, Hear(p, answer, point)
    PROVE  CallTypeOK'
BY DEF CallTypeOK, Hear

LEMMA LeaveType ==
    ASSUME CallTypeOK, NEW p \in Procs, NEW point \in {"idle", "down"}, Leave(p, point)
    PROVE  CallTypeOK'
<1>1. NoReply \in Replies
  BY AnswerType DEF NoReply, ReplyKinds
<1>2. point \in Points /\ "none" \in IntentStates
  BY DEF Points, IntentStates
<1>3. QED
  BY <1>1, <1>2 DEF CallTypeOK, Leave

LEMMA EndCallType ==
    ASSUME CallTypeOK, NEW p \in Procs, EndCall(p)
    PROVE  CallTypeOK'
BY LeaveType DEF EndCall

LEMMA CallKeepsCallType ==
    ASSUME TypeOK, NEW p \in Procs, Call(p)
    PROVE  CallTypeOK'
<1> USE DEF Points
<1>0. CallTypeOK /\ StoreTypeOK /\ order \in [Intents -> Broker!Orders]
  BY DEF TypeOK, CallTypeOK
<1>1. CASE FindReceipt(p)
  BY <1>0, <1>1, GoToType, EndCallType DEF FindReceipt
<1>2. CASE GetState(p)
  BY <1>0, <1>2, GoToType, EndCallType DEF GetState
<1>3. CASE Authorize(p)
  BY <1>0, <1>3, GoToType, EndCallType DEF Authorize, Raise
<1>4. CASE Claim(p)
  <2>1. CASE Raise(p)
    BY <1>0, <2>1, EndCallType DEF Raise
  <2>2. CASE /\ ClaimSubmission(work[p])
             /\ shouldSubmit' = [shouldSubmit EXCEPT ![p] = ShouldSubmit(work[p])]
             /\ claimState' = [claimState EXCEPT ![p] = intentState'[work[p]]]
             /\ pc' = [pc EXCEPT ![p] = IF ShouldSubmit(work[p]) THEN "submit" ELSE "poll"]
             /\ UNCHANGED <<work, reply>>
    <3>1. work[p] \in Intents
      BY <1>0, <1>4 DEF CallTypeOK, Claim
    <3>2. intentState'[work[p]] \in IntentStates
      BY <1>0, <2>2, <3>1 DEF ClaimSubmission, StoreTypeOK, IntentStates, AwaitingBroker
    <3>3. ShouldSubmit(work[p]) \in BOOLEAN
      BY DEF ShouldSubmit
    <3>4. QED
      BY <1>0, <2>2, <3>1, <3>2, <3>3 DEF CallTypeOK
  <2>3. QED
    BY <1>4, <2>1, <2>2 DEF Claim
<1>5. CASE SubmitAnswered(p)
  <2>1. work[p] \in Intents /\ pc[p] \notin {"idle", "down"}
    BY <1>0, <1>5 DEF CallTypeOK, SubmitAnswered
  <2>2. order' \in [Intents -> Broker!Orders]
    BY <1>0, <1>5, <2>1, HandleRequestType DEF SubmitAnswered
  <2>3. Read(order'[work[p]]) \in Replies /\ Answer("mismatch") \in Replies
    BY <2>1, <2>2, ReadType, AnswerType DEF ReplyKinds
  <2>4. QED
    BY <1>0, <1>5, <2>1, <2>3, HearType DEF SubmitAnswered
<1>6. CASE SubmitRefused(p)
  BY <1>0, <1>6, HearType, AnswerType DEF SubmitRefused, ReplyKinds
<1>7. CASE SubmitUnknown(p)
  BY <1>0, <1>7, GoToType DEF SubmitUnknown
<1>8. CASE SubmitError(p)
  BY <1>0, <1>8, HearType, AnswerType DEF SubmitError, ReplyKinds
<1>9. CASE Lookup(p)
  BY <1>0, <1>9, HearType, LookupAnswersType DEF Lookup, CallTypeOK
<1>10. CASE Poll(p)
  BY <1>0, <1>10, HearType, EndCallType, LookupAnswersType DEF Poll, CallTypeOK
<1>11. CASE SettleReplaced(p) \/ SettleUnavailable(p) \/ SettleUnsubmitted(p)
            \/ SettleNotFilled(p) \/ WriteReceipt(p)
  BY <1>0, <1>11, EndCallType DEF SettleReplaced, SettleUnavailable, SettleUnsubmitted,
     SettleNotFilled, WriteReceipt, Raise
<1>12. CASE SettleOrder(p)
  BY <1>0, <1>12, GoToType, EndCallType DEF SettleOrder, Settling, Raise
<1>13. CASE Restart(p)
  BY <1>0, <1>13 DEF Restart, GoTo, CallTypeOK
<1>14. QED
  BY <1>1, <1>2, <1>3, <1>4, <1>5, <1>6, <1>7, <1>8, <1>9, <1>10, <1>11, <1>12, <1>13 DEF Call

LEMMA CallKeepsBookType ==
    ASSUME TypeOK, NEW p \in Procs, Call(p) \/ Crash(p)
    PROVE  order' \in [Intents -> Broker!Orders] /\ wire' \subseteq Intents
<1>1. CASE UNCHANGED <<order, wire>>
  BY <1>1 DEF TypeOK
<1>2. CASE Broker!HandleRequest(work[p]) /\ work[p] \in Intents /\ UNCHANGED wire
  BY <1>2, HandleRequestType DEF TypeOK
<1>3. CASE work[p] \in Intents /\ RequestOutcome(work[p])
  BY <1>1, <1>2, <1>3 DEF RequestOutcome, TypeOK
<1>4. CASE Crash(p)
  BY <1>1, <1>3, <1>4 DEF Crash, TypeOK
<1>5. CASE SubmitAnswered(p)
  BY <1>2, <1>5 DEF SubmitAnswered, TypeOK
<1>6. CASE SubmitUnknown(p) \/ SubmitError(p)
  BY <1>3, <1>6 DEF SubmitUnknown, SubmitError, TypeOK
<1>7. CASE FindReceipt(p) \/ GetState(p) \/ Restart(p) \/ Authorize(p) \/ Claim(p) \/ SubmitRefused(p)
           \/ Lookup(p) \/ Poll(p) \/ SettleReplaced(p) \/ SettleUnavailable(p)
           \/ SettleUnsubmitted(p) \/ SettleNotFilled(p) \/ SettleOrder(p) \/ WriteReceipt(p)
  BY <1>1, <1>7 DEF FindReceipt, GetState, Restart, Authorize, Claim, SubmitRefused, Lookup, Poll,
     SettleReplaced, SettleUnavailable, SettleUnsubmitted, SettleNotFilled, SettleOrder,
     WriteReceipt
<1>8. QED
  BY <1>4, <1>5, <1>6, <1>7 DEF Call

LEMMA InitType == Init => TypeOK
<1>1. NoReply \in Replies
  BY AnswerType DEF NoReply, ReplyKinds
<1>2. Broker!NoOrder \in Broker!Orders
  BY DEF Broker!NoOrder, Broker!Orders, Broker!OrderStatuses
<1>3. Init => StoreTypeOK
  BY DEF Init, StoreInit, StoreTypeOK, IntentStates, ReservationStates, NoId
<1>4. QED
  BY <1>1, <1>2, <1>3 DEF Init, TypeOK, Points, IntentStates

LEMMA NextType == TypeOK /\ [Next]_vars => TypeOK'
<1> SUFFICES ASSUME TypeOK, [Next]_vars
             PROVE  TypeOK'
  OBVIOUS
<1>1. StoreTypeOK'
  <2>1. CASE UNCHANGED storeVars
    BY <2>1 DEF TypeOK, StoreTypeOK, storeVars
  <2>2. QED
    BY <2>1, StepIsTransaction, TransactionType DEF TypeOK
<1>2. ASSUME NEW p \in Procs, Call(p)
      PROVE  TypeOK'
  BY <1>1, <1>2, CallKeepsCallType, CallKeepsBookType DEF TypeOK, CallTypeOK
<1>3. ASSUME NEW p \in Procs, Crash(p)
      PROVE  TypeOK'
  <2>1. CallTypeOK'
    BY <1>3, LeaveType DEF Crash, TypeOK, CallTypeOK
  <2>2. QED
    BY <1>1, <1>3, <2>1, CallKeepsBookType DEF TypeOK, CallTypeOK
<1>4. ASSUME NEW p \in Procs, NEW i \in Intents, Persist(p, i)
      PROVE  TypeOK'
  BY <1>1, <1>4 DEF Persist, TypeOK, Points
<1>5. ASSUME NEW i \in Intents, LateArrival(i)
      PROVE  TypeOK'
  BY <1>1, <1>5, HandleRequestType DEF LateArrival, TypeOK, callVars
<1>6. ASSUME NEW i \in Intents, MarketMoves(i)
      PROVE  TypeOK'
  <2>1. order' \in [Intents -> Broker!Orders]
    BY <1>6, MarketMovesType DEF TypeOK
  <2>2. QED
    BY <1>1, <1>6, <2>1 DEF MarketMoves, TypeOK, callVars
<1>7. CASE UNCHANGED vars
  BY <1>1, <1>7 DEF TypeOK, vars, callVars
<1>8. QED
  BY <1>2, <1>3, <1>4, <1>5, <1>6, <1>7 DEF Next

(* Every table, the broker's book and the state of every call keep their   *)
(* type, whatever the callers and the broker do.                           *)
THEOREM TypeCorrect == Spec => []TypeOK
BY InitType, NextType, PTL DEF Spec

-----------------------------------------------------------------------------
(* The two tables agree.                                                   *)

LEMMA TransactionKeepsLedger ==
    ASSUME StoreTypeOK, LedgerAgrees, NEW i \in Intents, Transaction(i)
    PROVE  LedgerAgrees'
<1> USE DEF StoreTypeOK, LedgerAgrees, AwaitingBroker, NotFilled, IntentStates, ReservationStates
<1>1. CASE CreateIntent(i)
  BY <1>1 DEF CreateIntent
<1>2. ASSUME NEW capacity \in Nat, AuthorizeWithReservation(i, capacity) PROVE LedgerAgrees'
  BY <1>2 DEF AuthorizeWithReservation, AuthorizeAllowed
<1>3. CASE ClaimSubmission(i)
  BY <1>3 DEF ClaimSubmission, ShouldSubmit
<1>4. ASSUME NEW id \in Nat, NEW next \in {"SUBMITTING", "PARTIALLY_FILLED", "RECONCILED"},
             RecordBrokerOrder(i, id, next)
      PROVE  LedgerAgrees'
  BY <1>4 DEF RecordBrokerOrder, RecordAllowed, BrokerTransitionValid
<1>5. CASE MarkReplacementPending(i)
  BY <1>5 DEF MarkReplacementPending, ReplacementAllowed
<1>6. CASE MarkAckUnknown(i)
  BY <1>6 DEF MarkAckUnknown, AckUnknownAllowed
<1>7. ASSUME NEW state \in NotFilled, NEW id \in Nat, MarkNotFilled(i, state, id)
      PROVE  LedgerAgrees'
  BY <1>7 DEF MarkNotFilled, NotFilledAllowed
<1>8. CASE RecoverSubmission(i)
  BY <1>8 DEF RecoverSubmission, RecoverAllowed
<1>9. CASE SaveReceipt(i)
  BY <1>9 DEF SaveReceipt
<1>10. QED
  BY <1>1, <1>2, <1>3, <1>4, <1>5, <1>6, <1>7, <1>8, <1>9 DEF Transaction

(* The reservation of an intent always says what its state says (see       *)
(* LedgerAgrees): no interleaving of callers, lost answers and crashes     *)
(* frees risk early or keeps it after the end.                             *)
THEOREM LedgerCorrect == Spec => []LedgerAgrees
<1>1. Init => LedgerAgrees
  BY DEF Init, StoreInit, LedgerAgrees, AwaitingBroker, NotFilled
<1>2. TypeOK /\ LedgerAgrees /\ [Next]_vars => LedgerAgrees'
  <2> SUFFICES ASSUME TypeOK, LedgerAgrees, [Next]_vars
               PROVE  LedgerAgrees'
    OBVIOUS
  <2>1. CASE UNCHANGED storeVars
    BY <2>1 DEF LedgerAgrees, storeVars
  <2>2. QED
    BY <2>1, StepIsTransaction, TransactionKeepsLedger DEF TypeOK
<1>3. QED
  BY <1>1, <1>2, TypeCorrect, PTL DEF Spec

-----------------------------------------------------------------------------
(* An outcome is final.                                                    *)

LEMMA TransactionKeepsOutcome ==
    ASSUME StoreTypeOK, LedgerAgrees, NEW i \in Intents, Transaction(i), NEW j \in Intents,
           intentState[j] \in {"RECONCILED"} \cup NotFilled
    PROVE  intentState'[j] = intentState[j] /\ reservation'[j] = reservation[j]
<1> USE DEF StoreTypeOK, LedgerAgrees, AwaitingBroker, NotFilled
<1>1. CASE CreateIntent(i)
  BY <1>1 DEF CreateIntent
<1>2. ASSUME NEW capacity \in Nat, AuthorizeWithReservation(i, capacity)
      PROVE  intentState'[j] = intentState[j] /\ reservation'[j] = reservation[j]
  BY <1>2 DEF AuthorizeWithReservation, AuthorizeAllowed
<1>3. CASE ClaimSubmission(i)
  BY <1>3 DEF ClaimSubmission, ShouldSubmit
<1>4. ASSUME NEW id \in Nat, NEW next \in {"SUBMITTING", "PARTIALLY_FILLED", "RECONCILED"},
             RecordBrokerOrder(i, id, next)
      PROVE  intentState'[j] = intentState[j] /\ reservation'[j] = reservation[j]
  BY <1>4 DEF RecordBrokerOrder, RecordAllowed, BrokerTransitionValid
<1>5. CASE MarkReplacementPending(i)
  BY <1>5 DEF MarkReplacementPending, ReplacementAllowed
<1>6. CASE MarkAckUnknown(i)
  BY <1>6 DEF MarkAckUnknown, AckUnknownAllowed
<1>7. ASSUME NEW state \in NotFilled, NEW id \in Nat, MarkNotFilled(i, state, id)
      PROVE  intentState'[j] = intentState[j] /\ reservation'[j] = reservation[j]
  BY <1>7 DEF MarkNotFilled, NotFilledAllowed
<1>8. CASE RecoverSubmission(i)
  BY <1>8 DEF RecoverSubmission, RecoverAllowed
<1>9. CASE SaveReceipt(i)
  BY <1>9 DEF SaveReceipt
<1>10. QED
  BY <1>1, <1>2, <1>3, <1>4, <1>5, <1>6, <1>7, <1>8, <1>9 DEF Transaction

(* No late, repeated or contradictory answer of the broker and no second   *)
(* caller moves an intent that is reconciled, rejected or canceled, or its *)
(* reservation (store.py:591-598 and :682-688).                            *)
THEOREM OutcomesAreFinal == Spec => OutcomeIsFinal
<1>1. TypeOK /\ LedgerAgrees /\ [Next]_vars =>
        [\A i \in Intents : intentState[i] \in {"RECONCILED"} \cup NotFilled =>
            intentState'[i] = intentState[i] /\ reservation'[i] = reservation[i]]_vars
  <2> SUFFICES ASSUME TypeOK, LedgerAgrees, [Next]_vars, NEW j \in Intents,
                      intentState[j] \in {"RECONCILED"} \cup NotFilled
               PROVE  intentState'[j] = intentState[j] /\ reservation'[j] = reservation[j]
    OBVIOUS
  <2>1. CASE UNCHANGED storeVars
    BY <2>1 DEF storeVars
  <2>2. QED
    BY <2>1, StepIsTransaction, TransactionKeepsOutcome DEF TypeOK
<1>2. QED
  BY <1>1, TypeCorrect, LedgerCorrect, PTL DEF Spec, OutcomeIsFinal

-----------------------------------------------------------------------------
(* One submitter at a time.                                                *)

LEMMA OnlyTheCallerMoves ==
    ASSUME TypeOK, NEW p \in Procs, Call(p) \/ Crash(p), NEW q \in Procs, q # p
    PROVE  /\ pc'[q] = pc[q]
           /\ work'[q] = work[q]
           /\ shouldSubmit'[q] = shouldSubmit[q]
           /\ claimState'[q] = claimState[q]
           /\ reply'[q] = reply[q]
<1> USE DEF TypeOK, GoTo, Hear, EndCall, Leave, Raise
<1>1. CASE FindReceipt(p) \/ GetState(p) \/ Restart(p) \/ Authorize(p)
  BY <1>1 DEF FindReceipt, GetState, Restart, Authorize
<1>2. CASE Claim(p)
  BY <1>2 DEF Claim
<1>3. CASE SubmitAnswered(p) \/ SubmitRefused(p) \/ SubmitUnknown(p) \/ SubmitError(p)
  BY <1>3 DEF SubmitAnswered, SubmitRefused, SubmitUnknown, SubmitError
<1>4. CASE Lookup(p) \/ Poll(p)
  BY <1>4 DEF Lookup, Poll
<1>5. CASE SettleReplaced(p) \/ SettleUnavailable(p) \/ SettleUnsubmitted(p) \/ SettleNotFilled(p)
  BY <1>5 DEF SettleReplaced, SettleUnavailable, SettleUnsubmitted, SettleNotFilled
<1>6. CASE SettleOrder(p) \/ WriteReceipt(p) \/ Crash(p)
  BY <1>6 DEF SettleOrder, WriteReceipt, Crash
<1>7. QED
  BY <1>1, <1>2, <1>3, <1>4, <1>5, <1>6 DEF Call

(* A step of p leaves the claim of another call alone.                     *)
LEMMA OthersKeepTheirClaim ==
    ASSUME "mismatch" \notin Faults, TypeOK, SingleSubmitter, ClaimHeld,
           NEW p \in Procs, Call(p) \/ Crash(p), NEW q \in Procs, q # p, Submitting(q)
    PROVE  intentState'[work[q]] \notin {"none", "VALIDATED", "AUTHORIZED"}
<1>1. intentState[work[q]] \notin {"none", "VALIDATED", "AUTHORIZED"} /\ work[q] \in Intents
  BY DEF ClaimHeld, Submitting, TypeOK
<1> DEFINE Held == intentState'[work[q]] \notin {"none", "VALIDATED", "AUTHORIZED"}
<1> USE <1>1 DEF TypeOK, StoreTypeOK
<1>2. CASE UNCHANGED storeVars
  BY <1>2 DEF storeVars
<1>3. CASE Authorize(p)
  BY <1>2, <1>3 DEF Authorize, Raise, AuthorizeWithReservation, AuthorizeAllowed
<1>4. CASE Claim(p)
  BY <1>2, <1>4 DEF Claim, Raise, ClaimSubmission, ShouldSubmit
<1>5. CASE SettleReplaced(p) \/ SettleUnavailable(p)
  BY <1>2, <1>5 DEF SettleReplaced, SettleUnavailable, Raise, MarkReplacementPending, MarkAckUnknown
<1>6. CASE SettleUnsubmitted(p)
  <2>1. Submitting(p)
    BY <1>6 DEF SettleUnsubmitted, ClaimHeld, Settling, Submitting
  <2>2. work[p] # work[q]
    BY <2>1 DEF SingleSubmitter
  <2>3. QED
    BY <1>2, <1>6, <2>2 DEF SettleUnsubmitted, Raise, RecoverSubmission
<1>7. CASE SettleNotFilled(p)
  BY <1>2, <1>7 DEF SettleNotFilled, Raise, MarkNotFilled
<1>8. CASE SettleOrder(p)
  BY <1>2, <1>8 DEF SettleOrder, Raise, RecordBrokerOrder, NextState
<1>9. CASE WriteReceipt(p)
  BY <1>2, <1>9 DEF WriteReceipt, Raise, SaveReceipt
<1>10. CASE FindReceipt(p) \/ GetState(p) \/ Restart(p) \/ SubmitAnswered(p) \/ SubmitRefused(p) \/ SubmitUnknown(p)
            \/ SubmitError(p) \/ Lookup(p) \/ Poll(p) \/ Crash(p)
  BY <1>2, <1>10 DEF FindReceipt, GetState, Restart, SubmitAnswered, SubmitRefused, SubmitUnknown,
     SubmitError, Lookup, Poll, Crash
<1>11. QED
  BY <1>3, <1>4, <1>5, <1>6, <1>7, <1>8, <1>9, <1>10 DEF Call

(* What a step of p makes of p's own claim.                                *)
LEMMA CallerKeepsItsClaim ==
    ASSUME "mismatch" \notin Faults, TypeOK, ClaimHeld, NEW p \in Procs, Call(p) \/ Crash(p)
    PROVE  /\ Submitting(p)' =>
                 /\ intentState'[work'[p]] \notin {"none", "VALIDATED", "AUTHORIZED"}
                 /\ work'[p] = work[p]
                 /\ \/ Submitting(p)
                    \/ intentState[work[p]] = "AUTHORIZED"
           /\ pc'[p] \in {"submit", "lookup"} => shouldSubmit'[p]
           /\ pc'[p] = "poll" => ~shouldSubmit'[p]
           /\ Settling(p, {"missing", "error", "refused"})' => shouldSubmit'[p]
           /\ ~Settling(p, {"mismatch"})'
<1> USE DEF TypeOK, StoreTypeOK, Submitting, Settling
<1>1. CASE EndCall(p) \/ Leave(p, "down")
  BY <1>1 DEF EndCall, Leave
<1>2. CASE GoTo(p, "idle") \/ GoTo(p, "get_state") \/ GoTo(p, "authorize") \/ GoTo(p, "claim") \/ GoTo(p, "receipt")
  BY <1>2 DEF GoTo
<1>3. CASE FindReceipt(p) \/ GetState(p) \/ Restart(p) \/ Authorize(p)
  BY <1>1, <1>2, <1>3 DEF FindReceipt, GetState, Restart, Authorize, Raise
<1>4. CASE Claim(p)
  <2>1. CASE Raise(p)
    BY <1>1, <2>1 DEF Raise
  <2>2. CASE /\ ClaimSubmission(work[p])
             /\ shouldSubmit' = [shouldSubmit EXCEPT ![p] = ShouldSubmit(work[p])]
             /\ pc' = [pc EXCEPT ![p] = IF ShouldSubmit(work[p]) THEN "submit" ELSE "poll"]
             /\ UNCHANGED <<work, reply>>
    BY <1>4, <2>2 DEF Claim, ClaimSubmission, ShouldSubmit
  <2>3. QED
    BY <1>4, <2>1, <2>2 DEF Claim
<1>5. CASE SubmitAnswered(p) \/ SubmitRefused(p) \/ SubmitUnknown(p) \/ SubmitError(p)
  <2>1. shouldSubmit[p] /\ Submitting(p) /\ work[p] \in Intents
    BY <1>5 DEF ClaimHeld, SubmitAnswered, SubmitRefused, SubmitUnknown, SubmitError
  <2>2. intentState' = intentState /\ work' = work /\ shouldSubmit' = shouldSubmit
    BY <1>5 DEF SubmitAnswered, SubmitRefused, SubmitUnknown, SubmitError, Hear, GoTo, storeVars
  <2>3. pc'[p] = "lookup" \/ (pc'[p] = "settle" /\ reply'[p].kind # "mismatch")
    BY <1>5 DEF SubmitAnswered, SubmitRefused, SubmitUnknown, SubmitError, Hear, GoTo, Answer, Read
  <2>4. QED
    BY <2>1, <2>2, <2>3 DEF ClaimHeld
<1>6. CASE Lookup(p)
  <2>1. shouldSubmit[p] /\ Submitting(p) /\ work[p] \in Intents
    BY <1>6 DEF ClaimHeld, Lookup
  <2>2. intentState' = intentState /\ work' = work /\ shouldSubmit' = shouldSubmit
    BY <1>6 DEF Lookup, Hear, storeVars
  <2>3. pc'[p] = "settle" /\ reply'[p].kind # "mismatch"
    BY <1>6 DEF Lookup, Hear, Answer, Read, LookupAnswers
  <2>4. QED
    BY <2>1, <2>2, <2>3 DEF ClaimHeld
<1>7. CASE Poll(p)
  <2>1. PICK answer \in LookupAnswers(work[p]) :
            IF answer.kind \in {"order", "mismatch"} THEN Hear(p, answer, "settle") ELSE EndCall(p)
    BY <1>7 DEF Poll
  <2>2. answer.kind # "mismatch"
    BY DEF LookupAnswers, Answer, Read
  <2>3. CASE Hear(p, answer, "settle") /\ answer.kind = "order"
    <3>1. pc'[p] = "settle" /\ reply'[p].kind = "order" /\ shouldSubmit' = shouldSubmit
      BY <2>3 DEF Hear
    <3>2. ~shouldSubmit[p]
      BY <1>7 DEF Poll, ClaimHeld
    <3>3. QED
      BY <3>1, <3>2
  <2>4. QED
    BY <1>1, <2>1, <2>2, <2>3
<1>8. CASE SettleReplaced(p) \/ SettleUnavailable(p) \/ SettleUnsubmitted(p) \/ SettleNotFilled(p)
           \/ SettleOrder(p) \/ WriteReceipt(p) \/ Crash(p)
  BY <1>1, <1>2, <1>8 DEF SettleReplaced, SettleUnavailable, SettleUnsubmitted, SettleNotFilled,
     SettleOrder, WriteReceipt, Crash, Raise
<1>9. QED
  BY <1>3, <1>4, <1>5, <1>6, <1>7, <1>8 DEF Call

(* A call that has just won or still holds a claim is the only one.        *)
LEMMA StepKeepsTheClaim ==
    ASSUME "mismatch" \notin Faults, TypeOK, SingleSubmitter, ClaimHeld,
           NEW p \in Procs, Call(p) \/ Crash(p)
    PROVE  SingleSubmitter' /\ ClaimHeld'
<1>1. ASSUME NEW q \in Procs, q # p
      PROVE  /\ pc'[q] = pc[q] /\ work'[q] = work[q] /\ shouldSubmit'[q] = shouldSubmit[q]
             /\ reply'[q] = reply[q]
             /\ Submitting(q)' = Submitting(q)
  BY <1>1, OnlyTheCallerMoves DEF Submitting
<1>2. ClaimHeld'
  <2> SUFFICES ASSUME NEW q \in Procs
               PROVE  /\ Submitting(q)' => intentState'[work'[q]] \notin {"none", "VALIDATED", "AUTHORIZED"}
                      /\ pc'[q] \in {"submit", "lookup"} => shouldSubmit'[q]
                      /\ pc'[q] = "poll" => ~shouldSubmit'[q]
                      /\ Settling(q, {"missing", "error", "refused"})' => shouldSubmit'[q]
                      /\ ~Settling(q, {"mismatch"})'
    BY DEF ClaimHeld
  <2>1. CASE q = p
    BY <2>1, CallerKeepsItsClaim
  <2>2. CASE q # p
    BY <2>2, <1>1, OthersKeepTheirClaim DEF ClaimHeld, Settling
  <2>3. QED
    BY <2>1, <2>2
<1>3. ASSUME NEW q \in Procs, q # p, Submitting(p)', Submitting(q)', work'[p] = work'[q]
      PROVE  FALSE
  <2>1. Submitting(q) /\ work[p] = work[q]
    BY <1>1, <1>3, CallerKeepsItsClaim
  <2>2. ~Submitting(p)
    BY <2>1, <1>3 DEF SingleSubmitter
  <2>3. intentState[work[p]] = "AUTHORIZED"
    BY <2>2, <1>3, CallerKeepsItsClaim
  <2>4. QED
    BY <2>1, <2>3 DEF ClaimHeld
<1>4. SingleSubmitter'
  BY <1>1, <1>3 DEF SingleSubmitter
<1>5. QED
  BY <1>2, <1>4

(* Steps outside execute leave every claim as it is.                       *)
LEMMA OtherStepsKeepTheClaim ==
    ASSUME TypeOK, SingleSubmitter, ClaimHeld,
           \/ \E p \in Procs, i \in Intents : Persist(p, i)
           \/ \E i \in Intents : LateArrival(i) \/ MarketMoves(i)
           \/ UNCHANGED vars
    PROVE  SingleSubmitter' /\ ClaimHeld'
<1>1. CASE \E i \in Intents : LateArrival(i) \/ MarketMoves(i)
  BY <1>1 DEF LateArrival, MarketMoves, vars, callVars, storeVars, SingleSubmitter, ClaimHeld,
     Submitting, Settling
<1>2. CASE UNCHANGED vars
  BY <1>2 DEF vars, callVars, storeVars, SingleSubmitter, ClaimHeld, Submitting, Settling
<1>3. ASSUME NEW p \in Procs, NEW i \in Intents, Persist(p, i)
      PROVE  SingleSubmitter' /\ ClaimHeld'
  <2>1. \A q \in Procs :
            /\ shouldSubmit'[q] = shouldSubmit[q] /\ reply'[q] = reply[q]
            /\ q # p => pc'[q] = pc[q] /\ work'[q] = work[q]
    BY <1>3 DEF Persist, TypeOK
  <2>2. pc'[p] = "find_receipt"
    BY <1>3 DEF Persist, TypeOK
  <2>3. \A q \in Procs : Submitting(q)' => q # p /\ Submitting(q)
    BY <2>1, <2>2 DEF Submitting
  <2>4. \A j \in Intents : intentState[j] \notin {"none", "VALIDATED", "AUTHORIZED"} =>
                              intentState'[j] = intentState[j]
    BY <1>3 DEF Persist, CreateIntent, TypeOK, StoreTypeOK
  <2>5. \A q \in Procs : Submitting(q) => work[q] \in Intents
    BY DEF Submitting, TypeOK
  <2>6. SingleSubmitter'
    BY <2>1, <2>3 DEF SingleSubmitter
  <2>7. ClaimHeld'
    <3> SUFFICES ASSUME NEW q \in Procs
                 PROVE  /\ Submitting(q)' => intentState'[work'[q]] \notin {"none", "VALIDATED", "AUTHORIZED"}
                        /\ pc'[q] \in {"submit", "lookup"} => shouldSubmit'[q]
                        /\ pc'[q] = "poll" => ~shouldSubmit'[q]
                        /\ Settling(q, {"missing", "error", "refused"})' => shouldSubmit'[q]
                        /\ ~Settling(q, {"mismatch"})'
      BY DEF ClaimHeld
    <3>1. Submitting(q)' => intentState'[work'[q]] \notin {"none", "VALIDATED", "AUTHORIZED"}
      BY <2>1, <2>3, <2>4, <2>5 DEF ClaimHeld
    <3>2. /\ pc'[q] \in {"submit", "lookup"} => shouldSubmit'[q]
          /\ pc'[q] = "poll" => ~shouldSubmit'[q]
      BY <2>1, <2>2 DEF ClaimHeld
    <3>3. /\ Settling(q, {"missing", "error", "refused"})' => shouldSubmit'[q]
          /\ ~Settling(q, {"mismatch"})'
      BY <2>1, <2>2 DEF ClaimHeld, Settling
    <3>4. QED
      BY <3>1, <3>2, <3>3
  <2>8. QED
    BY <2>6, <2>7
<1>4. QED
  BY <1>1, <1>2, <1>3

(* However many callers race, restart and reset claims, at most one at a   *)
(* time holds the right to submit an intent, as long as no answer carries  *)
(* another intent's client order id (execution.py:20-61, store.py:546-566).*)
THEOREM SubmittersExclusive ==
    ASSUME "mismatch" \notin Faults
    PROVE  Spec => []SingleSubmitter
<1>1. Init => SingleSubmitter /\ ClaimHeld
  BY DEF Init, SingleSubmitter, ClaimHeld, Submitting, Settling
<1>2. TypeOK /\ SingleSubmitter /\ ClaimHeld /\ [Next]_vars => SingleSubmitter' /\ ClaimHeld'
  BY StepKeepsTheClaim, OtherStepsKeepTheClaim DEF Next
<1>3. QED
  BY <1>1, <1>2, TypeCorrect, PTL DEF Spec

-----------------------------------------------------------------------------
(* Reconciliation and receipts tell the truth about the broker's book.     *)

(* An order that is filled or dead is never touched again.                 *)
LEMMA SettledOrderStands ==
    ASSUME order \in [Intents -> Broker!Orders], NEW i \in Intents,
           order[i].status \in {"filled"} \cup Broker!Dead,
           NEW j \in Intents, Broker!HandleRequest(j) \/ MarketMoves(j)
    PROVE  order'[i] = order[i]
<1>1. order[i].status \notin {"absent", "new", "partially_filled", "replaced"}
  BY DEF Broker!Dead
<1>2. CASE Broker!HandleRequest(j)
  <2>1. CASE i = j
    BY <1>1, <1>2, <2>1 DEF Broker!HandleRequest, Broker!AfterRequest
  <2>2. CASE i # j
    BY <1>2, <2>2 DEF Broker!HandleRequest
  <2>3. QED
    BY <2>1, <2>2
<1>3. CASE MarketMoves(j)
  <2>1. CASE i = j
    BY <1>1, <1>3, <2>1 DEF MarketMoves, Broker!Fill, Broker!Reject, Broker!Cancel, Broker!Replace,
       Broker!ShowReplacement
  <2>2. CASE i # j
    BY <1>3, <2>2 DEF MarketMoves, Broker!Fill, Broker!Reject, Broker!Cancel, Broker!Replace,
       Broker!ShowReplacement
  <2>3. QED
    BY <2>1, <2>2
<1>4. QED
  BY <1>2, <1>3

LEMMA StepKeepsSettledOrders ==
    ASSUME TypeOK, [Next]_vars, NEW i \in Intents,
           order[i].status \in {"filled"} \cup Broker!Dead
    PROVE  order'[i] = order[i]
<1> USE DEF TypeOK
<1>1. ASSUME NEW p \in Procs, Call(p) \/ Crash(p) PROVE order'[i] = order[i]
  <2>1. order' = order \/ (pc[p] \notin {"idle", "down"} /\ Broker!HandleRequest(work[p]))
    BY <1>1 DEF Call, FindReceipt, GetState, Restart, Authorize, Claim, SubmitAnswered, SubmitRefused,
       SubmitUnknown, SubmitError, RequestOutcome, Lookup, Poll, SettleReplaced, SettleUnavailable,
       SettleUnsubmitted, SettleNotFilled, SettleOrder, WriteReceipt, Crash
  <2>2. QED
    BY <2>1, SettledOrderStands
<1>2. ASSUME NEW p \in Procs, NEW j \in Intents, Persist(p, j) PROVE order'[i] = order[i]
  BY <1>2 DEF Persist
<1>3. ASSUME NEW j \in Intents, LateArrival(j) \/ MarketMoves(j) PROVE order'[i] = order[i]
  BY <1>3, SettledOrderStands DEF LateArrival
<1>4. QED
  BY <1>1, <1>2, <1>3 DEF Next, vars

(* A reconciled row keeps its state and the order id it names.             *)
LEMMA ReconciledRowStands ==
    ASSUME TypeOK, [Next]_vars, NEW j \in Intents, intentState[j] = "RECONCILED"
    PROVE  intentState'[j] = "RECONCILED" /\ brokerOrderId'[j] = brokerOrderId[j]
<1> DEFINE Stands == intentState'[j] = "RECONCILED" /\ brokerOrderId'[j] = brokerOrderId[j]
<1>1. CASE UNCHANGED storeVars
  BY <1>1 DEF storeVars
<1>2. ASSUME NEW i \in Intents, Transaction(i) PROVE Stands
  <2> USE DEF TypeOK, StoreTypeOK
  <2>1. CASE CreateIntent(i) \/ ClaimSubmission(i) \/ SaveReceipt(i)
    BY <2>1 DEF CreateIntent, ClaimSubmission, ShouldSubmit, SaveReceipt
  <2>2. ASSUME NEW capacity \in Nat, AuthorizeWithReservation(i, capacity) PROVE Stands
    BY <2>2 DEF AuthorizeWithReservation, AuthorizeAllowed
  <2>3. ASSUME NEW id \in Nat, NEW next \in {"SUBMITTING", "PARTIALLY_FILLED", "RECONCILED"},
               RecordBrokerOrder(i, id, next)
        PROVE  Stands
    BY <2>3 DEF RecordBrokerOrder, RecordAllowed, BrokerTransitionValid
  <2>4. CASE MarkReplacementPending(i) \/ MarkAckUnknown(i) \/ RecoverSubmission(i)
    BY <2>4 DEF MarkReplacementPending, ReplacementAllowed, MarkAckUnknown, AckUnknownAllowed,
       RecoverSubmission, RecoverAllowed
  <2>5. ASSUME NEW state \in NotFilled, NEW id \in Nat, MarkNotFilled(i, state, id) PROVE Stands
    BY <2>5 DEF MarkNotFilled, NotFilledAllowed, AwaitingBroker
  <2>6. QED
    BY <1>2, <2>1, <2>2, <2>3, <2>4, <2>5 DEF Transaction
<1>3. QED
  BY <1>1, <1>2, StepIsTransaction

(* Only a filled order that a call has read makes an intent reconciled.    *)
LEMMA OnlyAFillReconciles ==
    ASSUME TypeOK, [Next]_vars, NEW i \in Intents,
           intentState[i] # "RECONCILED", intentState'[i] = "RECONCILED"
    PROVE  \E p \in Procs :
              /\ work[p] = i
              /\ Settling(p, {"order"})
              /\ reply[p].status = "filled"
              /\ brokerOrderId'[i] = reply[p].id
<1> USE DEF TypeOK, StoreTypeOK
<1>1. PICK p \in Procs : Call(p) \/ \E j \in Intents : Persist(p, j)
  BY DEF Next, vars, storeVars, Crash, LateArrival, MarketMoves
<1>2. ~\E j \in Intents : Persist(p, j)
  BY DEF Persist, CreateIntent
<1>3. CASE FindReceipt(p) \/ GetState(p) \/ Restart(p) \/ SubmitAnswered(p) \/ SubmitRefused(p) \/ SubmitUnknown(p)
           \/ SubmitError(p) \/ Lookup(p) \/ Poll(p) \/ WriteReceipt(p)
  BY <1>3 DEF FindReceipt, GetState, Restart, SubmitAnswered, SubmitRefused, SubmitUnknown, SubmitError,
     Lookup, Poll, WriteReceipt, SaveReceipt, Raise, storeVars
<1>4. CASE Authorize(p) \/ Claim(p)
  BY <1>4 DEF Authorize, AuthorizeWithReservation, Claim, ClaimSubmission, Raise, storeVars
<1>5. CASE SettleReplaced(p) \/ SettleUnavailable(p) \/ SettleUnsubmitted(p)
  BY <1>5 DEF SettleReplaced, SettleUnavailable, SettleUnsubmitted, Raise, storeVars,
     MarkReplacementPending, MarkAckUnknown, RecoverSubmission
<1>6. CASE SettleNotFilled(p)
  BY <1>6 DEF SettleNotFilled, MarkNotFilled, Raise, storeVars
<1>7. CASE SettleOrder(p)
  <2>1. RecordBrokerOrder(work[p], reply[p].id, NextState(reply[p].status))
    BY <1>7 DEF SettleOrder, Raise, storeVars
  <2>2. work[p] = i /\ NextState(reply[p].status) = "RECONCILED"
    BY <2>1 DEF RecordBrokerOrder
  <2>3. reply[p].status = "filled"
    BY <1>7, <2>2 DEF SettleOrder, NextState
  <2>4. QED
    BY <1>7, <2>1, <2>2, <2>3 DEF SettleOrder, RecordBrokerOrder
<1>8. QED
  BY <1>1, <1>2, <1>3, <1>4, <1>5, <1>6, <1>7 DEF Call

(* What a step of p makes of the answer and the claim of p itself.         *)
LEMMA CallerKeepsItsAnswer ==
    ASSUME TypeOK, AnswersStand, NEW p \in Procs, Call(p) \/ Crash(p)
    PROVE  /\ Settling(p, {"order"})' => work'[p] = work[p] /\ work[p] \in Intents /\
                 \/ Settling(p, {"order"}) /\ reply'[p] = reply[p]
                 \/ reply'[p] = Read(order'[work[p]])
           /\ pc'[p] = "receipt" => intentState'[work'[p]] = "RECONCILED"
           /\ pc'[p] \in {"submit", "lookup", "poll", "settle"} /\ claimState'[p] = "RECONCILED" =>
                 intentState'[work'[p]] = "RECONCILED"
<1> USE DEF TypeOK, StoreTypeOK, Settling
<1>1. CASE EndCall(p) \/ Leave(p, "down")
  BY <1>1 DEF EndCall, Leave
<1>2. CASE GoTo(p, "idle") \/ GoTo(p, "get_state") \/ GoTo(p, "authorize") \/ GoTo(p, "claim")
  BY <1>2 DEF GoTo
<1>3. CASE FindReceipt(p) \/ GetState(p) \/ Restart(p) \/ Authorize(p)
  BY <1>1, <1>2, <1>3 DEF FindReceipt, GetState, Restart, Authorize, Raise
<1>4. CASE Claim(p)
  BY <1>1, <1>4 DEF Claim, Raise
<1>5. CASE SubmitAnswered(p) \/ SubmitRefused(p) \/ SubmitUnknown(p) \/ SubmitError(p)
  <2>1. UNCHANGED <<work, claimState, intentState>> /\ work[p] \in Intents
    BY <1>5 DEF SubmitAnswered, SubmitRefused, SubmitUnknown, SubmitError, Hear, GoTo, storeVars
  <2>2. pc[p] = "submit" /\ pc'[p] \in {"lookup", "settle"}
    BY <1>5 DEF SubmitAnswered, SubmitRefused, SubmitUnknown, SubmitError, Hear, GoTo
  <2>3. pc'[p] = "settle" /\ reply'[p].kind = "order" => reply'[p] = Read(order'[work[p]])
    BY <1>5 DEF SubmitAnswered, SubmitRefused, SubmitUnknown, SubmitError, Hear, GoTo, Answer
  <2>4. QED
    BY <2>1, <2>2, <2>3 DEF AnswersStand
<1>6. CASE Lookup(p) \/ Poll(p)
  <2>1. PICK answer \in LookupAnswers(work[p]) : Hear(p, answer, "settle") \/ EndCall(p)
    BY <1>6 DEF Lookup, Poll
  <2>2. answer.kind = "order" => answer = Read(order'[work[p]])
    BY <1>6 DEF Lookup, Poll, LookupAnswers, Answer
  <2>3. CASE Hear(p, answer, "settle")
    BY <1>6, <2>2, <2>3 DEF Lookup, Poll, Hear, AnswersStand, storeVars
  <2>4. QED
    BY <1>1, <2>1, <2>3
<1>7. CASE SettleOrder(p)
  <2>1. pc[p] = "settle" /\ work[p] \in Intents
    BY <1>7 DEF SettleOrder
  <2>2. CASE EndCall(p)
    BY <1>1, <2>2
  <2>3. CASE GoTo(p, "receipt") /\ NextState(reply[p].status) = "RECONCILED"
             /\ RecordBrokerOrder(work[p], reply[p].id, NextState(reply[p].status))
    BY <2>1, <2>3 DEF GoTo, RecordBrokerOrder
  <2>4. CASE GoTo(p, "receipt") /\ claimState[p] = "RECONCILED" /\ UNCHANGED storeVars
    BY <2>1, <2>4 DEF GoTo, AnswersStand, storeVars
  <2>5. QED
    BY <1>7, <2>2, <2>3, <2>4 DEF SettleOrder, Raise
<1>8. CASE SettleReplaced(p) \/ SettleUnavailable(p) \/ SettleUnsubmitted(p) \/ SettleNotFilled(p)
           \/ WriteReceipt(p) \/ Crash(p)
  BY <1>1, <1>8 DEF SettleReplaced, SettleUnavailable, SettleUnsubmitted, SettleNotFilled,
     WriteReceipt, Crash, Raise
<1>9. QED
  BY <1>3, <1>4, <1>5, <1>6, <1>7, <1>8 DEF Call

LEMMA AnswersKeepStanding ==
    ASSUME TypeOK, TypeOK', AnswersStand, [Next]_vars
    PROVE  AnswersStand'
<1>1. \A i \in Intents : order[i].status \in {"filled"} \cup Broker!Dead => order'[i] = order[i]
  BY StepKeepsSettledOrders
<1>2. \A i \in Intents : intentState[i] = "RECONCILED" => intentState'[i] = "RECONCILED"
  BY ReconciledRowStands
<1>3. SUFFICES ASSUME NEW q \in Procs
               PROVE  /\ Settling(q, {"order"})' /\ reply'[q].status \in {"filled"} \cup Broker!Dead =>
                            /\ order'[work'[q]].status = reply'[q].status
                            /\ order'[work'[q]].id = reply'[q].id
                      /\ \/ pc'[q] = "receipt"
                         \/ /\ pc'[q] \in {"submit", "lookup", "poll", "settle"}
                            /\ claimState'[q] = "RECONCILED"
                         => intentState'[work'[q]] = "RECONCILED"
  BY DEF AnswersStand
<1>4. CASE /\ UNCHANGED <<pc[q], work[q], claimState[q], reply[q]>>
  <2>1. pc[q] \notin {"idle", "down"} => work[q] \in Intents
    BY DEF TypeOK
  <2>2. QED
    BY <1>1, <1>2, <1>4, <2>1 DEF AnswersStand, Settling
<1>5. CASE Call(q) \/ Crash(q)
  <2>1. ASSUME Settling(q, {"order"})', reply'[q].status \in {"filled"} \cup Broker!Dead
        PROVE  /\ order'[work'[q]].status = reply'[q].status
               /\ order'[work'[q]].id = reply'[q].id
    <3>1. work'[q] = work[q] /\ work[q] \in Intents
      BY <1>5, <2>1, CallerKeepsItsAnswer
    <3>2. CASE Settling(q, {"order"}) /\ reply'[q] = reply[q]
      BY <1>1, <2>1, <3>1, <3>2 DEF AnswersStand
    <3>3. CASE reply'[q] = Read(order'[work[q]])
      BY <2>1, <3>1, <3>3 DEF Read, Answer, Settling
    <3>4. QED
      BY <1>5, <2>1, <3>2, <3>3, CallerKeepsItsAnswer
  <2>2. QED
    BY <1>5, <2>1, CallerKeepsItsAnswer
<1>6. ASSUME NEW i \in Intents, Persist(q, i)
      PROVE  pc'[q] = "find_receipt"
  BY <1>6 DEF Persist, TypeOK
<1>7. ASSUME NEW p \in Procs, p # q, Call(p) \/ Crash(p) \/ \E i \in Intents : Persist(p, i)
      PROVE  UNCHANGED <<pc[q], work[q], claimState[q], reply[q]>>
  BY <1>7, OnlyTheCallerMoves DEF Persist, TypeOK
<1>8. ASSUME UNCHANGED callVars
      PROVE  UNCHANGED <<pc[q], work[q], claimState[q], reply[q]>>
  BY <1>8 DEF callVars
<1>9. QED
  BY <1>4, <1>5, <1>6, <1>7, <1>8 DEF Next, LateArrival, MarketMoves, vars, Settling

(* A reconciled intent names the very order the broker filled, through     *)
(* replacements, lost answers, resubmissions and any number of callers.    *)
THEOREM ReconciliationIsTrue == Spec => []ReconciledIsFilled
<1>1. Init => ReconciledIsFilled /\ AnswersStand
  BY DEF Init, StoreInit, ReconciledIsFilled, AnswersStand, Settling
<1>2. TypeOK /\ TypeOK' /\ ReconciledIsFilled /\ AnswersStand /\ [Next]_vars =>
        ReconciledIsFilled' /\ AnswersStand'
  <2> SUFFICES ASSUME TypeOK, TypeOK', ReconciledIsFilled, AnswersStand, [Next]_vars,
                      NEW i \in Intents, intentState'[i] = "RECONCILED"
               PROVE  order'[i].status = "filled" /\ brokerOrderId'[i] = order'[i].id
    BY AnswersKeepStanding DEF ReconciledIsFilled
  <2>1. CASE intentState[i] = "RECONCILED"
    BY <2>1, ReconciledRowStands, StepKeepsSettledOrders DEF ReconciledIsFilled
  <2>2. CASE intentState[i] # "RECONCILED"
    BY <2>2, OnlyAFillReconciles, StepKeepsSettledOrders DEF AnswersStand
  <2>3. QED
    BY <2>1, <2>2
<1>3. QED
  BY <1>1, <1>2, TypeCorrect, PTL DEF Spec

LEMMA OnlyACallSavesReceipts ==
    ASSUME TypeOK, [Next]_vars, NEW i \in Intents, ~receipt[i], receipt'[i]
    PROVE  \E p \in Procs : WriteReceipt(p) /\ work[p] = i
<1> USE DEF TypeOK, StoreTypeOK
<1>1. PICK p \in Procs : Call(p)
  BY DEF Next, vars, storeVars, Crash, Persist, CreateIntent, LateArrival, MarketMoves
<1>2. CASE FindReceipt(p) \/ GetState(p) \/ Restart(p) \/ SubmitAnswered(p) \/ SubmitRefused(p) \/ SubmitUnknown(p)
           \/ SubmitError(p) \/ Lookup(p) \/ Poll(p)
  BY <1>2 DEF FindReceipt, GetState, Restart, SubmitAnswered, SubmitRefused, SubmitUnknown, SubmitError,
     Lookup, Poll, Raise, storeVars
<1>3. CASE Authorize(p) \/ Claim(p) \/ SettleReplaced(p) \/ SettleUnavailable(p)
           \/ SettleUnsubmitted(p) \/ SettleNotFilled(p) \/ SettleOrder(p)
  BY <1>3 DEF Authorize, AuthorizeWithReservation, Claim, ClaimSubmission, SettleReplaced,
     SettleUnavailable, SettleUnsubmitted, SettleNotFilled, SettleOrder, Raise, storeVars,
     MarkReplacementPending, MarkAckUnknown, RecoverSubmission, MarkNotFilled, RecordBrokerOrder
<1>4. CASE WriteReceipt(p)
  BY <1>4 DEF WriteReceipt, SaveReceipt, Raise, storeVars
<1>5. QED
  BY <1>1, <1>2, <1>3, <1>4 DEF Call

(* A receipt, which says "filled", is only ever saved for an intent that   *)
(* is reconciled (agent.py:924-953 after execution.py:88-98).              *)
THEOREM ReceiptsAreReconciled == Spec => []ReceiptIsReconciled
<1>1. Init => ReceiptIsReconciled /\ AnswersStand
  BY DEF Init, StoreInit, ReceiptIsReconciled, AnswersStand, Settling
<1>2. TypeOK /\ TypeOK' /\ ReceiptIsReconciled /\ AnswersStand /\ [Next]_vars =>
        ReceiptIsReconciled' /\ AnswersStand'
  <2> SUFFICES ASSUME TypeOK, TypeOK', ReceiptIsReconciled, AnswersStand, [Next]_vars,
                      NEW i \in Intents, receipt'[i]
               PROVE  intentState'[i] = "RECONCILED"
    BY AnswersKeepStanding DEF ReceiptIsReconciled
  <2>1. CASE receipt[i]
    BY <2>1, ReconciledRowStands DEF ReceiptIsReconciled
  <2>2. CASE ~receipt[i]
    <3>1. PICK p \in Procs : WriteReceipt(p) /\ work[p] = i
      BY <2>2, OnlyACallSavesReceipts
    <3>2. QED
      BY <3>1, ReconciledRowStands DEF WriteReceipt, AnswersStand
  <2>3. QED
    BY <2>1, <2>2
<1>3. QED
  BY <1>1, <1>2, TypeCorrect, PTL DEF Spec

-----------------------------------------------------------------------------
(* Risk within the ceiling.  Holding are the intents that Reserved sums up.*)

Holding == {i \in Intents : reservation[i] \in {"active", "consumed"}}

LEMMA ReservedIsSum == Reserved = SumFunctionOnSet(Amount, Holding)
BY DEF Reserved, Total, Holding

LEMMA CapacityIsCapped ==
    ASSUME NEW p \in Procs, NEW buyingPower \in BuyingPowers
    PROVE  Capacity(p, buyingPower) \in Nat /\ Capacity(p, buyingPower) <= Ceiling
BY ExecutionAssumption DEF Capacity, Ceiling

(* A new hold was authorized within somebody's capacity.                   *)
LEMMA AuthorizationHolds ==
    ASSUME TypeOK, LedgerAgrees, NEW p \in Procs, Authorize(p), ~UNCHANGED storeVars
    PROVE  /\ work[p] \in Intents \ Holding
           /\ Holding' = Holding \cup {work[p]}
           /\ \E buyingPower \in BuyingPowers :
                 Reserved + Amount[work[p]] <= Capacity(p, buyingPower)
<1>1. work[p] \in Intents
  BY DEF TypeOK, Authorize
<1>2. PICK buyingPower \in BuyingPowers :
          AuthorizeWithReservation(work[p], Capacity(p, buyingPower))
  BY DEF Authorize, Raise
<1>3. work[p] \notin Holding
  BY <1>1, <1>2 DEF AuthorizeWithReservation, AuthorizeAllowed, Holding, LedgerAgrees
<1>4. Holding' = Holding \cup {work[p]}
  BY <1>1, <1>2 DEF AuthorizeWithReservation, Holding, TypeOK, StoreTypeOK
<1>5. QED
  BY <1>1, <1>2, <1>3, <1>4 DEF AuthorizeWithReservation, AuthorizeAllowed

(* No other step of a call holds anything new, and it releases at most its *)
(* own intent.                                                             *)
LEMMA OtherCallsHoldNoMore ==
    ASSUME TypeOK, LedgerAgrees, NEW p \in Procs, Call(p), ~Authorize(p)
    PROVE  Holding' = Holding \/ Holding' = Holding \ {work[p]}
<1> USE DEF Holding
<1>1. CASE UNCHANGED reservation
  BY <1>1
<1>2. CASE SettleOrder(p)
  <2>1. work[p] \in Intents
    BY <1>2 DEF SettleOrder, Settling, TypeOK
  <2>2. CASE UNCHANGED storeVars
    BY <2>2 DEF storeVars
  <2>3. ASSUME NEW next, RecordBrokerOrder(work[p], reply[p].id, next)
        PROVE  Holding' = Holding
    <3>1. reservation[work[p]] \in {"active", "consumed"}
      BY <2>1, <2>3 DEF RecordBrokerOrder, RecordAllowed, LedgerAgrees, AwaitingBroker
    <3>2. /\ reservation'[work[p]] \in {"active", "consumed"}
          /\ \A j \in Intents : j # work[p] => reservation'[j] = reservation[j]
      BY <2>1, <2>3, <3>1 DEF RecordBrokerOrder, TypeOK, StoreTypeOK
    <3>3. QED
      BY <3>1, <3>2
  <2>4. QED
    BY <1>2, <2>2, <2>3 DEF SettleOrder, Raise
<1>3. CASE SettleNotFilled(p)
  <2>1. CASE UNCHANGED storeVars
    BY <2>1 DEF storeVars
  <2>2. ASSUME NEW state, MarkNotFilled(work[p], state, reply[p].id)
        PROVE  Holding' = Holding \ {work[p]}
    BY <2>2 DEF MarkNotFilled, TypeOK, StoreTypeOK
  <2>3. QED
    BY <1>3, <2>1, <2>2 DEF SettleNotFilled, Raise
<1>4. CASE FindReceipt(p) \/ GetState(p) \/ Restart(p) \/ SubmitAnswered(p) \/ SubmitRefused(p)
           \/ SubmitUnknown(p) \/ SubmitError(p) \/ Lookup(p) \/ Poll(p)
  BY <1>4, <1>1 DEF FindReceipt, GetState, Restart, SubmitAnswered, SubmitRefused, SubmitUnknown,
     SubmitError, Lookup, Poll, Raise, storeVars
<1>5. CASE Claim(p) \/ SettleReplaced(p) \/ SettleUnavailable(p) \/ SettleUnsubmitted(p)
           \/ WriteReceipt(p)
  BY <1>5, <1>1 DEF Claim, ClaimSubmission, SettleReplaced, SettleUnavailable, SettleUnsubmitted,
     WriteReceipt, SaveReceipt, MarkReplacementPending, MarkAckUnknown, RecoverSubmission, Raise,
     storeVars
<1>6. QED
  BY <1>2, <1>3, <1>4, <1>5 DEF Call

(* So a step holds one intent more, within the ceiling, or one less, or    *)
(* the same.                                                               *)
LEMMA StepHolds ==
    ASSUME TypeOK, LedgerAgrees, [Next]_vars
    PROVE  \/ Holding' = Holding
           \/ \E i \in Intents : Holding' = Holding \ {i}
           \/ \E i \in Intents \ Holding, capacity \in 0..Ceiling :
                 Holding' = Holding \cup {i} /\ Reserved + Amount[i] <= capacity
<1>1. CASE UNCHANGED reservation
  BY <1>1 DEF Holding
<1>2. ASSUME NEW p \in Procs, Authorize(p), ~UNCHANGED reservation
      PROVE  \E i \in Intents \ Holding, capacity \in 0..Ceiling :
                Holding' = Holding \cup {i} /\ Reserved + Amount[i] <= capacity
  <2>1. ~UNCHANGED storeVars
    BY <1>2 DEF storeVars
  <2>2. PICK buyingPower \in BuyingPowers : Reserved + Amount[work[p]] <= Capacity(p, buyingPower)
    BY <1>2, <2>1, AuthorizationHolds
  <2>3. Capacity(p, buyingPower) \in 0..Ceiling
    <3>1. Ceiling \in Nat
      BY ExecutionAssumption DEF Ceiling
    <3>2. QED
      BY <3>1, CapacityIsCapped
  <2>4. work[p] \in Intents \ Holding /\ Holding' = Holding \cup {work[p]}
    BY <1>2, <2>1, AuthorizationHolds
  <2>5. QED
    BY <2>2, <2>3, <2>4
<1>3. ASSUME NEW p \in Procs, Call(p), ~Authorize(p), ~UNCHANGED reservation
      PROVE  Holding' = Holding \/ \E i \in Intents : Holding' = Holding \ {i}
  <2>1. CASE work[p] \in Intents
    BY <1>3, <2>1, OtherCallsHoldNoMore
  <2>2. CASE work[p] \notin Intents
    BY <1>3, <2>2, OtherCallsHoldNoMore DEF Holding
  <2>3. QED
    BY <2>1, <2>2
<1>4. CASE \E p \in Procs : Crash(p) \/ \E i \in Intents : Persist(p, i)
  BY <1>1, <1>4 DEF Crash, Persist, CreateIntent, storeVars
<1>5. CASE \E i \in Intents : LateArrival(i) \/ MarketMoves(i)
  BY <1>1, <1>5 DEF LateArrival, MarketMoves, storeVars
<1>6. CASE UNCHANGED vars
  BY <1>1, <1>6 DEF vars, storeVars
<1>7. QED
  BY <1>1, <1>2, <1>3, <1>4, <1>5, <1>6 DEF Next

RiskInv == IsFiniteSet(Holding) /\ RiskWithinCeiling

LEMMA StepKeepsRisk ==
    ASSUME TypeOK, LedgerAgrees, RiskInv, [Next]_vars
    PROVE  RiskInv'
<1>1. Holding \in SUBSET Intents /\ Amount \in [Intents -> Nat] /\ IsFiniteSet(Holding)
  BY AmountAssumption DEF Holding, RiskInv
<1>2. Reserved \in Nat /\ Reserved <= Ceiling /\ Ceiling \in Nat
  BY <1>1, ReservedIsSum, SumType, ExecutionAssumption DEF RiskInv, RiskWithinCeiling, Ceiling
<1>3. Reserved' = SumFunctionOnSet(Amount, Holding')
  BY DEF Reserved, Total, Holding
<1>4. CASE Holding' = Holding
  BY <1>1, <1>2, <1>3, <1>4, ReservedIsSum DEF RiskInv, RiskWithinCeiling, Ceiling
<1>5. ASSUME NEW i \in Intents, Holding' = Holding \ {i}
      PROVE  RiskInv'
  <2>1. IsFiniteSet(Holding \ {i})
    BY <1>1, FS_RemoveElement
  <2>2. SumFunctionOnSet(Amount, Holding \ {i}) \in Nat
    BY <1>1, <2>1, SumType
  <2>3. CASE i \in Holding
    <3>1. Reserved = Amount[i] + SumFunctionOnSet(Amount, Holding \ {i})
      BY <1>1, <2>3, ReservedIsSum, SumTakesOut
    <3>2. SumFunctionOnSet(Amount, Holding \ {i}) <= Ceiling
      BY <1>1, <1>2, <2>2, <3>1
    <3>3. QED
      BY <1>3, <1>5, <2>1, <3>2 DEF RiskInv, RiskWithinCeiling, Ceiling
  <2>4. CASE i \notin Holding
    BY <1>4, <1>5, <2>4
  <2>5. QED
    BY <2>3, <2>4
<1>6. ASSUME NEW i \in Intents \ Holding, NEW capacity \in 0..Ceiling,
             Holding' = Holding \cup {i}, Reserved + Amount[i] <= capacity
      PROVE  RiskInv'
  <2> DEFINE More == Holding \cup {i}
  <2>1. IsFiniteSet(More) /\ More \in SUBSET Intents /\ i \in More /\ More \ {i} = Holding
    BY <1>1, FS_AddElement
  <2>2. SumFunctionOnSet(Amount, More) = Amount[i] + Reserved
    <3> HIDE DEF More
    <3>1. SumFunctionOnSet(Amount, More) = Amount[i] + SumFunctionOnSet(Amount, More \ {i})
      BY <1>1, <2>1, SumTakesOut
    <3>2. QED
      BY <2>1, <3>1, ReservedIsSum
  <2>3. Reserved' = Amount[i] + Reserved
    BY <1>3, <1>6, <2>2
  <2>4. Reserved' <= Ceiling
    BY <1>1, <1>2, <1>6, <2>3
  <2>5. QED
    BY <1>6, <2>1, <2>4 DEF RiskInv, RiskWithinCeiling, Ceiling
<1>7. QED
  BY <1>4, <1>5, <1>6, StepHolds

LEMMA RiskInvariant == Spec => []RiskInv
<1>1. Init => RiskInv
  <2> SUFFICES ASSUME Init PROVE RiskInv
    OBVIOUS
  <2>1. Holding = {}
    BY DEF Init, StoreInit, Holding
  <2>2. Reserved = 0
    BY <2>1, FS_EmptySet, ReservedIsSum, SumRecursive
  <2>3. QED
    BY <2>1, <2>2, FS_EmptySet, ExecutionAssumption DEF RiskInv, RiskWithinCeiling, Ceiling
<1>2. TypeOK /\ LedgerAgrees /\ RiskInv /\ [Next]_vars => RiskInv'
  BY StepKeepsRisk
<1>3. QED
  BY <1>1, <1>2, TypeCorrect, LedgerCorrect, PTL DEF Spec

(* However many callers authorize at the same time, and whatever buying    *)
(* power each of them read before, the account never has more at risk than *)
(* the ceiling (store.py:500-508).  Holding is finite although Intents     *)
(* need not be: one authorization adds one intent.                         *)
THEOREM RiskIsBounded == Spec => []RiskWithinCeiling
<1>1. RiskInv => RiskWithinCeiling
  BY DEF RiskInv
<1>2. QED
  BY <1>1, RiskInvariant, PTL

-----------------------------------------------------------------------------
(* The account's promise: IntentExecution implements RiskContract when the *)
(* broker answers a key it already has with the order it has, no request   *)
(* arrives after its caller was told it may be lost, and every answer      *)
(* carries the client order id that was asked for.                         *)

TrustedBroker == Faults \cap {"late_request", "duplicate_refused", "mismatch"} = {}

RiskSteps == [Contract!Next]_(Contract!contractVars)

(* What the steps below rely on.                                           *)
ContractInv ==
    /\ TypeOK
    /\ LedgerAgrees
    /\ SingleSubmitter
    /\ ClaimHeld
    /\ AnswersStand
    /\ ClaimIsOpen

-----------------------------------------------------------------------------
(* Only the submitter of an intent makes the broker open an order for it.  *)
LEMMA OnlyTheSubmitterOpens ==
    ASSUME TrustedBroker, ContractInv, [Next]_vars, NEW i \in Intents, order'[i] # order[i]
    PROVE  \/ /\ \E p \in Procs : work[p] = i /\ pc[p] = "submit" /\ (Call(p) \/ Crash(p))
              /\ Broker!HandleRequest(i)
              /\ order[i].status = "absent"
              /\ UNCHANGED storeVars
           \/ MarketMoves(i)
<1> USE DEF ContractInv, TypeOK
<1>1. ASSUME NEW p \in Procs, Call(p) \/ Crash(p)
      PROVE  /\ work[p] = i /\ pc[p] = "submit"
             /\ Broker!HandleRequest(i)
             /\ order[i].status = "absent"
             /\ UNCHANGED storeVars
  <2>1. Broker!HandleRequest(work[p]) /\ pc[p] = "submit" /\ UNCHANGED storeVars
    BY <1>1 DEF Call, FindReceipt, GetState, Restart, Authorize, Claim, SubmitAnswered, SubmitRefused,
       SubmitUnknown, SubmitError, RequestOutcome, Lookup, Poll, SettleReplaced, SettleUnavailable,
       SettleUnsubmitted, SettleNotFilled, SettleOrder, WriteReceipt, Crash
  <2>2. work[p] \in Intents
    BY <2>1
  <2>3. work[p] = i /\ order[i].status = "absent"
    BY <2>1, <2>2 DEF Broker!HandleRequest, Broker!AfterRequest
  <2>4. QED
    BY <2>1, <2>3
<1>2. ASSUME NEW j \in Intents, MarketMoves(j)
      PROVE  MarketMoves(i)
  <2>1. i = j
    BY <1>2 DEF MarketMoves, Broker!Fill, Broker!Reject, Broker!Cancel, Broker!Replace,
       Broker!ShowReplacement
  <2>2. QED
    BY <1>2, <2>1
<1>3. ~\E p \in Procs, j \in Intents : Persist(p, j)
  BY DEF Persist
<1>4. ~\E j \in Intents : LateArrival(j)
  BY DEF LateArrival, ClaimIsOpen
<1>5. QED
  BY <1>1, <1>2, <1>3, <1>4 DEF Next, vars

LEMMA OrdersNeverVanish ==
    ASSUME TypeOK, [Next]_vars, NEW i \in Intents, order[i].status # "absent"
    PROVE  order'[i].status # "absent"
<1> USE DEF TypeOK
<1>1. ASSUME NEW j \in Intents, Broker!HandleRequest(j) PROVE order'[i].status # "absent"
  BY <1>1 DEF Broker!HandleRequest, Broker!AfterRequest
<1>2. ASSUME NEW j \in Intents, MarketMoves(j) PROVE order'[i].status # "absent"
  <2>1. CASE Broker!Fill(j)
    BY <2>1 DEF Broker!Fill
  <2>2. CASE Broker!Reject(j)
    BY <2>2 DEF Broker!Reject
  <2>3. CASE Broker!Cancel(j)
    BY <2>3 DEF Broker!Cancel
  <2>4. CASE Broker!Replace(j)
    BY <2>4 DEF Broker!Replace
  <2>5. CASE Broker!ShowReplacement(j)
    BY <2>5 DEF Broker!ShowReplacement
  <2>6. QED
    BY <1>2, <2>1, <2>2, <2>3, <2>4, <2>5 DEF MarketMoves
<1>3. ASSUME NEW p \in Procs, Call(p) \/ Crash(p)
      PROVE  order' = order \/ (work[p] \in Intents /\ Broker!HandleRequest(work[p]))
  BY <1>3 DEF Call, FindReceipt, GetState, Restart, Authorize, Claim, SubmitAnswered, SubmitRefused,
     SubmitUnknown, SubmitError, RequestOutcome, Lookup, Poll, SettleReplaced, SettleUnavailable,
     SettleUnsubmitted, SettleNotFilled, SettleOrder, WriteReceipt, Crash
<1>4. QED
  BY <1>1, <1>2, <1>3 DEF Next, Persist, LateArrival, vars

-----------------------------------------------------------------------------
(* ClaimIsOpen is kept by every step.                                      *)

LEMMA AnswersComeFromTheBook ==
    ASSUME TrustedBroker, ContractInv, NEW p \in Procs, Call(p) \/ Crash(p)
    PROVE  /\ Settling(p, {"refused"})' => work'[p] \in Intents /\ order'[work'[p]].status = "absent"
           /\ Settling(p, {"order", "replaced"})' =>
                 work'[p] \in Intents /\ order'[work'[p]].status # "absent"
<1> USE DEF ContractInv, TypeOK, Settling
<1>1. CASE pc'[p] # "settle"
  BY <1>1
<1>2. CASE SubmitAnswered(p)
  <2>1. work' = work /\ work[p] \in Intents /\ reply'[p] = Read(order'[work[p]])
    BY <1>2 DEF SubmitAnswered, Hear, TrustedBroker
  <2>2. QED
    BY <2>1 DEF Read, Answer
<1>3. CASE SubmitRefused(p)
  <2>1. work' = work /\ order' = order /\ work[p] \in Intents /\ reply'[p] = Answer("refused")
    BY <1>3 DEF SubmitRefused, Hear
  <2>2. order[work[p]].status = "absent"
    BY <1>3 DEF SubmitRefused, TrustedBroker
  <2>3. QED
    BY <2>1, <2>2 DEF Answer
<1>4. CASE SubmitError(p)
  BY <1>4 DEF SubmitError, Hear, Answer
<1>5. CASE Lookup(p) \/ Poll(p)
  <2>1. PICK answer \in LookupAnswers(work[p]) : Hear(p, answer, "settle") \/ EndCall(p)
    BY <1>5 DEF Lookup, Poll
  <2>2. CASE EndCall(p)
    BY <1>1, <2>2 DEF EndCall, Leave
  <2>3. CASE Hear(p, answer, "settle")
    <3>1. work' = work /\ order' = order /\ work[p] \in Intents /\ reply'[p] = answer
      BY <1>5, <2>3 DEF Lookup, Poll, Hear
    <3>2. answer.kind \in {"order", "replaced", "refused"} => answer = Read(order[work[p]])
      BY DEF LookupAnswers, Answer
    <3>3. QED
      BY <3>1, <3>2 DEF Read, Answer
  <2>4. QED
    BY <2>1, <2>2, <2>3
<1>6. CASE FindReceipt(p) \/ GetState(p) \/ Restart(p) \/ Authorize(p) \/ Claim(p) \/ SubmitUnknown(p)
  <2>1. pc'[p] # "settle"
    BY <1>6 DEF FindReceipt, GetState, Restart, Authorize, Claim, SubmitUnknown, GoTo, EndCall, Leave, Raise
  <2>2. QED
    BY <1>1, <2>1
<1>7. CASE SettleReplaced(p) \/ SettleUnavailable(p) \/ SettleUnsubmitted(p) \/ SettleNotFilled(p)
           \/ SettleOrder(p) \/ WriteReceipt(p) \/ Crash(p)
  <2>1. pc'[p] # "settle"
    BY <1>7 DEF SettleReplaced, SettleUnavailable, SettleUnsubmitted, SettleNotFilled, SettleOrder,
       WriteReceipt, Crash, GoTo, EndCall, Leave, Raise
  <2>2. QED
    BY <1>1, <2>1
<1>8. QED
  BY <1>2, <1>3, <1>4, <1>5, <1>6, <1>7 DEF Call

(* Another call leaves a submitter's intent waiting while no order exists. *)
LEMMA OthersKeepItWaiting ==
    ASSUME TrustedBroker, ContractInv, NEW p \in Procs, Call(p) \/ Crash(p),
           NEW q \in Procs, q # p, Submitting(q), order[work[q]].status = "absent"
    PROVE  intentState'[work[q]] \in AwaitingBroker
<1> USE DEF ContractInv, TypeOK, StoreTypeOK
<1>1. intentState[work[q]] \in AwaitingBroker /\ work[q] \in Intents
  BY DEF ClaimIsOpen, Submitting
<1>2. intentState[work[q]] \notin {"VALIDATED", "AUTHORIZED"}
  BY <1>1 DEF AwaitingBroker
<1>3. CASE UNCHANGED storeVars
  BY <1>1, <1>3 DEF storeVars
<1>4. CASE work[p] # work[q]
  <2>1. CASE Call(p)
    <3>1. UNCHANGED storeVars \/ Transaction(work[p])
      BY <2>1, CallIsTransaction
    <3>2. Transaction(work[p]) => intentState'[work[q]] = intentState[work[q]]
      BY <1>1, <1>4 DEF Transaction, CreateIntent, AuthorizeWithReservation, ClaimSubmission,
         RecordBrokerOrder, MarkReplacementPending, MarkAckUnknown, MarkNotFilled,
         RecoverSubmission, SaveReceipt
    <3>3. QED
      BY <1>1, <1>3, <3>1, <3>2
  <2>2. CASE Crash(p)
    BY <1>3, <2>2 DEF Crash
  <2>3. QED
    BY <2>1, <2>2
<1>5. CASE work[p] = work[q]
  <2>1. ~Submitting(p)
    BY <1>5 DEF SingleSubmitter
  <2>2. ~Settling(p, {"order", "replaced", "missing", "error", "refused", "mismatch"})
    BY <1>5, <2>1 DEF ClaimHeld, ClaimIsOpen, Submitting, Settling
  <2>3. CASE FindReceipt(p) \/ GetState(p) \/ Restart(p) \/ SubmitAnswered(p) \/ SubmitRefused(p)
             \/ SubmitUnknown(p) \/ SubmitError(p) \/ Lookup(p) \/ Poll(p) \/ Crash(p)
    BY <1>3, <2>3 DEF FindReceipt, GetState, Restart, SubmitAnswered, SubmitRefused, SubmitUnknown,
       SubmitError, Lookup, Poll, Crash
  <2>4. CASE Authorize(p)
    BY <1>2, <1>3, <1>5, <2>4 DEF Authorize, AuthorizeWithReservation, AuthorizeAllowed, Raise
  <2>5. CASE Claim(p)
    BY <1>1, <1>2, <1>3, <1>5, <2>5 DEF Claim, ClaimSubmission, ShouldSubmit, Raise
  <2>6. CASE SettleReplaced(p) \/ SettleUnsubmitted(p) \/ SettleNotFilled(p) \/ SettleOrder(p)
    BY <2>2, <2>6 DEF SettleReplaced, SettleUnsubmitted, SettleNotFilled, SettleOrder, Settling
  <2>7. CASE SettleUnavailable(p)
    BY <1>1, <1>3, <1>5, <2>7 DEF SettleUnavailable, MarkAckUnknown, Raise, AwaitingBroker
  <2>8. CASE WriteReceipt(p)
    BY <1>1, <1>3, <2>8 DEF WriteReceipt, SaveReceipt, Raise
  <2>9. QED
    BY <2>3, <2>4, <2>5, <2>6, <2>7, <2>8 DEF Call
<1>6. QED
  BY <1>4, <1>5

LEMMA SubmitterWaits ==
    ASSUME TrustedBroker, ContractInv, NEW p \in Procs, Call(p) \/ Crash(p), Submitting(p)',
           order[work[p]].status = "absent"
    PROVE  intentState'[work[p]] \in AwaitingBroker
<1> USE DEF ContractInv, TypeOK, StoreTypeOK
<1>1. pc'[p] \in {"submit", "lookup", "settle"}
  BY DEF Submitting
<1>2. CASE Claim(p)
  <2>1. ClaimSubmission(work[p]) /\ shouldSubmit'[p] = ShouldSubmit(work[p])
    BY <1>1, <1>2 DEF Claim, Raise, EndCall, Leave
  <2>2. shouldSubmit'[p] /\ work[p] \in Intents
    BY <1>2 DEF Submitting, Claim
  <2>3. QED
    BY <2>1, <2>2 DEF ClaimSubmission, AwaitingBroker
<1>3. CASE SubmitAnswered(p) \/ SubmitRefused(p) \/ SubmitUnknown(p) \/ SubmitError(p) \/ Lookup(p)
  <2>1. Submitting(p) /\ UNCHANGED storeVars
    BY <1>3 DEF ClaimHeld, Submitting, SubmitAnswered, SubmitRefused, SubmitUnknown, SubmitError,
       Lookup
  <2>2. QED
    BY <2>1 DEF ClaimIsOpen, storeVars
<1>4. CASE Poll(p)
  <2>1. ~shouldSubmit[p] /\ shouldSubmit'[p] \in {FALSE, shouldSubmit[p]}
    BY <1>4 DEF Poll, ClaimHeld, Hear, EndCall, Leave
  <2>2. QED
    BY <2>1 DEF Submitting
<1>5. CASE FindReceipt(p) \/ GetState(p) \/ Restart(p) \/ Authorize(p)
  BY <1>1, <1>5 DEF FindReceipt, GetState, Restart, Authorize, GoTo, EndCall, Leave, Raise
<1>6. CASE SettleReplaced(p) \/ SettleUnavailable(p) \/ SettleUnsubmitted(p) \/ SettleNotFilled(p)
           \/ SettleOrder(p) \/ WriteReceipt(p) \/ Crash(p)
  BY <1>1, <1>6 DEF SettleReplaced, SettleUnavailable, SettleUnsubmitted, SettleNotFilled,
     SettleOrder, WriteReceipt, Crash, GoTo, EndCall, Leave, Raise
<1>7. QED
  BY <1>2, <1>3, <1>4, <1>5, <1>6 DEF Call

LEMMA ClaimStaysOpen ==
    ASSUME TrustedBroker, ContractInv, TypeOK', [Next]_vars
    PROVE  ClaimIsOpen'
<1> USE DEF ContractInv
<1>1. wire' = {}
  <2>1. wire = {} /\ "late_request" \notin Faults
    BY DEF ClaimIsOpen, TrustedBroker
  <2>2. ASSUME NEW p \in Procs, Call(p) \/ Crash(p) PROVE wire' = wire
    BY <2>1, <2>2 DEF Call, FindReceipt, GetState, Restart, Authorize, Claim, SubmitAnswered, SubmitRefused,
       SubmitUnknown, SubmitError, RequestOutcome, Lookup, Poll, SettleReplaced, SettleUnavailable,
       SettleUnsubmitted, SettleNotFilled, SettleOrder, WriteReceipt, Crash
  <2>3. QED
    BY <2>1, <2>2 DEF Next, Persist, LateArrival, MarketMoves, vars
<1>2. SUFFICES ASSUME NEW q \in Procs
               PROVE  /\ Submitting(q)' /\ order'[work'[q]].status = "absent" =>
                            intentState'[work'[q]] \in AwaitingBroker
                      /\ Settling(q, {"refused"})' => order'[work'[q]].status = "absent"
                      /\ Settling(q, {"order", "replaced"})' => order'[work'[q]].status # "absent"
  BY <1>1 DEF ClaimIsOpen
<1>3. CASE Call(q) \/ Crash(q)
  <2>1. ASSUME Submitting(q)', order'[work'[q]].status = "absent"
        PROVE  intentState'[work'[q]] \in AwaitingBroker
    <3>1. work'[q] = work[q]
      BY <1>3, <2>1, CallerKeepsItsClaim DEF TrustedBroker
    <3>2. work'[q] \in Intents
      BY <2>1 DEF Submitting, TypeOK
    <3>3. order[work[q]].status = "absent"
      BY <2>1, <3>1, <3>2, OrdersNeverVanish
    <3>4. QED
      BY <1>3, <2>1, <3>1, <3>3, SubmitterWaits
  <2>2. QED
    BY <1>3, <2>1, AnswersComeFromTheBook
<1>4. CASE /\ UNCHANGED <<pc[q], work[q], shouldSubmit[q], reply[q]>>
          /\ \/ \E p \in Procs : p # q /\ (Call(p) \/ Crash(p))
             \/ UNCHANGED intentState
             \/ \E i \in Intents : CreateIntent(i)
  <2>1. Submitting(q)' = Submitting(q) /\ (pc[q] \notin {"idle", "down"} => work[q] \in Intents)
    BY <1>4 DEF Submitting, TypeOK
  <2>2. ASSUME Submitting(q), order'[work[q]].status = "absent"
        PROVE  intentState'[work[q]] \in AwaitingBroker
    <3>1. work[q] \in Intents /\ order[work[q]].status = "absent"
      BY <2>1, <2>2, OrdersNeverVanish DEF Submitting
    <3>2. intentState[work[q]] \in AwaitingBroker
      BY <2>2, <3>1 DEF ClaimIsOpen
    <3>3. CASE UNCHANGED intentState \/ \E i \in Intents : CreateIntent(i)
      BY <3>1, <3>2, <3>3 DEF CreateIntent, AwaitingBroker, TypeOK, StoreTypeOK
    <3>4. QED
      BY <1>4, <2>2, <3>1, <3>3, OthersKeepItWaiting
  <2>3. ASSUME Settling(q, {"refused"}) PROVE order'[work[q]].status = "absent"
    <3>1. work[q] \in Intents /\ order[work[q]].status = "absent" /\ pc[q] = "settle" /\ Submitting(q)
      BY <2>1, <2>3 DEF ClaimIsOpen, ClaimHeld, Settling, Submitting
    <3>2. ~MarketMoves(work[q])
      BY <3>1 DEF MarketMoves, Broker!Fill, Broker!Reject, Broker!Cancel, Broker!Replace,
         Broker!ShowReplacement
    <3>3. ~\E p \in Procs : work[p] = work[q] /\ pc[p] = "submit"
      BY <3>1 DEF SingleSubmitter, ClaimHeld, Submitting
    <3>4. QED
      BY <3>1, <3>2, <3>3, OnlyTheSubmitterOpens
  <2>4. ASSUME Settling(q, {"order", "replaced"}) PROVE order'[work[q]].status # "absent"
    BY <2>1, <2>4, OrdersNeverVanish DEF ClaimIsOpen, Settling
  <2>5. QED
    BY <1>4, <2>1, <2>2, <2>3, <2>4 DEF Settling
<1>5. ASSUME NEW i \in Intents, Persist(q, i)
      PROVE  pc'[q] = "find_receipt"
  BY <1>5 DEF Persist, TypeOK
<1>6. ASSUME NEW p \in Procs, p # q, Call(p) \/ Crash(p)
      PROVE  UNCHANGED <<pc[q], work[q], shouldSubmit[q], reply[q]>>
  BY <1>6, OnlyTheCallerMoves
<1>7. ASSUME NEW p \in Procs, p # q, NEW i \in Intents, Persist(p, i)
      PROVE  UNCHANGED <<pc[q], work[q], shouldSubmit[q], reply[q]>> /\ CreateIntent(i)
  BY <1>7 DEF Persist, TypeOK
<1>8. ASSUME UNCHANGED vars \/ \E i \in Intents : LateArrival(i) \/ MarketMoves(i)
      PROVE  UNCHANGED <<pc[q], work[q], shouldSubmit[q], reply[q]>> /\ UNCHANGED intentState
  BY <1>8 DEF vars, callVars, storeVars, LateArrival, MarketMoves
<1>9. QED
  BY <1>3, <1>4, <1>5, <1>6, <1>7, <1>8 DEF Next, Submitting, Settling

LEMMA ContractInvariant ==
    ASSUME TrustedBroker
    PROVE  Spec => []ContractInv
<1>1. Init => ClaimHeld /\ AnswersStand /\ ClaimIsOpen /\ SingleSubmitter
  BY DEF Init, ClaimHeld, AnswersStand, ClaimIsOpen, SingleSubmitter, Submitting, Settling
<1>2. ContractInv /\ TypeOK' /\ [Next]_vars =>
        ClaimHeld' /\ AnswersStand' /\ ClaimIsOpen' /\ SingleSubmitter'
  <2> SUFFICES ASSUME ContractInv, TypeOK', [Next]_vars
               PROVE  ClaimHeld' /\ AnswersStand' /\ ClaimIsOpen' /\ SingleSubmitter'
    OBVIOUS
  <2>1. ClaimHeld' /\ SingleSubmitter'
    BY StepKeepsTheClaim, OtherStepsKeepTheClaim DEF Next, ContractInv, TrustedBroker
  <2>2. QED
    BY <2>1, AnswersKeepStanding, ClaimStaysOpen DEF ContractInv
<1>3. QED
  BY <1>1, <1>2, TypeCorrect, LedgerCorrect, PTL DEF Spec, ContractInv

-----------------------------------------------------------------------------
(* The refinement.                                                         *)

OrderExposures == [i \in Intents |-> Exposure(order[i])]

LEMMA ReservedIsAtRisk == Reserved = Contract!AtRisk
BY DEF Reserved, Contract!AtRisk

LEMMA ExposureOfOpenOrder ==
    ASSUME NEW o \in Broker!Orders
    PROVE  /\ Exposure(o) = "open" <=> o.status \in Broker!Open
           /\ Exposure(o) = "dead" <=> o.status \in Broker!Dead
           /\ Exposure(o) = "absent" <=> o.status = "absent"
           /\ Exposure(o) = "filled" <=> o.status = "filled"
           /\ Exposure(o) \in {"absent", "open", "filled", "dead"}
BY DEF Exposure, Broker!Orders, Broker!OrderStatuses, Broker!Open, Broker!Dead

LEMMA ExposureMoves ==
    ASSUME TypeOK, order' \in [Intents -> Broker!Orders], NEW i \in Intents,
           UNCHANGED reservation,
           \A j \in Intents : j # i => order'[j] = order[j],
           \/ Exposure(order'[i]) = Exposure(order[i])
           \/ Exposure(order'[i]) # "absent" /\ Exposure(order[i]) = "open"
           \/ Exposure(order'[i]) # "absent" /\ Exposure(order[i]) = "absent" /\ reservation[i] = "active"
    PROVE  RiskSteps
<1>1. OrderExposures' = [OrderExposures EXCEPT ![i] = Exposure(order'[i])]
  BY DEF OrderExposures
<1>2. CASE Exposure(order'[i]) = Exposure(order[i])
  <2>1. OrderExposures' = OrderExposures
    BY <1>1, <1>2 DEF OrderExposures
  <2>2. QED
    BY <2>1 DEF RiskSteps, Contract!contractVars, OrderExposures
<1>3. ASSUME Exposure(order'[i]) # "absent",
             \/ Exposure(order[i]) = "open"
             \/ Exposure(order[i]) = "absent" /\ reservation[i] = "active"
      PROVE  RiskSteps
  <2>1. Exposure(order'[i]) \in {"open", "filled", "dead"}
    BY <1>3, ExposureOfOpenOrder
  <2>2. OrderExposures[i] = Exposure(order[i])
    BY DEF OrderExposures
  <2>3. Contract!Expose(i)
    BY <1>1, <1>3, <2>1, <2>2 DEF Contract!Expose, OrderExposures
  <2>4. QED
    BY <2>3 DEF RiskSteps, Contract!Next
<1>4. QED
  BY <1>2, <1>3

(* A step that changes the book moves exposure as the contract allows.     *)
LEMMA BookStepRefines ==
    ASSUME TrustedBroker, ContractInv, TypeOK', [Next]_vars, order' # order
    PROVE  RiskSteps
<1> USE DEF ContractInv, TypeOK, StoreTypeOK
<1>1. PICK i \in Intents : order'[i] # order[i]
  OBVIOUS
<1>2. CASE /\ \E p \in Procs : work[p] = i /\ pc[p] = "submit" /\ (Call(p) \/ Crash(p))
           /\ Broker!HandleRequest(i)
           /\ order[i].status = "absent"
           /\ UNCHANGED storeVars
  <2>1. intentState[i] \in AwaitingBroker
    BY <1>2 DEF ClaimHeld, ClaimIsOpen, Submitting
  <2>2. reservation[i] = "active" /\ UNCHANGED reservation
    BY <1>2, <2>1 DEF LedgerAgrees, storeVars
  <2>3. \A j \in Intents : j # i => order'[j] = order[j]
    BY <1>2 DEF Broker!HandleRequest
  <2>4. Exposure(order'[i]) # "absent" /\ Exposure(order[i]) = "absent"
    <3>1. order'[i].status # "absent"
      BY <1>2 DEF Broker!HandleRequest, Broker!AfterRequest
    <3>2. QED
      BY <1>2, <3>1, ExposureOfOpenOrder
  <2>5. QED
    BY <2>2, <2>3, <2>4, ExposureMoves
<1>3. CASE MarketMoves(i)
  <2>1. UNCHANGED reservation /\ \A j \in Intents : j # i => order'[j] = order[j]
    BY <1>3 DEF MarketMoves, storeVars, Broker!Fill, Broker!Reject, Broker!Cancel, Broker!Replace,
       Broker!ShowReplacement
  <2>2. order[i].status \in Broker!Open
    BY <1>3 DEF MarketMoves, Broker!Fill, Broker!Reject, Broker!Cancel, Broker!Replace,
       Broker!ShowReplacement, Broker!Open
  <2>3. order'[i].status # "absent"
    BY <2>2, OrdersNeverVanish DEF Broker!Open
  <2>4. Exposure(order[i]) = "open" /\ Exposure(order'[i]) # "absent"
    BY <2>2, <2>3, ExposureOfOpenOrder
  <2>5. QED
    BY <2>1, <2>4, ExposureMoves
<1>4. QED
  BY <1>1, <1>2, <1>3, OnlyTheSubmitterOpens

(* A step that changes the reservations holds, consumes or releases as the *)
(* contract allows.                                                        *)
LEMMA HoldRefines ==
    ASSUME ContractInv, NEW p \in Procs, Authorize(p), reservation' # reservation
    PROVE  RiskSteps
<1> USE DEF ContractInv, TypeOK, StoreTypeOK
<1>1. PICK buyingPower \in BuyingPowers :
          AuthorizeWithReservation(work[p], Capacity(p, buyingPower))
  BY DEF Authorize, Raise, storeVars
<1>2. Capacity(p, buyingPower) \in 1..Ceiling
  <2>1. Capacity(p, buyingPower) > 0
    BY <1>1 DEF AuthorizeWithReservation, AuthorizeAllowed
  <2>2. buyingPower \in Nat
    BY ExecutionAssumption
  <2>3. QED
    BY <2>1, <2>2, ExecutionAssumption DEF Capacity, Ceiling
<1>3. work[p] \in Intents /\ order' = order
  BY DEF Authorize
<1>4. reservation[work[p]] = "none"
  BY <1>1, <1>3 DEF AuthorizeWithReservation, AuthorizeAllowed, LedgerAgrees
<1>5. Contract!AtRisk + Amount[work[p]] <= Capacity(p, buyingPower)
  BY <1>1, ReservedIsAtRisk DEF AuthorizeWithReservation, AuthorizeAllowed
<1>6. reservation' = [reservation EXCEPT ![work[p]] = "active"]
  BY <1>1 DEF AuthorizeWithReservation
<1>7. Contract!Hold(work[p])
  BY <1>2, <1>3, <1>4, <1>5, <1>6 DEF Contract!Hold
<1>8. QED
  BY <1>3, <1>7 DEF RiskSteps, Contract!Next

LEMMA ConsumeRefines ==
    ASSUME ContractInv, NEW p \in Procs, SettleOrder(p), reservation' # reservation
    PROVE  RiskSteps
<1> USE DEF ContractInv, TypeOK, StoreTypeOK
<1>1. /\ RecordBrokerOrder(work[p], reply[p].id, NextState(reply[p].status))
      /\ work[p] \in Intents
      /\ order' = order
  BY DEF SettleOrder, Settling, Raise, storeVars
<1>2. NextState(reply[p].status) = "RECONCILED" /\ reservation[work[p]] # "consumed"
      /\ reservation' = [reservation EXCEPT ![work[p]] = "consumed"]
  BY <1>1 DEF RecordBrokerOrder
<1>3. reply[p].status = "filled"
  BY <1>2 DEF SettleOrder, NextState
<1>4. order[work[p]].status = "filled"
  BY <1>3 DEF SettleOrder, AnswersStand
<1>5. reservation[work[p]] = "active"
  BY <1>1, <1>2 DEF RecordBrokerOrder, RecordAllowed, LedgerAgrees, AwaitingBroker
<1>6. OrderExposures[work[p]] = "filled"
  BY <1>1, <1>4, ExposureOfOpenOrder DEF OrderExposures
<1>7. Contract!Consume(work[p])
  BY <1>1, <1>2, <1>5, <1>6 DEF Contract!Consume, OrderExposures
<1>8. QED
  BY <1>1, <1>7 DEF RiskSteps, Contract!Next

LEMMA ReleaseRefines ==
    ASSUME ContractInv, NEW p \in Procs, SettleNotFilled(p), reservation' # reservation
    PROVE  RiskSteps
<1> USE DEF ContractInv, TypeOK, StoreTypeOK
<1>1. /\ \E state \in NotFilled : MarkNotFilled(work[p], state, reply[p].id)
      /\ work[p] \in Intents
      /\ order' = order
  BY DEF SettleNotFilled, Settling, Raise, storeVars, NotFilled
<1>2. /\ reservation' = [reservation EXCEPT ![work[p]] = "released"]
      /\ intentState[work[p]] \in AwaitingBroker
  BY <1>1 DEF MarkNotFilled, NotFilledAllowed
<1>3. reservation[work[p]] = "active"
  BY <1>1, <1>2 DEF LedgerAgrees
<1>4. order[work[p]].status \in {"absent"} \cup Broker!Dead
  <2>1. CASE Settling(p, {"refused"})
    BY <2>1 DEF ClaimIsOpen
  <2>2. CASE Settling(p, {"order"}) /\ reply[p].status \in Broker!Dead
    BY <2>2 DEF AnswersStand
  <2>3. QED
    BY <2>1, <2>2 DEF SettleNotFilled
<1>5. OrderExposures[work[p]] \in {"absent", "dead"}
  BY <1>1, <1>4, ExposureOfOpenOrder DEF OrderExposures
<1>6. Contract!Release(work[p])
  BY <1>1, <1>2, <1>3, <1>5 DEF Contract!Release, OrderExposures
<1>7. QED
  BY <1>1, <1>6 DEF RiskSteps, Contract!Next

LEMMA StepRefines ==
    ASSUME TrustedBroker, ContractInv, TypeOK', [Next]_vars
    PROVE  RiskSteps
<1>1. CASE UNCHANGED <<reservation, order>>
  <2>1. OrderExposures' = OrderExposures
    BY <1>1 DEF OrderExposures
  <2>2. QED
    BY <1>1, <2>1 DEF RiskSteps, Contract!contractVars, OrderExposures
<1>2. CASE order' # order
  BY <1>2, BookStepRefines
<1>3. ASSUME NEW p \in Procs, Call(p), reservation' # reservation
      PROVE  RiskSteps
  <2>1. Authorize(p) \/ SettleOrder(p) \/ SettleNotFilled(p)
    BY <1>3 DEF Call, FindReceipt, GetState, Restart, Claim, SubmitAnswered, SubmitRefused, SubmitUnknown,
       SubmitError, Lookup, Poll, SettleReplaced, SettleUnavailable, SettleUnsubmitted, WriteReceipt,
       Raise, storeVars, ClaimSubmission, MarkReplacementPending, MarkAckUnknown,
       RecoverSubmission, SaveReceipt
  <2>2. QED
    BY <1>3, <2>1, HoldRefines, ConsumeRefines, ReleaseRefines
<1>4. ASSUME ~\E p \in Procs : Call(p)
      PROVE  UNCHANGED reservation
  BY <1>4 DEF Next, vars, storeVars, Crash, Persist, CreateIntent, LateArrival, MarketMoves
<1>5. QED
  BY <1>1, <1>2, <1>3, <1>4

LEMMA InitRefines == Init => Contract!Init
<1> SUFFICES ASSUME Init PROVE Contract!Init
  OBVIOUS
<1>1. reservation = [i \in Intents |-> "none"]
  BY DEF Init, StoreInit
<1>2. [i \in Intents |-> Exposure(order[i])] = [i \in Intents |-> "absent"]
  BY DEF Init, Exposure, Broker!NoOrder, Broker!Open, Broker!Dead
<1>3. QED
  BY <1>1, <1>2 DEF Contract!Init

(* The reservations and the broker's book obey the risk contract: risk is  *)
(* held within the ceiling before an order can exist, consumed only by a   *)
(* filled order, and released only when no order can fill any more, for    *)
(* every race of callers, crash, lost answer and replacement, provided the *)
(* broker is the trusted one.                                              *)
THEOREM ExecutionKeepsRiskContract ==
    ASSUME TrustedBroker
    PROVE  Spec => KeepsRiskContract
<1>1. Init => Contract!Init
  BY InitRefines
<1>2. ContractInv /\ TypeOK' /\ [Next]_vars => [Contract!Next]_(Contract!contractVars)
  BY StepRefines DEF RiskSteps
<1>3. QED
  BY <1>1, <1>2, ContractInvariant, TypeCorrect, PTL DEF Spec, KeepsRiskContract, Contract!Spec
=============================================================================
