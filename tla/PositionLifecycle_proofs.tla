----------------------- MODULE PositionLifecycle_proofs -----------------------
(***************************************************************************)
(* Theorems about PositionLifecycle for any positions, workers, exit       *)
(* contexts, activity types, faults and bounds.                            *)
(***************************************************************************)
EXTENDS PositionLifecycle, WellFoundedInduction, TLAPS

-----------------------------------------------------------------------------
(* The loops take the least position, the pages the first activity: every  *)
(* nonempty set of natural numbers has a least element.                    *)
Below == {pair \in Nat \X Nat : pair[1] < pair[2]}

LEMMA BelowIsWellFounded == IsWellFoundedOn(Below, Nat)
<1>1. Below = OpToRel(<, Nat)
  BY Zenon DEF Below, OpToRel
<1>2. QED
  BY <1>1, NatLessThanWellFounded, Zenon

LEMMA FirstIsElement ==
    ASSUME NEW S, S \subseteq Nat, S # {}
    PROVE  First(S) \in S /\ \A y \in S : First(S) <= y
<1>1. PICK x \in S : \A y \in S : ~(<<y, x>> \in Below)
  BY BelowIsWellFounded, WFMin
<1>2. ASSUME NEW y \in S PROVE x <= y
  <2>1. <<y, x>> \in Nat \X Nat /\ <<y, x>>[1] = y /\ <<y, x>>[2] = x
    OBVIOUS
  <2>2. ~(<<y, x>>[1] < <<y, x>>[2])
    BY <1>1, <2>1 DEF Below
  <2>3. ~(y < x)
    BY <2>1, <2>2
  <2>4. x \in Int /\ y \in Int
    OBVIOUS
  <2>5. QED
    BY <2>3, <2>4
<1>3. QED
  BY <1>2 DEF First

LEMMA CurrentType ==
    ASSUME TypeOK, NEW w \in Workers, local[w].todo # {}
    PROVE  Current(w) \in local[w].todo /\ Current(w) \in Positions
<1>1. local[w].todo \subseteq Positions
  BY DEF TypeOK, Locals
<1>2. QED
  BY <1>1, FirstIsElement, PositionStoreAssumption DEF Current

LEMMA FirstUnread ==
    ASSUME TypeOK, NEW t, NEW token, Unread(t, token) # {}
    PROVE  /\ First(Unread(t, token)) \in DOMAIN events
           /\ First(Unread(t, token)) \in Nat
           /\ events[First(Unread(t, token))] \in BrokerEvents
<1>1. Unread(t, token) \subseteq DOMAIN events /\ DOMAIN events \subseteq Nat
  BY DEF Unread, TypeOK
<1>2. First(Unread(t, token)) \in DOMAIN events
  BY <1>1, FirstIsElement
<1>3. QED
  BY <1>1, <1>2 DEF TypeOK

-----------------------------------------------------------------------------
(* Type correctness: the locals of a cycle, the store, then each action.   *)

LEMMA NoLocalType == NoLocal \in Locals /\ NothingSeen \in [Positions -> Rows] /\ NoLegs \in [Positions -> Legs]
<1>1. 1 \in DOMAIN ActivityTypes
  BY PositionStoreAssumption
<1>2. QED
  BY <1>1, PositionStoreAssumption DEF NoLocal, Locals, NothingSeen, NoRow, Rows, NoLegs, Legs

CycleTypeOK ==
    /\ pc \in [Workers -> Points]
    /\ seen \in [Workers -> [Positions -> Rows]]
    /\ broker \in [Workers -> [Positions -> Legs]]
    /\ local \in [Workers -> Locals]
    /\ mayEnter \in [Workers -> BOOLEAN]

LEMMA EndType ==
    ASSUME CycleTypeOK, NEW w \in Workers, NEW clear \in BOOLEAN, End(w, clear)
    PROVE  CycleTypeOK'
BY NoLocalType DEF CycleTypeOK, End, GoTo, Points

LEMMA RaiseType ==
    ASSUME CycleTypeOK, NEW w \in Workers, Raise(w)
    PROVE  CycleTypeOK'
BY EndType DEF Raise

LEMMA KeepType ==
    ASSUME CycleTypeOK, NEW w \in Workers, NEW l \in Locals, Keep(w, l), NEW point \in Points,
           pc' = pc \/ GoTo(w, point), UNCHANGED <<seen, broker, mayEnter>>
    PROVE  CycleTypeOK'
BY DEF CycleTypeOK, Keep, GoTo

LEMMA BecauseType ==
    ASSUME NEW l \in Locals, NEW reason \in ReviewReasons
    PROVE  [l EXCEPT !.reasons = @ \cup {reason}] \in Locals
BY DEF Locals

LEMMA DropType ==
    ASSUME CycleTypeOK, NEW w \in Workers, NEW l \in Locals
    PROVE  Drop(w, l) \in Locals
BY DEF Drop, Locals

LEMMA NextTypeType ==
    ASSUME CycleTypeOK, NEW w \in Workers, NEW l \in Locals, NextType(w, l),
           UNCHANGED <<seen, broker, mayEnter>>
    PROVE  CycleTypeOK'
<1>1. CASE l.type = Len(ActivityTypes)
  <2>1. PendingSeen(w) \subseteq Positions
    BY DEF PendingSeen
  <2>2. [l EXCEPT !.token = 0, !.todo = PendingSeen(w)] \in Locals
    BY <2>1 DEF Locals
  <2>3. QED
    BY <1>1, <2>2, KeepType DEF NextType, Points
<1>2. CASE l.type # Len(ActivityTypes)
  <2>1. l.type + 1 \in DOMAIN ActivityTypes
    BY <1>2, PositionStoreAssumption DEF Locals
  <2>2. [l EXCEPT !.token = 0, !.type = @ + 1] \in Locals
    BY <2>1 DEF Locals
  <2>3. QED
    BY <1>2, <2>2, KeepType DEF NextType, Points
<1>3. QED
  BY <1>1, <1>2

LEMMA RecordType ==
    ASSUME StoreTypeOK, NEW p \in Positions, NEW to \in LifecycleStates, NEW id \in TransitionIds,
           NEW close \in BOOLEAN, row[p].state \in LifecycleStates, Record(p, to, id, close)
    PROVE  StoreTypeOK'
<1>1. row[p] \in Rows /\ ledger[p] \in Seq(Transitions)
  BY DEF StoreTypeOK
<1>2. [state |-> to, version |-> row[p].version + 1, close |-> row[p].close \/ close] \in Rows
  BY <1>1 DEF Rows
<1>3. [id |-> id, from |-> row[p].state, to |-> to] \in Transitions
  BY DEF Transitions
<1>4. Append(ledger[p], [id |-> id, from |-> row[p].state, to |-> to]) \in Seq(Transitions)
  BY <1>1, <1>3
<1>5. QED
  BY <1>2, <1>4 DEF Record, StoreTypeOK

LEMMA EventType ==
    ASSUME NEW kind \in TransitionKinds, NEW n \in Nat
    PROVE  [kind |-> kind, n |-> n] \in TransitionIds
BY DEF TransitionIds

BrokerTypeOK ==
    /\ legs \in [Positions -> Legs]
    /\ order \in [Positions -> OrderStatuses]
    /\ events \in Seq(BrokerEvents)

LEMMA TypeParts ==
    ASSUME TypeOK
    PROVE  /\ StoreTypeOK /\ BrokerTypeOK /\ CycleTypeOK
           /\ overlap \in BOOLEAN /\ faults \in 0..MaxFaults
BY DEF TypeOK, BrokerTypeOK, CycleTypeOK

LEMMA TypeOfParts ==
    ASSUME StoreTypeOK', BrokerTypeOK', CycleTypeOK', overlap' \in BOOLEAN, faults' \in 0..MaxFaults
    PROVE  TypeOK'
BY DEF TypeOK, BrokerTypeOK, CycleTypeOK

LEMMA StoreStays == ASSUME StoreTypeOK, UNCHANGED storeVars PROVE StoreTypeOK'
BY DEF StoreTypeOK, storeVars

LEMMA BrokerStays == ASSUME BrokerTypeOK, UNCHANGED brokerVars PROVE BrokerTypeOK'
BY DEF BrokerTypeOK, brokerVars

LEMMA CycleStays == ASSUME CycleTypeOK, UNCHANGED cycleVars PROVE CycleTypeOK'
BY DEF CycleTypeOK, cycleVars

LEMMA FaultType ==
    ASSUME faults \in 0..MaxFaults, NEW kind, Fault(kind)
    PROVE  faults' \in 0..MaxFaults
BY LifecycleAssumption DEF Fault

LEMMA StartType ==
    ASSUME TypeOK, NEW w \in Workers,
           \/ ListPositions(w) \/ ReadBroker(w) \/ ReadBrokerFails(w) \/ Promote(w)
           \/ PromotionConflicts(w) \/ FindUnmanaged(w)
    PROVE  TypeOK'
<1> USE TypeParts, TypeOfParts, StoreStays, BrokerStays
<1>1. CASE ListPositions(w)
  BY <1>1 DEF ListPositions, GoTo, TypeOK, StoreTypeOK, storeVars, brokerVars, Points
<1>2. CASE ReadBroker(w)
  BY <1>2 DEF ReadBroker, GoTo, TypeOK, StoreTypeOK, storeVars, brokerVars, Points
<1>3. CASE ReadBrokerFails(w)
  BY <1>3, RaiseType, FaultType DEF ReadBrokerFails
<1>4. CASE Promote(w)
  <2>1. NewRow \in Rows
    BY DEF NewRow, Rows, LifecycleStates, Active
  <2>2. StoreTypeOK'
    BY <1>4, <2>1 DEF Promote, PromoteReconciledOpenings, StoreTypeOK
  <2>3. [p \in Positions |-> IF Promotable(p, broker[w]) THEN NewRow ELSE seen[w][p]]
          \in [Positions -> Rows]
    BY <2>1 DEF TypeOK
  <2>4. seen' \in [Workers -> [Positions -> Rows]]
    BY <1>4, <2>3 DEF Promote, TypeOK
  <2>5. local' \in [Workers -> Locals]
    <3>1. local[w] \in Locals
      BY DEF TypeOK
    <3>2. Because(w, "opening_promotion_failed") \in Locals
      BY <3>1, BecauseType DEF Because, ReviewReasons
    <3>3. QED
      BY <1>4, <3>1, <3>2 DEF Promote, Keep, TypeOK
  <2>6. QED
    <3>1. CycleTypeOK'
      BY <1>4, <2>4, <2>5 DEF Promote, GoTo, Points, CycleTypeOK
    <3>2. QED
      BY <1>4, <2>2, <3>1 DEF Promote
<1>5. CASE PromotionConflicts(w)
  BY <1>5, RaiseType DEF PromotionConflicts
<1>6. CASE FindUnmanaged(w)
  <2>1. local[w] \in Locals
    BY DEF TypeOK
  <2>2. Because(w, "broker_position_mismatch") \in Locals
    BY <2>1, BecauseType DEF Because, ReviewReasons
  <2>3. CycleTypeOK'
    BY <1>6, <2>1, <2>2, KeepType DEF FindUnmanaged, Points
  <2>4. QED
    BY <1>6, <2>3 DEF FindUnmanaged
<1>7. QED
  BY <1>1, <1>2, <1>3, <1>4, <1>5, <1>6

LEMMA TargetType ==
    ASSUME NEW t, Target(t) # "none"
    PROVE  Target(t) \in LifecycleStates
BY DEF Target, MapBrokerActivityState, LifecycleStates, Active, TerminalOrReview, Review

LEMMA ActivitiesType ==
    ASSUME TypeOK, NEW w \in Workers,
           ReadCursor(w) \/ ApplyActivity(w) \/ ActivitiesFail(w) \/ AdvanceCursor(w)
    PROVE  TypeOK'
<1> USE TypeParts, TypeOfParts, StoreStays, BrokerStays
<1>0. local[w] \in Locals
  BY DEF TypeOK
<1>1. CASE ReadCursor(w)
  <2>1. [local[w] EXCEPT !.token = cursor[local[w].type]] \in Locals
    BY <1>0 DEF Locals, TypeOK, StoreTypeOK
  <2>2. CycleTypeOK'
    BY <1>1, <2>1, KeepType DEF ReadCursor, Points
  <2>3. QED
    BY <1>1, <2>2 DEF ReadCursor
<1>2. CASE ApplyActivity(w)
  <2> DEFINE n == First(Unread(local[w].type, local[w].token))
  <2> DEFINE p == events[n].pos
  <2> DEFINE id == [kind |-> "activity", n |-> n]
  <2> DEFINE to == Target(local[w].type)
  <2>1. n \in Nat /\ p \in Positions
    BY <1>2, FirstUnread DEF ApplyActivity, BrokerEvents
  <2>2. id \in TransitionIds
    BY <2>1, EventType DEF TransitionKinds
  <2>3. [local[w] EXCEPT !.token = n] \in Locals
    BY <1>0, <2>1 DEF Locals
  <2>4. [[local[w] EXCEPT !.token = n] EXCEPT !.moved = TRUE] \in Locals
    BY <2>3 DEF Locals
  <2>5. BrokerTypeOK' /\ UNCHANGED <<seen, broker, mayEnter, overlap, faults>>
    BY <1>2 DEF ApplyActivity
  <2> HIDE DEF n, p, id, to
  <2>6. CASE Keep(w, [local[w] EXCEPT !.token = n]) /\ UNCHANGED <<storeVars, pc>>
    <3>1. CycleTypeOK'
      BY <2>3, <2>5, <2>6, KeepType DEF Points
    <3>2. QED
      BY <2>5, <2>6, <3>1
  <2>7. CASE /\ Concerns(w, n) /\ Accepts(p, seen[w][p], to, id)
             /\ TransitionPosition(p, to, id)
             /\ Keep(w, [[local[w] EXCEPT !.token = n] EXCEPT !.moved = TRUE])
             /\ UNCHANGED pc
    <3>1. CycleTypeOK'
      BY <2>4, <2>5, <2>7, KeepType DEF Points
    <3>2. StoreTypeOK'
      BY <2>1, <2>2, <2>7, RecordType, TargetType DEF TransitionPosition, Accepts, Concerns, to
    <3>3. QED
      BY <2>5, <3>1, <3>2
  <2>8. CASE NextType(w, Because(w, "reconciliation_failed")) /\ UNCHANGED storeVars
    <3>1. Because(w, "reconciliation_failed") \in Locals
      BY <1>0, BecauseType DEF Because, ReviewReasons
    <3>2. CycleTypeOK'
      BY <2>5, <2>8, <3>1, NextTypeType
    <3>3. QED
      BY <2>5, <2>8, <3>2
  <2>9. QED
    BY <1>2, <2>6, <2>7, <2>8 DEF ApplyActivity, n, p, id, to
<1>3. CASE ActivitiesFail(w)
  <2>1. Because(w, "reconciliation_failed") \in Locals
    BY <1>0, BecauseType DEF Because, ReviewReasons
  <2>2. CycleTypeOK'
    BY <1>3, <2>1, NextTypeType DEF ActivitiesFail
  <2>3. QED
    BY <1>3, <2>2, FaultType DEF ActivitiesFail
<1>4. CASE AdvanceCursor(w)
  <2>1. local[w].type \in DOMAIN ActivityTypes /\ local[w].token \in Nat
    BY <1>0 DEF Locals
  <2>2. StoreTypeOK'
    BY <1>4, <2>1 DEF AdvanceCursor, AdvanceActivityCursor, StoreTypeOK
  <2>3. CycleTypeOK'
    BY <1>0, <1>4, NextTypeType DEF AdvanceCursor
  <2>4. QED
    BY <1>4, <2>2, <2>3 DEF AdvanceCursor
<1>5. QED
  BY <1>1, <1>2, <1>3, <1>4

LEMMA LoopType ==
    ASSUME CycleTypeOK, NEW w \in Workers, NEW point \in Points,
           NEW positions \in SUBSET Positions, Loop(w, point, positions),
           UNCHANGED <<seen, broker, mayEnter>>
    PROVE  CycleTypeOK'
<1>1. [local[w] EXCEPT !.todo = positions] \in Locals
  BY DEF CycleTypeOK, Locals
<1>2. QED
  BY <1>1, KeepType DEF Loop

LEMMA OrderTargetType ==
    ASSUME NEW status \in OrderStatuses, NEW present \in BOOLEAN
    PROVE  /\ MapCloseOrderState(status, present) \in LifecycleStates
           /\ OrderEvent(status) \in TransitionIds
<1>1. MapCloseOrderState(status, present) \in LifecycleStates
  BY DEF MapCloseOrderState, LifecycleStates, Active, TerminalOrReview, Review
<1>2. PICK kind \in TransitionKinds : OrderEvent(status) = [kind |-> kind, n |-> 0]
  BY DEF OrderEvent, Event, TransitionKinds
<1>3. QED
  BY <1>1, <1>2, EventType

LEMMA CloseOrdersType ==
    ASSUME TypeOK, NEW w \in Workers, LookupCloseOrder(w) \/ LookupFails(w) \/ OrdersDone(w)
    PROVE  TypeOK'
<1> USE TypeParts, TypeOfParts, StoreStays, BrokerStays
<1>0. local[w] \in Locals
  BY DEF TypeOK
<1>1. CASE LookupCloseOrder(w)
  <2> DEFINE p == Current(w)
  <2> DEFINE to == MapCloseOrderState(order[p], BothPresent(broker[w][p]))
  <2> DEFINE id == OrderEvent(order[p])
  <2>1. p \in Positions
    BY <1>1, CurrentType DEF LookupCloseOrder
  <2>2. to \in LifecycleStates /\ id \in TransitionIds
    <3>1. order[p] \in OrderStatuses /\ BothPresent(broker[w][p]) \in BOOLEAN
      BY <2>1 DEF TypeOK, BothPresent
    <3>2. QED
      BY <3>1, OrderTargetType
  <2>3. BrokerTypeOK' /\ UNCHANGED <<overlap, faults>>
    BY <1>1 DEF LookupCloseOrder
  <2> HIDE DEF p, to, id
  <2>4. CASE /\ Keep(w, Drop(w, Because(w, "close_order_not_found"))) \/ Keep(w, Drop(w, local[w]))
             /\ UNCHANGED <<storeVars, pc, seen, broker, mayEnter>>
    <3>1. Because(w, "close_order_not_found") \in Locals
      BY <1>0, BecauseType DEF Because, ReviewReasons
    <3>2. CycleTypeOK'
      BY <1>0, <2>4, <3>1, DropType, KeepType DEF Points
    <3>3. QED
      BY <2>3, <2>4, <3>2
  <2>5. CASE /\ Accepts(p, seen[w][p], to, id)
             /\ TransitionPosition(p, to, id)
             /\ Keep(w, Drop(w, local[w]))
             /\ UNCHANGED <<pc, seen, broker, mayEnter>>
    <3>1. CycleTypeOK'
      BY <1>0, <2>5, DropType, KeepType DEF Points
    <3>2. StoreTypeOK'
      BY <2>1, <2>2, <2>5, RecordType DEF TransitionPosition, Accepts
    <3>3. QED
      BY <2>3, <3>1, <3>2
  <2>6. CASE Raise(w) /\ UNCHANGED storeVars
    BY <2>3, <2>6, RaiseType
  <2>7. QED
    BY <1>1, <2>4, <2>5, <2>6 DEF LookupCloseOrder, p, to, id
<1>2. CASE LookupFails(w)
  <2>1. Because(w, "close_order_lookup_failed") \in Locals
    BY <1>0, BecauseType DEF Because, ReviewReasons
  <2>2. CycleTypeOK'
    BY <1>2, <2>1, DropType, KeepType DEF LookupFails, Points
  <2>3. QED
    BY <1>2, <2>2, FaultType DEF LookupFails
<1>3. CASE OrdersDone(w)
  <2>1. ClosedSeen(w) \in SUBSET Positions
    BY DEF ClosedSeen
  <2>2. CycleTypeOK'
    BY <1>3, <2>1, LoopType DEF OrdersDone, Points
  <2>3. QED
    BY <1>3, <2>2 DEF OrdersDone
<1>4. QED
  BY <1>1, <1>2, <1>3

LEMMA ClosedType ==
    ASSUME TypeOK, NEW w \in Workers, ReconcileClosed(w) \/ ClosedDone(w)
    PROVE  TypeOK'
<1> USE TypeParts, TypeOfParts, StoreStays, BrokerStays
<1>0. local[w] \in Locals
  BY DEF TypeOK
<1>1. CASE ReconcileClosed(w)
  <2> DEFINE p == Current(w)
  <2> DEFINE id == Event("closed_reconciled")
  <2>1. p \in Positions
    BY <1>1, CurrentType DEF ReconcileClosed
  <2>2. id \in TransitionIds /\ "CLOSED_RECONCILED" \in LifecycleStates
    BY EventType DEF Event, TransitionKinds, LifecycleStates, TerminalOrReview
  <2>3. BrokerTypeOK' /\ UNCHANGED <<overlap, faults>>
    BY <1>1 DEF ReconcileClosed
  <2> HIDE DEF p, id
  <2>4. CASE /\ Accepts(p, seen[w][p], "CLOSED_RECONCILED", id)
             /\ TransitionPosition(p, "CLOSED_RECONCILED", id)
             /\ Keep(w, Drop(w, local[w]))
             /\ UNCHANGED <<pc, seen, broker, mayEnter>>
    <3>1. CycleTypeOK'
      BY <1>0, <2>4, DropType, KeepType DEF Points
    <3>2. StoreTypeOK'
      BY <2>1, <2>2, <2>4, RecordType DEF TransitionPosition, Accepts
    <3>3. QED
      BY <2>3, <3>1, <3>2
  <2>5. CASE Raise(w) /\ UNCHANGED storeVars
    BY <2>3, <2>5, RaiseType
  <2>6. QED
    BY <1>1, <2>4, <2>5 DEF ReconcileClosed, p, id
<1>2. CASE ClosedDone(w)
  <2>1. OpenSeen(w) \in SUBSET Positions /\ {} \in SUBSET Positions
    BY DEF OpenSeen
  <2>2. \E positions \in SUBSET Positions : Loop(w, "exits", positions)
    BY <1>2, <2>1 DEF ClosedDone
  <2>3. CycleTypeOK'
    BY <1>2, <2>2, LoopType DEF ClosedDone, Points
  <2>4. QED
    BY <1>2, <2>3 DEF ClosedDone
<1>3. QED
  BY <1>1, <1>2

LEMMA ExitsType ==
    ASSUME TypeOK, NEW w \in Workers,
           EvaluateExit(w) \/ ExecuteClose(w) \/ ExecuteFails(w) \/ Finish(w) \/ Crash(w)
    PROVE  TypeOK'
<1> USE TypeParts, TypeOfParts, StoreStays, BrokerStays
<1>0. local[w] \in Locals
  BY DEF TypeOK
<1>1. CASE EvaluateExit(w)
  <2> DEFINE p == Current(w)
  <2>1. p \in Positions
    BY <1>1, CurrentType DEF EvaluateExit
  <2>2. BrokerTypeOK' /\ UNCHANGED <<overlap, faults>>
    BY <1>1 DEF EvaluateExit
  <2> HIDE DEF p
  <2>3. CASE Keep(w, Drop(w, local[w])) /\ UNCHANGED <<storeVars, pc, seen, broker, mayEnter>>
    <3>1. CycleTypeOK'
      BY <1>0, <2>3, DropType, KeepType DEF Points
    <3>2. QED
      BY <2>2, <2>3, <3>1
  <2>4. CASE /\ AcceptsClose(p, seen[w][p])
             /\ AttachCloseIntent(p)
             /\ GoTo(w, "execute")
             /\ UNCHANGED <<seen, broker, local, mayEnter>>
    <3>1. CycleTypeOK'
      BY <2>4 DEF CycleTypeOK, GoTo, Points
    <3>2. Event("close_pending") \in TransitionIds /\ "CLOSE_PENDING" \in LifecycleStates
      BY EventType DEF Event, TransitionKinds, LifecycleStates, Active
    <3>3. StoreTypeOK'
      BY <2>1, <2>4, <3>2, RecordType DEF AttachCloseIntent, AcceptsClose, Accepts
    <3>4. QED
      BY <2>2, <3>1, <3>3
  <2>5. CASE Raise(w) /\ UNCHANGED storeVars
    BY <2>2, <2>5, RaiseType
  <2>6. QED
    BY <1>1, <2>3, <2>4, <2>5 DEF EvaluateExit, p
<1>2. CASE ExecuteClose(w)
  <2>1. CycleTypeOK'
    BY <1>0, <1>2, DropType, KeepType DEF ExecuteClose, Points
  <2>2. BrokerTypeOK'
    BY <1>2 DEF ExecuteClose, BrokerTypeOK, OrderStatuses
  <2>3. QED
    BY <1>2, <2>1, <2>2 DEF ExecuteClose
<1>3. CASE ExecuteFails(w)
  BY <1>3, RaiseType, FaultType DEF ExecuteFails
<1>4. CASE Finish(w)
  <2>1. (~BlockNewEntries(w)) \in BOOLEAN
    BY DEF BlockNewEntries
  <2>2. CycleTypeOK'
    BY <1>4, <2>1, EndType DEF Finish
  <2>3. QED
    BY <1>4, <2>2 DEF Finish
<1>5. CASE Crash(w)
  BY <1>5, RaiseType, FaultType DEF Crash
<1>6. QED
  BY <1>1, <1>2, <1>3, <1>4, <1>5

LEMMA RemainingType ==
    ASSUME NEW l \in Legs, NEW type, NEW left \in Remaining(l, type)
    PROVE  left \in Legs
<1>1. [l EXCEPT !.short = 0] \in Legs /\ [l EXCEPT !.long = 0] \in Legs
  BY PositionStoreAssumption DEF Legs
<1>2. [long |-> 0, short |-> 0] \in Legs
  BY PositionStoreAssumption DEF Legs
<1>3. QED
  BY <1>1, <1>2 DEF Remaining

LEMMA EnvironmentType ==
    ASSUME TypeOK, Environment
    PROVE  TypeOK'
<1> USE TypeParts, TypeOfParts, StoreStays, CycleStays
<1>1. ASSUME NEW p \in Positions, Fill(p) PROVE TypeOK'
  <2>1. [long |-> Units, short |-> Units] \in Legs
    BY PositionStoreAssumption DEF Legs
  <2>2. BrokerTypeOK'
    BY <1>1, <2>1 DEF Fill, BrokerTypeOK
  <2>3. StoreTypeOK'
    BY <1>1 DEF Fill, StoreTypeOK, Openings
  <2>4. QED
    BY <1>1, <2>2, <2>3 DEF Fill
<1>2. ASSUME NEW p \in Positions, RecordOpening(p) PROVE TypeOK'
  <2>1. StoreTypeOK'
    BY <1>2 DEF RecordOpening, StoreTypeOK, Openings
  <2>2. QED
    BY <1>2, <2>1, BrokerStays DEF RecordOpening
<1>3. ASSUME NEW p \in Positions, CloseOrderFills(p) PROVE TypeOK'
  <2>1. legs[p] \in Legs /\ legs[p].long > 0 /\ legs[p].short > 0
    BY <1>3 DEF CloseOrderFills, TypeOK, BothPresent
  <2>2. [long |-> legs[p].long - 1, short |-> legs[p].short - 1] \in Legs
    BY <2>1, PositionStoreAssumption DEF Legs
  <2>3. BrokerTypeOK'
    BY <1>3, <2>2 DEF CloseOrderFills, BrokerTypeOK, OrderStatuses
  <2>4. QED
    BY <1>3, <2>3 DEF CloseOrderFills
<1>4. ASSUME NEW p \in Positions, CloseOrderEnds(p) PROVE TypeOK'
  <2>1. BrokerTypeOK'
    BY <1>4 DEF CloseOrderEnds, BrokerTypeOK, OrderStatuses
  <2>2. QED
    BY <1>4, <2>1 DEF CloseOrderEnds
<1>5. ASSUME NEW p \in Positions, BrokerEvent(p) PROVE TypeOK'
  <2>1. PICK t \in DOMAIN ActivityTypes, posted \in {"at_once", "not_yet"} :
               /\ \E left \in Remaining(legs[p], ActivityTypes[t]) :
                      legs' = [legs EXCEPT ![p] = left]
               /\ events' = Append(events, [type |-> t, pos |-> p, posted |-> posted])
    BY <1>5, LifecycleAssumption DEF BrokerEvent
  <2>2. PICK left \in Legs : legs' = [legs EXCEPT ![p] = left]
    BY <1>5, <2>1, RemainingType DEF TypeOK
  <2>3. [type |-> t, pos |-> p, posted |-> posted] \in BrokerEvents
    BY <1>5 DEF BrokerEvents
  <2>4. legs' \in [Positions -> Legs] /\ events' \in Seq(BrokerEvents)
    BY <2>1, <2>2, <2>3 DEF BrokerTypeOK
  <2>5. BrokerTypeOK'
    BY <1>5, <2>4 DEF BrokerTypeOK, BrokerEvent
  <2>6. QED
    BY <1>5, <2>5 DEF BrokerEvent
<1>6. ASSUME NEW n \in DOMAIN events, PostActivity(n) PROVE TypeOK'
  <2>1. events[n] \in BrokerEvents
    BY <1>6 DEF TypeOK
  <2>2. [events[n] EXCEPT !.posted = "late"] \in BrokerEvents
    BY <2>1 DEF BrokerEvents
  <2>3. events' \in Seq(BrokerEvents)
    BY <1>6, <2>2 DEF PostActivity, BrokerTypeOK
  <2>4. BrokerTypeOK'
    BY <1>6, <2>3 DEF PostActivity, BrokerTypeOK
  <2>5. QED
    BY <1>6, <2>4 DEF PostActivity
<1>7. QED
  BY <1>1, <1>2, <1>3, <1>4, <1>5, <1>6 DEF Environment

LEMMA InitType == Init => TypeOK
<1>1. ASSUME Init PROVE StoreTypeOK
  BY <1>1 DEF Init, StoreInit, StoreTypeOK, Openings, NoRow, Rows
<1>2. ASSUME Init PROVE CycleTypeOK
  BY <1>2, NoLocalType DEF Init, CycleTypeOK, Points
<1>3. ASSUME Init PROVE BrokerTypeOK
  BY <1>3, NoLocalType DEF Init, BrokerTypeOK, OrderStatuses
<1>4. ASSUME Init PROVE overlap \in BOOLEAN
  BY <1>4 DEF Init
<1>5. ASSUME Init PROVE faults \in 0..MaxFaults
  <2>1. faults = 0
    BY <1>5 DEF Init
  <2>2. QED
    BY <2>1, LifecycleAssumption
<1>6. QED
  BY <1>1, <1>2, <1>3, <1>4, <1>5 DEF TypeOK, BrokerTypeOK, CycleTypeOK

LEMMA StutterType == ASSUME TypeOK, UNCHANGED vars PROVE TypeOK'
BY TypeParts, TypeOfParts, StoreStays, BrokerStays, CycleStays DEF vars

LEMMA StepType == ASSUME TypeOK, Next PROVE TypeOK'
<1>1. ASSUME NEW w \in Workers, Step(w) PROVE TypeOK'
  BY <1>1, StartType, ActivitiesType, CloseOrdersType, ClosedType, ExitsType DEF Step
<1>2. ASSUME NEW w \in Workers, Failure(w) PROVE TypeOK'
  BY <1>2, StartType, ActivitiesType, CloseOrdersType, ExitsType DEF Failure
<1>3. QED
  BY <1>1, <1>2, EnvironmentType DEF Next

(* In every reachable state, for any number of positions, workers, faults  *)
(* and account activities, the tables, the broker's view and the locals of *)
(* every cycle have the values they are declared with                      *)
(* (position_lifecycle.py:101).                                            *)
THEOREM PositionTypeCorrect == Spec => []TypeOK
<1>1. TypeOK /\ [Next]_vars => TypeOK'
  BY StepType, StutterType
<1>2. QED
  BY <1>1, InitType, PTL DEF Spec
-----------------------------------------------------------------------------
(* The row and the ledger of a position change when a cycle promotes it or *)
(* records a transition of it.                                             *)
Moves(w, p, to, id, close) ==
    /\ Accepts(p, seen[w][p], to, id)
    /\ Record(p, to, id, close)
    /\ close <=> to = "CLOSE_PENDING"
    /\ to = "CLOSE_FILLED" => order[p] = "FILLED"
    /\ to = "CLOSED_RECONCILED" => pc[w] = "closed" /\ p \in local[w].todo
    /\ UNCHANGED <<brokerVars, seen, broker>>
SomeMove(w) ==
    \E p \in Positions, to \in LifecycleStates, id \in TransitionIds, close \in BOOLEAN :
        Moves(w, p, to, id, close)

LEMMA ActivityMoves ==
    ASSUME TypeOK, NEW w \in Workers, ApplyActivity(w)
    PROVE  SomeMove(w) \/ UNCHANGED storeVars
<1> DEFINE n == First(Unread(local[w].type, local[w].token))
<1> DEFINE p == events[n].pos
<1> DEFINE id == [kind |-> "activity", n |-> n]
<1> DEFINE to == Target(local[w].type)
<1>1. n \in Nat /\ p \in Positions
  BY FirstUnread DEF ApplyActivity, BrokerEvents
<1>2. id \in TransitionIds
  BY <1>1, EventType DEF TransitionKinds
<1> HIDE DEF n, p, id, to
<1>3. CASE /\ Concerns(w, n)
           /\ Accepts(p, seen[w][p], to, id)
           /\ TransitionPosition(p, to, id)
  <2>1. to \in LifecycleStates /\ to \notin {"CLOSE_PENDING", "CLOSE_FILLED", "CLOSED_RECONCILED"}
    BY <1>3, TargetType DEF Concerns, to, Target, MapBrokerActivityState
  <2>2. UNCHANGED <<brokerVars, seen, broker>>
    BY DEF ApplyActivity
  <2>3. Moves(w, p, to, id, FALSE)
    BY <1>3, <2>1, <2>2 DEF Moves, TransitionPosition
  <2>4. QED
    BY <1>1, <1>2, <2>1, <2>3 DEF SomeMove
<1>4. QED
  BY <1>3 DEF ApplyActivity, n, p, id, to

LEMMA CloseOrderMoves ==
    ASSUME TypeOK, NEW w \in Workers, LookupCloseOrder(w)
    PROVE  SomeMove(w) \/ UNCHANGED storeVars
<1> DEFINE p == Current(w)
<1> DEFINE to == MapCloseOrderState(order[p], BothPresent(broker[w][p]))
<1> DEFINE id == OrderEvent(order[p])
<1>1. p \in Positions
  BY CurrentType DEF LookupCloseOrder
<1>2. order[p] \in OrderStatuses /\ BothPresent(broker[w][p]) \in BOOLEAN
  BY <1>1 DEF TypeOK, BothPresent
<1>3. to \in LifecycleStates /\ id \in TransitionIds
  BY <1>2, OrderTargetType
<1>4. to # "CLOSED_RECONCILED" /\ (to = "CLOSE_FILLED" => order[p] = "FILLED")
  BY <1>2 DEF MapCloseOrderState
<1> HIDE DEF p, to, id
<1>5. CASE /\ to # "CLOSE_PENDING"
           /\ Accepts(p, seen[w][p], to, id)
           /\ TransitionPosition(p, to, id)
           /\ UNCHANGED <<seen, broker>>
  <2>1. UNCHANGED brokerVars
    BY DEF LookupCloseOrder
  <2>2. Moves(w, p, to, id, FALSE)
    BY <1>4, <1>5, <2>1 DEF Moves, TransitionPosition
  <2>3. QED
    BY <1>1, <1>3, <2>2 DEF SomeMove
<1>6. QED
  BY <1>5 DEF LookupCloseOrder, p, to, id

LEMMA ClosedMoves ==
    ASSUME TypeOK, NEW w \in Workers, ReconcileClosed(w)
    PROVE  SomeMove(w) \/ UNCHANGED storeVars
<1> DEFINE p == Current(w)
<1> DEFINE id == Event("closed_reconciled")
<1>1. p \in Positions /\ p \in local[w].todo
  BY CurrentType DEF ReconcileClosed
<1>2. id \in TransitionIds /\ "CLOSED_RECONCILED" \in LifecycleStates
  BY EventType DEF Event, TransitionKinds, LifecycleStates, TerminalOrReview
<1> HIDE DEF p, id
<1>3. CASE /\ Accepts(p, seen[w][p], "CLOSED_RECONCILED", id)
           /\ TransitionPosition(p, "CLOSED_RECONCILED", id)
           /\ UNCHANGED <<seen, broker>>
  <2>1. UNCHANGED brokerVars /\ pc[w] = "closed"
    BY DEF ReconcileClosed
  <2>2. Moves(w, p, "CLOSED_RECONCILED", id, FALSE)
    BY <1>1, <1>3, <2>1 DEF Moves, TransitionPosition
  <2>3. QED
    BY <1>1, <1>2, <2>2 DEF SomeMove
<1>4. QED
  BY <1>3 DEF ReconcileClosed, p, id

LEMMA ExitMoves ==
    ASSUME TypeOK, NEW w \in Workers, EvaluateExit(w)
    PROVE  /\ SomeMove(w) \/ UNCHANGED storeVars
           /\ pc'[w] = "execute" =>
                /\ local' = local
                /\ row'[Current(w)].state = "CLOSE_PENDING"
<1> DEFINE p == Current(w)
<1> DEFINE id == Event("close_pending")
<1>1. p \in Positions
  BY CurrentType DEF EvaluateExit
<1>2. id \in TransitionIds /\ "CLOSE_PENDING" \in LifecycleStates
  BY EventType DEF Event, TransitionKinds, LifecycleStates, Active
<1>3. UNCHANGED brokerVars /\ pc[w] = "exits"
  BY DEF EvaluateExit
<1> HIDE DEF p, id
<1>4. CASE /\ AcceptsClose(p, seen[w][p])
           /\ AttachCloseIntent(p)
           /\ UNCHANGED <<seen, broker, local>>
  <2>1. Moves(w, p, "CLOSE_PENDING", id, TRUE)
    BY <1>3, <1>4 DEF Moves, AttachCloseIntent, AcceptsClose, id
  <2>2. SomeMove(w)
    BY <1>1, <1>2, <2>1 DEF SomeMove
  <2>3. row'[p].state = "CLOSE_PENDING"
    BY <1>1, <1>4 DEF AttachCloseIntent, Record, TypeOK, StoreTypeOK
  <2>4. QED
    BY <1>4, <2>2, <2>3 DEF p
<1>5. CASE UNCHANGED <<storeVars, pc>>
  BY <1>3, <1>5
<1>6. CASE Raise(w) /\ UNCHANGED storeVars
  <2>1. pc'[w] = "idle"
    BY <1>6 DEF Raise, End, GoTo, TypeOK
  <2>2. QED
    BY <1>6, <2>1
<1>7. QED
  BY <1>4, <1>5, <1>6 DEF EvaluateExit, p, id

LEMMA RowsMove ==
    ASSUME TypeOK, [Next]_vars
    PROVE  \/ UNCHANGED <<row, ledger>>
           \/ \E w \in Workers : Promote(w) \/ SomeMove(w)
<1>1. ASSUME NEW w \in Workers, Step(w)
      PROVE  Promote(w) \/ SomeMove(w) \/ UNCHANGED <<row, ledger>>
  <2>1. CASE ApplyActivity(w) \/ LookupCloseOrder(w) \/ ReconcileClosed(w) \/ EvaluateExit(w)
    BY <2>1, ActivityMoves, CloseOrderMoves, ClosedMoves, ExitMoves DEF storeVars
  <2>2. CASE AdvanceCursor(w)
    BY <2>2 DEF AdvanceCursor, AdvanceActivityCursor
  <2>3. CASE \/ ListPositions(w) \/ ReadBroker(w) \/ FindUnmanaged(w) \/ ReadCursor(w)
             \/ OrdersDone(w) \/ ClosedDone(w) \/ ExecuteClose(w) \/ Finish(w)
    BY <2>3 DEF ListPositions, ReadBroker, FindUnmanaged, ReadCursor, OrdersDone, ClosedDone,
       ExecuteClose, Finish, storeVars
  <2>4. QED
    BY <1>1, <2>1, <2>2, <2>3 DEF Step
<1>2. ASSUME NEW w \in Workers, Failure(w)
      PROVE  UNCHANGED <<row, ledger>>
  BY <1>2 DEF Failure, ReadBrokerFails, PromotionConflicts, ActivitiesFail, LookupFails,
     ExecuteFails, Crash, storeVars
<1>3. CASE Environment
  BY <1>3 DEF Environment, Fill, RecordOpening, CloseOrderFills, CloseOrderEnds, BrokerEvent,
     PostActivity, storeVars
<1>4. CASE UNCHANGED vars
  BY <1>4 DEF vars, storeVars
<1>5. QED
  BY <1>1, <1>2, <1>3, <1>4 DEF Next

-----------------------------------------------------------------------------
(* What a transition leaves of a row that could be loaded.                 *)

LEMMA NextState ==
    ASSUME NEW s \in LifecycleStates, NEW to \in AllowedTransitions[s]
    PROVE  /\ s = "OPEN" => to \in {"CLOSE_PENDING"} \cup Review
           /\ s = "CLOSE_PENDING" => to \in {"CLOSE_FILLED"} \cup Review
           /\ s = "CLOSE_FILLED" => to \in {"CLOSED_RECONCILED"} \cup Review
           /\ s \in {"OPEN", "CLOSE_PENDING", "CLOSE_FILLED"}
           /\ to # "OPEN"
           /\ to = "CLOSE_FILLED" => s = "CLOSE_PENDING"
           /\ to = "CLOSED_RECONCILED" => s = "CLOSE_FILLED"
BY DEF AllowedTransitions, LifecycleStates, Active, TerminalOrReview, Review

LEMMA SameRowValidates ==
    ASSUME NEW p, Validates(p), row'[p] = row[p], ledger'[p] = ledger[p]
    PROVE  Validates(p)'
BY DEF Validates

LEMMA RecordValidates ==
    ASSUME StoreTypeOK, NEW p \in Positions, NEW to \in LifecycleStates, NEW id \in TransitionIds,
           NEW close \in BOOLEAN, NEW listed, Accepts(p, listed, to, id),
           close <=> to = "CLOSE_PENDING", Record(p, to, id, close)
    PROVE  Validates(p)'
<1> DEFINE l == ledger[p]
<1> DEFINE e == [id |-> id, from |-> row[p].state, to |-> to]
<1> DEFINE m == Append(l, e)
<1>1. l \in Seq(Transitions) /\ e \in Transitions /\ row[p].state \in LifecycleStates
  BY DEF StoreTypeOK, Accepts, Transitions
<1>2. /\ ledger'[p] = m
      /\ row'[p] = [state |-> to, version |-> row[p].version + 1, close |-> row[p].close \/ close]
  BY DEF Record, StoreTypeOK
<1>3. /\ Len(m) = Len(l) + 1 /\ Len(l) \in Nat /\ m # <<>>
      /\ m[Len(m)] = e
      /\ \A i \in DOMAIN l : i \in DOMAIN m /\ m[i] = l[i]
      /\ \A i \in DOMAIN m : i \in DOMAIN l \/ i = Len(l) + 1
      /\ DOMAIN l = 1..Len(l)
  BY <1>1
<1> HIDE DEF e, m
<1>4. row[p].version = Len(l)
  BY DEF Accepts, Validates
<1>5. m[1].from = "OPEN"
  <2>1. CASE l = <<>>
    <3>1. row[p].state = "OPEN"
      BY <1>1, <2>1 DEF Accepts, Validates, LifecycleStates, Active, TerminalOrReview, Review
    <3>2. m[1] = e
      BY <1>3, <2>1
    <3>3. QED
      BY <3>1, <3>2 DEF e
  <2>2. CASE l # <<>>
    <3>1. 1 \in DOMAIN l
      BY <1>1, <2>2
    <3>2. l[1].from = "OPEN"
      BY <2>2 DEF Accepts, Validates
    <3>3. QED
      BY <1>3, <3>1, <3>2
  <2>3. QED
    BY <2>1, <2>2
<1>6. \A i \in 2..Len(m) : m[i].from = m[i - 1].to
  <2> SUFFICES ASSUME NEW i \in 2..Len(m) PROVE m[i].from = m[i - 1].to
    OBVIOUS
  <2>1. CASE i \in 2..Len(l)
    <3>1. i \in DOMAIN l /\ i - 1 \in DOMAIN l
      BY <1>3, <2>1
    <3>2. l[i].from = l[i - 1].to
      BY <2>1 DEF Accepts, Validates
    <3>3. QED
      BY <1>3, <3>1, <3>2
  <2>2. CASE i = Len(l) + 1
    <3>1. Len(l) \in DOMAIN l /\ i - 1 = Len(l) /\ l # <<>>
      BY <1>1, <1>3, <2>2
    <3>2. l[Len(l)].to = row[p].state
      BY <3>1 DEF Accepts, Validates
    <3>3. m[i] = e /\ m[i - 1] = l[Len(l)]
      BY <1>3, <2>2, <3>1
    <3>4. QED
      BY <3>2, <3>3 DEF e
  <2>3. QED
    BY <1>3, <2>1, <2>2
<1>7. \A i \in DOMAIN m : m[i].to \in AllowedTransitions[m[i].from]
  <2>1. \A i \in DOMAIN l : l[i].to \in AllowedTransitions[l[i].from]
    BY DEF Accepts, Validates
  <2>2. e.to \in AllowedTransitions[e.from]
    BY DEF Accepts, e
  <2>3. QED
    BY <1>3, <2>1, <2>2
<1>8. \A i, j \in DOMAIN m : m[i].id = m[j].id => i = j
  <2>1. \A i, j \in DOMAIN l : l[i].id = l[j].id => i = j
    BY DEF Accepts, Validates
  <2>2. \A i \in DOMAIN l : l[i].id # e.id
    BY DEF Accepts, e
  <2>3. QED
    BY <1>3, <2>1, <2>2
<1>9. (row[p].close \/ close) <=> \E i \in DOMAIN m : m[i].to = "CLOSE_PENDING"
  <2>1. row[p].close <=> \E i \in DOMAIN l : l[i].to = "CLOSE_PENDING"
    BY DEF Accepts, Validates
  <2>2. close <=> e.to = "CLOSE_PENDING"
    BY DEF e
  <2>3. Len(m) \in DOMAIN m
    BY <1>1, <1>3 DEF m
  <2>4. QED
    BY <1>3, <2>1, <2>2, <2>3
<1>10. m[Len(m)].to = to
  BY <1>3 DEF e
<1>11. /\ row'[p].version = Len(m)
       /\ row'[p].state = to
  BY <1>2, <1>3, <1>4
<1>12. row'[p].close <=> row[p].close \/ close
  <2>1. row[p].close \in BOOLEAN
    BY DEF StoreTypeOK, Rows
  <2>2. row'[p].close = (row[p].close \/ close)
    BY <1>2, <2>1
  <2>3. QED
    BY <2>1, <2>2
<1>13. row'[p].close <=> \E i \in DOMAIN m : m[i].to = "CLOSE_PENDING"
  BY <1>9, <1>12
<1>14. QED
  BY <1>2, <1>3, <1>5, <1>6, <1>7, <1>8, <1>10, <1>11, <1>13 DEF Validates

LEMMA PromoteValidates ==
    ASSUME StoreTypeOK, NEW listed, PromoteReconciledOpenings(listed), NEW p \in Positions, Validates(p)
    PROVE  Validates(p)'
<1>1. ledger'[p] = ledger[p]
  BY DEF PromoteReconciledOpenings
<1>2. CASE Promotable(p, listed)
  <2>1. row[p].state = "absent" /\ row'[p] = NewRow
    BY <1>2 DEF Promotable, Unpromoted, PromoteReconciledOpenings
  <2>2. ledger[p] = <<>>
    <3>1. SUFFICES ASSUME ledger[p] # <<>> PROVE FALSE
      OBVIOUS
    <3>2. ledger[p][Len(ledger[p])] \in Transitions
      BY <3>1 DEF StoreTypeOK
    <3>3. ledger[p][Len(ledger[p])].to = "absent"
      BY <2>1, <3>1 DEF Validates
    <3>4. QED
      BY <3>2, <3>3 DEF Transitions, LifecycleStates, Active, TerminalOrReview, Review
  <2>3. DOMAIN ledger[p] = {} /\ Len(ledger[p]) = 0
    BY <2>2
  <2>4. QED
    BY <1>1, <2>1, <2>2, <2>3 DEF Validates, NewRow
<1>3. CASE ~Promotable(p, listed)
  BY <1>1, <1>3, SameRowValidates DEF PromoteReconciledOpenings
<1>4. QED
  BY <1>2, <1>3

(* Every row can be loaded in every reachable state: no interleaving of    *)
(* cycles, crash, activity or order state leaves a row whose version,      *)
(* state, close intent and ledger disagree (domain/positions.py:149,       *)
(* store.py:86).                                                           *)
THEOREM RowsCanBeLoaded == Spec => []RowsValidate
<1>1. ASSUME Init, NEW p \in Positions PROVE Validates(p)
  <2>1. row[p] = NoRow /\ ledger[p] = <<>>
    BY <1>1 DEF Init, StoreInit
  <2>2. DOMAIN ledger[p] = {} /\ Len(ledger[p]) = 0
    BY <2>1
  <2>3. QED
    BY <2>1, <2>2 DEF Validates, NoRow
<1>2. ASSUME TypeOK, RowsValidate, [Next]_vars PROVE RowsValidate'
  <2>1. SUFFICES ASSUME NEW q \in Positions PROVE Validates(q)'
    BY DEF RowsValidate
  <2>2. Validates(q) /\ StoreTypeOK
    BY <1>2, TypeParts DEF RowsValidate
  <2>3. CASE UNCHANGED <<row, ledger>>
    BY <2>2, <2>3, SameRowValidates
  <2>4. ASSUME NEW w \in Workers, Promote(w) PROVE Validates(q)'
    BY <2>2, <2>4, PromoteValidates DEF Promote
  <2>5. ASSUME NEW w \in Workers, SomeMove(w) PROVE Validates(q)'
    <3>1. PICK p \in Positions, to \in LifecycleStates, id \in TransitionIds, close \in BOOLEAN :
            Moves(w, p, to, id, close)
      BY <2>5 DEF SomeMove
    <3>2. CASE q = p
      BY <2>2, <3>1, <3>2, RecordValidates DEF Moves
    <3>3. CASE q # p
      <4>1. row'[q] = row[q] /\ ledger'[q] = ledger[q]
        BY <2>2, <3>1, <3>3 DEF Moves, Record, StoreTypeOK
      <4>2. QED
        BY <2>2, <4>1, SameRowValidates
    <3>4. QED
      BY <3>2, <3>3
  <2>6. QED
    BY <1>2, <2>3, <2>4, <2>5, RowsMove
<1>3. Init => RowsValidate
  BY <1>1 DEF RowsValidate
<1>4. QED
  BY <1>2, <1>3, PositionTypeCorrect, PTL DEF Spec
-----------------------------------------------------------------------------
(* What holds of every state and carries the properties: a managed         *)
(* position was bought; its close order exists only once it has left OPEN, *)
(* and has filled once it counts as closed; a cycle only lists what was    *)
(* bought, so the legs it saw gone stay gone; and the last loop of a cycle *)
(* only closes what it saw filled and gone.                                *)
Early == {"absent", "OPEN"}
WasBought(p) == row[p].state # "absent" => opening[p] # "unfilled"
OrderIsLater(p) == order[p] # "absent" => row[p].state \notin Early
FillIsOrdered(p) == row[p].state \in {"CLOSE_FILLED", "CLOSED_RECONCILED"} => order[p] = "FILLED"
ClosedIsFlat(p) == row[p].state = "CLOSED_RECONCILED" => Flat(legs[p])
SeenWasBought(w, p) == seen[w][p].state # "absent" => opening[p] # "unfilled"
GoneStaysGone(w, p) ==
    /\ pc[w] \notin {"idle", "positions"}
    /\ seen[w][p].state # "absent"
    /\ Flat(broker[w][p])
    => Flat(legs[p])
ClosesWhatItSaw(w) == pc[w] = "closed" => local[w].todo \subseteq ClosedSeen(w)
ExecutesAttached(w) == pc[w] = "execute" => local[w].todo # {} /\ row[Current(w)].state \notin Early

StoreInv == \A p \in Positions : WasBought(p) /\ OrderIsLater(p) /\ FillIsOrdered(p) /\ ClosedIsFlat(p)
SeenInv == \A w \in Workers, p \in Positions : SeenWasBought(w, p) /\ GoneStaysGone(w, p)
LoopInv == \A w \in Workers : ClosesWhatItSaw(w) /\ ExecutesAttached(w)

(* What one step does to a position, to its close order and to a cycle.    *)
RowMoves(p) ==
    \/ row'[p].state = row[p].state
    \/ row[p].state = "absent" /\ row'[p].state = "OPEN" /\ opening[p] = "receipted" /\ UNCHANGED brokerVars
    \/ /\ row[p].state \in LifecycleStates
       /\ row'[p].state \in AllowedTransitions[row[p].state]
       /\ row'[p].state = "CLOSE_FILLED" => order[p] = "FILLED"
       /\ row'[p].state = "CLOSED_RECONCILED" => \E w \in Workers : pc[w] = "closed" /\ p \in local[w].todo
       /\ UNCHANGED <<opening, brokerVars>>
OrderMoves(p) ==
    \/ order'[p] = order[p]
    \/ order[p] = "absent" /\ UNCHANGED storeVars /\ \E w \in Workers : pc[w] = "execute" /\ p = Current(w)
    \/ order[p] \in {"NEW", "PARTIALLY_FILLED"} /\ order'[p] # "absent"
ViewMoves(w) ==
    \/ /\ seen'[w] = seen[w] /\ broker'[w] = broker[w]
       /\ pc'[w] \in {"idle", "positions"} \/ pc[w] \notin {"idle", "positions"}
    \/ pc'[w] = "positions" /\ seen'[w] = row
    \/ pc'[w] = "promote" /\ seen'[w] = seen[w] /\ broker'[w] = legs /\ UNCHANGED brokerVars
    \/ Promote(w)
    \/ pc'[w] = "idle" /\ seen'[w] = NothingSeen
LoopMoves(w) ==
    /\ pc'[w] = "closed" =>
         /\ seen'[w] = seen[w] /\ broker'[w] = broker[w]
         /\ \/ local'[w].todo = ClosedSeen(w)
            \/ pc[w] = "closed" /\ local'[w].todo \subseteq local[w].todo
    /\ pc'[w] = "execute" =>
         /\ local'[w] = local[w]
         /\ \/ pc[w] = "execute"
            \/ local[w].todo # {} /\ row'[Current(w)].state = "CLOSE_PENDING"

LEMMA ARowMoves ==
    ASSUME TypeOK, [Next]_vars, NEW p \in Positions
    PROVE  RowMoves(p)
<1>1. StoreTypeOK
  BY TypeParts
<1>2. ASSUME NEW w \in Workers, Promote(w) PROVE RowMoves(p)
  BY <1>1, <1>2 DEF RowMoves, Promote, PromoteReconciledOpenings, Promotable, Unpromoted, NewRow
<1>3. ASSUME NEW w \in Workers, SomeMove(w) PROVE RowMoves(p)
  <2>1. PICK q \in Positions, to \in LifecycleStates, id \in TransitionIds, close \in BOOLEAN :
          Moves(w, q, to, id, close)
    BY <1>3 DEF SomeMove
  <2>2. CASE p = q
    <3>1. row'[p].state = to /\ UNCHANGED opening
      BY <1>1, <2>1, <2>2 DEF Moves, Record, StoreTypeOK
    <3>2. row[p].state \in LifecycleStates /\ to \in AllowedTransitions[row[p].state]
      BY <2>1, <2>2 DEF Moves, Accepts
    <3>3. QED
      BY <2>1, <2>2, <3>1, <3>2 DEF Moves, RowMoves
  <2>3. CASE p # q
    <3>1. row'[p] = row[p]
      BY <1>1, <2>1, <2>3 DEF Moves, Record, StoreTypeOK
    <3>2. QED
      BY <3>1 DEF RowMoves
  <2>4. QED
    BY <2>2, <2>3
<1>4. QED
  BY <1>2, <1>3, RowsMove DEF RowMoves

LEMMA AnOrderMoves ==
    ASSUME TypeOK, [Next]_vars, NEW p \in Positions
    PROVE  OrderMoves(p)
<1>0. order \in [Positions -> OrderStatuses]
  BY DEF TypeOK
<1>1. ASSUME NEW w \in Workers, ExecuteClose(w) PROVE OrderMoves(p)
  BY <1>0, <1>1 DEF ExecuteClose, OrderMoves
<1>2. ASSUME NEW w \in Workers, Step(w) \/ Failure(w), ~ExecuteClose(w) PROVE UNCHANGED order
  BY <1>2 DEF Step, Failure, ListPositions, ReadBroker, Promote, FindUnmanaged, ReadCursor, ApplyActivity,
     AdvanceCursor, LookupCloseOrder, OrdersDone, ReconcileClosed, ClosedDone, EvaluateExit, Finish,
     ReadBrokerFails, PromotionConflicts, ActivitiesFail, LookupFails, ExecuteFails, Crash, brokerVars
<1>3. ASSUME NEW q \in Positions, CloseOrderFills(q) \/ CloseOrderEnds(q) PROVE OrderMoves(p)
  BY <1>0, <1>3 DEF CloseOrderFills, CloseOrderEnds, OrderMoves
<1>4. ASSUME Environment, ~\E q \in Positions : CloseOrderFills(q) \/ CloseOrderEnds(q)
      PROVE  UNCHANGED order
  BY <1>4 DEF Environment, Fill, RecordOpening, BrokerEvent, PostActivity, brokerVars
<1>5. ASSUME UNCHANGED vars PROVE UNCHANGED order
  BY <1>5 DEF vars, brokerVars
<1>6. UNCHANGED order => OrderMoves(p)
  BY DEF OrderMoves
<1>7. QED
  BY <1>1, <1>2, <1>3, <1>4, <1>5, <1>6 DEF Next

(* What was bought stays bought, and once it is gone it stays gone.        *)
LEMMA PurchasesLast ==
    ASSUME TypeOK, [Next]_vars, NEW p \in Positions, opening[p] # "unfilled"
    PROVE  opening'[p] # "unfilled" /\ (Flat(legs[p]) => Flat(legs'[p]))
<1>0. opening \in [Positions -> Openings] /\ legs \in [Positions -> Legs]
  BY DEF TypeOK, StoreTypeOK
<1>1. ASSUME NEW w \in Workers, Step(w) \/ Failure(w) PROVE UNCHANGED <<opening, legs>>
  BY <1>1 DEF Step, Failure, ListPositions, ReadBroker, Promote, FindUnmanaged, ReadCursor, ApplyActivity,
     AdvanceCursor, LookupCloseOrder, OrdersDone, ReconcileClosed, ClosedDone, EvaluateExit, ExecuteClose,
     Finish, ReadBrokerFails, PromotionConflicts, ActivitiesFail, LookupFails, ExecuteFails, Crash,
     brokerVars, storeVars, PromoteReconciledOpenings, TransitionPosition, AttachCloseIntent, Record,
     AdvanceActivityCursor
<1>2. ASSUME NEW q \in Positions, Fill(q) PROVE opening'[p] = opening[p] /\ legs'[p] = legs[p]
  BY <1>0, <1>2 DEF Fill
<1>3. ASSUME NEW q \in Positions, RecordOpening(q) PROVE opening'[p] # "unfilled" /\ UNCHANGED legs
  BY <1>0, <1>3 DEF RecordOpening, brokerVars
<1>4. ASSUME NEW q \in Positions, CloseOrderFills(q) \/ CloseOrderEnds(q) \/ BrokerEvent(q), Flat(legs[p])
      PROVE  Flat(legs'[p])
  BY <1>0, <1>4 DEF CloseOrderFills, CloseOrderEnds, BrokerEvent, BothPresent, Flat, Legs
<1>5. ASSUME NEW q \in Positions, CloseOrderFills(q) \/ CloseOrderEnds(q) \/ BrokerEvent(q)
      PROVE  UNCHANGED opening
  BY <1>5 DEF CloseOrderFills, CloseOrderEnds, BrokerEvent, storeVars
<1>6. ASSUME NEW n \in DOMAIN events, PostActivity(n) PROVE UNCHANGED <<opening, legs>>
  BY <1>6 DEF PostActivity, storeVars
<1>7. CASE UNCHANGED vars
  BY <1>7 DEF vars, brokerVars, storeVars
<1>8. QED
  BY <1>1, <1>2, <1>3, <1>4, <1>5, <1>6, <1>7 DEF Next, Environment

LEMMA EndMoves ==
    ASSUME TypeOK, NEW w \in Workers, NEW clear, End(w, clear)
    PROVE  ViewMoves(w) /\ LoopMoves(w)
BY DEF End, GoTo, TypeOK, ViewMoves, LoopMoves

LEMMA RaiseMoves ==
    ASSUME TypeOK, NEW w \in Workers, Raise(w)
    PROVE  ViewMoves(w) /\ LoopMoves(w)
BY EndMoves DEF Raise

LEMMA PlainMoves ==   \* within the loops before the last two
    ASSUME NEW w \in Workers, UNCHANGED <<seen, broker>>, pc[w] \notin {"idle", "positions"},
           pc'[w] \notin {"closed", "execute"}
    PROVE  ViewMoves(w) /\ LoopMoves(w)
BY DEF ViewMoves, LoopMoves

LEMMA StepMoves ==
    ASSUME TypeOK, NEW w \in Workers, Step(w)
    PROVE  ViewMoves(w) /\ LoopMoves(w)
<1>0. pc \in [Workers -> Points] /\ local \in [Workers -> Locals]
  BY DEF TypeOK
<1>1. CASE ListPositions(w) \/ ReadBroker(w) \/ Promote(w)
  BY <1>1 DEF ListPositions, ReadBroker, Promote, GoTo, TypeOK, ViewMoves, LoopMoves
<1>2. CASE FindUnmanaged(w) \/ ReadCursor(w) \/ ClosedDone(w) \/ ExecuteClose(w)
  <2>1. pc'[w] \notin {"closed", "execute"} /\ pc[w] \notin {"idle", "positions"}
    BY <1>0, <1>2 DEF FindUnmanaged, ReadCursor, ClosedDone, ExecuteClose, GoTo, Loop
  <2>2. UNCHANGED <<seen, broker>>
    BY <1>2 DEF FindUnmanaged, ReadCursor, ClosedDone, ExecuteClose
  <2>3. QED
    BY <2>1, <2>2, PlainMoves
<1>3. CASE ApplyActivity(w) \/ AdvanceCursor(w)
  <2>1. pc'[w] \notin {"closed", "execute"} /\ pc[w] = "activities"
    BY <1>0, <1>3 DEF ApplyActivity, AdvanceCursor, NextType, GoTo
  <2>2. UNCHANGED <<seen, broker>>
    BY <1>3 DEF ApplyActivity, AdvanceCursor
  <2>3. QED
    BY <2>1, <2>2, PlainMoves
<1>4. CASE LookupCloseOrder(w)
  <2>1. pc[w] = "orders" /\ (Raise(w) \/ UNCHANGED <<pc, seen, broker>>)
    BY <1>4 DEF LookupCloseOrder
  <2>2. QED
    BY <2>1, PlainMoves, RaiseMoves
<1>5. CASE OrdersDone(w)
  BY <1>0, <1>5 DEF OrdersDone, Loop, GoTo, Keep, ViewMoves, LoopMoves
<1>6. CASE ReconcileClosed(w)
  <2>1. ASSUME Keep(w, Drop(w, local[w])), UNCHANGED <<pc, seen, broker>>
        PROVE  ViewMoves(w) /\ LoopMoves(w)
    <3>1. local'[w].todo \subseteq local[w].todo
      BY <1>0, <2>1 DEF Keep, Drop, Locals
    <3>2. QED
      BY <1>6, <2>1, <3>1 DEF ReconcileClosed, ViewMoves, LoopMoves
  <2>2. QED
    BY <1>6, <2>1, RaiseMoves DEF ReconcileClosed
<1>7. CASE EvaluateExit(w)
  <2>1. pc[w] = "exits" /\ local[w].todo # {}
    BY <1>7 DEF EvaluateExit
  <2>2. Raise(w) \/ UNCHANGED <<seen, broker>>
    BY <1>7 DEF EvaluateExit
  <2>3. pc'[w] \in {"exits", "execute"} \/ Raise(w)
    BY <1>0, <1>7 DEF EvaluateExit, GoTo
  <2>4. CASE ~Raise(w)
    BY <1>7, <2>1, <2>2, <2>3, <2>4, ExitMoves DEF ViewMoves, LoopMoves
  <2>5. QED
    BY <2>4, RaiseMoves
<1>8. CASE Finish(w)
  BY <1>8, EndMoves DEF Finish
<1>9. QED
  BY <1>1, <1>2, <1>3, <1>4, <1>5, <1>6, <1>7, <1>8, Zenon DEF Step

LEMMA FailureMoves ==
    ASSUME TypeOK, NEW w \in Workers, Failure(w)
    PROVE  ViewMoves(w) /\ LoopMoves(w)
<1>1. CASE ReadBrokerFails(w) \/ PromotionConflicts(w) \/ ExecuteFails(w) \/ Crash(w)
  BY <1>1, RaiseMoves DEF ReadBrokerFails, PromotionConflicts, ExecuteFails, Crash
<1>2. CASE ActivitiesFail(w) \/ LookupFails(w)
  <2>1. pc'[w] \notin {"closed", "execute"} /\ pc[w] \in {"activities", "orders"}
    BY <1>2 DEF ActivitiesFail, LookupFails, NextType, GoTo, TypeOK
  <2>2. UNCHANGED <<seen, broker>>
    BY <1>2 DEF ActivitiesFail, LookupFails
  <2>3. QED
    BY <2>1, <2>2, PlainMoves
<1>3. QED
  BY <1>1, <1>2 DEF Failure

OthersStay(w) == UNCHANGED <<pc[w], seen[w], broker[w], local[w]>>

LEMMA OthersMove ==
    ASSUME TypeOK, NEW w \in Workers, NEW v \in Workers, v # w, Step(v) \/ Failure(v)
    PROVE  OthersStay(w)
<1> USE DEF TypeOK, OthersStay
<1>1. ASSUME NEW clear, End(v, clear) PROVE OthersStay(w)
  BY <1>1 DEF End, GoTo
<1>2. ASSUME Raise(v) PROVE OthersStay(w)
  BY <1>1, <1>2 DEF Raise
<1>3. ASSUME UNCHANGED <<seen, broker>>,
             UNCHANGED local \/ \E l : Keep(v, l),
             UNCHANGED pc \/ \E point : GoTo(v, point)
      PROVE  OthersStay(w)
  BY <1>3 DEF Keep, GoTo
<1>4. CASE ListPositions(v) \/ ReadBroker(v) \/ Promote(v)
  BY <1>4 DEF ListPositions, ReadBroker, Promote, GoTo, Keep
<1>5. CASE FindUnmanaged(v) \/ ReadCursor(v) \/ OrdersDone(v) \/ ClosedDone(v) \/ ExecuteClose(v) \/ LookupFails(v)
  BY <1>3, <1>5 DEF FindUnmanaged, ReadCursor, OrdersDone, ClosedDone, ExecuteClose, LookupFails, Loop
<1>6. ASSUME NEW l, NextType(v, l), UNCHANGED <<seen, broker>> PROVE OthersStay(w)
  BY <1>3, <1>6 DEF NextType
<1>7. CASE ApplyActivity(v) \/ AdvanceCursor(v) \/ ActivitiesFail(v)
  BY <1>3, <1>6, <1>7 DEF ApplyActivity, AdvanceCursor, ActivitiesFail
<1>8. CASE LookupCloseOrder(v) \/ ReconcileClosed(v) \/ EvaluateExit(v)
  BY <1>2, <1>3, <1>8 DEF LookupCloseOrder, ReconcileClosed, EvaluateExit
<1>9. CASE Finish(v) \/ ReadBrokerFails(v) \/ PromotionConflicts(v) \/ ExecuteFails(v) \/ Crash(v)
  BY <1>1, <1>2, <1>9 DEF Finish, ReadBrokerFails, PromotionConflicts, ExecuteFails, Crash
<1>10. QED
  BY <1>4, <1>5, <1>7, <1>8, <1>9 DEF Step, Failure

LEMMA CycleMoves ==
    ASSUME TypeOK, [Next]_vars, NEW w \in Workers
    PROVE  OthersStay(w) \/ (ViewMoves(w) /\ LoopMoves(w))
<1>1. CASE Environment
  BY <1>1 DEF Environment, Fill, RecordOpening, CloseOrderFills, CloseOrderEnds, BrokerEvent,
     PostActivity, cycleVars, OthersStay
<1>2. CASE UNCHANGED vars
  BY <1>2 DEF vars, cycleVars, OthersStay
<1>3. ASSUME NEW v \in Workers, Step(v) \/ Failure(v)
      PROVE  OthersStay(w) \/ (ViewMoves(w) /\ LoopMoves(w))
  BY <1>3, StepMoves, FailureMoves, OthersMove
<1>4. QED
  BY <1>1, <1>2, <1>3 DEF Next

-----------------------------------------------------------------------------
(* The invariant, part by part.                                            *)

LEMMA StoreInvStep ==
    ASSUME TypeOK, StoreInv, SeenInv, LoopInv, [Next]_vars
    PROVE  StoreInv'
<1> SUFFICES ASSUME NEW p \in Positions
             PROVE  (WasBought(p) /\ OrderIsLater(p) /\ FillIsOrdered(p) /\ ClosedIsFlat(p))'
  BY DEF StoreInv
<1>1. WasBought(p) /\ OrderIsLater(p) /\ FillIsOrdered(p) /\ ClosedIsFlat(p)
  BY DEF StoreInv
<1>2. RowMoves(p) /\ OrderMoves(p)
  BY ARowMoves, AnOrderMoves
<1>3. opening[p] # "unfilled" => opening'[p] # "unfilled" /\ (Flat(legs[p]) => Flat(legs'[p]))
  BY PurchasesLast
<1>4. row[p].state \in LifecycleStates => row[p].state # "absent"
  BY DEF LifecycleStates, Active, TerminalOrReview, Review
<1>5. WasBought(p)'
  BY <1>1, <1>2, <1>3, <1>4 DEF RowMoves, WasBought
<1>6. row[p].state \notin Early => row'[p].state \notin Early
  <2>1. CASE row[p].state \in LifecycleStates /\ row'[p].state \in AllowedTransitions[row[p].state]
    <3>1. row'[p].state \in LifecycleStates
      BY <2>1 DEF AllowedTransitions, LifecycleStates, Active, TerminalOrReview, Review
    <3>2. row'[p].state # "absent" /\ row'[p].state # "OPEN"
      BY <2>1, <3>1, NextState DEF LifecycleStates, Active, TerminalOrReview, Review
    <3>3. QED
      BY <3>2 DEF Early
  <2>2. QED
    BY <1>2, <2>1 DEF RowMoves, Early
<1>7. OrderIsLater(p)'
  <2>1. CASE order[p] # "absent"
    BY <1>1, <1>6, <2>1 DEF OrderIsLater
  <2>2. CASE order[p] = "absent" /\ order'[p] # "absent"
    <3>1. PICK w \in Workers : pc[w] = "execute" /\ p = Current(w) /\ UNCHANGED storeVars
      BY <1>2, <2>2 DEF OrderMoves
    <3>2. row[p].state \notin Early /\ row' = row
      BY <3>1 DEF LoopInv, ExecutesAttached, storeVars
    <3>3. QED
      BY <3>2 DEF OrderIsLater
  <2>3. QED
    BY <2>1, <2>2 DEF OrderIsLater
<1>8. order[p] = "FILLED" => order'[p] = "FILLED"
  BY <1>2 DEF OrderMoves
<1>9. CASE row'[p].state = row[p].state
  <2>1. FillIsOrdered(p)'
    BY <1>1, <1>8, <1>9 DEF FillIsOrdered
  <2>2. ClosedIsFlat(p)'
    BY <1>1, <1>3, <1>9 DEF ClosedIsFlat, WasBought
  <2>3. QED
    BY <1>5, <1>7, <2>1, <2>2
<1>10. CASE row'[p].state = "OPEN"
  BY <1>5, <1>7, <1>10 DEF FillIsOrdered, ClosedIsFlat
<1>11. CASE /\ row[p].state \in LifecycleStates
            /\ row'[p].state \in AllowedTransitions[row[p].state]
            /\ row'[p].state = "CLOSE_FILLED" => order[p] = "FILLED"
            /\ row'[p].state = "CLOSED_RECONCILED" =>
                 \E w \in Workers : pc[w] = "closed" /\ p \in local[w].todo
            /\ UNCHANGED <<opening, brokerVars>>
  <2>1. row'[p].state = "CLOSED_RECONCILED" => row[p].state = "CLOSE_FILLED"
    BY <1>11, NextState
  <2>2. FillIsOrdered(p)'
    BY <1>1, <1>8, <1>11, <2>1 DEF FillIsOrdered
  <2>3. ASSUME row'[p].state = "CLOSED_RECONCILED" PROVE Flat(legs'[p])
    <3>1. PICK w \in Workers : pc[w] = "closed" /\ p \in local[w].todo
      BY <1>11, <2>3
    <3>2. p \in ClosedSeen(w)
      BY <3>1 DEF LoopInv, ClosesWhatItSaw
    <3>3. seen[w][p].state # "absent" /\ Flat(broker[w][p])
      BY <3>2 DEF ClosedSeen
    <3>4. Flat(legs[p])
      BY <3>1, <3>3 DEF SeenInv, GoneStaysGone
    <3>5. QED
      BY <1>11, <3>4 DEF brokerVars
  <2>4. QED
    BY <1>5, <1>7, <2>2, <2>3 DEF ClosedIsFlat
<1>12. QED
  BY <1>2, <1>9, <1>10, <1>11 DEF RowMoves

LEMMA SeenInvStep ==
    ASSUME TypeOK, StoreInv, SeenInv, [Next]_vars
    PROVE  SeenInv'
<1> SUFFICES ASSUME NEW w \in Workers, NEW p \in Positions
             PROVE  (SeenWasBought(w, p) /\ GoneStaysGone(w, p))'
  BY DEF SeenInv
<1>1. SeenWasBought(w, p) /\ GoneStaysGone(w, p) /\ WasBought(p)
  BY DEF SeenInv, StoreInv
<1>2. opening[p] # "unfilled" => opening'[p] # "unfilled" /\ (Flat(legs[p]) => Flat(legs'[p]))
  BY PurchasesLast
<1>3. CASE /\ seen'[w] = seen[w] /\ broker'[w] = broker[w]
           /\ pc'[w] \in {"idle", "positions"} \/ pc[w] \notin {"idle", "positions"}
  BY <1>1, <1>2, <1>3 DEF SeenWasBought, GoneStaysGone
<1>4. CASE OthersStay(w)
  BY <1>1, <1>2, <1>4 DEF OthersStay, SeenWasBought, GoneStaysGone
<1>5. CASE pc'[w] = "positions" /\ seen'[w] = row
  BY <1>1, <1>2, <1>5 DEF SeenWasBought, GoneStaysGone, WasBought
<1>6. CASE pc'[w] = "promote" /\ seen'[w] = seen[w] /\ broker'[w] = legs /\ UNCHANGED brokerVars
  BY <1>1, <1>2, <1>6 DEF SeenWasBought, GoneStaysGone, brokerVars
<1>7. CASE Promote(w)
  <2>1. /\ seen'[w][p] = IF Promotable(p, broker[w]) THEN NewRow ELSE seen[w][p]
        /\ broker'[w] = broker[w] /\ pc[w] = "promote" /\ UNCHANGED <<opening, legs>>
    BY <1>7 DEF Promote, PromoteReconciledOpenings, brokerVars, TypeOK
  <2>2. CASE Promotable(p, broker[w])
    <3>1. opening[p] = "receipted" /\ Complete(broker[w][p])
      BY <2>2 DEF Promotable
    <3>2. ~Flat(broker[w][p])
      BY <3>1, PositionStoreAssumption DEF Complete, Flat
    <3>3. QED
      BY <2>1, <3>1, <3>2 DEF SeenWasBought, GoneStaysGone
  <2>3. CASE ~Promotable(p, broker[w])
    BY <1>1, <2>1, <2>3 DEF SeenWasBought, GoneStaysGone
  <2>4. QED
    BY <2>2, <2>3
<1>8. CASE pc'[w] = "idle" /\ seen'[w] = NothingSeen
  BY <1>8 DEF NothingSeen, NoRow, SeenWasBought, GoneStaysGone
<1>9. QED
  BY <1>3, <1>4, <1>5, <1>6, <1>7, <1>8, CycleMoves DEF ViewMoves

LEMMA LoopInvStep ==
    ASSUME TypeOK, TypeOK', LoopInv, [Next]_vars
    PROVE  LoopInv'
<1> SUFFICES ASSUME NEW w \in Workers PROVE (ClosesWhatItSaw(w) /\ ExecutesAttached(w))'
  BY DEF LoopInv
<1>1. ClosesWhatItSaw(w) /\ ExecutesAttached(w)
  BY DEF LoopInv
<1>2. \A p \in Positions : row[p].state \notin Early => row'[p].state \notin Early
  <2> SUFFICES ASSUME NEW p \in Positions, row[p].state \notin Early PROVE row'[p].state \notin Early
    OBVIOUS
  <2>1. RowMoves(p)
    BY ARowMoves
  <2>2. CASE row[p].state \in LifecycleStates /\ row'[p].state \in AllowedTransitions[row[p].state]
    <3>1. row'[p].state \in LifecycleStates
      BY <2>2 DEF AllowedTransitions, LifecycleStates, Active, TerminalOrReview, Review
    <3>2. row'[p].state # "absent" /\ row'[p].state # "OPEN"
      BY <2>2, <3>1, NextState DEF LifecycleStates, Active, TerminalOrReview, Review
    <3>3. QED
      BY <3>2 DEF Early
  <2>3. QED
    BY <2>1, <2>2 DEF RowMoves, Early
<1>3. local'[w] = local[w] => Current(w)' = Current(w)
  BY DEF Current
<1>4. seen'[w] = seen[w] /\ broker'[w] = broker[w] => ClosedSeen(w)' = ClosedSeen(w)
  BY DEF ClosedSeen
<1>5. CASE OthersStay(w)
  <2>1. ClosesWhatItSaw(w)'
    BY <1>1, <1>4, <1>5 DEF OthersStay, ClosesWhatItSaw
  <2>2. ExecutesAttached(w)'
    <3>1. SUFFICES ASSUME pc[w] = "execute" PROVE local[w].todo # {} /\ row'[Current(w)].state \notin Early
      BY <1>3, <1>5 DEF OthersStay, ExecutesAttached
    <3>2. local[w].todo # {} /\ row[Current(w)].state \notin Early
      BY <1>1, <3>1 DEF ExecutesAttached
    <3>3. QED
      BY <1>2, <3>2, CurrentType
  <2>3. QED
    BY <2>1, <2>2
<1>6. CASE LoopMoves(w)
  <2>1. ClosesWhatItSaw(w)'
    BY <1>1, <1>4, <1>6 DEF LoopMoves, ClosesWhatItSaw
  <2>2. ExecutesAttached(w)'
    <3>1. SUFFICES ASSUME pc'[w] = "execute"
                   PROVE  local'[w].todo # {} /\ row'[Current(w)'].state \notin Early
      BY DEF ExecutesAttached
    <3>2. local'[w] = local[w] /\ Current(w)' = Current(w)
      BY <1>3, <1>6, <3>1 DEF LoopMoves
    <3>3. CASE pc[w] = "execute"
      <4>1. local[w].todo # {} /\ row[Current(w)].state \notin Early
        BY <1>1, <3>3 DEF ExecutesAttached
      <4>2. QED
        BY <1>2, <3>2, <4>1, CurrentType
    <3>4. CASE local[w].todo # {} /\ row'[Current(w)].state = "CLOSE_PENDING"
      BY <3>2, <3>4 DEF Early
    <3>5. QED
      BY <1>6, <3>1, <3>3, <3>4 DEF LoopMoves
  <2>3. QED
    BY <2>1, <2>2
<1>7. QED
  BY <1>5, <1>6, CycleMoves

PositionInv == TypeOK /\ StoreInv /\ SeenInv /\ LoopInv

LEMMA PositionInvInit == Init => StoreInv /\ SeenInv /\ LoopInv
<1> SUFFICES ASSUME Init PROVE StoreInv /\ SeenInv /\ LoopInv
  OBVIOUS
<1>1. ASSUME NEW p \in Positions PROVE row[p] = NoRow /\ order[p] = "absent"
  BY DEF Init, StoreInit
<1>2. ASSUME NEW w \in Workers PROVE pc[w] = "idle" /\ seen[w] = NothingSeen
  BY DEF Init
<1>3. StoreInv
  BY <1>1 DEF NoRow, StoreInv, WasBought, OrderIsLater, FillIsOrdered, ClosedIsFlat
<1>4. SeenInv
  BY <1>2 DEF NothingSeen, NoRow, SeenInv, SeenWasBought, GoneStaysGone
<1>5. LoopInv
  BY <1>2 DEF LoopInv, ClosesWhatItSaw, ExecutesAttached
<1>6. QED
  BY <1>3, <1>4, <1>5

(* What carries the properties below holds in every reachable state.       *)
THEOREM PositionInvariant == Spec => []PositionInv
<1>1. PositionInv /\ [Next]_vars => PositionInv'
  <2>1. TypeOK /\ [Next]_vars => TypeOK'
    BY StepType, StutterType
  <2>2. QED
    BY <2>1, StoreInvStep, SeenInvStep, LoopInvStep DEF PositionInv
<1>2. Init => PositionInv
  BY InitType, PositionInvInit DEF PositionInv
<1>3. QED
  BY <1>1, <1>2, PTL DEF Spec

(* A position only counts as closed when its own close order filled, and   *)
(* as reconciled when the broker holds neither leg, for any number of      *)
(* cycles that overlap on their own listings, and any crashes, late        *)
(* activities and orders that end without a fill                           *)
(* (position_lifecycle.py:284).                                            *)
THEOREM ClosesAreProven == Spec => []CloseIsProven
<1>1. PositionInv => CloseIsProven
  BY DEF PositionInv, StoreInv, FillIsOrdered, ClosedIsFlat, CloseIsProven
<1>2. QED
  BY <1>1, PositionInvariant, PTL

-----------------------------------------------------------------------------
(* The refinement: each step is a step of the contract or a stutter.       *)

Held(p) == IF opening[p] = "unfilled" THEN "none"
           ELSE IF order[p] = "FILLED" THEN "sold" ELSE "held"
Lives == [p \in Positions |-> Life(p)]
Holdings == [p \in Positions |-> Held(p)]
ContractSteps == [Contract!Next]_(Contract!contractVars)

LEMMA ContractStutters ==
    ASSUME UNCHANGED <<Lives, Holdings>> PROVE ContractSteps
BY DEF ContractSteps, Contract!contractVars, Lives, Holdings, Held

LEMMA LifeOf ==
    ASSUME NEW p \in Positions, NEW q \in Positions, row'[p].state = row[q].state
    PROVE  Life(p)' = Life(q)
BY DEF Life

LEMMA PromotionRefines ==
    ASSUME PositionInv, NEW w \in Workers, Promote(w)
    PROVE  ContractSteps
<1> DEFINE S == {p \in Positions : Promotable(p, broker[w])}
<1>1. row' = [p \in Positions |-> IF Promotable(p, broker[w]) THEN NewRow ELSE row[p]]
  BY DEF Promote, PromoteReconciledOpenings
<1>2. UNCHANGED <<opening, order>>
  BY DEF Promote, PromoteReconciledOpenings, brokerVars
<1>3. Holdings' = Holdings
  BY <1>2 DEF Holdings, Held
<1>4. ASSUME NEW p \in S PROVE Life(p) = "none" /\ Held(p) = "held" /\ Life(p)' = "open"
  <2>1. row[p].state = "absent" /\ opening[p] = "receipted" /\ row'[p].state = "OPEN"
    BY <1>1 DEF Promotable, Unpromoted, NewRow
  <2>2. order[p] = "absent"
    BY <2>1 DEF PositionInv, StoreInv, OrderIsLater, Early
  <2>3. QED
    BY <2>1, <2>2 DEF Life, Held
<1>5. ASSUME NEW p \in Positions, p \notin S PROVE Life(p)' = Life(p)
  BY <1>1, <1>5, LifeOf
<1>6. S \in SUBSET {p \in Positions : Lives[p] = "none" /\ Holdings[p] = "held"}
  BY <1>4 DEF Lives, Holdings
<1>7. Lives' = [p \in Positions |-> IF p \in S THEN "open" ELSE Lives[p]]
  BY <1>4, <1>5 DEF Lives
<1> HIDE DEF S
<1>8. Contract!Manage
  BY <1>3, <1>6, <1>7 DEF Contract!Manage, Lives, Holdings, Held
<1>9. QED
  BY <1>8 DEF ContractSteps, Contract!Next

LEMMA MoveRefines ==
    ASSUME PositionInv, NEW w \in Workers, SomeMove(w)
    PROVE  ContractSteps
<1>1. PICK p \in Positions, to \in LifecycleStates, id \in TransitionIds, close \in BOOLEAN :
        Moves(w, p, to, id, close)
  BY DEF SomeMove
<1>2. StoreTypeOK
  BY TypeParts DEF PositionInv
<1>3. row'[p].state = to /\ \A q \in Positions \ {p} : row'[q] = row[q]
  BY <1>1, <1>2 DEF Moves, Record, StoreTypeOK
<1>4. UNCHANGED <<opening, order>>
  BY <1>1 DEF Moves, Record, brokerVars
<1>5. Holdings' = Holdings
  BY <1>4 DEF Holdings, Held
<1>6. Lives' = [Lives EXCEPT ![p] = Life(p)']
  <2>1. ASSUME NEW q \in Positions \ {p} PROVE Life(q)' = Life(q)
    BY <1>3, LifeOf
  <2>2. QED
    BY <2>1 DEF Lives
<1>7. row[p].state \in LifecycleStates /\ to \in AllowedTransitions[row[p].state]
  BY <1>1 DEF Moves, Accepts
<1>8. Lives[p] = Life(p) /\ Holdings[p] = Held(p)
  BY DEF Lives, Holdings
<1>9. order[p] = "FILLED" => Held(p) = "sold"
  <2>1. opening[p] # "unfilled"
    BY <1>7 DEF PositionInv, StoreInv, WasBought, LifecycleStates, Active, TerminalOrReview, Review
  <2>2. QED
    BY <2>1 DEF Held
<1>10. CASE to = "CLOSE_PENDING"
  <2>1. row[p].state = "OPEN"
    BY <1>7, <1>10, NextState DEF Review
  <2>2. Life(p) = "open" /\ Life(p)' = "closing"
    BY <1>3, <1>10, <2>1 DEF Life
  <2>3. Contract!Close(p)
    BY <1>5, <1>6, <1>8, <2>2 DEF Contract!Close, Contract!Become, Lives, Holdings, Held
  <2>4. QED
    BY <2>3 DEF ContractSteps, Contract!Next
<1>11. CASE to = "CLOSE_FILLED"
  <2>1. row[p].state = "CLOSE_PENDING" /\ order[p] = "FILLED"
    BY <1>1, <1>7, <1>11, NextState DEF Moves
  <2>2. Life(p) = "closing" /\ Life(p)' = "settled"
    BY <1>3, <1>11, <2>1 DEF Life
  <2>3. Contract!Settle(p)
    BY <1>5, <1>6, <1>8, <1>9, <2>1, <2>2 DEF Contract!Settle, Contract!Become, Lives, Holdings, Held
  <2>4. QED
    BY <2>3 DEF ContractSteps, Contract!Next
<1>12. CASE to = "CLOSED_RECONCILED"
  <2>1. row[p].state = "CLOSE_FILLED"
    BY <1>7, <1>12, NextState
  <2>2. order[p] = "FILLED"
    BY <2>1 DEF PositionInv, StoreInv, FillIsOrdered
  <2>3. Life(p) = "settled" /\ Life(p)' = "closed"
    BY <1>3, <1>12, <2>1 DEF Life
  <2>4. Contract!Retire(p)
    BY <1>5, <1>6, <1>8, <1>9, <2>2, <2>3 DEF Contract!Retire, Contract!Become, Lives, Holdings, Held
  <2>5. QED
    BY <2>4 DEF ContractSteps, Contract!Next
<1>13. CASE to \in Review
  <2>1. Life(p)' = "review"
    BY <1>3, <1>13 DEF Life, Review
  <2>2. Life(p) \in {"open", "closing", "settled"}
    BY <1>7, NextState DEF Life
  <2>3. Contract!SetAside(p)
    BY <1>5, <1>6, <1>8, <2>1, <2>2 DEF Contract!SetAside, Contract!Become, Lives, Holdings, Held
  <2>4. QED
    BY <2>3 DEF ContractSteps, Contract!Next
<1>14. QED
  BY <1>7, <1>10, <1>11, <1>12, <1>13, NextState

LEMMA BookRefines ==   \* the broker's and the other components' steps
    ASSUME PositionInv, Environment
    PROVE  ContractSteps
<1>0. opening \in [Positions -> Openings] /\ order \in [Positions -> OrderStatuses]
  BY DEF PositionInv, TypeOK, StoreTypeOK
<1>1. Lives' = Lives
  <2>1. row' = row
    BY DEF Environment, Fill, RecordOpening, CloseOrderFills, CloseOrderEnds, BrokerEvent,
       PostActivity, storeVars
  <2>2. QED
    BY <2>1 DEF Lives, Life
<1>2. ASSUME NEW p \in Positions, UNCHANGED opening, Held(p)' = "sold", Held(p) = "held",
             \A q \in Positions \ {p} : order'[q] = order[q],
             Life(p) \in {"closing", "review"}
      PROVE  ContractSteps
  <2>1. \A q \in Positions \ {p} : Held(q)' = Held(q)
    BY <1>2 DEF Held
  <2>2. Holdings' = [Holdings EXCEPT ![p] = "sold"]
    BY <1>2, <2>1 DEF Holdings
  <2>3. Contract!Sell(p)
    BY <1>1, <1>2, <2>2 DEF Contract!Sell, Contract!Turn, Lives, Holdings, Held
  <2>4. QED
    BY <2>3 DEF ContractSteps, Contract!Next
<1>3. ASSUME NEW p \in Positions, Fill(p) PROVE ContractSteps
  <2>1. order[p] = "absent"
    <3>1. opening[p] = "unfilled"
      BY <1>3 DEF Fill
    <3>2. QED
      BY <3>1 DEF PositionInv, StoreInv, WasBought, OrderIsLater, Early
  <2>2. Held(p) = "none" /\ Held(p)' = "held"
    BY <1>0, <1>3, <2>1 DEF Fill, Held
  <2>3. \A q \in Positions \ {p} : Held(q)' = Held(q)
    BY <1>0, <1>3 DEF Fill, Held
  <2>4. Holdings' = [Holdings EXCEPT ![p] = "held"]
    BY <2>2, <2>3 DEF Holdings
  <2>5. Contract!Buy(p)
    BY <1>1, <2>2, <2>4 DEF Contract!Buy, Contract!Turn, Lives, Holdings, Held
  <2>6. QED
    BY <2>5 DEF ContractSteps, Contract!Next
<1>4. ASSUME NEW p \in Positions, RecordOpening(p) PROVE ContractSteps
  <2>1. \A q \in Positions : opening[q] = "unfilled" <=> opening'[q] = "unfilled"
    BY <1>0, <1>4 DEF RecordOpening
  <2>2. Holdings' = Holdings
    BY <1>4, <2>1 DEF RecordOpening, brokerVars, Holdings, Held
  <2>3. QED
    BY <1>1, <2>2, ContractStutters
<1>5. ASSUME NEW p \in Positions, CloseOrderFills(p) PROVE ContractSteps
  <2>1. order[p] \in {"NEW", "PARTIALLY_FILLED"} /\ order'[p] \in {"FILLED", "PARTIALLY_FILLED"}
    BY <1>0, <1>5 DEF CloseOrderFills
  <2>2. UNCHANGED opening /\ \A q \in Positions \ {p} : order'[q] = order[q]
    BY <1>0, <1>5 DEF CloseOrderFills, storeVars
  <2>3. row[p].state \notin {"absent", "OPEN", "CLOSE_FILLED", "CLOSED_RECONCILED"}
    BY <2>1 DEF PositionInv, StoreInv, OrderIsLater, FillIsOrdered, Early
  <2>4. opening[p] # "unfilled"
    BY <2>3 DEF PositionInv, StoreInv, WasBought
  <2>5. CASE order'[p] = "FILLED"
    <3>1. Held(p) = "held" /\ Held(p)' = "sold"
      BY <2>1, <2>2, <2>4, <2>5 DEF Held
    <3>2. Life(p) \in {"closing", "review"}
      BY <2>3 DEF Life
    <3>3. QED
      BY <1>2, <2>2, <3>1, <3>2
  <2>6. CASE order'[p] = "PARTIALLY_FILLED"
    <3>1. \A q \in Positions : Held(q)' = Held(q)
      BY <2>1, <2>2, <2>6 DEF Held
    <3>2. QED
      BY <1>1, <3>1, ContractStutters DEF Holdings
  <2>7. QED
    BY <2>1, <2>5, <2>6
<1>6. ASSUME NEW p \in Positions, CloseOrderEnds(p) PROVE ContractSteps
  <2>1. \A q \in Positions : order[q] = "FILLED" <=> order'[q] = "FILLED"
    BY <1>0, <1>6 DEF CloseOrderEnds
  <2>2. UNCHANGED opening
    BY <1>6 DEF CloseOrderEnds, storeVars
  <2>3. Holdings' = Holdings
    BY <2>1, <2>2 DEF Holdings, Held
  <2>4. QED
    BY <1>1, <2>3, ContractStutters
<1>7. ASSUME UNCHANGED <<opening, order>> PROVE ContractSteps
  BY <1>1, <1>7, ContractStutters DEF Holdings, Held
<1>8. ASSUME NEW p \in Positions, BrokerEvent(p) PROVE ContractSteps
  BY <1>7, <1>8 DEF BrokerEvent, storeVars
<1>9. ASSUME NEW n \in DOMAIN events, PostActivity(n) PROVE ContractSteps
  BY <1>7, <1>9 DEF PostActivity, storeVars
<1>10. QED
  BY <1>3, <1>4, <1>5, <1>6, <1>8, <1>9 DEF Environment

LEMMA CycleStepRefines ==
    ASSUME PositionInv, NEW w \in Workers, Step(w) \/ Failure(w)
    PROVE  ContractSteps
<1>0. order \in [Positions -> OrderStatuses]
  BY DEF PositionInv, TypeOK
<1>1. UNCHANGED opening /\ (ExecuteClose(w) \/ UNCHANGED order)
  BY DEF Step, Failure, ListPositions, ReadBroker, Promote, FindUnmanaged, ReadCursor, ApplyActivity,
     AdvanceCursor, LookupCloseOrder, OrdersDone, ReconcileClosed, ClosedDone, EvaluateExit,
     Finish, ReadBrokerFails, PromotionConflicts, ActivitiesFail, LookupFails, ExecuteFails, Crash,
     ExecuteClose, brokerVars, storeVars, PromoteReconciledOpenings, TransitionPosition,
     AttachCloseIntent, Record, AdvanceActivityCursor
<1>2. \A q \in Positions : order[q] = "FILLED" <=> order'[q] = "FILLED"
  BY <1>0, <1>1 DEF ExecuteClose
<1>3. Holdings' = Holdings
  BY <1>1, <1>2 DEF Holdings, Held
<1>4. CASE UNCHANGED <<row, ledger>>
  <2>1. Lives' = Lives
    BY <1>4 DEF Lives, Life
  <2>2. QED
    BY <1>3, <2>1, ContractStutters
<1>5. CASE \E v \in Workers : Promote(v) \/ SomeMove(v)
  BY <1>5, PromotionRefines, MoveRefines
<1>6. QED
  BY <1>4, <1>5, RowsMove DEF PositionInv, Next

(* Through cycles, listings, cursors and crashes, positions live as the    *)
(* contract says: opened once and for something bought, closed at most     *)
(* once, settled and retired only after they were sold, and never taken    *)
(* back from a review (domain/positions.py:40).                            *)
THEOREM PositionsKeepContract == Spec => KeepsPositionContract
<1>1. Init => Contract!Init
  <2>1. SUFFICES ASSUME Init PROVE Contract!Init
    OBVIOUS
  <2>2. ASSUME NEW p \in Positions PROVE Life(p) = "none" /\ opening[p] = "unfilled"
    BY <2>1 DEF Init, StoreInit, Life, NoRow
  <2>3. QED
    BY <2>2 DEF Contract!Init
<1>2. PositionInv /\ [Next]_vars => [Contract!Next]_(Contract!contractVars)
  <2>1. SUFFICES ASSUME PositionInv, [Next]_vars PROVE ContractSteps
    BY DEF ContractSteps
  <2>2. CASE UNCHANGED vars
    <3>1. UNCHANGED <<Lives, Holdings>>
      BY <2>2 DEF vars, storeVars, brokerVars, Lives, Life, Holdings, Held
    <3>2. QED
      BY <3>1, ContractStutters
  <2>3. QED
    BY <2>1, <2>2, BookRefines, CycleStepRefines DEF Next
<1>3. QED
  BY <1>1, <1>2, PositionInvariant, PTL DEF Spec, KeepsPositionContract, Contract!Spec

-----------------------------------------------------------------------------
(* The exit policy, for any context.  The first reason that was noted is   *)
(* the one all others come after.                                          *)

LEMMA ReasonNames ==
    /\ DOMAIN ReasonOrder = 1..8
    /\ ReasonOrder[1] = "unsupported_exit_policy_version"
    /\ ReasonOrder[2] = "broker_event_or_position_mismatch"
    /\ ReasonOrder[3] = "expiry_buffer_reached"
    /\ ReasonOrder[4] = "structured_thesis_invalidation"
    /\ ReasonOrder[5] = "joint_reversal_confirmed"
    /\ ReasonOrder[6] = "stop_loss_reached"
    /\ ReasonOrder[7] = "take_profit_reached"
    /\ ReasonOrder[8] = "max_holding_time_reached"
BY DEF ReasonOrder

LEMMA FirstReason ==
    ASSUME NEW c, NEW k \in Reasons(c), \A j \in Reasons(c) : k <= j
    PROVE  PrimaryReason(c) = ReasonOrder[k]
<1>1. Reasons(c) \subseteq 1..8
  BY ReasonNames DEF Reasons
<1>2. \A i \in Reasons(c) : (\A j \in Reasons(c) : i <= j) => i = k
  BY <1>1
<1>3. QED
  BY <1>2 DEF PrimaryReason

LEMMA SomeReasonIsFirst ==
    ASSUME NEW c, Reasons(c) # {}
    PROVE  \E k \in Reasons(c) : \A j \in Reasons(c) : k <= j
<1>1. Reasons(c) \subseteq Nat
  BY ReasonNames DEF Reasons
<1>2. First(Reasons(c)) \in Reasons(c) /\ \A j \in Reasons(c) : First(Reasons(c)) <= j
  BY <1>1, FirstIsElement
<1>3. QED
  BY <1>2

LEMMA ReasonNoted ==
    ASSUME NEW c, NEW i \in 1..8
    PROVE  i \in Reasons(c) <=> Holds(c, ReasonOrder[i])
BY ReasonNames DEF Reasons

(* What evaluate makes of its reasons.                                     *)
LEMMA OutcomeOfReasons ==
    ASSUME NEW c
    PROVE  /\ NeedsReview(c) <=> \/ 1 \in Reasons(c)
                                 \/ 2 \in Reasons(c)
                                 \/ (3 \in Reasons(c) /\ ~QuoteValid(c))
           /\ Evaluate(c).outcome =
                IF NeedsReview(c) THEN "REVIEW_REQUIRED"
                ELSE IF QuoteValid(c) /\ Reasons(c) # {} THEN "CLOSE"
                ELSE "HOLD"
<1>1. NeedsReview(c) <=> \/ 1 \in Reasons(c)
                        \/ 2 \in Reasons(c)
                        \/ (3 \in Reasons(c) /\ ~QuoteValid(c))
  <2>1. 1 \in 1..8 /\ 2 \in 1..8 /\ 3 \in 1..8
    OBVIOUS
  <2>2. /\ 1 \in Reasons(c) <=> Holds(c, "unsupported_exit_policy_version")
        /\ 2 \in Reasons(c) <=> Holds(c, "broker_event_or_position_mismatch")
        /\ 3 \in Reasons(c) <=> Holds(c, "expiry_buffer_reached")
    BY <2>1, ReasonNoted, ReasonNames
  <2>3. QED
    BY <2>2 DEF NeedsReview
<1>2. CASE NeedsReview(c)
  BY <1>1, <1>2 DEF Outcome, Evaluate
<1>3. CASE ~NeedsReview(c) /\ Reasons(c) = {}
  <2>1. PrimaryReason(c) = IF QuoteValid(c) THEN "no_exit_trigger" ELSE "close_quote_unavailable"
    BY <1>3 DEF PrimaryReason
  <2>2. QED
    BY <1>1, <1>3, <2>1 DEF Outcome, Evaluate
<1>4. CASE ~NeedsReview(c) /\ Reasons(c) # {}
  <2>1. PICK k \in Reasons(c) : \A j \in Reasons(c) : k <= j
    BY <1>4, SomeReasonIsFirst
  <2>2. PrimaryReason(c) = ReasonOrder[k]
    BY <2>1, FirstReason
  <2>3. k \in 3..8
    <3>1. k \in 1..8 /\ k # 1 /\ k # 2
      <4>1. Reasons(c) \subseteq 1..8
        BY ReasonNames DEF Reasons
      <4>2. QED
        BY <1>1, <1>4, <4>1
    <3>2. QED
      BY <3>1
  <2>4. CASE k = 3
    <3>1. PrimaryReason(c) = "expiry_buffer_reached"
      BY <2>2, <2>4, ReasonNames
    <3>2. QuoteValid(c)
      BY <1>1, <1>4, <2>4
    <3>3. Outcome(c) = "CLOSE"
      BY <1>4, <3>1 DEF Outcome
    <3>4. Evaluate(c).outcome = "CLOSE"
      BY <3>2, <3>3 DEF Evaluate
    <3>5. QED
      BY <1>4, <1>1, <3>2, <3>4
  <2>5. CASE k # 3
    <3>1. PrimaryReason(c) \notin
             {"expiry_buffer_reached", "no_exit_trigger", "close_quote_unavailable"}
      BY <2>2, <2>3, <2>5, ReasonNames
    <3>2. Outcome(c) = IF QuoteValid(c) THEN "CLOSE" ELSE "HOLD"
      BY <1>4, <3>1 DEF Outcome
    <3>3. Evaluate(c).outcome = IF QuoteValid(c) THEN "CLOSE" ELSE "HOLD"
      BY <3>2 DEF Evaluate
    <3>4. QED
      BY <1>1, <1>4, <3>3
  <2>6. QED
    BY <2>4, <2>5
<1>5. QED
  BY <1>1, <1>2, <1>3, <1>4

(* What the reasons say about the context.                                 *)
LEMMA ReasonsOfContext ==
    ASSUME NEW c \in ExitContexts
    PROVE  LET preset == Presets[c.horizon]
               gain == CloseCredit(c) - EntryBasis(c)
               priced == EntryBasis(c) > 0 /\ QuoteValid(c)
           IN /\ 1 \in Reasons(c) <=> ~c.versionSupported
              /\ 2 \in Reasons(c) <=> c.brokerEvent \/ ~c.brokerMatch
              /\ 3 \in Reasons(c) <=> c.dte <= preset.buffer
              /\ 4 \in Reasons(c) <=> c.thesisInvalidated
              /\ 5 \in Reasons(c) <=> JointReversal(c)
              /\ 6 \in Reasons(c) <=> priced /\ gain * 100 <= preset.stopLoss * EntryBasis(c)
              /\ 7 \in Reasons(c) <=> priced /\ gain * 100 >= preset.takeProfit * EntryBasis(c)
              /\ 8 \in Reasons(c) <=> c.held >= preset.maxHold
BY ReasonNames DEF Reasons, Holds, ReturnAtMost, ReturnAtLeast

LEMMA EveryExitMeetsPolicy == ExitsMeetPolicy
<1> SUFFICES ASSUME NEW c \in Contexts
             PROVE  LET preset == Presets[c.horizon]
                        cost == EntryBasis(c)
                        gain == CloseCredit(c) - cost
                        clean == c.versionSupported /\ ~c.brokerEvent /\ c.brokerMatch
                        triggered ==
                            \/ c.thesisInvalidated
                            \/ JointReversal(c)
                            \/ c.dte <= preset.buffer
                            \/ c.held >= preset.maxHold
                            \/ /\ cost > 0
                               /\ 100 * gain \notin
                                    (preset.stopLoss * cost + 1)..(preset.takeProfit * cost - 1)
                    IN /\ Evaluate(c).outcome = "CLOSE" <=> clean /\ QuoteValid(c) /\ triggered
                       /\ Evaluate(c).outcome = "HOLD" <=>
                             clean /\ (IF QuoteValid(c) THEN ~triggered ELSE c.dte > preset.buffer)
  BY DEF ExitsMeetPolicy
<1> DEFINE preset == Presets[c.horizon]
           cost == EntryBasis(c)
           gain == CloseCredit(c) - cost
           low == preset.stopLoss * cost
           high == preset.takeProfit * cost
<1>1. c \in ExitContexts
  BY LifecycleAssumption
<1>2. cost \in Int /\ gain \in Int /\ c.dte \in Int
  BY <1>1 DEF ExitContexts, EntryBasis, CloseCredit
<1>3. preset \in {Presets.CATALYST, Presets.SWING, Presets.THEMATIC}
  BY <1>1 DEF ExitContexts, Presets
<1>4. /\ preset.stopLoss \in Int /\ preset.takeProfit \in Int
      /\ preset.buffer \in Int /\ preset.maxHold \in Int
  BY <1>3 DEF Presets
<1>5. low \in Int /\ high \in Int
  BY <1>2, <1>4
<1>6. 100 * gain \notin (low + 1)..(high - 1) <=> gain * 100 <= low \/ gain * 100 >= high
  <2> HIDE DEF low, high, gain
  <2>1. QED
    BY <1>2, <1>5
<1>7. Reasons(c) \subseteq 1..8
  BY ReasonNames DEF Reasons
<1>8. Reasons(c) # {} <=> \/ 1 \in Reasons(c) \/ 2 \in Reasons(c) \/ 3 \in Reasons(c)
                         \/ 4 \in Reasons(c) \/ 5 \in Reasons(c) \/ 6 \in Reasons(c)
                         \/ 7 \in Reasons(c) \/ 8 \in Reasons(c)
  BY <1>7
<1>9. /\ 1 \in Reasons(c) <=> ~c.versionSupported
      /\ 2 \in Reasons(c) <=> c.brokerEvent \/ ~c.brokerMatch
      /\ 3 \in Reasons(c) <=> c.dte <= preset.buffer
      /\ 4 \in Reasons(c) <=> c.thesisInvalidated
      /\ 5 \in Reasons(c) <=> JointReversal(c)
      /\ 6 \in Reasons(c) <=> cost > 0 /\ QuoteValid(c) /\ gain * 100 <= low
      /\ 7 \in Reasons(c) <=> cost > 0 /\ QuoteValid(c) /\ gain * 100 >= high
      /\ 8 \in Reasons(c) <=> c.held >= preset.maxHold
  BY <1>1, ReasonsOfContext
<1>10. c.dte > preset.buffer <=> ~(c.dte <= preset.buffer)
  BY <1>2, <1>4
<1> DEFINE clean == c.versionSupported /\ ~c.brokerEvent /\ c.brokerMatch
           triggered ==
               \/ c.thesisInvalidated
               \/ JointReversal(c)
               \/ c.dte <= preset.buffer
               \/ c.held >= preset.maxHold
               \/ cost > 0 /\ 100 * gain \notin (low + 1)..(high - 1)
<1>11. NeedsReview(c) <=> ~clean \/ (c.dte <= preset.buffer /\ ~QuoteValid(c))
  BY <1>9, OutcomeOfReasons
<1>12. clean /\ QuoteValid(c) => (Reasons(c) # {} <=> triggered)
  BY <1>6, <1>8, <1>9
<1>13. /\ Evaluate(c).outcome = "CLOSE" <=> clean /\ QuoteValid(c) /\ triggered
       /\ Evaluate(c).outcome = "HOLD" <=>
             clean /\ (IF QuoteValid(c) THEN ~triggered ELSE c.dte > preset.buffer)
  <2> HIDE DEF triggered, clean
  <2>1. QED
    BY <1>10, <1>11, <1>12, OutcomeOfReasons
<1>14. QED
  BY <1>13

(* For every context, whatever its numbers: a spread is closed exactly if  *)
(* a trigger fires, it can be priced and nothing about it needs a person,  *)
(* and held exactly if none fires or none but an expiration can be priced. *)
THEOREM ExitsFollowPolicy == Spec => []ExitMeetsPolicy
<1>1. ExitMeetsPolicy
  BY EveryExitMeetsPolicy DEF ExitMeetsPolicy
<1>2. QED
  BY <1>1, PTL

-----------------------------------------------------------------------------
(* No activity is lost, and a cycle that finds nothing leaves nothing      *)
(* unexplained: while cycles do not overlap, and for activities that are   *)
(* posted with their effect on the legs.                                   *)
Timely == \A n \in DOMAIN events : events[n].posted = "at_once"
TakesLegs(n) == Target(events[n].type) # "none"
Passed(n) == n <= cursor[events[n].type]

(* Legs that are gone were taken by an activity or sold by the close order,*)
(* and nobody has read further than the broker has posted.                 *)
BooksAgree ==
    /\ \A p \in Positions :
          IF opening[p] = "unfilled" THEN Flat(legs[p])
          ELSE Flat(legs[p]) =>
                  \/ order[p] = "FILLED"
                  \/ \E n \in DOMAIN events : events[n].pos = p /\ TakesLegs(n)
    /\ \A n \in DOMAIN events :
          /\ opening[events[n].pos] # "unfilled"
          /\ TakesLegs(n) => ~Complete(legs[events[n].pos])
    /\ \A t \in DOMAIN ActivityTypes : cursor[t] <= Len(events)
    /\ \A w \in Workers : local[w].token <= Len(events)

(* Without overlap, what a cycle listed is what the store says, but for    *)
(* what the cycle itself has changed.                                      *)
RunsAlone == \A v, w \in Workers : pc[v] # "idle" /\ pc[w] # "idle" => v = w
ListingStands(w) ==
    /\ pc[w] = "idle" => local[w] = NoLocal
    /\ pc[w] \in {"positions", "promote", "find"} => local[w].type = 1
    /\ pc[w] \in {"positions", "promote"} => seen[w] = row
    /\ pc[w] \in {"find", "cursor", "activities"} =>
          \A p \in Positions : row[p].state \in Active => row[p] = seen[w][p]
    /\ pc[w] # "idle" =>
          \A p \in Positions : row[p] = seen[w][p] \/ row[p].version > seen[w][p].version

(* Nor does a cycle manage a position whose legs an activity behind the    *)
(* cursor has taken.                                                       *)
AppliedUpTo(t, last) ==
    \A n \in DOMAIN events :
        events[n].type = t /\ n <= last /\ TakesLegs(n) => row[events[n].pos].state \notin Active
CursorsStand ==
    \A t \in DOMAIN ActivityTypes : AppliedUpTo(t, cursor[t])
ReadingStands(w) ==
    /\ pc[w] = "promote" =>
          \A n \in DOMAIN events : TakesLegs(n) /\ Passed(n) => ~Complete(broker[w][events[n].pos])
    /\ pc[w] = "activities" => AppliedUpTo(local[w].type, local[w].token)

(* What a cycle that has found nothing to review may rely on: the broker's *)
(* legs are complete, and managed, or gone, and then an activity that it   *)
(* reads or the close order says why; no position is in review that it did *)
(* not list so; and the closes whose order is missing or filled are still  *)
(* on its list.                                                            *)
Late == {"orders", "closed", "exits", "execute"}
HasRead(w, n) == pc[w] \in Late \/ events[n].type < local[w].type
GoneIsExplained(w, p) ==
    \/ order[p] = "FILLED"
    \/ \E n \in DOMAIN events : events[n].pos = p /\ TakesLegs(n) /\ (HasRead(w, n) => Passed(n))
ExplainsGone(w, p) ==
    /\ pc[w] \notin {"idle", "positions"}
    /\ row[p].state # "absent"
    /\ Flat(broker[w][p])
    => GoneIsExplained(w, p)
ManagesHeld(w, p) ==
    /\ pc[w] \in {"cursor", "activities"} \cup Late
    /\ ~Flat(broker[w][p])
    => Complete(broker[w][p]) /\ row[p].state # "absent"
ListsReviews(w, p) ==
    /\ pc[w] # "idle"
    /\ ~local[w].moved
    /\ row[p].state \in Review
    => \E q \in Positions : seen[w][q].state \in Review
LooksUpClosing(w, p) ==
    /\ pc[w] = "orders"
    /\ row[p].state = "CLOSE_PENDING"
    /\ order[p] = "absent" \/ Flat(broker[w][p])
    => p \in local[w].todo
OrdersClosing(w, p) ==
    /\ pc[w] \in Late \ {"orders"}
    /\ row[p].state = "CLOSE_PENDING"
    => /\ ~Flat(broker[w][p])
       /\ order[p] # "absent" \/ (pc[w] = "execute" /\ p = Current(w))
FindingNothing(w) ==
    \A p \in Positions :
        /\ ExplainsGone(w, p)
        /\ ManagesHeld(w, p)
        /\ ListsReviews(w, p)
        /\ LooksUpClosing(w, p)
        /\ OrdersClosing(w, p)

CycleStands(w) ==
    /\ ListingStands(w)
    /\ ReadingStands(w)
    /\ local[w].reasons = {} => FindingNothing(w)
InOrder ==
    ~overlap /\ Timely => RunsAlone /\ CursorsStand /\ \A w \in Workers : CycleStands(w)

-----------------------------------------------------------------------------
(* Account activities: what the broker has posted stays posted, and legs   *)
(* that are gone have an activity or a filled close order to show for it.  *)
EventsGrow ==
    /\ Len(events) <= Len(events')
    /\ \A n \in DOMAIN events :
          /\ n \in DOMAIN events'
          /\ events'[n].type = events[n].type /\ events'[n].pos = events[n].pos
          /\ events'[n].posted = events[n].posted \/ events'[n].posted = "late"
    /\ \A n \in DOMAIN events' : n \in DOMAIN events \/ n > Len(events)

LEMMA EventsLast ==
    ASSUME TypeOK, [Next]_vars
    PROVE  EventsGrow
<1>0. events \in Seq(BrokerEvents)
  BY DEF TypeOK
<1>1. ASSUME UNCHANGED events PROVE EventsGrow
  BY <1>0, <1>1 DEF EventsGrow
<1>2. ASSUME NEW e \in BrokerEvents, events' = Append(events, e) PROVE EventsGrow
  BY <1>0, <1>2 DEF EventsGrow
<1>3. ASSUME NEW n \in DOMAIN events, PostActivity(n) PROVE EventsGrow
  <2>1. events[n] \in BrokerEvents /\ events' = [events EXCEPT ![n].posted = "late"]
    BY <1>0, <1>3 DEF PostActivity
  <2>2. DOMAIN events' = DOMAIN events /\ Len(events') = Len(events)
    BY <1>0, <2>1
  <2>3. \A m \in DOMAIN events :
            events'[m] = IF m = n THEN [events[n] EXCEPT !.posted = "late"] ELSE events[m]
    BY <2>1
  <2>4. QED
    BY <1>0, <2>1, <2>2, <2>3 DEF EventsGrow, BrokerEvents
<1>4. ASSUME NEW p \in Positions, BrokerEvent(p) PROVE EventsGrow
  <2>1. PICK t \in DOMAIN ActivityTypes, posted \in {"at_once", "not_yet"} :
               events' = Append(events, [type |-> t, pos |-> p, posted |-> posted])
    BY <1>4, LifecycleAssumption DEF BrokerEvent
  <2>2. [type |-> t, pos |-> p, posted |-> posted] \in BrokerEvents
    BY DEF BrokerEvents
  <2>3. QED
    BY <1>2, <2>1, <2>2
<1>5. ASSUME NEW w \in Workers, Step(w) \/ Failure(w) PROVE UNCHANGED events
  BY <1>5 DEF Step, Failure, ListPositions, ReadBroker, Promote, FindUnmanaged, ReadCursor, ApplyActivity,
     AdvanceCursor, LookupCloseOrder, OrdersDone, ReconcileClosed, ClosedDone, EvaluateExit, ExecuteClose,
     Finish, ReadBrokerFails, PromotionConflicts, ActivitiesFail, LookupFails, ExecuteFails, Crash, brokerVars
<1>6. ASSUME NEW p \in Positions, Fill(p) \/ RecordOpening(p) \/ CloseOrderFills(p) \/ CloseOrderEnds(p)
      PROVE  UNCHANGED events
  BY <1>6 DEF Fill, RecordOpening, CloseOrderFills, CloseOrderEnds, brokerVars
<1>7. CASE UNCHANGED vars
  BY <1>1, <1>7 DEF vars, brokerVars
<1>8. QED
  BY <1>1, <1>3, <1>4, <1>5, <1>6, <1>7 DEF Next, Environment

LEMMA TimelyBefore ==
    ASSUME TypeOK, [Next]_vars, Timely'
    PROVE  Timely
BY EventsLast DEF EventsGrow, Timely

LEMMA NoOverlapBefore ==
    ASSUME TypeOK, [Next]_vars, ~overlap'
    PROVE  ~overlap
<1>1. ASSUME NEW w \in Workers, Step(w) \/ Failure(w) PROVE ~overlap
  BY <1>1 DEF Step, Failure, ListPositions, ReadBroker, Promote, FindUnmanaged, ReadCursor, ApplyActivity,
     AdvanceCursor, LookupCloseOrder, OrdersDone, ReconcileClosed, ClosedDone, EvaluateExit, ExecuteClose,
     Finish, ReadBrokerFails, PromotionConflicts, ActivitiesFail, LookupFails, ExecuteFails, Crash
<1>2. CASE Environment
  BY <1>2 DEF Environment, Fill, RecordOpening, CloseOrderFills, CloseOrderEnds, BrokerEvent, PostActivity
<1>3. CASE UNCHANGED vars
  BY <1>3 DEF vars
<1>4. QED
  BY <1>1, <1>2, <1>3 DEF Next

(* The legs, the orders and the activities of the broker.                  *)
LegsAgree ==
    /\ \A p \in Positions :
          IF opening[p] = "unfilled" THEN Flat(legs[p])
          ELSE Flat(legs[p]) =>
                  \/ order[p] = "FILLED"
                  \/ \E n \in DOMAIN events : events[n].pos = p /\ TakesLegs(n)
    /\ \A n \in DOMAIN events :
          /\ opening[events[n].pos] # "unfilled"
          /\ TakesLegs(n) => ~Complete(legs[events[n].pos])
CursorsExist == \A t \in DOMAIN ActivityTypes : cursor[t] <= Len(events)
TokensExist == \A w \in Workers : local[w].token <= Len(events)

LEMMA BooksParts == BooksAgree <=> LegsAgree /\ CursorsExist /\ TokensExist
BY DEF BooksAgree, LegsAgree, CursorsExist, TokensExist

LEMMA SameTaker ==
    ASSUME EventsGrow, NEW n \in DOMAIN events
    PROVE  n \in DOMAIN events' /\ events'[n].pos = events[n].pos /\ TakesLegs(n)' = TakesLegs(n)
BY DEF EventsGrow, TakesLegs

LEMMA TakersOf ==
    ASSUME NEW t \in DOMAIN ActivityTypes, NEW l \in Legs, NEW left \in Remaining(l, ActivityTypes[t])
    PROVE  /\ left.long <= l.long /\ left.short <= l.short
           /\ Target(t) = "none" => left = l
           /\ Target(t) # "none" => ~Complete(left)
           /\ ~Complete(l) => ~Complete(left)
<1>1. l.long \in 0..Units /\ l.short \in 0..Units /\ Units \in Nat \ {0}
  BY PositionStoreAssumption DEF Legs
<1>2. CASE ActivityTypes[t] = "OPASN"
  <2>1. left \in {[l EXCEPT !.short = 0], [long |-> 0, short |-> 0]}
    BY <1>2 DEF Remaining
  <2>2. Target(t) # "none"
    BY <1>2 DEF Target, MapBrokerActivityState
  <2>3. left.long \in {0, l.long} /\ left.short = 0
    BY <2>1 DEF Legs
  <2>4. QED
    BY <1>1, <2>2, <2>3 DEF Complete
<1>3. CASE ActivityTypes[t] = "OPXRC"
  <2>1. left \in {[l EXCEPT !.long = 0], [long |-> 0, short |-> 0]}
    BY <1>3 DEF Remaining
  <2>2. Target(t) # "none"
    BY <1>3 DEF Target, MapBrokerActivityState
  <2>3. left.short \in {0, l.short} /\ left.long = 0
    BY <2>1 DEF Legs
  <2>4. QED
    BY <1>1, <2>2, <2>3 DEF Complete
<1>4. CASE ActivityTypes[t] = "OPEXP"
  <2>1. left = [long |-> 0, short |-> 0]
    BY <1>4 DEF Remaining
  <2>2. Target(t) # "none"
    BY <1>4 DEF Target, MapBrokerActivityState
  <2>3. QED
    BY <1>1, <2>1, <2>2 DEF Complete
<1>5. CASE ActivityTypes[t] \notin {"OPASN", "OPXRC", "OPEXP"}
  <2>1. left = l
    BY <1>5 DEF Remaining
  <2>2. Target(t) = "none"
    BY <1>5 DEF Target, MapBrokerActivityState
  <2>3. QED
    BY <1>1, <2>1, <2>2
<1>6. QED
  BY <1>2, <1>3, <1>4, <1>5

LEMMA FillAgrees ==
    ASSUME TypeOK, LegsAgree, NEW p \in Positions, Fill(p)
    PROVE  LegsAgree'
<1> USE DEF TakesLegs
<1>0. opening \in [Positions -> Openings] /\ legs \in [Positions -> Legs] /\ Units \in Nat \ {0}
  BY PositionStoreAssumption DEF TypeOK, StoreTypeOK
<1>1. /\ opening[p] = "unfilled" /\ opening'[p] = "filled"
      /\ \A q \in Positions \ {p} : opening'[q] = opening[q] /\ legs'[q] = legs[q]
      /\ UNCHANGED <<order, events>>
      /\ legs'[p] = [long |-> Units, short |-> Units]
  BY <1>0 DEF Fill
<1>2. ~Flat(legs'[p])
  BY <1>0, <1>1 DEF Flat
<1>3. ASSUME NEW q \in Positions
      PROVE  IF opening'[q] = "unfilled" THEN Flat(legs'[q])
             ELSE Flat(legs'[q]) =>
                    \/ order'[q] = "FILLED"
                    \/ \E n \in DOMAIN events' : events'[n].pos = q /\ TakesLegs(n)'
  BY <1>1, <1>2 DEF LegsAgree
<1>4. ASSUME NEW n \in DOMAIN events'
      PROVE  /\ opening'[events'[n].pos] # "unfilled"
             /\ TakesLegs(n)' => ~Complete(legs'[events'[n].pos])
  <2>1. events[n] \in BrokerEvents /\ n \in DOMAIN events
    BY <1>1 DEF TypeOK
  <2>2. events[n].pos \in Positions \ {p}
    BY <1>1, <2>1 DEF BrokerEvents, LegsAgree
  <2>3. QED
    BY <1>1, <2>1, <2>2 DEF LegsAgree
<1>5. QED
  BY <1>3, <1>4 DEF LegsAgree

LEMMA CloseOrderAgrees ==
    ASSUME TypeOK, LegsAgree, NEW p \in Positions, CloseOrderFills(p)
    PROVE  LegsAgree'
<1> USE DEF TakesLegs
<1>0. /\ legs \in [Positions -> Legs] /\ order \in [Positions -> OrderStatuses]
      /\ Units \in Nat \ {0}
  BY PositionStoreAssumption DEF TypeOK
<1> DEFINE left == [long |-> legs[p].long - 1, short |-> legs[p].short - 1]
<1>1. /\ BothPresent(legs[p])
      /\ legs' = [legs EXCEPT ![p] = left]
      /\ order' = [order EXCEPT ![p] = IF Flat(left) THEN "FILLED" ELSE "PARTIALLY_FILLED"]
      /\ order[p] \in {"NEW", "PARTIALLY_FILLED"}
      /\ UNCHANGED <<opening, events>>
  BY DEF CloseOrderFills, storeVars
<1>2. legs[p].long \in 1..Units /\ legs[p].short \in 1..Units
  BY <1>0, <1>1 DEF Legs, BothPresent
<1>3. ~Flat(legs[p]) /\ ~Complete(left)
  BY <1>2 DEF Flat, Complete
<1>4. ASSUME NEW q \in Positions \ {p} PROVE legs'[q] = legs[q] /\ order'[q] = order[q]
  BY <1>0, <1>1, <1>4
<1>5. legs'[p] = left /\ order'[p] = IF Flat(left) THEN "FILLED" ELSE "PARTIALLY_FILLED"
  BY <1>0, <1>1
<1> HIDE DEF left
<1>6. ASSUME NEW q \in Positions
      PROVE  IF opening'[q] = "unfilled" THEN Flat(legs'[q])
             ELSE Flat(legs'[q]) =>
                    \/ order'[q] = "FILLED"
                    \/ \E n \in DOMAIN events' : events'[n].pos = q /\ TakesLegs(n)'
  BY <1>1, <1>3, <1>4, <1>5 DEF LegsAgree
<1>7. ASSUME NEW n \in DOMAIN events'
      PROVE  /\ opening'[events'[n].pos] # "unfilled"
             /\ TakesLegs(n)' => ~Complete(legs'[events'[n].pos])
  <2>1. events[n] \in BrokerEvents /\ n \in DOMAIN events
    BY <1>1 DEF TypeOK
  <2>2. events[n].pos \in Positions
    BY <2>1 DEF BrokerEvents
  <2>3. QED
    BY <1>1, <1>3, <1>4, <1>5, <2>1, <2>2 DEF LegsAgree
<1>8. QED
  BY <1>6, <1>7 DEF LegsAgree

LEMMA BrokerEventAgrees ==
    ASSUME TypeOK, LegsAgree, NEW p \in Positions, BrokerEvent(p)
    PROVE  LegsAgree'
<1>0. legs \in [Positions -> Legs] /\ events \in Seq(BrokerEvents) /\ legs[p] \in Legs
  BY DEF TypeOK
<1>1. PICK t \in DOMAIN ActivityTypes, posted \in {"at_once", "not_yet"} :
             /\ \E l \in Remaining(legs[p], ActivityTypes[t]) : legs' = [legs EXCEPT ![p] = l]
             /\ events' = Append(events, [type |-> t, pos |-> p, posted |-> posted])
  BY LifecycleAssumption DEF BrokerEvent
<1>2. PICK left \in Remaining(legs[p], ActivityTypes[t]) : legs' = [legs EXCEPT ![p] = left]
  BY <1>1
<1>3. /\ Target(t) = "none" => left = legs[p]
      /\ Target(t) # "none" => ~Complete(left)
      /\ ~Complete(legs[p]) => ~Complete(left)
  BY <1>0, <1>2, TakersOf
<1>4. ~Flat(legs[p]) /\ UNCHANGED <<opening, order>>
  BY DEF BrokerEvent, storeVars
<1>5. legs'[p] = left /\ \A q \in Positions \ {p} : legs'[q] = legs[q]
  BY <1>0, <1>2
<1>6. PICK new \in Nat :
          /\ DOMAIN events' = DOMAIN events \cup {new} /\ events'[new].pos = p /\ events'[new].type = t
          /\ \A n \in DOMAIN events : events'[n] = events[n]
  <2>1. Len(events) + 1 \in Nat
    BY <1>0
  <2>2. /\ DOMAIN events' = DOMAIN events \cup {Len(events) + 1}
        /\ events'[Len(events) + 1] = [type |-> t, pos |-> p, posted |-> posted]
        /\ \A n \in DOMAIN events : events'[n] = events[n]
    BY <1>0, <1>1
  <2>3. QED
    BY <2>1, <2>2
<1>7. /\ new \in DOMAIN events' /\ (TakesLegs(new)' <=> Target(t) # "none")
      /\ \A n \in DOMAIN events : n \in DOMAIN events' /\ (TakesLegs(n)' <=> TakesLegs(n))
  <2>1. new \in DOMAIN events' /\ events'[new].type = t
    BY <1>6
  <2>2. TakesLegs(new)' <=> Target(t) # "none"
    BY <2>1 DEF TakesLegs
  <2>3. ASSUME NEW n \in DOMAIN events
        PROVE  n \in DOMAIN events' /\ (TakesLegs(n)' <=> TakesLegs(n))
    <3>1. n \in DOMAIN events' /\ events'[n].type = events[n].type
      BY <1>6
    <3>2. QED
      BY <3>1 DEF TakesLegs
  <2>4. QED
    BY <2>1, <2>2, <2>3
<1>8. ASSUME NEW q \in Positions
      PROVE  IF opening'[q] = "unfilled" THEN Flat(legs'[q])
             ELSE Flat(legs'[q]) =>
                    \/ order'[q] = "FILLED"
                    \/ \E n \in DOMAIN events' : events'[n].pos = q /\ TakesLegs(n)'
  <2>1. CASE q = p
    <3>1. opening'[q] # "unfilled"
      BY <1>4, <2>1 DEF LegsAgree
    <3>2. Flat(legs'[q]) => Target(t) # "none"
      BY <1>3, <1>4, <1>5, <2>1
    <3>3. Target(t) # "none" => new \in DOMAIN events' /\ events'[new].pos = q /\ TakesLegs(new)'
      BY <1>6, <1>7, <2>1
    <3>4. QED
      BY <3>1, <3>2, <3>3
  <2>2. CASE q # p
    BY <1>4, <1>5, <1>6, <1>7, <2>2 DEF LegsAgree
  <2>3. QED
    BY <2>1, <2>2
<1>9. ASSUME NEW n \in DOMAIN events'
      PROVE  /\ opening'[events'[n].pos] # "unfilled"
             /\ TakesLegs(n)' => ~Complete(legs'[events'[n].pos])
  <2>1. CASE n = new
    <3>1. events'[n].pos = p /\ opening'[p] # "unfilled"
      BY <1>4, <1>6, <2>1 DEF LegsAgree
    <3>2. TakesLegs(n)' => ~Complete(legs'[p])
      BY <1>3, <1>5, <1>7, <2>1
    <3>3. QED
      BY <3>1, <3>2
  <2>2. CASE n \in DOMAIN events
    <3>0. events[n] \in BrokerEvents
      BY <1>0, <2>2
    <3>1. events[n].pos \in Positions
      BY <3>0 DEF BrokerEvents
    <3>2. opening[events[n].pos] # "unfilled" /\ (TakesLegs(n) => ~Complete(legs[events[n].pos]))
      BY <2>2 DEF LegsAgree
    <3>3. QED
      BY <1>3, <1>4, <1>5, <1>6, <1>7, <2>2, <3>1, <3>2
  <2>3. QED
    BY <1>6, <2>1, <2>2
<1>10. QED
  BY <1>8, <1>9 DEF LegsAgree

LEMMA LegsAgreeStep ==
    ASSUME TypeOK, LegsAgree, [Next]_vars
    PROVE  LegsAgree'
<1>0. \A p \in Positions : order[p] = "FILLED" => order'[p] = "FILLED"
  BY AnOrderMoves DEF OrderMoves
<1>1. ASSUME UNCHANGED <<opening, legs>>,
             EventsGrow, DOMAIN events' = DOMAIN events
      PROVE  LegsAgree'
  <2>1. ASSUME NEW q \in Positions
        PROVE  IF opening'[q] = "unfilled" THEN Flat(legs'[q])
               ELSE Flat(legs'[q]) =>
                      \/ order'[q] = "FILLED"
                      \/ \E n \in DOMAIN events' : events'[n].pos = q /\ TakesLegs(n)'
    BY <1>0, <1>1, SameTaker DEF LegsAgree
  <2>2. ASSUME NEW n \in DOMAIN events'
        PROVE  /\ opening'[events'[n].pos] # "unfilled"
               /\ TakesLegs(n)' => ~Complete(legs'[events'[n].pos])
    BY <1>1, SameTaker DEF LegsAgree
  <2>3. QED
    BY <2>1, <2>2 DEF LegsAgree
<1>2. ASSUME NEW p \in Positions, RecordOpening(p) PROVE LegsAgree'
  <2>1. opening \in [Positions -> Openings] /\ opening[p] # "unfilled"
    BY <1>2 DEF RecordOpening, TypeOK, StoreTypeOK
  <2>2. \A q \in Positions : opening'[q] = "unfilled" <=> opening[q] = "unfilled"
    BY <1>2, <2>1 DEF RecordOpening
  <2>3. UNCHANGED <<legs, order, events>>
    BY <1>2 DEF RecordOpening, brokerVars
  <2>4. \A n \in DOMAIN events : events[n].pos \in Positions
    <3>1. \A n \in DOMAIN events : events[n] \in BrokerEvents
      BY DEF TypeOK
    <3>2. QED
      BY <3>1 DEF BrokerEvents
  <2>5. QED
    BY <2>2, <2>3, <2>4 DEF LegsAgree, TakesLegs
<1>3. ASSUME NEW w \in Workers, Step(w) \/ Failure(w) PROVE LegsAgree'
  <2>1. UNCHANGED <<opening, legs, events>>
    BY <1>3 DEF Step, Failure, ListPositions, ReadBroker, Promote, FindUnmanaged, ReadCursor, ApplyActivity,
       AdvanceCursor, LookupCloseOrder, OrdersDone, ReconcileClosed, ClosedDone, EvaluateExit, ExecuteClose,
       Finish, ReadBrokerFails, PromotionConflicts, ActivitiesFail, LookupFails, ExecuteFails, Crash,
       brokerVars, storeVars, PromoteReconciledOpenings, TransitionPosition, AttachCloseIntent, Record,
       AdvanceActivityCursor
  <2>2. QED
    BY <1>1, <2>1, EventsLast
<1>4. ASSUME NEW p \in Positions, CloseOrderEnds(p) PROVE LegsAgree'
  BY <1>1, <1>4, EventsLast DEF CloseOrderEnds, storeVars
<1>5. ASSUME NEW n \in DOMAIN events, PostActivity(n) PROVE LegsAgree'
  <2>1. DOMAIN events' = DOMAIN events
    BY <1>5 DEF PostActivity, TypeOK
  <2>2. QED
    BY <1>1, <1>5, <2>1, EventsLast DEF PostActivity, storeVars
<1>6. CASE UNCHANGED vars
  BY <1>1, <1>6, EventsLast DEF vars, storeVars, brokerVars
<1>7. QED
  BY <1>2, <1>3, <1>4, <1>5, <1>6, FillAgrees, CloseOrderAgrees, BrokerEventAgrees DEF Next, Environment

(* A cursor is only ever set to the token of a cycle, a token only to an   *)
(* activity that was read or to the cursor.                                *)
LEMMA TokenMoves ==
    ASSUME TypeOK, NEW w \in Workers, Step(w) \/ Failure(w)
    PROVE  /\ \/ local'[w].token \in {0, local[w].token, cursor[local[w].type]}
              \/ local'[w].token \in DOMAIN events
           /\ \/ UNCHANGED cursor
              \/ /\ AdvanceCursor(w)
                 /\ \A t \in DOMAIN ActivityTypes : cursor'[t] \in {cursor[t], local[w].token}
<1>0. local \in [Workers -> Locals] /\ local[w] \in Locals
  BY DEF TypeOK
<1> DEFINE Goal == \/ local'[w].token \in {0, local[w].token, cursor[local[w].type]}
                   \/ local'[w].token \in DOMAIN events
<1>1. ASSUME NEW clear, End(w, clear) PROVE Goal
  BY <1>0, <1>1 DEF End, NoLocal
<1>2. ASSUME Raise(w) PROVE Goal
  BY <1>1, <1>2 DEF Raise
<1>3. ASSUME NEW l \in Locals, NextType(w, l) PROVE Goal
  <2>1. PICK m : Keep(w, m) /\ m.token = 0
    <3>1. [l EXCEPT !.token = 0, !.todo = PendingSeen(w)].token = 0
      BY DEF Locals
    <3>2. [l EXCEPT !.token = 0, !.type = @ + 1].token = 0
      BY DEF Locals
    <3>3. QED
      BY <1>3, <3>1, <3>2 DEF NextType
  <2>2. QED
    BY <1>0, <2>1 DEF Keep
<1>4. \A reason : Because(w, reason).token = local[w].token
  BY <1>0 DEF Because, Locals
<1>5. \A l \in Locals : Drop(w, l).token = l.token
  BY DEF Drop, Locals
<1>6. \A reason \in ReviewReasons : Because(w, reason) \in Locals
  BY <1>0, BecauseType DEF Because
<1>7. CASE ListPositions(w) \/ ReadBroker(w) \/ Promote(w) \/ FindUnmanaged(w) \/ ReadCursor(w)
  <2>1. Goal
    BY <1>0, <1>4, <1>7 DEF ListPositions, ReadBroker, Promote, FindUnmanaged, ReadCursor, Keep, Locals
  <2>2. UNCHANGED cursor
    BY <1>7 DEF ListPositions, ReadBroker, Promote, FindUnmanaged, ReadCursor, storeVars,
       PromoteReconciledOpenings
  <2>3. QED
    BY <2>1, <2>2
<1>8. CASE ApplyActivity(w)
  <2> DEFINE n == First(Unread(local[w].type, local[w].token))
  <2>1. n \in DOMAIN events /\ n \in Nat
    BY <1>8, FirstUnread DEF ApplyActivity
  <2>2. \/ Keep(w, [local[w] EXCEPT !.token = n])
        \/ Keep(w, [[local[w] EXCEPT !.token = n] EXCEPT !.moved = TRUE])
        \/ NextType(w, Because(w, "reconciliation_failed"))
    BY <1>8 DEF ApplyActivity
  <2> HIDE DEF n
  <2>3. Keep(w, [local[w] EXCEPT !.token = n]) => local'[w].token = n
    BY <1>0 DEF Keep, Locals
  <2>4. Keep(w, [[local[w] EXCEPT !.token = n] EXCEPT !.moved = TRUE]) => local'[w].token = n
    BY <1>0 DEF Keep, Locals
  <2>5. Goal
    BY <1>3, <1>6, <2>1, <2>2, <2>3, <2>4 DEF ReviewReasons
  <2>6. UNCHANGED cursor
    BY <1>8 DEF ApplyActivity, storeVars, TransitionPosition, Record
  <2>7. QED
    BY <2>5, <2>6
<1>9. CASE ActivitiesFail(w)
  BY <1>3, <1>6, <1>9 DEF ActivitiesFail, storeVars, ReviewReasons
<1>10. CASE AdvanceCursor(w)
  <2>1. Goal
    BY <1>0, <1>3, <1>10 DEF AdvanceCursor
  <2>2. \A t \in DOMAIN ActivityTypes : cursor'[t] \in {cursor[t], local[w].token}
    BY <1>10 DEF AdvanceCursor, AdvanceActivityCursor, TypeOK, StoreTypeOK
  <2>3. QED
    BY <1>10, <2>1, <2>2
<1>11. CASE LookupCloseOrder(w) \/ LookupFails(w) \/ ReconcileClosed(w) \/ EvaluateExit(w) \/ ExecuteClose(w)
  <2>1. ASSUME NEW l \in Locals, Keep(w, Drop(w, l)), l.token = local[w].token PROVE Goal
    BY <1>0, <1>5, <2>1 DEF Keep
  <2>2. UNCHANGED local => Goal
    OBVIOUS
  <2>3. \/ Raise(w) \/ UNCHANGED local \/ Keep(w, Drop(w, local[w]))
        \/ \E reason \in ReviewReasons : Keep(w, Drop(w, Because(w, reason)))
    BY <1>11 DEF LookupCloseOrder, LookupFails, ReconcileClosed, EvaluateExit, ExecuteClose, ReviewReasons
  <2>4. Goal
    BY <1>0, <1>2, <1>4, <1>6, <2>1, <2>2, <2>3
  <2>5. UNCHANGED cursor
    BY <1>11 DEF LookupCloseOrder, LookupFails, ReconcileClosed, EvaluateExit, ExecuteClose, storeVars,
       TransitionPosition, AttachCloseIntent, Record
  <2>6. QED
    BY <2>4, <2>5
<1>12. CASE OrdersDone(w) \/ ClosedDone(w)
  <2>1. Goal
    BY <1>0, <1>12 DEF OrdersDone, ClosedDone, Loop, Keep, Locals
  <2>2. QED
    BY <1>12, <2>1 DEF OrdersDone, ClosedDone, storeVars
<1>13. CASE Finish(w) \/ ReadBrokerFails(w) \/ PromotionConflicts(w) \/ ExecuteFails(w) \/ Crash(w)
  <2>1. Goal
    BY <1>1, <1>2, <1>13 DEF Finish, ReadBrokerFails, PromotionConflicts, ExecuteFails, Crash
  <2>2. QED
    BY <1>13, <2>1 DEF Finish, ReadBrokerFails, PromotionConflicts, ExecuteFails, Crash, storeVars
<1>14. QED
  BY <1>7, <1>8, <1>9, <1>10, <1>11, <1>12, <1>13 DEF Step, Failure

LEMMA CursorsExistStep ==
    ASSUME TypeOK, CursorsExist, TokensExist, [Next]_vars
    PROVE  CursorsExist' /\ TokensExist'
<1>0. /\ events \in Seq(BrokerEvents) /\ cursor \in [DOMAIN ActivityTypes -> Nat]
      /\ local \in [Workers -> Locals] /\ Len(events) \in Nat
  BY DEF TypeOK, StoreTypeOK
<1>1. Len(events) <= Len(events') /\ Len(events') \in Nat
  BY EventsLast, StepType, StutterType DEF EventsGrow, TypeOK
<1>2. ASSUME NEW w \in Workers PROVE local[w].type \in DOMAIN ActivityTypes /\ local[w].token \in Nat
  BY <1>0 DEF Locals
<1>3. ASSUME UNCHANGED <<cursor, local>> PROVE CursorsExist' /\ TokensExist'
  BY <1>0, <1>1, <1>2, <1>3 DEF CursorsExist, TokensExist
<1>4. ASSUME NEW v \in Workers, Step(v) \/ Failure(v) PROVE CursorsExist' /\ TokensExist'
  <2>1. ASSUME NEW t \in DOMAIN ActivityTypes PROVE cursor'[t] \in Nat /\ cursor'[t] <= Len(events)
    BY <1>0, <1>2, <1>4, TokenMoves DEF CursorsExist, TokensExist
  <2>2. ASSUME NEW w \in Workers PROVE local'[w].token \in Nat /\ local'[w].token <= Len(events)
    <3>1. CASE w = v
      <4>1. \/ local'[w].token \in {0, local[w].token, cursor[local[w].type]}
            \/ local'[w].token \in 1..Len(events)
        BY <1>0, <1>4, <3>1, TokenMoves
      <4>2. cursor[local[w].type] \in Nat /\ cursor[local[w].type] <= Len(events)
        BY <1>0, <1>2 DEF CursorsExist
      <4>3. QED
        BY <1>0, <1>2, <4>1, <4>2 DEF TokensExist
    <3>2. CASE w # v
      BY <1>0, <1>2, <1>4, <3>2, OthersMove DEF OthersStay, TokensExist
    <3>3. QED
      BY <3>1, <3>2
  <2>3. QED
    BY <1>0, <1>1, <2>1, <2>2 DEF CursorsExist, TokensExist
<1>5. CASE Environment
  BY <1>3, <1>5 DEF Environment, Fill, RecordOpening, CloseOrderFills, CloseOrderEnds, BrokerEvent,
     PostActivity, cycleVars, storeVars
<1>6. CASE UNCHANGED vars
  BY <1>3, <1>6 DEF vars, storeVars, cycleVars
<1>7. QED
  BY <1>4, <1>5, <1>6 DEF Next

LEMMA BooksInvariant == Spec => []BooksAgree
<1>1. Init => BooksAgree
  <2>1. SUFFICES ASSUME Init PROVE BooksAgree
    OBVIOUS
  <2>2. Len(events) = 0 /\ DOMAIN events = {}
    BY <2>1 DEF Init
  <2>3. \A w \in Workers : local[w].token = 0
    BY <2>1 DEF Init, NoLocal
  <2>4. QED
    BY <2>1, <2>2, <2>3 DEF Init, StoreInit, NoLegs, Flat, BooksAgree
<1>2. TypeOK /\ BooksAgree /\ [Next]_vars => BooksAgree'
  <2>1. ASSUME TypeOK, BooksAgree, [Next]_vars PROVE LegsAgree' /\ CursorsExist' /\ TokensExist'
    BY <2>1, BooksParts, LegsAgreeStep, CursorsExistStep
  <2>2. QED
    BY <2>1 DEF BooksAgree, LegsAgree, CursorsExist, TokensExist
<1>3. QED
  BY <1>1, <1>2, PositionTypeCorrect, PTL DEF Spec

-----------------------------------------------------------------------------
(* What holds of the tables whenever cycles have run one at a time and     *)
(* every activity was posted at once.                                      *)
InTime == PositionInv /\ RowsValidate /\ BooksAgree /\ Timely /\ CursorsStand

LEMMA ActiveBefore ==
    ASSUME TypeOK, [Next]_vars, NEW p \in Positions
    PROVE  /\ row'[p].state \in Active => row[p].state \in Active \/ row[p].state = "absent"
           /\ row'[p].state = "absent" => row[p].state = "absent"
<1>1. CASE row'[p].state = row[p].state
  BY <1>1
<1>2. CASE row[p].state = "absent"
  BY <1>2
<1>3. CASE row[p].state \in LifecycleStates /\ row'[p].state \in AllowedTransitions[row[p].state]
  <2>1. AllowedTransitions[row[p].state] \subseteq LifecycleStates
    BY <1>3 DEF AllowedTransitions, LifecycleStates, Active, TerminalOrReview, Review
  <2>2. row'[p].state \in Active => row[p].state = "OPEN"
    <3>1. row'[p].state # "OPEN"
      BY <1>3, NextState
    <3>2. row'[p].state = "CLOSE_PENDING" => row[p].state = "OPEN"
      BY <1>3, NextState DEF Review
    <3>3. QED
      BY <3>1, <3>2 DEF Active
  <2>3. row'[p].state # "absent"
    BY <1>3, <2>1 DEF LifecycleStates, Active, TerminalOrReview, Review
  <2>4. QED
    BY <2>2, <2>3 DEF Active
<1>4. QED
  BY <1>1, <1>2, <1>3, ARowMoves DEF RowMoves

LEMMA TakenOnce ==   \* an activity behind the cursor, or the token, is still there
    ASSUME TypeOK, [Next]_vars, NEW n \in DOMAIN events', NEW last \in Nat, last <= Len(events), n <= last
    PROVE  /\ n \in DOMAIN events
           /\ events[n].pos \in Positions /\ events'[n].pos = events[n].pos
           /\ events'[n].type = events[n].type /\ events[n].type \in DOMAIN ActivityTypes
           /\ TakesLegs(n)' = TakesLegs(n)
<1>1. events \in Seq(BrokerEvents) /\ events' \in Seq(BrokerEvents)
  BY StepType, StutterType DEF TypeOK
<1>2. n \in DOMAIN events
  BY <1>1, EventsLast DEF EventsGrow
<1>3. events[n] \in BrokerEvents
  BY <1>1, <1>2
<1>4. QED
  BY <1>2, <1>3, EventsLast, SameTaker DEF EventsGrow, BrokerEvents

LEMMA AppliedStays ==
    ASSUME TypeOK, [Next]_vars, NEW t \in DOMAIN ActivityTypes, NEW last \in Nat, last <= Len(events),
           \A n \in DOMAIN events : events[n].type = t /\ n <= last /\ TakesLegs(n) =>
               row[events[n].pos].state \notin Active /\ row'[events[n].pos].state \notin Active
    PROVE  AppliedUpTo(t, last)'
<1>1. SUFFICES ASSUME NEW n \in DOMAIN events', events'[n].type = t, n <= last, TakesLegs(n)'
               PROVE  row'[events'[n].pos].state \notin Active
  BY DEF AppliedUpTo
<1>2. QED
  BY <1>1, TakenOnce

(* A position is promoted only while the broker holds all of its legs.     *)
LEMMA PromotedIsComplete ==
    ASSUME TypeOK, NEW w \in Workers, Promote(w), NEW p \in Positions
    PROVE  \/ row'[p] = row[p]
           \/ row[p].state = "absent" /\ row'[p] = NewRow /\ Complete(broker[w][p])
BY DEF Promote, PromoteReconciledOpenings, Promotable, Unpromoted, TypeOK, StoreTypeOK

LEMMA CursorsStandStep ==
    ASSUME TypeOK, BooksAgree, CursorsStand, [Next]_vars, \A w \in Workers : ReadingStands(w)
    PROVE  CursorsStand'
<1>0. /\ cursor \in [DOMAIN ActivityTypes -> Nat] /\ local \in [Workers -> Locals]
      /\ events \in Seq(BrokerEvents)
  BY DEF TypeOK, StoreTypeOK
<1>1. ASSUME NEW n \in DOMAIN events, TakesLegs(n), row[events[n].pos].state \notin Active,
             \A w \in Workers : ~Promote(w) \/ ~Complete(broker[w][events[n].pos])
      PROVE  row'[events[n].pos].state \notin Active
  <2>1. events[n] \in BrokerEvents
    BY <1>0
  <2>2. events[n].pos \in Positions
    BY <2>1 DEF BrokerEvents
  <2>3. CASE \E w \in Workers : Promote(w)
    BY <1>1, <2>2, <2>3, PromotedIsComplete
  <2>4. CASE \A w \in Workers : ~Promote(w)
    <3>1. UNCHANGED row \/ \E w \in Workers : SomeMove(w)
      BY <2>4, RowsMove
    <3>2. row'[events[n].pos].state = row[events[n].pos].state \/ row[events[n].pos].state # "absent"
      <4>1. CASE UNCHANGED row
        BY <4>1
      <4>2. ASSUME NEW w \in Workers, SomeMove(w)
            PROVE  row'[events[n].pos] = row[events[n].pos] \/ row[events[n].pos].state # "absent"
        <5>1. "absent" \notin LifecycleStates
          BY DEF LifecycleStates, Active, TerminalOrReview, Review
        <5>2. QED
          BY <2>2, <4>2, <5>1 DEF SomeMove, Moves, Accepts, Record, TypeOK, StoreTypeOK
      <4>3. QED
        BY <3>1, <4>1, <4>2
    <3>3. QED
      BY <1>1, <2>2, <3>2, ActiveBefore
  <2>5. QED
    BY <2>3, <2>4
<1>2. ASSUME NEW t \in DOMAIN ActivityTypes PROVE AppliedUpTo(t, cursor[t])'
  <2>1. cursor[t] \in Nat /\ cursor[t] <= Len(events) /\ AppliedUpTo(t, cursor[t])
    BY <1>0 DEF BooksAgree, CursorsStand
  <2>2. \A last \in Nat : cursor'[t] = last /\ AppliedUpTo(t, last)' => AppliedUpTo(t, cursor[t])'
    BY DEF AppliedUpTo
  <2>3. CASE cursor'[t] = cursor[t]
    <3>1. ASSUME NEW n \in DOMAIN events, events[n].type = t, n <= cursor[t], TakesLegs(n)
          PROVE  row[events[n].pos].state \notin Active /\ row'[events[n].pos].state \notin Active
      <4>1. row[events[n].pos].state \notin Active
        BY <2>1, <3>1 DEF AppliedUpTo
      <4>2. ASSUME NEW w \in Workers, Promote(w) PROVE ~Complete(broker[w][events[n].pos])
        BY <3>1, <4>2 DEF Promote, ReadingStands, Passed
      <4>3. QED
        BY <1>1, <3>1, <4>1, <4>2
    <3>2. QED
      BY <2>1, <2>2, <2>3, <3>1, AppliedStays
  <2>4. ASSUME NEW w \in Workers, AdvanceCursor(w), t = local[w].type, cursor'[t] = local[w].token
        PROVE  AppliedUpTo(t, cursor[t])'
    <3>1. local[w].token \in Nat /\ local[w].token <= Len(events)
      BY <1>0 DEF BooksAgree, Locals
    <3>2. AppliedUpTo(t, local[w].token) /\ UNCHANGED row
      BY <2>4 DEF AdvanceCursor, AdvanceActivityCursor, ReadingStands
    <3>3. \A n \in DOMAIN events : events[n].type = t /\ n <= local[w].token /\ TakesLegs(n) =>
              row[events[n].pos].state \notin Active /\ row'[events[n].pos].state \notin Active
      BY <3>2 DEF AppliedUpTo
    <3>4. QED
      <4>1. PICK last \in Nat : last = local[w].token
        BY <3>1
      <4>2. AppliedUpTo(t, last)'
        BY <3>1, <3>3, <4>1, AppliedStays
      <4>3. QED
        BY <2>2, <2>4, <4>1, <4>2
  <2>5. \/ cursor'[t] = cursor[t]
        \/ \E w \in Workers : AdvanceCursor(w) /\ t = local[w].type /\ cursor'[t] = local[w].token
    <3>1. ASSUME NEW w \in Workers, AdvanceCursor(w)
          PROVE  cursor'[t] = cursor[t] \/ (t = local[w].type /\ cursor'[t] = local[w].token)
      BY <1>0, <3>1 DEF AdvanceCursor, AdvanceActivityCursor
    <3>2. ASSUME NEW w \in Workers, Step(w) \/ Failure(w), ~AdvanceCursor(w) PROVE UNCHANGED cursor
      BY <3>2, TokenMoves
    <3>3. CASE Environment
      BY <3>3 DEF Environment, Fill, RecordOpening, CloseOrderFills, CloseOrderEnds, BrokerEvent,
         PostActivity, storeVars
    <3>4. CASE UNCHANGED vars
      BY <3>4 DEF vars, storeVars
    <3>5. QED
      BY <3>1, <3>2, <3>3, <3>4 DEF Next
  <2>6. QED
    BY <2>3, <2>4, <2>5
<1>3. QED
  BY <1>2 DEF CursorsStand

-----------------------------------------------------------------------------
(* What a cycle relies on while the others, the broker and the other       *)
(* components take their steps.                                            *)
LEMMA OrdersLast ==
    ASSUME TypeOK, [Next]_vars, NEW p \in Positions
    PROVE  /\ order'[p] = "absent" => order[p] = "absent"
           /\ order[p] = "FILLED" => order'[p] = "FILLED"
BY AnOrderMoves DEF OrderMoves

LEMMA IdleStands ==
    ASSUME NEW w \in Workers, pc'[w] = "idle", local'[w] = NoLocal
    PROVE  CycleStands(w)'
BY DEF CycleStands, ListingStands, ReadingStands, FindingNothing, ExplainsGone, ManagesHeld,
   ListsReviews, LooksUpClosing, OrdersClosing, Late

LEMMA EndStands ==
    ASSUME TypeOK, NEW w \in Workers, NEW clear, End(w, clear)
    PROVE  CycleStands(w)'
<1>1. pc'[w] = "idle" /\ local'[w] = NoLocal
  BY DEF End, GoTo, TypeOK
<1>2. QED
  BY <1>1, IdleStands

LEMMA GoneStaysExplained ==
    ASSUME TypeOK, [Next]_vars, NEW w \in Workers, NEW p \in Positions, GoneIsExplained(w, p),
           \A n \in DOMAIN events :
               HasRead(w, n)' /\ (HasRead(w, n) => Passed(n)) => n <= cursor'[events[n].type]
    PROVE  GoneIsExplained(w, p)'
<1>1. CASE order[p] = "FILLED"
  BY <1>1, OrdersLast DEF GoneIsExplained
<1>2. CASE \E n \in DOMAIN events : events[n].pos = p /\ TakesLegs(n) /\ (HasRead(w, n) => Passed(n))
  <2>1. PICK n \in DOMAIN events : events[n].pos = p /\ TakesLegs(n) /\ (HasRead(w, n) => Passed(n))
    BY <1>2
  <2>2. n \in DOMAIN events' /\ events'[n].pos = p /\ TakesLegs(n)' /\ events'[n].type = events[n].type
    BY <2>1, EventsLast, SameTaker DEF EventsGrow
  <2>3. HasRead(w, n)' => Passed(n)'
    BY <2>1, <2>2 DEF Passed
  <2>4. QED
    BY <2>2, <2>3 DEF GoneIsExplained
<1>3. QED
  BY <1>1, <1>2 DEF GoneIsExplained

LEMMA SameHasRead ==
    ASSUME EventsGrow, NEW w \in Workers, NEW n \in DOMAIN events,
           pc'[w] \in Late => pc[w] \in Late, local'[w].type = local[w].type
    PROVE  HasRead(w, n)' => HasRead(w, n)
BY DEF HasRead, EventsGrow

LEMMA CursorsGrow ==
    ASSUME TypeOK, [Next]_vars, NEW n \in DOMAIN events, Passed(n)
    PROVE  n <= cursor'[events[n].type]
<1>1. events[n] \in BrokerEvents /\ n \in Nat /\ cursor \in [DOMAIN ActivityTypes -> Nat]
  BY DEF TypeOK, StoreTypeOK
<1>2. events[n].type \in DOMAIN ActivityTypes
  BY <1>1 DEF BrokerEvents
<1>3. ASSUME NEW w \in Workers, AdvanceCursor(w) PROVE n <= cursor'[events[n].type]
  <2>1. local[w].type \in DOMAIN ActivityTypes /\ local[w].token \in Nat
    BY DEF TypeOK, Locals
  <2>2. QED
    BY <1>1, <1>2, <1>3, <2>1 DEF AdvanceCursor, AdvanceActivityCursor, Passed
<1>4. ASSUME NEW w \in Workers, Step(w) \/ Failure(w) PROVE AdvanceCursor(w) \/ UNCHANGED cursor
  BY <1>4, TokenMoves
<1>5. CASE Environment
  BY <1>5 DEF Environment, Fill, RecordOpening, CloseOrderFills, CloseOrderEnds, BrokerEvent,
     PostActivity, storeVars, Passed
<1>6. CASE UNCHANGED vars
  BY <1>6 DEF vars, storeVars, Passed
<1>7. QED
  BY <1>3, <1>4, <1>5, <1>6 DEF Next, Passed

(* The explanation of a cycle that goes on with the same activity type.    *)
LEMMA SameExplanation ==
    ASSUME TypeOK, [Next]_vars, NEW w \in Workers, NEW p \in Positions, GoneIsExplained(w, p),
           pc'[w] \in Late => pc[w] \in Late, local'[w].type = local[w].type
    PROVE  GoneIsExplained(w, p)'
<1>1. ASSUME NEW n \in DOMAIN events, HasRead(w, n)', HasRead(w, n) => Passed(n)
      PROVE  n <= cursor'[events[n].type]
  BY <1>1, EventsLast, SameHasRead, CursorsGrow
<1>2. QED
  BY <1>1, GoneStaysExplained

LEMMA OutsideListing ==
    ASSUME NEW w \in Workers, ListingStands(w), UNCHANGED <<row, cycleVars>>
    PROVE  ListingStands(w)'
BY DEF ListingStands, cycleVars

LEMMA OutsideReading ==
    ASSUME TypeOK, BooksAgree, [Next]_vars, NEW w \in Workers, ReadingStands(w),
           UNCHANGED <<row, cursor, cycleVars>>
    PROVE  ReadingStands(w)'
<1>0. /\ UNCHANGED <<row, cursor, pc, broker, local>>
      /\ cursor \in [DOMAIN ActivityTypes -> Nat] /\ local[w] \in Locals
      /\ events' \in Seq(BrokerEvents)
  BY StepType, StutterType DEF cycleVars, TypeOK, StoreTypeOK
<1>1. ASSUME pc[w] = "promote", NEW n \in DOMAIN events', TakesLegs(n)', n <= cursor[events'[n].type]
      PROVE  ~Complete(broker[w][events'[n].pos])
  <2>1. events'[n] \in BrokerEvents
    BY <1>0
  <2>2. events'[n].type \in DOMAIN ActivityTypes
    BY <2>1 DEF BrokerEvents
  <2>3. cursor[events'[n].type] \in Nat /\ cursor[events'[n].type] <= Len(events)
    BY <1>0, <2>2 DEF BooksAgree
  <2>4. /\ n \in DOMAIN events /\ events[n].type = events'[n].type /\ events[n].pos = events'[n].pos
        /\ TakesLegs(n)
    BY <1>1, <2>3, TakenOnce
  <2>5. QED
    BY <1>1, <2>4 DEF ReadingStands, Passed
<1>2. ASSUME pc[w] = "activities" PROVE AppliedUpTo(local[w].type, local[w].token)'
  <2>1. PICK t \in DOMAIN ActivityTypes, last \in Nat :
            t = local[w].type /\ last = local[w].token
    BY <1>0 DEF Locals
  <2>2. last <= Len(events)
    BY <2>1 DEF BooksAgree
  <2>3. AppliedUpTo(t, last)'
    <3>1. AppliedUpTo(t, last)
      BY <1>2, <2>1 DEF ReadingStands
    <3>2. QED
      BY <1>0, <2>2, <3>1, AppliedStays DEF AppliedUpTo
  <2>4. QED
    BY <1>0, <2>1, <2>3 DEF AppliedUpTo
<1>3. QED
  BY <1>0, <1>1, <1>2 DEF ReadingStands, Passed

LEMMA OutsideFinding ==
    ASSUME TypeOK, [Next]_vars, NEW w \in Workers, FindingNothing(w), UNCHANGED <<row, cycleVars>>
    PROVE  FindingNothing(w)'
<1>0. UNCHANGED <<row, pc, seen, broker, local>>
  BY DEF cycleVars
<1>1. SUFFICES ASSUME NEW p \in Positions
               PROVE  /\ ExplainsGone(w, p)' /\ ManagesHeld(w, p)' /\ ListsReviews(w, p)'
                      /\ LooksUpClosing(w, p)' /\ OrdersClosing(w, p)'
  BY DEF FindingNothing
<1>2. ExplainsGone(w, p)'
  BY <1>0, SameExplanation DEF FindingNothing, ExplainsGone
<1>3. ManagesHeld(w, p)' /\ ListsReviews(w, p)'
  BY <1>0 DEF FindingNothing, ManagesHeld, ListsReviews
<1>4. LooksUpClosing(w, p)' /\ OrdersClosing(w, p)'
  BY <1>0, OrdersLast DEF FindingNothing, LooksUpClosing, OrdersClosing, Current
<1>5. QED
  BY <1>2, <1>3, <1>4

LEMMA OutsideStands ==
    ASSUME TypeOK, BooksAgree, [Next]_vars, NEW w \in Workers, CycleStands(w),
           UNCHANGED <<row, cursor, cycleVars>>
    PROVE  CycleStands(w)'
<1>1. ListingStands(w)' /\ ReadingStands(w)'
  BY OutsideListing, OutsideReading DEF CycleStands
<1>2. local[w].reasons = {} => FindingNothing(w)'
  BY OutsideFinding DEF CycleStands
<1>3. QED
  BY <1>1, <1>2 DEF CycleStands, cycleVars

-----------------------------------------------------------------------------
(* The steps of the one cycle that runs: what most of them leave alone.    *)
LEMMA MovedRow ==
    ASSUME TypeOK, NEW p \in Positions, NEW to \in LifecycleStates, NEW id, NEW close, NEW listed,
           Accepts(p, listed, to, id), Record(p, to, id, close)
    PROVE  /\ row'[p].state = to /\ row'[p].version = row[p].version + 1
           /\ row[p].version = listed.version
           /\ row[p].state \in LifecycleStates /\ to \in AllowedTransitions[row[p].state]
           /\ \A q \in Positions \ {p} : row'[q] = row[q]
           /\ UNCHANGED cursor
BY DEF Accepts, Record, TypeOK, StoreTypeOK

LEMMA KeepsListing ==
    ASSUME TypeOK, NEW w \in Workers, ListingStands(w), seen'[w] = seen[w],
           pc[w] \notin {"idle", "positions", "promote"},
           pc'[w] \notin {"idle", "positions", "promote", "find"},
           pc'[w] \in {"cursor", "activities"} => pc[w] \in {"find", "cursor", "activities"},
           \A p \in Positions :
               \/ row'[p] = row[p]
               \/ /\ row'[p].version = row[p].version + 1
                  /\ pc'[w] \in {"cursor", "activities"} => row'[p].state \notin Active
    PROVE  ListingStands(w)'
<1>1. ASSUME NEW p \in Positions
      PROVE  row'[p] = seen'[w][p] \/ row'[p].version > seen'[w][p].version
  <2>1. row[p].version \in Nat /\ seen[w][p].version \in Nat
    BY DEF TypeOK, StoreTypeOK, Rows
  <2>2. row[p] = seen[w][p] \/ row[p].version > seen[w][p].version
    BY DEF ListingStands
  <2>3. QED
    BY <2>1, <2>2
<1>2. ASSUME pc'[w] \in {"cursor", "activities"}, NEW p \in Positions, row'[p].state \in Active
      PROVE  row'[p] = seen'[w][p]
  BY <1>2 DEF ListingStands
<1>3. QED
  BY <1>1, <1>2 DEF ListingStands

LEMMA KeepsExplaining ==
    ASSUME TypeOK, [Next]_vars, NEW w \in Workers, NEW p \in Positions, ExplainsGone(w, p),
           pc[w] \notin {"idle", "positions"}, broker'[w] = broker[w], local'[w].type = local[w].type,
           pc'[w] \in Late => pc[w] \in Late,
           row'[p].state # "absent" /\ Flat(broker[w][p]) => row[p].state # "absent"
    PROVE  ExplainsGone(w, p)'
BY SameExplanation DEF ExplainsGone

LEMMA KeepsHeld ==
    ASSUME TypeOK, [Next]_vars, NEW w \in Workers, NEW p \in Positions, ManagesHeld(w, p),
           pc[w] \in {"cursor", "activities"} \cup Late, broker'[w] = broker[w]
    PROVE  ManagesHeld(w, p)'
BY ActiveBefore DEF ManagesHeld

LEMMA KeepsReviews ==
    ASSUME NEW w \in Workers, NEW p \in Positions, ListsReviews(w, p), seen'[w] = seen[w], pc[w] # "idle",
           \/ local'[w].moved
           \/ local'[w].moved = local[w].moved /\ (row'[p].state \in Review => row[p].state \in Review)
    PROVE  ListsReviews(w, p)'
BY DEF ListsReviews

LEMMA GoneWasReviewed ==
    ASSUME InTime, NEW w \in Workers, pc[w] \in Late, NEW p \in Positions, GoneIsExplained(w, p),
           order[p] # "FILLED"
    PROVE  row[p].state \notin Active
<1>1. PICK n \in DOMAIN events : events[n].pos = p /\ TakesLegs(n) /\ (HasRead(w, n) => Passed(n))
  BY DEF GoneIsExplained
<1>2. Passed(n)
  BY <1>1 DEF HasRead
<1>3. events[n] \in BrokerEvents
  BY DEF InTime, PositionInv, TypeOK
<1>4. AppliedUpTo(events[n].type, cursor[events[n].type])
  BY <1>3 DEF BrokerEvents, InTime, CursorsStand
<1>5. QED
  BY <1>1, <1>2, <1>4 DEF AppliedUpTo, Passed

LEMMA StepIsNext == ASSUME NEW w \in Workers, Step(w) \/ Failure(w) PROVE Next
BY DEF Next

LEMMA InTimeType == ASSUME InTime PROVE TypeOK /\ BooksAgree
BY DEF InTime, PositionInv

LEMMA CompleteIsPresent ==
    ASSUME NEW l, Complete(l)
    PROVE  ~Flat(l) /\ BothPresent(l)
BY PositionStoreAssumption DEF Complete, Flat, BothPresent

-----------------------------------------------------------------------------
(* Listing, reading the broker's legs, promoting.                          *)
LEMMA ListStands ==
    ASSUME InTime, NEW w \in Workers, CycleStands(w), ListPositions(w)
    PROVE  CycleStands(w)'
<1>1. local[w] = NoLocal
  BY DEF CycleStands, ListingStands, ListPositions
<1>2. pc'[w] = "positions" /\ seen'[w] = row /\ UNCHANGED <<row, local>>
  BY DEF ListPositions, GoTo, InTime, PositionInv, TypeOK, storeVars
<1>3. ListingStands(w)' /\ ReadingStands(w)'
  BY <1>1, <1>2 DEF ListingStands, ReadingStands, NoLocal
<1>4. FindingNothing(w)'
  BY <1>2 DEF FindingNothing, ExplainsGone, ManagesHeld, ListsReviews, LooksUpClosing, OrdersClosing, Late
<1>5. QED
  BY <1>3, <1>4 DEF CycleStands

LEMMA ReadBrokerStands ==
    ASSUME InTime, NEW w \in Workers, CycleStands(w), ReadBroker(w)
    PROVE  CycleStands(w)'
<1>0. TypeOK /\ BooksAgree
  BY InTimeType
<1>1. /\ pc[w] = "positions" /\ pc'[w] = "promote" /\ broker'[w] = legs
      /\ UNCHANGED <<opening, row, cursor, order, events, seen, local>>
  BY <1>0 DEF ReadBroker, GoTo, TypeOK, storeVars, brokerVars
<1>2. ListingStands(w)'
  BY <1>1 DEF CycleStands, ListingStands
<1>3. ReadingStands(w)'
  BY <1>0, <1>1 DEF ReadingStands, BooksAgree, TakesLegs, Passed
<1>4. ASSUME local[w].reasons = {}, NEW p \in Positions
      PROVE  /\ ExplainsGone(w, p)' /\ ManagesHeld(w, p)' /\ ListsReviews(w, p)'
             /\ LooksUpClosing(w, p)' /\ OrdersClosing(w, p)'
  <2>1. ASSUME row[p].state # "absent", Flat(legs[p]) PROVE GoneIsExplained(w, p)'
    <3>1. opening[p] # "unfilled"
      BY <2>1 DEF InTime, PositionInv, StoreInv, WasBought
    <3>2. CASE order[p] = "FILLED"
      BY <1>1, <3>2 DEF GoneIsExplained
    <3>3. ASSUME NEW n \in DOMAIN events, events[n].pos = p, TakesLegs(n) PROVE GoneIsExplained(w, p)'
      <4>1. local[w].type = 1
        BY <1>1 DEF CycleStands, ListingStands
      <4>2. events[n].type \in Nat \ {0}
        <5>1. events[n] \in BrokerEvents /\ DOMAIN ActivityTypes \subseteq Nat \ {0}
          BY <1>0, PositionStoreAssumption DEF TypeOK
        <5>2. QED
          BY <5>1 DEF BrokerEvents
      <4>3. ~HasRead(w, n)'
        BY <1>1, <4>1, <4>2 DEF HasRead, Late
      <4>4. n \in DOMAIN events' /\ events'[n].pos = p /\ TakesLegs(n)'
        BY <1>1, <3>3 DEF TakesLegs
      <4>5. QED
        BY <4>3, <4>4 DEF GoneIsExplained
    <3>4. QED
      BY <1>0, <2>1, <3>1, <3>2, <3>3 DEF BooksAgree
  <2>2. ExplainsGone(w, p)'
    BY <1>1, <2>1 DEF ExplainsGone
  <2>3. ListsReviews(w, p)'
    BY <1>1, <1>4 DEF ListsReviews, CycleStands, FindingNothing
  <2>4. QED
    BY <1>1, <2>2, <2>3 DEF ManagesHeld, LooksUpClosing, OrdersClosing, Late
<1>5. QED
  BY <1>1, <1>2, <1>3, <1>4 DEF CycleStands, FindingNothing

LEMMA PromoteStands ==
    ASSUME InTime, NEW w \in Workers, CycleStands(w), Promote(w)
    PROVE  CycleStands(w)'
<1>0. TypeOK /\ [Next]_vars
  BY InTimeType, StepIsNext DEF Step
<1>1. /\ pc[w] = "promote" /\ pc'[w] = "find" /\ UNCHANGED <<order, events, broker, cursor>>
      /\ seen'[w] = [p \in Positions |-> IF Promotable(p, broker[w]) THEN NewRow ELSE seen[w][p]]
      /\ row' = [p \in Positions |-> IF Promotable(p, broker[w]) THEN NewRow ELSE row[p]]
  BY <1>0 DEF Promote, PromoteReconciledOpenings, GoTo, TypeOK, brokerVars
<1>2. seen[w] = row /\ local[w].type = 1
  BY <1>1 DEF CycleStands, ListingStands
<1>3. seen'[w] = row'
  BY <1>0, <1>1, <1>2 DEF TypeOK, StoreTypeOK
<1>4. /\ local'[w].type = local[w].type /\ local'[w].moved = local[w].moved
      /\ local'[w].reasons = {} => local[w].reasons = {}
  <2>1. local[w] \in Locals /\ local \in [Workers -> Locals]
    BY <1>0 DEF TypeOK
  <2>2. QED
    BY <2>1 DEF Promote, Keep, Because, Locals
<1>5. ListingStands(w)'
  BY <1>1, <1>2, <1>3, <1>4 DEF ListingStands
<1>6. ReadingStands(w)'
  BY <1>1 DEF ReadingStands
<1>7. ASSUME local[w].reasons = {}, NEW p \in Positions
      PROVE  /\ ExplainsGone(w, p)' /\ ManagesHeld(w, p)' /\ ListsReviews(w, p)'
             /\ LooksUpClosing(w, p)' /\ OrdersClosing(w, p)'
  <2>1. ExplainsGone(w, p)'
    <3>1. ExplainsGone(w, p)
      BY <1>7 DEF CycleStands, FindingNothing
    <3>2. row'[p].state # "absent" /\ Flat(broker[w][p]) => row[p].state # "absent"
      BY <1>0, PromotedIsComplete, CompleteIsPresent
    <3>3. QED
      BY <1>0, <1>1, <1>4, <3>1, <3>2, KeepsExplaining DEF Late
  <2>2. ListsReviews(w, p)'
    BY <1>3 DEF ListsReviews
  <2>3. QED
    BY <1>1, <2>1, <2>2 DEF ManagesHeld, LooksUpClosing, OrdersClosing, Late
<1>8. QED
  BY <1>4, <1>5, <1>6, <1>7 DEF CycleStands, FindingNothing

LEMMA FindStands ==
    ASSUME InTime, NEW w \in Workers, CycleStands(w), FindUnmanaged(w)
    PROVE  CycleStands(w)'
<1>0. TypeOK /\ [Next]_vars
  BY InTimeType, StepIsNext DEF Step
<1>1. pc[w] = "find" /\ pc'[w] = "cursor" /\ UNCHANGED <<row, order, events, broker, cursor, seen>>
  BY <1>0 DEF FindUnmanaged, GoTo, TypeOK, brokerVars, storeVars
<1>2. /\ local'[w].type = local[w].type /\ local'[w].moved = local[w].moved
      /\ local'[w].reasons = {} => local[w].reasons = {} /\ Unmanaged(broker[w]) = {}
  <2>1. local[w] \in Locals /\ local \in [Workers -> Locals]
    BY <1>0 DEF TypeOK
  <2>2. QED
    BY <2>1 DEF FindUnmanaged, Keep, Because, Locals
<1>3. ListingStands(w)'
  BY <1>0, <1>1, KeepsListing DEF CycleStands
<1>4. ReadingStands(w)'
  BY <1>1 DEF ReadingStands
<1>5. ASSUME local[w].reasons = {}, Unmanaged(broker[w]) = {}, NEW p \in Positions
      PROVE  /\ ExplainsGone(w, p)' /\ ManagesHeld(w, p)' /\ ListsReviews(w, p)'
             /\ LooksUpClosing(w, p)' /\ OrdersClosing(w, p)'
  <2>1. ExplainsGone(w, p) /\ ListsReviews(w, p)
    BY <1>5 DEF CycleStands, FindingNothing
  <2>2. ExplainsGone(w, p)'
    BY <1>0, <1>1, <1>2, <2>1, KeepsExplaining DEF Late
  <2>3. ListsReviews(w, p)'
    BY <1>1, <1>2, <2>1, KeepsReviews
  <2>4. ManagesHeld(w, p)'
    BY <1>1, <1>5 DEF ManagesHeld, Unmanaged, Active
  <2>5. QED
    BY <1>1, <2>2, <2>3, <2>4 DEF LooksUpClosing, OrdersClosing, Late
<1>6. QED
  BY <1>2, <1>3, <1>4, <1>5 DEF CycleStands, FindingNothing

-----------------------------------------------------------------------------
(* Reading and applying the activities.                                    *)
LEMMA BecauseReasons ==
    ASSUME TypeOK, NEW w \in Workers, NEW reason \in ReviewReasons
    PROVE  Because(w, reason) \in Locals /\ Because(w, reason).reasons # {}
<1>1. local[w] \in Locals
  BY DEF TypeOK
<1>2. QED
  BY <1>1, BecauseType DEF Because, Locals

LEMMA NextTypeMoves ==
    ASSUME TypeOK, NEW w \in Workers, NEW l \in Locals, NextType(w, l)
    PROVE  /\ local'[w].reasons = l.reasons /\ local'[w].moved = l.moved
           /\ \/ /\ l.type = Len(ActivityTypes) /\ local'[w].type = l.type
                 /\ pc'[w] = "orders" /\ local'[w].todo = PendingSeen(w)
              \/ l.type # Len(ActivityTypes) /\ local'[w].type = l.type + 1 /\ pc'[w] = "cursor"
<1>1. local \in [Workers -> Locals] /\ pc \in [Workers -> Points]
  BY DEF TypeOK
<1>2. CASE l.type = Len(ActivityTypes)
  <2>1. local'[w] = [l EXCEPT !.token = 0, !.todo = PendingSeen(w)] /\ pc'[w] = "orders"
    BY <1>1, <1>2 DEF NextType, Keep, GoTo
  <2>2. QED
    BY <1>2, <2>1 DEF Locals
<1>3. CASE l.type # Len(ActivityTypes)
  <2>1. local'[w] = [l EXCEPT !.token = 0, !.type = @ + 1] /\ pc'[w] = "cursor"
    BY <1>1, <1>3 DEF NextType, Keep, GoTo
  <2>2. QED
    BY <1>3, <2>1 DEF Locals
<1>4. QED
  BY <1>2, <1>3

LEMMA GivenUpStands ==   \* an activity could not be read or applied
    ASSUME TypeOK, NEW w \in Workers, CycleStands(w), pc[w] = "activities", UNCHANGED <<row, seen>>,
           NextType(w, Because(w, "reconciliation_failed"))
    PROVE  CycleStands(w)'
<1>1. local'[w].reasons # {} /\ pc'[w] \in {"orders", "cursor"}
  BY BecauseReasons, NextTypeMoves DEF ReviewReasons
<1>2. ListingStands(w)'
  BY <1>1, KeepsListing DEF CycleStands
<1>3. QED
  BY <1>1, <1>2 DEF CycleStands, ReadingStands

LEMMA ReadCursorStands ==
    ASSUME InTime, NEW w \in Workers, CycleStands(w), ReadCursor(w)
    PROVE  CycleStands(w)'
<1>0. TypeOK /\ [Next]_vars /\ local[w] \in Locals /\ local \in [Workers -> Locals]
  BY InTimeType, StepIsNext DEF Step, TypeOK
<1>1. /\ pc[w] = "cursor" /\ pc'[w] = "activities"
      /\ UNCHANGED <<row, order, events, broker, cursor, seen>>
  BY <1>0 DEF ReadCursor, GoTo, TypeOK, brokerVars, storeVars
<1>2. /\ local'[w].type = local[w].type /\ local'[w].moved = local[w].moved
      /\ local'[w].reasons = local[w].reasons /\ local'[w].token = cursor[local[w].type]
  BY <1>0 DEF ReadCursor, Keep, Locals
<1>3. ListingStands(w)'
  BY <1>0, <1>1, KeepsListing DEF CycleStands
<1>4. ReadingStands(w)'
  <2>1. AppliedUpTo(local[w].type, cursor[local[w].type])
    BY <1>0 DEF InTime, CursorsStand, Locals
  <2>2. QED
    BY <1>1, <1>2, <2>1 DEF ReadingStands, AppliedUpTo, TakesLegs
<1>5. ASSUME local[w].reasons = {}, NEW p \in Positions
      PROVE  /\ ExplainsGone(w, p)' /\ ManagesHeld(w, p)' /\ ListsReviews(w, p)'
             /\ LooksUpClosing(w, p)' /\ OrdersClosing(w, p)'
  <2>1. ExplainsGone(w, p) /\ ListsReviews(w, p) /\ ManagesHeld(w, p)
    BY <1>5 DEF CycleStands, FindingNothing
  <2>2. ExplainsGone(w, p)'
    BY <1>0, <1>1, <1>2, <2>1, KeepsExplaining DEF Late
  <2>3. ListsReviews(w, p)' /\ ManagesHeld(w, p)'
    BY <1>0, <1>1, <1>2, <2>1, KeepsReviews, KeepsHeld
  <2>4. QED
    BY <1>1, <2>2, <2>3 DEF LooksUpClosing, OrdersClosing, Late
<1>6. QED
  BY <1>2, <1>3, <1>4, <1>5 DEF CycleStands, FindingNothing

(* Nothing of the type lies between the token and the first unread.        *)
LEMMA FirstIsNext ==
    ASSUME TypeOK, Timely, NEW t, NEW token \in Nat, NEW n, Unread(t, token) # {}, n = First(Unread(t, token)),
           NEW m \in DOMAIN events, events[m].type = t, m <= n
    PROVE  m <= token \/ m = n
<1>1. Unread(t, token) \subseteq Nat /\ m \in Nat
  BY DEF Unread, TypeOK
<1>2. n \in Nat /\ \A k \in Unread(t, token) : n <= k
  BY <1>1, FirstIsElement
<1>3. m > token => m \in Unread(t, token)
  BY DEF Unread, Posted, Timely
<1>4. CASE m > token
  BY <1>1, <1>2, <1>3, <1>4
<1>5. CASE ~(m > token)
  BY <1>1, <1>5
<1>6. QED
  BY <1>4, <1>5

LEMMA ApplyReads ==   \* whatever becomes of the next activity, it is read with the token at n
    ASSUME InTime, NEW w \in Workers, CycleStands(w), ApplyActivity(w), NEW n \in Nat,
           n = First(Unread(local[w].type, local[w].token)),
           pc'[w] = "activities", local'[w].type = local[w].type, local'[w].token = n,
           \A p \in Positions : row'[p].state \in Active => row[p].state \in Active,
           row'[events[n].pos].state \in Active => ~Concerns(w, n)
    PROVE  ReadingStands(w)'
<1>0. TypeOK /\ Timely /\ local[w].token \in Nat
  BY InTimeType DEF InTime, TypeOK, Locals
<1>1. pc[w] = "activities" /\ Unread(local[w].type, local[w].token) # {} /\ UNCHANGED <<events, seen>>
  BY DEF ApplyActivity, brokerVars
<1>2. ASSUME NEW m \in DOMAIN events, events[m].type = local[w].type, m <= n, TakesLegs(m)
      PROVE  row'[events[m].pos].state \notin Active
  <2>1. events[m] \in BrokerEvents
    BY <1>0 DEF TypeOK
  <2>2. events[m].pos \in Positions
    BY <2>1 DEF BrokerEvents
  <2>3. CASE m <= local[w].token
    <3>1. row[events[m].pos].state \notin Active
      BY <1>1, <1>2, <2>3 DEF CycleStands, ReadingStands, AppliedUpTo
    <3>2. QED
      BY <2>2, <3>1
  <2>4. CASE m = n
    <3>1. SUFFICES ASSUME row'[events[m].pos].state \in Active PROVE FALSE
      OBVIOUS
    <3>2. ~Concerns(w, n) /\ row[events[m].pos].state \in Active
      BY <2>2, <2>4, <3>1
    <3>3. seen[w][events[m].pos].state \in Active
      BY <1>1, <2>2, <3>2 DEF CycleStands, ListingStands
    <3>4. QED
      BY <1>2, <2>4, <3>2, <3>3 DEF Concerns, TakesLegs
  <2>5. QED
    BY <1>0, <1>1, <1>2, <2>3, <2>4, FirstIsNext
<1>3. QED
  BY <1>1, <1>2 DEF ReadingStands, AppliedUpTo, TakesLegs

LEMMA ApplyStands ==
    ASSUME InTime, NEW w \in Workers, CycleStands(w), ApplyActivity(w)
    PROVE  CycleStands(w)'
<1>0. TypeOK /\ [Next]_vars /\ local[w] \in Locals /\ local \in [Workers -> Locals]
  BY InTimeType, StepIsNext DEF Step, TypeOK
<1> DEFINE n == First(Unread(local[w].type, local[w].token))
           p == events[n].pos
           to == Target(local[w].type)
           id == [kind |-> "activity", n |-> n]
<1>1. pc[w] = "activities" /\ UNCHANGED <<order, events, broker, seen>>
  BY DEF ApplyActivity, brokerVars
<1>2. n \in Nat /\ p \in Positions
  BY <1>0, FirstUnread DEF ApplyActivity, BrokerEvents
<1>3. /\ [local[w] EXCEPT !.token = n].token = n
      /\ [local[w] EXCEPT !.token = n].type = local[w].type
      /\ [local[w] EXCEPT !.token = n].reasons = local[w].reasons
      /\ [local[w] EXCEPT !.token = n].moved = local[w].moved
      /\ [[local[w] EXCEPT !.token = n] EXCEPT !.moved = TRUE].token = n
      /\ [[local[w] EXCEPT !.token = n] EXCEPT !.moved = TRUE].type = local[w].type
      /\ [[local[w] EXCEPT !.token = n] EXCEPT !.moved = TRUE].reasons = local[w].reasons
      /\ [[local[w] EXCEPT !.token = n] EXCEPT !.moved = TRUE].moved = TRUE
  BY <1>0 DEF Locals
<1>4. ASSUME pc'[w] = "activities", local'[w].reasons = local[w].reasons, local'[w].type = local[w].type,
             \A q \in Positions : row'[q].state = "absent" => row[q].state = "absent",
             \A q \in Positions : row'[q].state # "absent" => row[q].state # "absent",
             \/ local'[w].moved
             \/ UNCHANGED row /\ local'[w].moved = local[w].moved,
             ListingStands(w)', ReadingStands(w)'
      PROVE  CycleStands(w)'
  <2>1. ASSUME local[w].reasons = {}, NEW q \in Positions
        PROVE  /\ ExplainsGone(w, q)' /\ ManagesHeld(w, q)' /\ ListsReviews(w, q)'
               /\ LooksUpClosing(w, q)' /\ OrdersClosing(w, q)'
    <3>1. ExplainsGone(w, q) /\ ListsReviews(w, q) /\ ManagesHeld(w, q)
      BY <2>1 DEF CycleStands, FindingNothing
    <3>2. ExplainsGone(w, q)'
      BY <1>0, <1>1, <1>4, <3>1, KeepsExplaining DEF Late
    <3>3. ListsReviews(w, q)' /\ ManagesHeld(w, q)'
      BY <1>0, <1>1, <1>4, <3>1, KeepsReviews, KeepsHeld
    <3>4. QED
      BY <1>4, <3>2, <3>3 DEF LooksUpClosing, OrdersClosing, Late
  <2>2. QED
    BY <1>4, <2>1 DEF CycleStands, FindingNothing
<1> HIDE DEF n, p, to, id
<1>5. CASE ~Concerns(w, n) /\ Keep(w, [local[w] EXCEPT !.token = n]) /\ UNCHANGED <<storeVars, pc>>
  <2>1. local'[w] = [local[w] EXCEPT !.token = n] /\ pc'[w] = "activities" /\ UNCHANGED row
    BY <1>0, <1>1, <1>5 DEF Keep, storeVars
  <2>2. ListingStands(w)'
    BY <1>0, <1>1, <2>1, KeepsListing DEF CycleStands
  <2>3. ReadingStands(w)'
    BY <1>2, <1>3, <1>5, <2>1, ApplyReads DEF n
  <2>4. QED
    BY <1>3, <1>4, <2>1, <2>2, <2>3
<1>6. CASE /\ Concerns(w, n) /\ Accepts(p, seen[w][p], to, id)
           /\ TransitionPosition(p, to, id)
           /\ Keep(w, [[local[w] EXCEPT !.token = n] EXCEPT !.moved = TRUE])
           /\ UNCHANGED pc
  <2>1. /\ local'[w] = [[local[w] EXCEPT !.token = n] EXCEPT !.moved = TRUE]
        /\ pc'[w] = "activities"
    BY <1>0, <1>1, <1>6 DEF Keep
  <2>2. to \in Review
    BY <1>6 DEF Concerns, Target, MapBrokerActivityState, Review, to
  <2>3. to \in LifecycleStates /\ to \notin Active
    BY <2>2 DEF LifecycleStates, TerminalOrReview, Review, Active
  <2>4. /\ row'[p].state = to /\ row'[p].version = row[p].version + 1
        /\ row[p].state \in LifecycleStates /\ \A q \in Positions \ {p} : row'[q] = row[q]
    BY <1>0, <1>2, <1>6, <2>3, MovedRow DEF TransitionPosition
  <2>5. "absent" \notin LifecycleStates
    BY DEF LifecycleStates, Active, TerminalOrReview, Review
  <2>6. ListingStands(w)'
    BY <1>0, <1>1, <2>1, <2>3, <2>4, KeepsListing DEF CycleStands
  <2>7. ReadingStands(w)'
    BY <1>2, <1>3, <2>1, <2>3, <2>4, ApplyReads DEF n, p
  <2>8. QED
    BY <1>2, <1>3, <1>4, <2>1, <2>3, <2>4, <2>5, <2>6, <2>7
<1>7. CASE NextType(w, Because(w, "reconciliation_failed")) /\ UNCHANGED storeVars
  BY <1>0, <1>1, <1>7, GivenUpStands DEF storeVars
<1>8. QED
  BY <1>5, <1>6, <1>7 DEF ApplyActivity, n, p, to, id

LEMMA ActivitiesFailStands ==
    ASSUME InTime, NEW w \in Workers, CycleStands(w), ActivitiesFail(w)
    PROVE  CycleStands(w)'
BY InTimeType, GivenUpStands DEF ActivitiesFail, storeVars

LEMMA AdvanceStands ==
    ASSUME InTime, NEW w \in Workers, CycleStands(w), AdvanceCursor(w)
    PROVE  CycleStands(w)'
<1>0. TypeOK /\ [Next]_vars /\ local[w] \in Locals /\ local \in [Workers -> Locals]
  BY InTimeType, StepIsNext DEF Step, TypeOK
<1>1. /\ pc[w] = "activities" /\ Unread(local[w].type, local[w].token) = {}
      /\ AdvanceActivityCursor(local[w].type, local[w].token)
      /\ NextType(w, local[w])
      /\ UNCHANGED <<row, order, events, broker, seen>>
  BY DEF AdvanceCursor, AdvanceActivityCursor, brokerVars
<1>2. /\ local'[w].reasons = local[w].reasons /\ local'[w].moved = local[w].moved
      /\ \/ /\ local[w].type = Len(ActivityTypes) /\ local'[w].type = local[w].type
            /\ pc'[w] = "orders" /\ local'[w].todo = PendingSeen(w)
         \/ /\ local[w].type # Len(ActivityTypes) /\ local'[w].type = local[w].type + 1
            /\ pc'[w] = "cursor"
  BY <1>0, <1>1, NextTypeMoves
<1>3. ListingStands(w)'
  BY <1>0, <1>1, <1>2, KeepsListing DEF CycleStands
<1>4. ReadingStands(w)'
  BY <1>2 DEF ReadingStands
<1>5. ASSUME NEW n \in DOMAIN events, HasRead(w, n)', HasRead(w, n) => Passed(n)
      PROVE  n <= cursor'[events[n].type]
  <2>1. events[n] \in BrokerEvents /\ n \in Nat /\ cursor \in [DOMAIN ActivityTypes -> Nat]
    BY <1>0 DEF TypeOK, StoreTypeOK
  <2>2. /\ events[n].type \in 1..Len(ActivityTypes)
        /\ local[w].type \in 1..Len(ActivityTypes) /\ local[w].token \in Nat
        /\ Len(ActivityTypes) \in Nat
    BY <1>0, <2>1, PositionStoreAssumption DEF BrokerEvents, Locals
  <2>3. CASE events[n].type < local[w].type
    BY <1>0, <1>5, <2>3, CursorsGrow DEF HasRead
  <2>4. CASE events[n].type = local[w].type
    <3>1. ~(n > local[w].token)
      BY <1>1, <2>4 DEF Unread, InTime, Timely, Posted
    <3>2. cursor'[local[w].type] = IF local[w].token <= cursor[local[w].type]
                                   THEN cursor[local[w].type] ELSE local[w].token
      BY <1>1, <2>1, <2>2 DEF AdvanceActivityCursor
    <3>3. cursor[local[w].type] \in Nat
      BY <2>1, <2>2
    <3>4. QED
      BY <2>1, <2>2, <2>4, <3>1, <3>2, <3>3
  <2>5. CASE events[n].type > local[w].type
    <3>1. pc'[w] = "cursor" /\ local'[w].type = local[w].type + 1
      BY <1>2, <2>2, <2>5
    <3>2. events[n].type < local[w].type + 1
      BY <1>1, <1>5, <3>1 DEF HasRead, Late
    <3>3. QED
      BY <2>2, <2>5, <3>2
  <2>6. QED
    BY <2>2, <2>3, <2>4, <2>5
<1>6. ASSUME local[w].reasons = {}, NEW p \in Positions
      PROVE  /\ ExplainsGone(w, p)' /\ ManagesHeld(w, p)' /\ ListsReviews(w, p)'
             /\ LooksUpClosing(w, p)' /\ OrdersClosing(w, p)'
  <2>1. ExplainsGone(w, p) /\ ListsReviews(w, p) /\ ManagesHeld(w, p)
    BY <1>6 DEF CycleStands, FindingNothing
  <2>2. ExplainsGone(w, p)'
    BY <1>0, <1>1, <1>5, <2>1, GoneStaysExplained DEF ExplainsGone
  <2>3. ListsReviews(w, p)' /\ ManagesHeld(w, p)'
    BY <1>0, <1>1, <1>2, <2>1, KeepsReviews, KeepsHeld
  <2>4. LooksUpClosing(w, p)'
    <3>1. SUFFICES ASSUME pc'[w] = "orders", row[p].state = "CLOSE_PENDING" PROVE p \in local'[w].todo
      BY <1>1 DEF LooksUpClosing
    <3>2. seen[w][p] = row[p]
      BY <1>1, <3>1 DEF CycleStands, ListingStands, Active
    <3>3. row[p].close
      <4>1. Validates(p)
        BY DEF InTime, RowsValidate
      <4>2. ledger[p] # <<>> /\ ledger[p][Len(ledger[p])].to = "CLOSE_PENDING"
        BY <3>1, <4>1 DEF Validates
      <4>3. Len(ledger[p]) \in DOMAIN ledger[p]
        BY <1>0, <4>2 DEF TypeOK, StoreTypeOK
      <4>4. QED
        BY <4>1, <4>2, <4>3 DEF Validates
    <3>4. QED
      BY <1>2, <3>1, <3>2, <3>3 DEF PendingSeen
  <2>5. QED
    BY <1>2, <2>2, <2>3, <2>4 DEF OrdersClosing, Late
<1>7. QED
  BY <1>2, <1>3, <1>4, <1>6 DEF CycleStands, FindingNothing

-----------------------------------------------------------------------------
(* The loops over the close orders, the filled closes and the exits.       *)
LEMMA LateListing ==
    ASSUME TypeOK, NEW w \in Workers, CycleStands(w), pc[w] \in Late, pc'[w] \in Late, seen'[w] = seen[w],
           \A p \in Positions : row'[p] = row[p] \/ row'[p].version = row[p].version + 1
    PROVE  ListingStands(w)' /\ ReadingStands(w)'
<1>1. ListingStands(w)'
  BY KeepsListing DEF CycleStands, Late
<1>2. QED
  BY <1>1 DEF ReadingStands, Late

LEMMA LateFinding ==
    ASSUME InTime, [Next]_vars, NEW w \in Workers, NEW p \in Positions, FindingNothing(w),
           pc[w] \in Late, pc'[w] \in Late, seen'[w] = seen[w], broker'[w] = broker[w],
           local'[w].type = local[w].type, local'[w].moved = local[w].moved,
           row'[p].state # row[p].state => row[p].state \in LifecycleStates /\ row'[p].state \notin Review
    PROVE  ExplainsGone(w, p)' /\ ManagesHeld(w, p)' /\ ListsReviews(w, p)'
<1>1. ExplainsGone(w, p) /\ ManagesHeld(w, p) /\ ListsReviews(w, p) /\ TypeOK
  BY InTimeType DEF FindingNothing
<1>2. row'[p].state # "absent" => row[p].state # "absent"
  BY DEF LifecycleStates, Active, TerminalOrReview, Review
<1>3. ExplainsGone(w, p)'
  BY <1>1, <1>2, KeepsExplaining DEF Late
<1>4. ManagesHeld(w, p)' /\ ListsReviews(w, p)'
  BY <1>1, KeepsHeld, KeepsReviews DEF Late
<1>5. QED
  BY <1>3, <1>4

LEMMA LocalsMove ==
    ASSUME TypeOK, NEW w \in Workers, NEW l \in Locals, Keep(w, Drop(w, l))
    PROVE  /\ local'[w].todo = l.todo \ {Current(w)} /\ local'[w].reasons = l.reasons
           /\ local'[w].type = l.type /\ local'[w].moved = l.moved
<1>1. local'[w] = Drop(w, l)
  BY DEF Keep, TypeOK
<1>2. QED
  BY <1>1 DEF Drop, Locals

(* While a position is in CLOSE_PENDING and its close order has not        *)
(* filled, a cycle that has found nothing sees its legs at the broker.     *)
LEMMA ClosingIsThere ==
    ASSUME InTime, NEW w \in Workers, FindingNothing(w), pc[w] \in Late, NEW p \in Positions,
           row[p].state \in Active, order[p] # "FILLED"
    PROVE  ~Flat(broker[w][p])
<1>1. row[p].state # "absent"
  BY DEF Active
<1>2. Flat(broker[w][p]) => GoneIsExplained(w, p)
  BY <1>1 DEF FindingNothing, ExplainsGone, Late
<1>3. QED
  BY <1>2, GoneWasReviewed

LEMMA OrderStates ==
    ASSUME NEW status, NEW present
    PROVE  /\ status = "FILLED" => MapCloseOrderState(status, present) = "CLOSE_FILLED"
           /\ status \in {"NEW", "PARTIALLY_FILLED", "absent"} =>
                  MapCloseOrderState(status, present) = "CLOSE_PENDING"
           /\ status \in {"REJECTED", "CANCELED"} =>
                  MapCloseOrderState(status, present) = IF present THEN "OPEN" ELSE "RECONCILIATION_FAILED"
BY DEF MapCloseOrderState

(* No close order takes a position to review that the cycle did not find.  *)
LEMMA OrderMoveIsFill ==
    ASSUME InTime, NEW w \in Workers, FindingNothing(w), pc[w] = "orders", NEW p \in Positions,
           NEW to, to = MapCloseOrderState(order[p], BothPresent(broker[w][p])), to # "CLOSE_PENDING",
           row[p].state \in LifecycleStates, to \in AllowedTransitions[row[p].state]
    PROVE  to = "CLOSE_FILLED"
<1>0. order[p] \in OrderStatuses /\ pc[w] \in Late
  BY InTimeType DEF TypeOK, Late
<1>1. CASE order[p] \notin {"REJECTED", "CANCELED"}
  BY <1>0, <1>1, OrderStates DEF OrderStatuses
<1>2. CASE order[p] \in {"REJECTED", "CANCELED"}
  <2>1. to # "OPEN"
    BY NextState
  <2>2. ~BothPresent(broker[w][p])
    BY <1>2, <2>1, OrderStates
  <2>3. row[p].state \in Active
    <3>1. row[p].state \in {"OPEN", "CLOSE_PENDING", "CLOSE_FILLED"}
      BY NextState
    <3>2. row[p].state # "CLOSE_FILLED"
      BY <1>2 DEF InTime, PositionInv, StoreInv, FillIsOrdered
    <3>3. QED
      BY <3>1, <3>2 DEF Active
  <2>4. ~Flat(broker[w][p])
    BY <1>0, <1>2, <2>3, ClosingIsThere
  <2>5. Complete(broker[w][p])
    BY <1>0, <2>4 DEF FindingNothing, ManagesHeld
  <2>6. QED
    BY <2>2, <2>5, CompleteIsPresent
<1>3. QED
  BY <1>1, <1>2

LEMMA LookupStands ==
    ASSUME InTime, NEW w \in Workers, CycleStands(w), LookupCloseOrder(w)
    PROVE  CycleStands(w)'
<1>0. TypeOK /\ [Next]_vars /\ local[w] \in Locals /\ local \in [Workers -> Locals]
  BY InTimeType, StepIsNext DEF Step, TypeOK
<1> DEFINE p == Current(w)
           to == MapCloseOrderState(order[p], BothPresent(broker[w][p]))
           id == OrderEvent(order[p])
<1>1. pc[w] = "orders" /\ UNCHANGED <<order, events, legs>> /\ p \in Positions /\ order[p] \in OrderStatuses
  BY <1>0, CurrentType DEF LookupCloseOrder, brokerVars, TypeOK
<1> HIDE DEF p, to, id
<1>2. CASE order[p] = "absent" /\ Keep(w, Drop(w, Because(w, "close_order_not_found")))
           /\ UNCHANGED <<storeVars, pc, seen, broker, mayEnter>>
  <2>1. local'[w].reasons # {} /\ pc'[w] = "orders" /\ UNCHANGED <<row, seen>>
    BY <1>0, <1>1, <1>2, BecauseReasons, LocalsMove DEF ReviewReasons, storeVars
  <2>2. QED
    BY <1>0, <1>1, <2>1, LateListing DEF Late, CycleStands
<1>3. ASSUME Keep(w, Drop(w, local[w])), UNCHANGED <<pc, seen, broker>>,
             \A q \in Positions \ {p} : row'[q] = row[q],
             row'[p] = row[p] \/ row'[p].version = row[p].version + 1,
             FindingNothing(w) =>
                 /\ row'[p].state # row[p].state =>
                        row[p].state \in LifecycleStates /\ row'[p].state \notin Review
                 /\ row'[p].state = "CLOSE_PENDING" => order[p] # "absent" /\ ~Flat(broker[w][p])
      PROVE  CycleStands(w)'
  <2>1. /\ local'[w].todo = local[w].todo \ {p} /\ local'[w].reasons = local[w].reasons
        /\ local'[w].type = local[w].type /\ local'[w].moved = local[w].moved
    BY <1>0, <1>3, LocalsMove DEF p
  <2>2. ListingStands(w)' /\ ReadingStands(w)'
    BY <1>0, <1>1, <1>3, LateListing DEF Late
  <2>3. ASSUME FindingNothing(w), NEW q \in Positions
        PROVE  /\ ExplainsGone(w, q)' /\ ManagesHeld(w, q)' /\ ListsReviews(w, q)'
               /\ LooksUpClosing(w, q)' /\ OrdersClosing(w, q)'
    <3>1. ExplainsGone(w, q)' /\ ManagesHeld(w, q)' /\ ListsReviews(w, q)'
      BY <1>0, <1>1, <1>3, <2>1, <2>3, LateFinding DEF Late
    <3>2. LooksUpClosing(w, q)'
      BY <1>1, <1>3, <2>1, <2>3 DEF FindingNothing, LooksUpClosing
    <3>3. OrdersClosing(w, q)'
      BY <1>1, <1>3 DEF OrdersClosing
    <3>4. QED
      BY <3>1, <3>2, <3>3
  <2>4. QED
    BY <2>1, <2>2, <2>3 DEF CycleStands, FindingNothing
<1>4. CASE order[p] # "absent" /\ to = "CLOSE_PENDING" /\ Keep(w, Drop(w, local[w]))
           /\ UNCHANGED <<storeVars, pc, seen, broker, mayEnter>>
  <2>1. order[p] # "FILLED"
    BY <1>4, OrderStates DEF to
  <2>2. FindingNothing(w) /\ row[p].state = "CLOSE_PENDING" => ~Flat(broker[w][p])
    BY <1>1, <2>1, ClosingIsThere DEF Late, Active
  <2>3. QED
    BY <1>3, <1>4, <2>2 DEF storeVars
<1>5. CASE /\ order[p] # "absent" /\ to # "CLOSE_PENDING"
           /\ Accepts(p, seen[w][p], to, id) /\ TransitionPosition(p, to, id)
           /\ Keep(w, Drop(w, local[w]))
           /\ UNCHANGED <<pc, seen, broker, mayEnter>>
  <2>1. to \in LifecycleStates
    BY <1>1, OrderTargetType DEF to, BothPresent
  <2>2. /\ row'[p].state = to /\ row'[p].version = row[p].version + 1
        /\ row[p].state \in LifecycleStates /\ to \in AllowedTransitions[row[p].state]
        /\ \A q \in Positions \ {p} : row'[q] = row[q]
    BY <1>0, <1>1, <1>5, <2>1, MovedRow DEF TransitionPosition
  <2>3. FindingNothing(w) => to = "CLOSE_FILLED"
    BY <1>1, <1>5, <2>2, OrderMoveIsFill DEF to
  <2>4. QED
    BY <1>3, <1>5, <2>2, <2>3 DEF Review
<1>6. CASE Raise(w)
  BY <1>0, <1>6, EndStands DEF Raise
<1>7. QED
  BY <1>2, <1>4, <1>5, <1>6 DEF LookupCloseOrder, p, to, id

LEMMA LookupFailsStands ==
    ASSUME InTime, NEW w \in Workers, CycleStands(w), LookupFails(w)
    PROVE  CycleStands(w)'
<1>1. TypeOK
  BY InTimeType
<1>2. local'[w].reasons # {} /\ pc[w] = "orders" /\ UNCHANGED <<pc, row, seen>>
  BY <1>1, BecauseReasons, LocalsMove DEF LookupFails, ReviewReasons, storeVars
<1>3. QED
  BY <1>1, <1>2, LateListing DEF Late, CycleStands

LEMMA LoopMovesOn ==
    ASSUME TypeOK, NEW w \in Workers, NEW point, NEW positions, Loop(w, point, positions)
    PROVE  /\ pc'[w] = point /\ local'[w].todo = positions
           /\ local'[w].reasons = local[w].reasons
           /\ local'[w].type = local[w].type /\ local'[w].moved = local[w].moved
<1>1. local[w] \in Locals /\ local'[w] = [local[w] EXCEPT !.todo = positions] /\ pc'[w] = point
  BY DEF Loop, Keep, GoTo, TypeOK
<1>2. QED
  BY <1>1 DEF Locals

LEMMA OrdersDoneStands ==
    ASSUME InTime, NEW w \in Workers, CycleStands(w), OrdersDone(w)
    PROVE  CycleStands(w)'
<1>0. TypeOK /\ [Next]_vars
  BY InTimeType, StepIsNext DEF Step
<1>1. /\ pc[w] = "orders" /\ pc'[w] = "closed" /\ local[w].todo = {}
      /\ local'[w].reasons = local[w].reasons
      /\ local'[w].type = local[w].type /\ local'[w].moved = local[w].moved
      /\ UNCHANGED <<row, order, seen, broker>>
  BY <1>0, LoopMovesOn DEF OrdersDone, storeVars, brokerVars
<1>2. ListingStands(w)' /\ ReadingStands(w)'
  BY <1>0, <1>1, LateListing DEF Late
<1>3. ASSUME FindingNothing(w), NEW p \in Positions
      PROVE  /\ ExplainsGone(w, p)' /\ ManagesHeld(w, p)' /\ ListsReviews(w, p)'
             /\ LooksUpClosing(w, p)' /\ OrdersClosing(w, p)'
  <2>1. ExplainsGone(w, p)' /\ ManagesHeld(w, p)' /\ ListsReviews(w, p)'
    BY <1>0, <1>1, <1>3, LateFinding DEF Late
  <2>2. LooksUpClosing(w, p)' /\ OrdersClosing(w, p)'
    BY <1>1, <1>3 DEF FindingNothing, LooksUpClosing, OrdersClosing
  <2>3. QED
    BY <2>1, <2>2
<1>4. QED
  BY <1>1, <1>2, <1>3 DEF CycleStands, FindingNothing

(* The last two loops: what is still in CLOSE_PENDING has an order.        *)
LEMMA ExitLoopsStand ==
    ASSUME InTime, [Next]_vars, NEW w \in Workers, CycleStands(w),
           pc[w] \in {"closed", "exits", "execute"}, pc'[w] \in {"closed", "exits", "execute"},
           UNCHANGED <<seen, broker>>,
           local'[w].reasons = local[w].reasons, local'[w].type = local[w].type,
           local'[w].moved = local[w].moved,
           \A p \in Positions :
               \/ row'[p] = row[p]
               \/ /\ row'[p].version = row[p].version + 1
                  /\ row[p].state \in LifecycleStates /\ row'[p].state \notin Review,
           FindingNothing(w) => \A p \in Positions : OrdersClosing(w, p)'
    PROVE  CycleStands(w)'
<1>1. ListingStands(w)' /\ ReadingStands(w)'
  BY InTimeType, LateListing DEF Late
<1>2. ASSUME FindingNothing(w), NEW p \in Positions
      PROVE  /\ ExplainsGone(w, p)' /\ ManagesHeld(w, p)' /\ ListsReviews(w, p)'
             /\ LooksUpClosing(w, p)' /\ OrdersClosing(w, p)'
  <2>1. row'[p].state # row[p].state => row[p].state \in LifecycleStates /\ row'[p].state \notin Review
    OBVIOUS
  <2>2. ExplainsGone(w, p)' /\ ManagesHeld(w, p)' /\ ListsReviews(w, p)'
    BY <1>2, <2>1, LateFinding DEF Late
  <2>3. LooksUpClosing(w, p)'
    BY DEF LooksUpClosing
  <2>4. QED
    BY <1>2, <2>2, <2>3
<1>3. QED
  BY <1>1, <1>2 DEF CycleStands, FindingNothing

LEMMA ReconcileStands ==
    ASSUME InTime, NEW w \in Workers, CycleStands(w), ReconcileClosed(w)
    PROVE  CycleStands(w)'
<1>0. TypeOK /\ [Next]_vars /\ local[w] \in Locals
  BY InTimeType, StepIsNext DEF Step, TypeOK
<1> DEFINE p == Current(w)
           id == Event("closed_reconciled")
<1>1. pc[w] = "closed" /\ UNCHANGED order /\ p \in Positions
  BY <1>0, CurrentType DEF ReconcileClosed, brokerVars
<1> HIDE DEF p, id
<1>2. CASE /\ Accepts(p, seen[w][p], "CLOSED_RECONCILED", id)
           /\ TransitionPosition(p, "CLOSED_RECONCILED", id)
           /\ Keep(w, Drop(w, local[w]))
           /\ UNCHANGED <<pc, seen, broker, mayEnter>>
  <2>1. "CLOSED_RECONCILED" \in LifecycleStates \ Review
    BY DEF LifecycleStates, TerminalOrReview, Review
  <2>2. /\ row'[p].state = "CLOSED_RECONCILED" /\ row'[p].version = row[p].version + 1
        /\ row[p].state \in LifecycleStates
        /\ \A q \in Positions \ {p} : row'[q] = row[q]
    BY <1>0, <1>1, <1>2, <2>1, MovedRow DEF TransitionPosition
  <2>3. /\ local'[w].reasons = local[w].reasons
        /\ local'[w].type = local[w].type /\ local'[w].moved = local[w].moved
    BY <1>0, <1>2, LocalsMove
  <2>4. ASSUME FindingNothing(w), NEW q \in Positions PROVE OrdersClosing(w, q)'
    BY <1>1, <1>2, <2>2, <2>4 DEF OrdersClosing, FindingNothing, Late
  <2>5. QED
    BY <1>0, <1>1, <1>2, <2>1, <2>2, <2>3, <2>4, ExitLoopsStand
<1>3. CASE Raise(w)
  BY <1>0, <1>3, EndStands DEF Raise
<1>4. QED
  BY <1>2, <1>3 DEF ReconcileClosed, p, id

LEMMA ClosedDoneStands ==
    ASSUME InTime, NEW w \in Workers, CycleStands(w), ClosedDone(w)
    PROVE  CycleStands(w)'
<1>0. TypeOK /\ [Next]_vars
  BY InTimeType, StepIsNext DEF Step
<1>1. PICK positions : Loop(w, "exits", positions)
  BY DEF ClosedDone
<1>2. /\ pc[w] = "closed" /\ pc'[w] = "exits" /\ local'[w].reasons = local[w].reasons
      /\ local'[w].type = local[w].type /\ local'[w].moved = local[w].moved
      /\ UNCHANGED <<row, order, seen, broker>>
  BY <1>0, <1>1, LoopMovesOn DEF ClosedDone, storeVars, brokerVars
<1>3. ASSUME FindingNothing(w), NEW p \in Positions PROVE OrdersClosing(w, p)'
  BY <1>2, <1>3 DEF OrdersClosing, FindingNothing, Late
<1>4. QED
  BY <1>0, <1>2, <1>3, ExitLoopsStand

LEMMA EvaluateStands ==
    ASSUME InTime, NEW w \in Workers, CycleStands(w), EvaluateExit(w)
    PROVE  CycleStands(w)'
<1>0. TypeOK /\ [Next]_vars /\ local[w] \in Locals /\ pc \in [Workers -> Points]
  BY InTimeType, StepIsNext DEF Step, TypeOK
<1> DEFINE p == Current(w)
<1>1. pc[w] = "exits" /\ UNCHANGED order /\ p \in Positions
  BY <1>0, CurrentType DEF EvaluateExit, brokerVars
<1> HIDE DEF p
<1>2. CASE Keep(w, Drop(w, local[w])) /\ UNCHANGED <<storeVars, pc, seen, broker, mayEnter>>
  <2>1. /\ local'[w].reasons = local[w].reasons
        /\ local'[w].type = local[w].type /\ local'[w].moved = local[w].moved
    BY <1>0, <1>2, LocalsMove
  <2>2. ASSUME FindingNothing(w), NEW q \in Positions PROVE OrdersClosing(w, q)'
    BY <1>1, <1>2, <2>2 DEF OrdersClosing, FindingNothing, storeVars
  <2>3. QED
    BY <1>0, <1>1, <1>2, <2>1, <2>2, ExitLoopsStand DEF storeVars
<1>3. CASE /\ AcceptsClose(p, seen[w][p]) /\ AttachCloseIntent(p) /\ GoTo(w, "execute")
           /\ UNCHANGED <<seen, broker, local, mayEnter>>
  <2>1. "CLOSE_PENDING" \in LifecycleStates \ Review /\ pc'[w] = "execute"
    BY <1>0, <1>3 DEF LifecycleStates, Active, Review, GoTo
  <2>2. /\ row'[p].state = "CLOSE_PENDING" /\ row'[p].version = row[p].version + 1
        /\ row[p].state \in LifecycleStates /\ "CLOSE_PENDING" \in AllowedTransitions[row[p].state]
        /\ \A q \in Positions \ {p} : row'[q] = row[q]
    BY <1>0, <1>1, <1>3, <2>1, MovedRow DEF AttachCloseIntent, AcceptsClose
  <2>3. row[p].state = "OPEN" /\ order[p] = "absent"
    <3>1. row[p].state = "OPEN"
      BY <2>2, NextState DEF Review
    <3>2. QED
      BY <1>1, <3>1 DEF InTime, PositionInv, StoreInv, OrderIsLater, Early
  <2>4. ASSUME FindingNothing(w), NEW q \in Positions PROVE OrdersClosing(w, q)'
    <3>1. CASE q = p
      <4>1. ~Flat(broker[w][p])
        BY <1>1, <2>3, <2>4, ClosingIsThere DEF Late, Active
      <4>2. Current(w)' = Current(w)
        BY <1>3 DEF Current
      <4>3. QED
        BY <1>3, <2>1, <3>1, <4>1, <4>2 DEF OrdersClosing, p
    <3>2. CASE q # p
      BY <1>1, <1>3, <2>2, <2>4, <3>2 DEF OrdersClosing, FindingNothing, Late
    <3>3. QED
      BY <3>1, <3>2
  <2>5. QED
    BY <1>0, <1>1, <1>3, <2>1, <2>2, <2>4, ExitLoopsStand
<1>4. CASE Raise(w)
  BY <1>0, <1>4, EndStands DEF Raise
<1>5. QED
  BY <1>2, <1>3, <1>4 DEF EvaluateExit, p

LEMMA ExecuteStands ==
    ASSUME InTime, NEW w \in Workers, CycleStands(w), ExecuteClose(w)
    PROVE  CycleStands(w)'
<1>0. /\ TypeOK /\ [Next]_vars /\ local[w] \in Locals /\ pc \in [Workers -> Points]
      /\ order \in [Positions -> OrderStatuses]
  BY InTimeType, StepIsNext DEF Step, TypeOK
<1>1. pc[w] = "execute" /\ pc'[w] = "exits" /\ UNCHANGED <<row, seen, broker>>
  BY <1>0 DEF ExecuteClose, GoTo, storeVars
<1>2. /\ local'[w].reasons = local[w].reasons
      /\ local'[w].type = local[w].type /\ local'[w].moved = local[w].moved
  BY <1>0, LocalsMove DEF ExecuteClose
<1>3. ASSUME FindingNothing(w), NEW p \in Positions PROVE OrdersClosing(w, p)'
  <2>1. p = Current(w) => order'[p] # "absent"
    BY <1>0 DEF ExecuteClose
  <2>2. order[p] # "absent" => order'[p] # "absent"
    BY <1>0, OrdersLast
  <2>3. QED
    BY <1>1, <1>3, <2>1, <2>2 DEF OrdersClosing, FindingNothing, Late
<1>4. QED
  BY <1>0, <1>1, <1>2, <1>3, ExitLoopsStand

-----------------------------------------------------------------------------
(* The invariant, and what follows from it.                                *)
LEMMA RunningStands ==
    ASSUME InTime, NEW w \in Workers, CycleStands(w), Step(w) \/ Failure(w)
    PROVE  CycleStands(w)'
<1>1. CASE \E clear \in BOOLEAN : End(w, clear)
  BY <1>1, InTimeType, EndStands
<1>2. CASE ReadBrokerFails(w) \/ PromotionConflicts(w) \/ ExecuteFails(w) \/ Crash(w) \/ Finish(w)
  <2>1. BlockNewEntries(w) \in BOOLEAN
    BY DEF BlockNewEntries
  <2>2. QED
    BY <1>1, <1>2, <2>1 DEF ReadBrokerFails, PromotionConflicts, ExecuteFails, Crash, Finish, Raise
<1>3. QED
  BY <1>2, ListStands, ReadBrokerStands, PromoteStands, FindStands, ReadCursorStands, ApplyStands,
     ActivitiesFailStands, AdvanceStands, LookupStands, LookupFailsStands, OrdersDoneStands,
     ReconcileStands, ClosedDoneStands, EvaluateStands, ExecuteStands DEF Step, Failure

LEMMA StaysAlone ==
    ASSUME TypeOK, ~overlap', RunsAlone, NEW v \in Workers, Step(v) \/ Failure(v), NEW w \in Workers, w # v
    PROVE  pc[w] = "idle"
<1>1. CASE pc[v] = "idle"
  <2>1. ListPositions(v)
    BY <1>1 DEF Step, Failure, ReadBroker, Promote, FindUnmanaged, ReadCursor, ApplyActivity,
       AdvanceCursor, LookupCloseOrder, OrdersDone, ReconcileClosed, ClosedDone, EvaluateExit, ExecuteClose,
       Finish, ReadBrokerFails, PromotionConflicts, ActivitiesFail, LookupFails, ExecuteFails, Crash
  <2>2. QED
    BY <2>1 DEF ListPositions
<1>2. CASE pc[v] # "idle"
  BY <1>2 DEF RunsAlone
<1>3. QED
  BY <1>1, <1>2

Orderly == RunsAlone /\ CursorsStand /\ \A w \in Workers : CycleStands(w)

LEMMA OrderlyStep ==
    ASSUME InTime, RunsAlone, \A w \in Workers : CycleStands(w), [Next]_vars, ~overlap'
    PROVE  Orderly'
<1>0. TypeOK /\ BooksAgree /\ CursorsStand
  BY InTimeType DEF InTime
<1>1. CursorsStand'
  BY <1>0, CursorsStandStep DEF CycleStands
<1>2. ASSUME NEW v \in Workers, Step(v) \/ Failure(v) PROVE RunsAlone' /\ \A w \in Workers : CycleStands(w)'
  <2>1. ASSUME NEW w \in Workers, w # v PROVE pc'[w] = "idle" /\ local'[w] = NoLocal
    BY <1>0, <1>2, <2>1, StaysAlone, OthersMove DEF OthersStay, CycleStands, ListingStands
  <2>2. ASSUME NEW w \in Workers PROVE CycleStands(w)'
    BY <1>2, <2>1, IdleStands, RunningStands
  <2>3. RunsAlone'
    BY <2>1 DEF RunsAlone
  <2>4. QED
    BY <2>2, <2>3
<1>3. ASSUME UNCHANGED <<row, cursor, cycleVars>> PROVE RunsAlone' /\ \A w \in Workers : CycleStands(w)'
  BY <1>0, <1>3, OutsideStands DEF RunsAlone, cycleVars
<1>4. CASE Environment
  <2>1. UNCHANGED <<row, cursor, cycleVars>>
    BY <1>4 DEF Environment, Fill, RecordOpening, CloseOrderFills, CloseOrderEnds, BrokerEvent,
       PostActivity, storeVars
  <2>2. QED
    BY <1>1, <1>3, <2>1 DEF Orderly
<1>5. CASE UNCHANGED vars
  BY <1>1, <1>3, <1>5 DEF vars, storeVars, Orderly
<1>6. QED
  BY <1>1, <1>2, <1>4, <1>5 DEF Next, Orderly

LEMMA OrderInvariant == Spec => []InOrder
<1>1. Init => InOrder
  <2>1. SUFFICES ASSUME Init PROVE Orderly
    BY DEF InOrder, Orderly
  <2>2. events = <<>> /\ \A w \in Workers : pc[w] = "idle" /\ local[w] = NoLocal
    BY <2>1 DEF Init
  <2>3. ASSUME NEW w \in Workers PROVE CycleStands(w)
    BY <2>2 DEF CycleStands, ListingStands, ReadingStands, FindingNothing, ExplainsGone, ManagesHeld,
       ListsReviews, LooksUpClosing, OrdersClosing, Late
  <2>4. RunsAlone /\ CursorsStand
    BY <2>2 DEF RunsAlone, CursorsStand, AppliedUpTo
  <2>5. QED
    BY <2>3, <2>4 DEF Orderly
<1>2. PositionInv /\ RowsValidate /\ BooksAgree /\ InOrder /\ [Next]_vars => InOrder'
  <2>1. SUFFICES ASSUME PositionInv, RowsValidate, BooksAgree, InOrder, [Next]_vars, ~overlap', Timely'
                 PROVE  Orderly'
    BY DEF InOrder, Orderly
  <2>2. ~overlap /\ Timely
    BY <2>1, NoOverlapBefore, TimelyBefore DEF PositionInv
  <2>3. InTime /\ RunsAlone /\ \A w \in Workers : CycleStands(w)
    BY <2>1, <2>2 DEF InTime, InOrder
  <2>4. QED
    BY <2>1, <2>3, OrderlyStep
<1>3. QED
  BY <1>1, <1>2, PositionInvariant, RowsCanBeLoaded, BooksInvariant, PTL DEF Spec

(* While cycles have not overlapped and the broker has posted every        *)
(* activity with its effect on the legs, no cursor is past an assignment,  *)
(* exercise or expiration whose position is left OPEN or CLOSE_PENDING,    *)
(* whatever crashed, failed or conflicted (position_lifecycle.py:143).     *)
THEOREM CursorsPassNothing == Spec => [](Timely => ActivitiesAreApplied)
<1>1. TypeOK /\ InOrder => (Timely => ActivitiesAreApplied)
  <2>1. SUFFICES ASSUME TypeOK, InOrder, Timely, ~overlap, NEW n \in DOMAIN events,
                        n <= cursor[events[n].type], TakesLegs(n)
                 PROVE  row[events[n].pos].state \notin Active
    BY DEF ActivitiesAreApplied, TakesLegs
  <2>2. events[n] \in BrokerEvents
    BY <2>1 DEF TypeOK
  <2>3. AppliedUpTo(events[n].type, cursor[events[n].type])
    BY <2>1, <2>2 DEF InOrder, CursorsStand, BrokerEvents
  <2>4. QED
    BY <2>1, <2>3 DEF AppliedUpTo
<1>2. QED
  BY <1>1, PositionTypeCorrect, OrderInvariant, PTL

(* With a broker that never posts an activity after its effect on the      *)
(* legs, that holds of every behaviour.                                    *)
THEOREM ActivitiesAreNotLost ==
    ASSUME "late_activity" \notin Faults
    PROVE  Spec => []ActivitiesAreApplied
<1>1. Init => Timely
  BY DEF Init, Timely
<1>2. TypeOK /\ Timely /\ [Next]_vars => Timely'
  <2>1. SUFFICES ASSUME TypeOK, Timely, [Next]_vars PROVE Timely'
    OBVIOUS
  <2>2. CASE UNCHANGED events
    BY <2>1, <2>2 DEF Timely
  <2>3. ASSUME NEW p \in Positions, BrokerEvent(p) PROVE Timely'
    <3>1. PICK t \in DOMAIN ActivityTypes :
              events' = Append(events, [type |-> t, pos |-> p, posted |-> "at_once"])
      BY <2>3, LifecycleAssumption DEF BrokerEvent
    <3>2. events \in Seq(BrokerEvents)
      BY <2>1 DEF TypeOK
    <3>3. QED
      BY <2>1, <3>1, <3>2 DEF Timely
  <2>4. ASSUME NEW n \in DOMAIN events, PostActivity(n) PROVE FALSE
    BY <2>1, <2>4 DEF PostActivity, Posted, Timely
  <2>5. ASSUME NEW w \in Workers, Step(w) \/ Failure(w) PROVE UNCHANGED events
    BY <2>5 DEF Step, Failure, ListPositions, ReadBroker, Promote, FindUnmanaged, ReadCursor, ApplyActivity,
       AdvanceCursor, LookupCloseOrder, OrdersDone, ReconcileClosed, ClosedDone, EvaluateExit, ExecuteClose,
       Finish, ReadBrokerFails, PromotionConflicts, ActivitiesFail, LookupFails, ExecuteFails, Crash, brokerVars
  <2>6. ASSUME NEW p \in Positions, Fill(p) \/ RecordOpening(p) \/ CloseOrderFills(p) \/ CloseOrderEnds(p)
        PROVE  UNCHANGED events
    BY <2>6 DEF Fill, RecordOpening, CloseOrderFills, CloseOrderEnds, brokerVars
  <2>7. CASE UNCHANGED vars
    BY <2>2, <2>7 DEF vars, brokerVars
  <2>8. QED
    BY <2>1, <2>2, <2>3, <2>4, <2>5, <2>6, <2>7 DEF Next, Environment
<1>3. QED
  BY <1>1, <1>2, PositionTypeCorrect, CursorsPassNothing, PTL DEF Spec

LEMMA EntryIsAllowedByFinish ==
    ASSUME TypeOK, NEW w \in Workers, [Next]_vars, ~mayEnter[w], mayEnter'[w]
    PROVE  Finish(w) /\ ~BlockNewEntries(w)
<1>0. mayEnter \in [Workers -> BOOLEAN]
  BY DEF TypeOK
<1>1. ASSUME NEW v \in Workers, NEW clear, End(v, clear) PROVE v = w /\ clear
  BY <1>0, <1>1 DEF End
<1>2. ASSUME NEW v \in Workers, Raise(v) PROVE FALSE
  BY <1>1, <1>2 DEF Raise
<1>3. mayEnter' # mayEnter
  OBVIOUS
<1>4. ASSUME NEW v \in Workers, Step(v) \/ Failure(v) PROVE Finish(v)
  <2>1. ~ListPositions(v)
    BY <1>0 DEF ListPositions
  <2>2. ASSUME LookupCloseOrder(v) \/ ReconcileClosed(v) \/ EvaluateExit(v) PROVE FALSE
    BY <1>2, <1>3, <2>2 DEF LookupCloseOrder, ReconcileClosed, EvaluateExit
  <2>3. ASSUME ReadBrokerFails(v) \/ PromotionConflicts(v) \/ ExecuteFails(v) \/ Crash(v) PROVE FALSE
    BY <1>2, <2>3 DEF ReadBrokerFails, PromotionConflicts, ExecuteFails, Crash
  <2>4. QED
    BY <1>3, <1>4, <2>1, <2>2, <2>3 DEF Step, Failure, ReadBroker, Promote, FindUnmanaged, ReadCursor,
       ApplyActivity, AdvanceCursor, OrdersDone, ClosedDone, ExecuteClose, ActivitiesFail, LookupFails
<1>5. ASSUME NEW v \in Workers, Finish(v) PROVE v = w /\ ~BlockNewEntries(w)
  BY <1>1, <1>5 DEF Finish
<1>6. ~Environment
  BY <1>3 DEF Environment, Fill, RecordOpening, CloseOrderFills, CloseOrderEnds, BrokerEvent, PostActivity,
     cycleVars
<1>7. ~UNCHANGED vars
  BY <1>3 DEF vars, cycleVars
<1>8. QED
  BY <1>4, <1>5, <1>6, <1>7 DEF Next

LEMMA FinishExplains ==
    ASSUME InTime, NEW w \in Workers, CycleStands(w), Finish(w), ~BlockNewEntries(w)
    PROVE  Explained(w)
<1>1. /\ pc[w] = "exits" /\ pc[w] \in Late /\ local[w].reasons = {} /\ ~local[w].moved
      /\ ~\E p \in Positions : seen[w][p].state \in Review
  BY DEF Finish, BlockNewEntries, Late
<1>2. FindingNothing(w)
  BY <1>1 DEF CycleStands
<1>3. SUFFICES ASSUME NEW p \in Positions
               PROVE  /\ row[p].state \notin Review
                      /\ row[p].state \in Active => Complete(broker[w][p])
                      /\ row[p].state = "absent" => Flat(broker[w][p])
                      /\ row[p].state = "CLOSE_PENDING" => order[p] # "absent"
  BY DEF Explained
<1>4. row[p].state \notin Review
  BY <1>1, <1>2 DEF FindingNothing, ListsReviews
<1>5. ~Flat(broker[w][p]) => Complete(broker[w][p]) /\ row[p].state # "absent"
  BY <1>1, <1>2 DEF FindingNothing, ManagesHeld
<1>6. row[p].state = "CLOSE_PENDING" => ~Flat(broker[w][p]) /\ order[p] # "absent"
  BY <1>1, <1>2 DEF FindingNothing, OrdersClosing
<1>7. row[p].state = "OPEN" => ~Flat(broker[w][p])
  <2>1. row[p].state = "OPEN" => order[p] = "absent"
    BY DEF InTime, PositionInv, StoreInv, OrderIsLater, Early
  <2>2. QED
    BY <1>1, <1>2, <2>1, ClosingIsThere DEF Active
<1>8. QED
  BY <1>4, <1>5, <1>6, <1>7 DEF Active

(* A cycle that lets the agent enter leaves nothing unexplained: no        *)
(* position in review, all legs of the managed ones at the broker, no      *)
(* other legs there, and an order for every close.  Provided that cycles   *)
(* do not overlap and activities are posted with their effect on the legs. *)
THEOREM CyclesFailClosed == Spec => FailClosed
<1>1. PositionInv /\ RowsValidate /\ BooksAgree /\ InOrder /\ [Next]_vars
        => [\A w \in Workers :
              /\ ~overlap
              /\ \A n \in DOMAIN events : events[n].posted = "at_once"
              /\ ~mayEnter[w]
              /\ mayEnter'[w]
              => Explained(w)]_vars
  <2>1. SUFFICES ASSUME PositionInv, RowsValidate, BooksAgree, InOrder, [Next]_vars,
                        NEW w \in Workers, ~overlap, Timely, ~mayEnter[w], mayEnter'[w]
                 PROVE  Explained(w)
    BY DEF Timely
  <2>2. InTime /\ CycleStands(w)
    BY <2>1 DEF InTime, InOrder
  <2>3. QED
    BY <2>1, <2>2, InTimeType, EntryIsAllowedByFinish, FinishExplains
<1>2. QED
  BY <1>1, PositionInvariant, RowsCanBeLoaded, BooksInvariant, OrderInvariant, PTL DEF Spec, FailClosed

=============================================================================
