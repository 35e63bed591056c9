-------------------------- MODULE PositionLifecycle --------------------------
(***************************************************************************)
(* PositionLifecycleService.run_cycle: before any entry, a cycle promotes  *)
(* filled openings to managed positions, compares them with what the       *)
(* broker holds, applies the broker's activities and close orders, and     *)
(* closes what the exit policy wants closed.                               *)
(*                                                                         *)
(* A worker runs one cycle at a time; nothing but the scheduler's lease    *)
(* keeps two workers from overlapping.  A cycle lists the positions and    *)
(* the broker's legs once, at its start, and decides everything on those   *)
(* lists; every transaction and broker call after that is one action.      *)
(* The activity gateway and the order lookup are wired as in api/main.py;  *)
(* the exit decisions and the close execution, which are not wired there,  *)
(* as in the service's tests.                                              *)
(***************************************************************************)
EXTENDS PositionStore, ExitPolicy

CONSTANTS
    Workers,
    Holders,      \* the workers that keep running cycles; the others may stop anywhere
    Contexts,     \* the exit contexts that may be evaluated
    Occurring,    \* the activity types of which the broker has any
    MaxEvents,    \* bound on the account activities of the broker
    MaxFaults,    \* bound on crashes and failed calls
    Faults        \* what may go wrong, a subset of FaultKinds

FaultKinds ==
    {"crash",           \* a worker stops between two steps
     "read_error",      \* listing the broker's positions raises
     "activity_error",  \* a page of activities cannot be read
     "lookup_error",    \* a close order cannot be looked up
     "execute_error",   \* the execution of a close intent raises
     "no_fill",         \* the broker rejects or cancels a close order
     "late_activity"}   \* an activity is posted after its effect on the legs

ASSUME LifecycleAssumption ==
    /\ Holders \subseteq Workers
    /\ Contexts \subseteq ExitContexts
    /\ Occurring \subseteq DOMAIN ActivityTypes
    /\ MaxEvents \in Nat
    /\ MaxFaults \in Nat
    /\ Faults \subseteq FaultKinds

VARIABLES
    legs,       \* legs[p]: what the broker holds of p's two legs
    order,      \* order[p]: the order of p's close intent at the broker
    events,     \* the broker's account activities, by id
    pc,         \* pc[w]: the step at which the cycle of w stands
    seen,       \* seen[w]: managed, the rows as w listed them
    broker,     \* broker[w]: the legs as w listed them
    local,      \* local[w]: the other local variables of the cycle
    mayEnter,   \* mayEnter[w]: the last cycle of w did not block new entries
    overlap,    \* history: two cycles have run at once
    faults      \* how many bounded faults there were

brokerVars == <<legs, order, events>>
cycleVars == <<pc, seen, broker, local, mayEnter>>
vars == <<storeVars, brokerVars, cycleVars, overlap, faults>>

Points == {"idle", "positions", "promote", "find", "cursor", "activities", "orders", "closed",
           "exits", "execute"}
OrderStatuses == {"absent", "NEW", "PARTIALLY_FILLED", "FILLED", "REJECTED", "CANCELED"}
ReviewReasons == {"opening_promotion_failed", "broker_position_mismatch", "reconciliation_failed",
             "close_order_lookup_failed", "close_order_not_found"}

Locals ==
    [reasons : SUBSET ReviewReasons,       \* review_reasons
     moved : BOOLEAN,                 \* activity_transitions is not empty
     type : DOMAIN ActivityTypes,     \* activity_type
     token : Nat,                     \* page_token and last_activity_id, 0 for none
     todo : SUBSET Positions]         \* what the current loop over managed has left
NoLocal == [reasons |-> {}, moved |-> FALSE, type |-> 1, token |-> 0, todo |-> {}]
NothingSeen == [p \in Positions |-> NoRow]
NoLegs == [p \in Positions |-> [long |-> 0, short |-> 0]]

(* An activity is posted with its effect on the legs, or only later.       *)
BrokerEvents ==
    [type : DOMAIN ActivityTypes, pos : Positions, posted : {"at_once", "not_yet", "late"}]
Posted(n) == events[n].posted # "not_yet"

TypeOK ==
    /\ StoreTypeOK
    /\ legs \in [Positions -> Legs]
    /\ order \in [Positions -> OrderStatuses]
    /\ events \in Seq(BrokerEvents)
    /\ pc \in [Workers -> Points]
    /\ seen \in [Workers -> [Positions -> Rows]]
    /\ broker \in [Workers -> [Positions -> Legs]]
    /\ local \in [Workers -> Locals]
    /\ mayEnter \in [Workers -> BOOLEAN]
    /\ overlap \in BOOLEAN
    /\ faults \in 0..MaxFaults

Init ==
    /\ StoreInit
    /\ legs = NoLegs
    /\ order = [p \in Positions |-> "absent"]
    /\ events = <<>>
    /\ pc = [w \in Workers |-> "idle"]
    /\ seen = [w \in Workers |-> NothingSeen]
    /\ broker = [w \in Workers |-> NoLegs]
    /\ local = [w \in Workers |-> NoLocal]
    /\ mayEnter = [w \in Workers |-> FALSE]
    /\ overlap = FALSE
    /\ faults = 0

-----------------------------------------------------------------------------
(* Where a cycle goes next.                                                *)

GoTo(w, point) == pc' = [pc EXCEPT ![w] = point]
Keep(w, l) == local' = [local EXCEPT ![w] = l]
Because(w, reason) == [local[w] EXCEPT !.reasons = @ \cup {reason}]
Fault(kind) == kind \in Faults /\ faults < MaxFaults /\ faults' = faults + 1

(* A cycle ends: no local variable outlives it.                            *)
End(w, clear) ==
    /\ GoTo(w, "idle")
    /\ seen' = [seen EXCEPT ![w] = NothingSeen]
    /\ broker' = [broker EXCEPT ![w] = NoLegs]
    /\ local' = [local EXCEPT ![w] = NoLocal]
    /\ mayEnter' = [mayEnter EXCEPT ![w] = clear]
Raise(w) == End(w, FALSE)

First(S) == CHOOSE p \in S : \A q \in S : p <= q
Current(w) == First(local[w].todo)                  \* the position the loop is at
Drop(w, l) == [l EXCEPT !.todo = @ \ {Current(w)}]

(* The loops over managed, each with what it does not skip.                *)
PendingSeen(w) == {p \in Positions : seen[w][p].state = "CLOSE_PENDING" /\ seen[w][p].close}
ClosedSeenMutant(w) == {p \in Positions : seen[w][p].state = "CLOSE_PENDING" /\ Flat(broker[w][p])}

ClosedSeen(w) == {p \in Positions : seen[w][p].state = "CLOSE_FILLED" /\ Flat(broker[w][p])}
OpenSeen(w) == {p \in Positions : seen[w][p].state = "OPEN"}
Loop(w, point, positions) ==
    /\ GoTo(w, point)
    /\ Keep(w, [local[w] EXCEPT !.todo = positions])

-----------------------------------------------------------------------------
(* The start of a cycle.                                                   *)

ListPositions(w) ==
    /\ pc[w] = "idle"
    /\ GoTo(w, "positions")
    /\ seen' = [seen EXCEPT ![w] = row]
    /\ mayEnter' = [mayEnter EXCEPT ![w] = FALSE]
    /\ overlap' = (overlap \/ \E v \in Workers \ {w} : pc[v] # "idle")
    /\ UNCHANGED <<storeVars, brokerVars, broker, local, faults>>

ReadBroker(w) ==
    /\ pc[w] = "positions"
    /\ GoTo(w, "promote")
    /\ broker' = [broker EXCEPT ![w] = legs]
    /\ UNCHANGED <<storeVars, brokerVars, seen, local, mayEnter, overlap, faults>>

ReadBrokerFails(w) ==
    /\ pc[w] = "positions"
    /\ Fault("read_error")
    /\ Raise(w)
    /\ UNCHANGED <<storeVars, brokerVars, overlap>>

Promote(w) ==
    /\ pc[w] = "promote"
    /\ PromoteReconciledOpenings(broker[w])
    /\ GoTo(w, "find")
    /\ seen' = [seen EXCEPT ![w] =
                  [p \in Positions |-> IF Promotable(p, broker[w]) THEN NewRow ELSE @[p]]]
    /\ Keep(w, IF PromotionFindings(broker[w]) = {} THEN local[w]
               ELSE Because(w, "opening_promotion_failed"))
    /\ UNCHANGED <<brokerVars, broker, mayEnter, overlap, faults>>

(* Another cycle promoted an opening after this one looked for its row:    *)
(* the row's unique opening intent fails the whole transaction.            *)
PromotionConflicts(w) ==
    /\ pc[w] = "promote"
    /\ \E p \in Positions : seen[w][p].state = "absent" /\ row[p].state # "absent"
    /\ Raise(w)
    /\ UNCHANGED <<storeVars, brokerVars, overlap, faults>>

FindUnmanaged(w) ==
    /\ pc[w] = "find"
    /\ GoTo(w, "cursor")
    /\ Keep(w, IF Unmanaged(broker[w]) = {} THEN local[w]
               ELSE Because(w, "broker_position_mismatch"))
    /\ UNCHANGED <<storeVars, brokerVars, seen, broker, mayEnter, overlap, faults>>

-----------------------------------------------------------------------------
(* _reconcile_activities: type by type, page by page (a page holds one     *)
(* activity here; what is done with it depends on seen, not on when the    *)
(* page was read).                                                         *)

MapBrokerActivityState(type) ==
    CASE type = "OPASN"             -> "ASSIGNMENT_REVIEW"
      [] type \in {"OPEXP", "OPXRC"} -> "EXPIRATION_REVIEW"
      [] OTHER                      -> "none"
Target(t) == MapBrokerActivityState(ActivityTypes[t])

UnreadMutant(t, token) ==   \* the page token is taken for the next id
    {n \in DOMAIN events : n > token + 1 /\ events[n].type = t /\ Posted(n)}

Unread(t, token) ==
    {n \in DOMAIN events : n > token /\ events[n].type = t /\ Posted(n)}

NextTypeMutant(w, l) ==   \* one type too many
    IF l.type > Len(ActivityTypes)
    THEN GoTo(w, "orders") /\ Keep(w, [l EXCEPT !.token = 0, !.todo = PendingSeen(w)])
    ELSE GoTo(w, "cursor") /\ Keep(w, [l EXCEPT !.token = 0, !.type = @ + 1])

(* The end of a type's pages, or of the attempt to read and apply them.    *)
NextType(w, l) ==
    IF l.type = Len(ActivityTypes)
    THEN GoTo(w, "orders") /\ Keep(w, [l EXCEPT !.token = 0, !.todo = PendingSeen(w)])
    ELSE GoTo(w, "cursor") /\ Keep(w, [l EXCEPT !.token = 0, !.type = @ + 1])

ReadCursor(w) ==
    /\ pc[w] = "cursor"
    /\ GoTo(w, "activities")
    /\ Keep(w, [local[w] EXCEPT !.token = cursor[local[w].type]])
    /\ UNCHANGED <<storeVars, brokerVars, seen, broker, mayEnter, overlap, faults>>

ConcernsMutant(w, n) ==   \* positions that are being closed are left alone
    /\ Target(local[w].type) # "none"
    /\ seen[w][events[n].pos].state = "OPEN"

Concerns(w, n) ==
    /\ Target(local[w].type) # "none"
    /\ seen[w][events[n].pos].state \in Active

ApplyActivity(w) ==
    /\ pc[w] = "activities"
    /\ Unread(local[w].type, local[w].token) # {}
    /\ LET n == First(Unread(local[w].type, local[w].token))
           p == events[n].pos
           id == [kind |-> "activity", n |-> n]
           read == [local[w] EXCEPT !.token = n]
       IN \/ /\ ~Concerns(w, n)
             /\ Keep(w, read)
             /\ UNCHANGED <<storeVars, pc>>
          \/ /\ Concerns(w, n)
             /\ Accepts(p, seen[w][p], Target(local[w].type), id)
             /\ TransitionPosition(p, Target(local[w].type), id)
             /\ Keep(w, [read EXCEPT !.moved = TRUE])
             /\ UNCHANGED pc
          \/ /\ Concerns(w, n)
             /\ ~Accepts(p, seen[w][p], Target(local[w].type), id)
             /\ NextType(w, Because(w, "reconciliation_failed"))
             /\ UNCHANGED storeVars
    /\ UNCHANGED <<brokerVars, seen, broker, mayEnter, overlap, faults>>

ActivitiesFail(w) ==
    /\ pc[w] = "activities"
    /\ Fault("activity_error")
    /\ NextType(w, Because(w, "reconciliation_failed"))
    /\ UNCHANGED <<storeVars, brokerVars, seen, broker, mayEnter, overlap>>

AdvanceCursor(w) ==
    /\ pc[w] = "activities"
    /\ Unread(local[w].type, local[w].token) = {}
    /\ AdvanceActivityCursor(local[w].type, local[w].token)
    /\ NextType(w, local[w])
    /\ UNCHANGED <<brokerVars, seen, broker, mayEnter, overlap, faults>>

-----------------------------------------------------------------------------
(* The close orders of the positions that were CLOSE_PENDING.              *)

MapCloseOrderStateMutant(status, completeSpreadPresent) ==   \* any fill will do
    CASE status \in {"FILLED", "PARTIALLY_FILLED"} -> "CLOSE_FILLED"
      [] status \in {"REJECTED", "CANCELED"} ->
            IF completeSpreadPresent THEN "OPEN" ELSE "RECONCILIATION_FAILED"
      [] OTHER                             -> "CLOSE_PENDING"

MapCloseOrderState(status, completeSpreadPresent) ==
    CASE status = "FILLED"                 -> "CLOSE_FILLED"
      [] status \in {"REJECTED", "CANCELED"} ->
            IF completeSpreadPresent THEN "OPEN" ELSE "RECONCILIATION_FAILED"
      [] OTHER                             -> "CLOSE_PENDING"

OrderEvent(status) ==
    Event(CASE status = "FILLED"   -> "order_filled"
            [] status = "REJECTED" -> "order_rejected"
            [] OTHER               -> "order_canceled")

(* The answer is final or changes nothing, so that the lookup and the      *)
(* transaction that records it are one step.                               *)
LookupCloseOrder(w) ==
    /\ pc[w] = "orders"
    /\ local[w].todo # {}
    /\ LET p == Current(w)
           to == MapCloseOrderState(order[p], BothPresent(broker[w][p]))
           id == OrderEvent(order[p])
       IN \/ /\ order[p] = "absent"
             /\ Keep(w, Drop(w, Because(w, "close_order_not_found")))
             /\ UNCHANGED <<storeVars, pc, seen, broker, mayEnter>>
          \/ /\ order[p] # "absent"
             /\ to = "CLOSE_PENDING"
             /\ Keep(w, Drop(w, local[w]))
             /\ UNCHANGED <<storeVars, pc, seen, broker, mayEnter>>
          \/ /\ order[p] # "absent"
             /\ to # "CLOSE_PENDING"
             /\ Accepts(p, seen[w][p], to, id)
             /\ TransitionPosition(p, to, id)
             /\ Keep(w, Drop(w, local[w]))
             /\ UNCHANGED <<pc, seen, broker, mayEnter>>
          \/ /\ order[p] # "absent"
             /\ to # "CLOSE_PENDING"
             /\ ~Accepts(p, seen[w][p], to, id)
             /\ Raise(w)
             /\ UNCHANGED storeVars
    /\ UNCHANGED <<brokerVars, overlap, faults>>

LookupFails(w) ==
    /\ pc[w] = "orders"
    /\ local[w].todo # {}
    /\ Fault("lookup_error")
    /\ Keep(w, Drop(w, Because(w, "close_order_lookup_failed")))
    /\ UNCHANGED <<storeVars, brokerVars, pc, seen, broker, mayEnter, overlap>>

OrdersDone(w) ==
    /\ pc[w] = "orders"
    /\ local[w].todo = {}
    /\ Loop(w, "closed", ClosedSeen(w))
    /\ UNCHANGED <<storeVars, brokerVars, seen, broker, mayEnter, overlap, faults>>

(* A position that was CLOSE_FILLED is closed once both legs are gone.     *)
ReconcileClosed(w) ==
    /\ pc[w] = "closed"
    /\ local[w].todo # {}
    /\ LET p == Current(w)
           id == Event("closed_reconciled")
       IN \/ /\ Accepts(p, seen[w][p], "CLOSED_RECONCILED", id)
             /\ TransitionPosition(p, "CLOSED_RECONCILED", id)
             /\ Keep(w, Drop(w, local[w]))
             /\ UNCHANGED <<pc, seen, broker, mayEnter>>
          \/ /\ ~Accepts(p, seen[w][p], "CLOSED_RECONCILED", id)
             /\ Raise(w)
             /\ UNCHANGED storeVars
    /\ UNCHANGED <<brokerVars, overlap, faults>>

(* allow_close_submission is an argument of the cycle; only this reads it. *)
ClosedDone(w) ==
    /\ pc[w] = "closed"
    /\ local[w].todo = {}
    /\ \E allow \in BOOLEAN :
          Loop(w, "exits", IF allow /\ "broker_position_mismatch" \notin local[w].reasons
                           THEN OpenSeen(w) ELSE {})
    /\ UNCHANGED <<storeVars, brokerVars, seen, broker, mayEnter, overlap, faults>>

-----------------------------------------------------------------------------
(* The exits of the positions that were OPEN.                              *)

Decisions == {Evaluate(c) : c \in Contexts}

(* CloseIntentFactory.create raises without a positive credit; the rest of *)
(* what it and authorize_close compare is the position and the decision    *)
(* that were just read.                                                    *)
AuthorizeInputs(d) == d.outcome = "CLOSE" /\ d.credit > 0

EvaluateExit(w) ==
    /\ pc[w] = "exits"
    /\ local[w].todo # {}
    /\ \E d \in Decisions :
          LET p == Current(w)
          IN \/ /\ d.outcome # "CLOSE"
                /\ Keep(w, Drop(w, local[w]))
                /\ UNCHANGED <<storeVars, pc, seen, broker, mayEnter>>
             \/ /\ AuthorizeInputs(d)
                /\ AcceptsClose(p, seen[w][p])
                /\ AttachCloseIntent(p)
                /\ GoTo(w, "execute")
                /\ UNCHANGED <<seen, broker, local, mayEnter>>
             \/ /\ d.outcome = "CLOSE"
                /\ ~(AuthorizeInputs(d) /\ AcceptsClose(p, seen[w][p]))
                /\ Raise(w)
                /\ UNCHANGED storeVars
    /\ UNCHANGED <<brokerVars, overlap, faults>>

(* The broker takes the order of a close intent once.                      *)
ExecuteClose(w) ==
    /\ pc[w] = "execute"
    /\ order' = [order EXCEPT ![Current(w)] = IF @ = "absent" THEN "NEW" ELSE @]
    /\ GoTo(w, "exits")
    /\ Keep(w, Drop(w, local[w]))
    /\ UNCHANGED <<storeVars, legs, events, seen, broker, mayEnter, overlap, faults>>

ExecuteFails(w) ==
    /\ pc[w] = "execute"
    /\ Fault("execute_error")
    /\ Raise(w)
    /\ UNCHANGED <<storeVars, brokerVars, overlap>>

BlockNewEntriesMutant(w) ==   \* only what this cycle found
    local[w].reasons # {} \/ local[w].moved

(* review_count is taken from the rows as they were listed.                *)
BlockNewEntries(w) ==
    \/ local[w].reasons # {}
    \/ local[w].moved
    \/ \E p \in Positions : seen[w][p].state \in Review

Finish(w) ==
    /\ pc[w] = "exits"
    /\ local[w].todo = {}
    /\ End(w, ~BlockNewEntries(w))
    /\ UNCHANGED <<storeVars, brokerVars, overlap, faults>>

Crash(w) ==
    /\ pc[w] # "idle"
    /\ Fault("crash")
    /\ Raise(w)
    /\ UNCHANGED <<storeVars, brokerVars, overlap>>

-----------------------------------------------------------------------------
(* What the other parts of the system and the broker do.                   *)

(* An opening order fills; the intent is reconciled; its receipt is saved, *)
(* without paper accounting if the fill could not be accounted for.        *)
Fill(p) ==
    /\ opening[p] = "unfilled"
    /\ opening' = [opening EXCEPT ![p] = "filled"]
    /\ legs' = [legs EXCEPT ![p] = [long |-> Units, short |-> Units]]
    /\ UNCHANGED <<row, ledger, cursor, order, events, cycleVars, overlap, faults>>

RecordOpening(p) ==
    /\ \/ opening[p] = "filled" /\ opening' = [opening EXCEPT ![p] = "RECONCILED"]
       \/ /\ opening[p] = "RECONCILED"
          /\ \E o \in {"unaccounted", "receipted"} : opening' = [opening EXCEPT ![p] = o]
    /\ UNCHANGED <<row, ledger, cursor, brokerVars, cycleVars, overlap, faults>>

CloseOrderFills(p) ==
    /\ order[p] \in {"NEW", "PARTIALLY_FILLED"}
    /\ BothPresent(legs[p])
    /\ LET left == [long |-> legs[p].long - 1, short |-> legs[p].short - 1]
       IN /\ legs' = [legs EXCEPT ![p] = left]
          /\ order' = [order EXCEPT ![p] = IF Flat(left) THEN "FILLED" ELSE "PARTIALLY_FILLED"]
    /\ UNCHANGED <<storeVars, events, cycleVars, overlap, faults>>

CloseOrderEnds(p) ==
    /\ "no_fill" \in Faults
    /\ \/ order[p] = "NEW" /\ order' = [order EXCEPT ![p] = "REJECTED"]
       \/ /\ order[p] \in {"NEW", "PARTIALLY_FILLED"}
          /\ order' = [order EXCEPT ![p] = "CANCELED"]
    /\ UNCHANGED <<storeVars, legs, events, cycleVars, overlap, faults>>

(* Assignment takes the short leg, exercise the long one, expiration both, *)
(* and either of the first two may take the other leg with it; trades and  *)
(* fees take none.                                                         *)
Remaining(l, type) ==
    CASE type = "OPASN" -> {[l EXCEPT !.short = 0], [long |-> 0, short |-> 0]}
      [] type = "OPXRC" -> {[l EXCEPT !.long = 0], [long |-> 0, short |-> 0]}
      [] type = "OPEXP" -> {[long |-> 0, short |-> 0]}
      [] OTHER          -> {l}

BrokerEvent(p) ==
    /\ Len(events) < MaxEvents
    /\ ~Flat(legs[p])
    /\ \E t \in Occurring :
          /\ \E left \in Remaining(legs[p], ActivityTypes[t]) : legs' = [legs EXCEPT ![p] = left]
          /\ \E posted \in {"at_once"} \cup
                            (IF "late_activity" \in Faults THEN {"not_yet"} ELSE {}) :
                events' = Append(events, [type |-> t, pos |-> p, posted |-> posted])
    /\ UNCHANGED <<storeVars, order, cycleVars, overlap, faults>>

PostActivity(n) ==
    /\ ~Posted(n)
    /\ events' = [events EXCEPT ![n].posted = "late"]
    /\ UNCHANGED <<storeVars, legs, order, cycleVars, overlap, faults>>

-----------------------------------------------------------------------------
Step(w) ==
    \/ ListPositions(w) \/ ReadBroker(w) \/ Promote(w) \/ FindUnmanaged(w)
    \/ ReadCursor(w) \/ ApplyActivity(w) \/ AdvanceCursor(w)
    \/ LookupCloseOrder(w) \/ OrdersDone(w) \/ ReconcileClosed(w) \/ ClosedDone(w)
    \/ EvaluateExit(w) \/ ExecuteClose(w) \/ Finish(w)

Failure(w) ==
    \/ ReadBrokerFails(w) \/ PromotionConflicts(w) \/ ActivitiesFail(w) \/ LookupFails(w)
    \/ ExecuteFails(w) \/ Crash(w)

Environment ==
    \/ \E p \in Positions :
          Fill(p) \/ RecordOpening(p) \/ CloseOrderFills(p) \/ CloseOrderEnds(p) \/ BrokerEvent(p)
    \/ \E n \in DOMAIN events : PostActivity(n)

Next == Environment \/ \E w \in Workers : Step(w) \/ Failure(w)

Spec == Init /\ [][Next]_vars

(* The scheduler of whoever holds the lease starts cycle after cycle, and  *)
(* every call returns, with an error if need be.                           *)
FairSpec == Spec /\ \A w \in Holders : WF_vars(Step(w))

-----------------------------------------------------------------------------
(* Properties.                                                             *)

(* Every row can be loaded at any moment: however cycles interleave, crash *)
(* and apply activities, closes and order states, row and ledger tell one  *)
(* story.  A row that broke this could not be read, let alone repaired, by *)
(* any cycle (domain/positions.py:149, store.py:86).                       *)
RowsValidate == \A p \in Positions : Validates(p)

(* A position is only called closed when its own close order filled and    *)
(* the broker holds neither leg, although both were read at different      *)
(* times, by cycles that may overlap (position_lifecycle.py:284).          *)
CloseIsProven ==
    \A p \in Positions :
        /\ row[p].state \in {"CLOSE_FILLED", "CLOSED_RECONCILED"} => order[p] = "FILLED"
        /\ row[p].state = "CLOSED_RECONCILED" => Flat(legs[p])

(* While cycles do not overlap, a cursor never passes an assignment,       *)
(* exercise or expiration whose position is left OPEN or CLOSE_PENDING: no *)
(* crash, failed page or version conflict loses one                        *)
(* (position_lifecycle.py:143).                                            *)
ActivitiesAreApplied ==
    ~overlap =>
        \A n \in DOMAIN events :
            /\ n <= cursor[events[n].type]
            /\ Target(events[n].type) # "none"
            => row[events[n].pos].state \notin Active

(* A cycle that lets the agent enter leaves nothing unexplained behind: no *)
(* position in review, every managed position complete at the broker, no   *)
(* leg at the broker that is not managed, and no close without an order    *)
(* (vertical-slice-demo.md:33 "Review states are fail-closed").            *)
Explained(w) ==
    /\ \A p \in Positions :
        /\ row[p].state \notin Review
        /\ row[p].state \in Active => Complete(broker[w][p])
        /\ row[p].state = "absent" => Flat(broker[w][p])
        /\ row[p].state = "CLOSE_PENDING" => order[p] # "absent"
FailClosed ==
    [][\A w \in Workers :
          /\ ~overlap
          /\ \A n \in DOMAIN events : events[n].posted = "at_once"
          /\ ~mayEnter[w]
          /\ mayEnter'[w]
          => Explained(w)]_vars

(* Where the cycles do not overlap, an assignment, exercise or expiration  *)
(* takes its position out of OPEN and CLOSE_PENDING in the end, posted at  *)
(* once or late and whatever crashes or fails, unless a higher activity of *)
(* its type was read before it was posted (position_lifecycle.py:274).     *)
(* That one is behind the cursor, which only grows, and is never read.     *)
Behind(n) ==
    LET t == events[n].type
    IN  \/ n <= cursor[t]
        \/ \E w \in Workers :
              pc[w] = "activities" /\ local[w].type = t /\ n <= local[w].token
EventsAreReviewed ==
    []~overlap =>
    \A n \in 1..MaxEvents :
        LET Known == n \in DOMAIN events
            Managed == row[events[n].pos].state \in Active
            Strikes == Posted(n) /\ Target(events[n].type) # "none" /\ ~Behind(n)
        IN Known /\ Managed /\ Strikes ~> Known /\ ~Managed

(* A close order that fills ends in CLOSED_RECONCILED or in a review.      *)
ClosesComplete ==
    [](\A q \in Positions : order[q] \notin {"REJECTED", "CANCELED"}) =>
    \A p \in Positions :
        order[p] = "FILLED" ~> row[p].state \in TerminalOrReview

(* The policy, restated without the order in which it is evaluated.        *)
ExitsMeetPolicy ==
    \A c \in Contexts :
        LET preset == Presets[c.horizon]
            cost == EntryBasis(c)
            gain == CloseCredit(c) - cost
            clean == c.versionSupported /\ ~c.brokerEvent /\ c.brokerMatch
            triggered ==
                \/ c.thesisInvalidated
                \/ JointReversal(c)
                \/ c.dte <= preset.buffer
                \/ c.held >= preset.maxHold
                \/ cost > 0 /\ 100 * gain \notin (preset.stopLoss * cost + 1)..(preset.takeProfit * cost - 1)
        IN /\ Evaluate(c).outcome = "CLOSE" <=> clean /\ QuoteValid(c) /\ triggered
           /\ Evaluate(c).outcome = "HOLD" <=>
                 clean /\ (IF QuoteValid(c) THEN ~triggered ELSE c.dte > preset.buffer)

(* Whenever a cycle gets to its exits, a spread is closed exactly if a     *)
(* trigger of its policy fires, its quotes can be priced and nothing about *)
(* it needs a person; it is held exactly if none fires, or none but the    *)
(* expiration can be priced.  So no order in which the engine notes its    *)
(* reasons lets one hide another (exit_policy.py:168).  A spread worth     *)
(* nothing has no valid quote and is never stopped out.                    *)
ExitMeetsPolicy == \A w \in Workers : pc[w] = "exits" => ExitsMeetPolicy

(* What this module promises, without cycles, listings and cursors.        *)
Life(p) ==
    CASE row[p].state = "absent"            -> "none"
      [] row[p].state = "OPEN"              -> "open"
      [] row[p].state = "CLOSE_PENDING"     -> "closing"
      [] row[p].state = "CLOSE_FILLED"      -> "settled"
      [] row[p].state = "CLOSED_RECONCILED" -> "closed"
      [] OTHER                              -> "review"
Contract ==
    INSTANCE PositionContract WITH
        life <- [p \in Positions |-> Life(p)],
        held <- [p \in Positions |->
                    IF opening[p] = "unfilled" THEN "none"
                    ELSE IF order[p] = "FILLED" THEN "sold" ELSE "held"]
KeepsPositionContract == Contract!Spec
=============================================================================
