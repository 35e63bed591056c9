------------------------ MODULE AgentScheduler_proofs -----------------------
(***************************************************************************)
(* Theorems about AgentScheduler for any number of workers and API         *)
(* processes, any assignment of instance ids, any timing constants and any *)
(* faults.                                                                 *)
(***************************************************************************)
EXTENDS AgentScheduler, RuntimeControls_proofs, FiniteSetLemmas, TLAPS

-----------------------------------------------------------------------------
(* The pieces steps are made of keep their types.                          *)

LEMMA EntriesType ==
    ASSUME NEW r \in Runs, NEW b \in BOOLEAN
    PROVE  [r EXCEPT !.entries = b] \in Runs
BY DEF Runs

LEMMA ClosesType ==
    ASSUME NEW r \in Runs, NEW b \in BOOLEAN
    PROVE  [r EXCEPT !.closes = b] \in Runs
BY DEF Runs

LEMMA OutcomeType ==
    ASSUME NEW r \in Runs, NEW o \in Outcomes
    PROVE  [r EXCEPT !.outcome = o] \in Runs
BY DEF Runs

LEMMA PermissionsType ==
    ASSUME NEW r \in Runs, NEW n \in BOOLEAN, NEW c \in BOOLEAN
    PROVE  [r EXCEPT !.entries = n, !.closes = c] \in Runs
<1>1. [r EXCEPT !.entries = n, !.closes = c] = [[r EXCEPT !.entries = n] EXCEPT !.closes = c]
  OBVIOUS
<1>2. QED
  BY <1>1, EntriesType, ClosesType

LEMMA VerdictType ==
    ASSUME NEW r \in Runs, NEW n \in BOOLEAN, NEW c \in BOOLEAN, NEW o \in Outcomes
    PROVE  [r EXCEPT !.entries = n, !.closes = c, !.outcome = o] \in Runs
<1>1. [r EXCEPT !.entries = n, !.closes = c, !.outcome = o]
        = [[r EXCEPT !.entries = n, !.closes = c] EXCEPT !.outcome = o]
  OBVIOUS
<1>2. QED
  BY <1>1, PermissionsType, OutcomeType

LEMMA CycleStateType ==
    ASSUME NEW row \in CycleRows, NEW o \in Outcomes
    PROVE  [row EXCEPT !.state = o] \in CycleRows
BY DEF CycleRows

USE RuntimeStoreAssumption, SchedulerAssumption DEF Procs

LEMMA LessType ==
    ASSUME NEW left \in Lefts
    PROVE  Less(left) \in Lefts /\ (left <= 0 => Less(left) <= 0) /\ Less(left) <= left
BY DEF Less, Lefts

LEMMA NoRunType == NoRun \in Runs
BY DEF NoRun, Runs, Outcomes

-----------------------------------------------------------------------------
(* Type correctness.                                                       *)

TypeInv == TypeOK /\ CyclesAreDistinct

LEMMA TypeInit == Init => TypeInv
<1> SUFFICES ASSUME Init PROVE TypeInv
  OBVIOUS
<1>1. StoreTypeOK
  BY DEF Init, StoreInit, StoreTypeOK, NoLease, Leases, Lefts, NoCycle, CycleRows, Outcomes
<1>2. [token |-> 0, left |-> -Late] \in [token : Nat, left : Lefts]
  BY DEF Lefts
<1>3. TypeOK
  BY <1>1, <1>2, NoRunType DEF Init, StoreInit, TypeOK, Points, NoCached, HasCycle
<1>4. QED
  BY <1>3 DEF Init, TypeInv, CyclesAreDistinct, HasCycle

LEMMA TypeStep == TypeInv /\ [Next]_vars => TypeInv'
<1> SUFFICES ASSUME TypeInv, [Next]_vars PROVE TypeInv'
  OBVIOUS
<1> USE DEF TypeInv, TypeOK, StoreTypeOK, Points, HasCycle, CyclesAreDistinct
<1>1. ASSUME NEW w \in Workers, StartWorker(w) PROVE TypeInv'
  <2>1. lease' \in Leases
    BY <1>1 DEF StartWorker, AcquireLease, Leases, Lefts
  <2>2. [token |-> lease'.token, left |-> LeaseTime] \in [token : Nat, left : Lefts]
    BY <2>1 DEF Leases, Lefts
  <2>3. QED
    BY <1>1, <2>1, <2>2 DEF StartWorker, GoTo
<1>2. ASSUME NEW w \in Workers, Renew(w) PROVE TypeInv'
  <2>1. lease' \in Leases
    BY <1>2 DEF Renew, RenewLease, Leases, Lefts
  <2>2. cached' \in [Procs -> [token : Nat, left : Lefts]]
    BY <1>2 DEF Renew, Lefts
  <2>3. QED
    BY <1>2, <2>1, <2>2 DEF Renew
<1>3. ASSUME NEW w \in Workers, RenewerDies(w) PROVE TypeInv'
  BY <1>3 DEF RenewerDies, storeVars, Fault
<1>4. ASSUME NEW a \in Apis, StartApi(a) PROVE TypeInv'
  BY <1>4 DEF StartApi, GoTo, storeVars
<1>5. ASSUME NEW a \in Apis, SetPaused(a) PROVE TypeInv'
  BY <1>5 DEF SetPaused, storeVars
<1>6. ASSUME NEW p \in Procs, Begin(p) PROVE TypeInv'
  <2>1. [NoRun EXCEPT !.known = controls] \in Runs
    BY NoRunType DEF Runs
  <2>2. run' \in [Procs -> Runs]
    BY <1>6, <2>1 DEF Begin
  <2>3. QED
    BY <1>6, <2>2 DEF Begin, GoTo, storeVars
<1>7. ASSUME NEW p \in Procs, MarketClock(p) PROVE TypeInv'
  <2>1. run' \in [Procs -> Runs]
    BY <1>7 DEF MarketClock, Runs, Outcomes, AllowsNewEntries, AllowsClosing
  <2>2. \A q \in Procs : run'[q].cycle = run[q].cycle
    BY <1>7 DEF MarketClock, Runs
  <2>3. QED
    BY <1>7, <2>1, <2>2 DEF MarketClock, GoTo, storeVars
<1>8. ASSUME NEW p \in Procs, Decide(p) PROVE TypeInv'
  <2>1. run' \in [Procs -> Runs]
    <3>1. AllowsNewEntries(EffectiveControl) \in BOOLEAN /\ AllowsClosing(EffectiveControl) \in BOOLEAN
      BY DEF AllowsNewEntries, AllowsClosing
    <3>2. [run[p] EXCEPT !.entries = AllowsNewEntries(EffectiveControl),
                        !.closes = AllowsClosing(EffectiveControl)] \in Runs
      BY <3>1, PermissionsType
    <3>3. QED
      BY <1>8, <3>2 DEF Decide
  <2>2. \A q \in Procs : run'[q].cycle = run[q].cycle
    BY <1>8 DEF Decide, Runs
  <2>3. QED
    BY <1>8, <2>1, <2>2 DEF Decide, GoTo, storeVars
<1>9. ASSUME NEW p \in Procs, StartCycle(p) PROVE TypeInv'
  <2>1. PICK c \in CycleIds :
            /\ RecordCycleStarted(c, InstanceOf[p], cached[p].token)
            /\ run' = [run EXCEPT ![p].cycle = c]
    BY <1>9 DEF StartCycle
  <2>2. run' \in [Procs -> Runs]
    BY <2>1 DEF Runs
  <2>3. cycles' \in [CycleIds -> CycleRows]
    BY <2>1 DEF RecordCycleStarted, CycleRows
  <2>4. \A q \in Procs : run'[q].cycle = IF q = p THEN c ELSE run[q].cycle
    BY <2>1 DEF Runs
  <2>5. \A q \in Procs \ {p} : pc[q] \in HasCycle => run[q].cycle # c
    BY <2>1 DEF RecordCycleStarted
  <2>6. cycles'[c].state = "STARTED" /\ \A d \in CycleIds \ {c} : cycles'[d] = cycles[d]
    BY <2>1 DEF RecordCycleStarted
  <2>7. TypeOK'
    BY <1>9, <2>2, <2>3, <2>4, <2>5, <2>6 DEF StartCycle, GoTo
  <2>8. CyclesAreDistinct'
    BY <1>9, <2>4, <2>5 DEF StartCycle, GoTo
  <2>9. QED
    BY <2>7, <2>8
<1>10. ASSUME NEW p \in Procs, StartRefused(p) PROVE TypeInv'
  BY <1>10, NoRunType DEF StartRefused, GoTo, storeVars
<1>11. ASSUME NEW p \in Procs, Verify(p) PROVE TypeInv'
  <2>1. run' \in [Procs -> Runs]
    <3>1. PICK e \in BOOLEAN :
              run' = [run EXCEPT
                        ![p].entries = @ /\ run[p].open /\ e,
                        ![p].closes = @ /\ run[p].open /\ e,
                        ![p].outcome = IF ~run[p].open THEN "RECONCILIATION_ONLY"
                                       ELSE IF ~e THEN "ELIGIBILITY_BLOCKED"
                                       ELSE "ENTRY_BLOCKED"]
      BY <1>11 DEF Verify
    <3>2. run[p] \in Runs
      OBVIOUS
    <3>3. /\ (run[p].entries /\ run[p].open /\ e) \in BOOLEAN
          /\ (run[p].closes /\ run[p].open /\ e) \in BOOLEAN
          /\ (IF ~run[p].open THEN "RECONCILIATION_ONLY"
              ELSE IF ~e THEN "ELIGIBILITY_BLOCKED" ELSE "ENTRY_BLOCKED") \in Outcomes
      BY DEF Outcomes
    <3>4. [run[p] EXCEPT !.entries = @ /\ run[p].open /\ e,
                         !.closes = @ /\ run[p].open /\ e,
                         !.outcome = IF ~run[p].open THEN "RECONCILIATION_ONLY"
                                     ELSE IF ~e THEN "ELIGIBILITY_BLOCKED"
                                     ELSE "ENTRY_BLOCKED"] \in Runs
      BY <3>2, <3>3, VerdictType
    <3>5. QED
      BY <3>1, <3>4
  <2>2. \A q \in Procs : run'[q].cycle = run[q].cycle
    BY <1>11 DEF Verify, Runs
  <2>3. QED
    BY <1>11, <2>1, <2>2 DEF Verify, GoTo, storeVars
<1>12. ASSUME NEW p \in Procs, Lifecycle(p) PROVE TypeInv'
  BY <1>12 DEF Lifecycle, GoTo, storeVars
<1>13. ASSUME NEW p \in Procs, Entry(p) PROVE TypeInv'
  <2>1. run' \in [Procs -> Runs]
    BY <1>13 DEF Entry, Runs, Outcomes, AllowsNewEntries, AllowsClosing
  <2>2. \A q \in Procs : run'[q].cycle = run[q].cycle
    BY <1>13 DEF Entry, Runs
  <2>3. QED
    BY <1>13, <2>1, <2>2 DEF Entry, GoTo, storeVars
<1>14. ASSUME NEW p \in Procs, Finish(p) PROVE TypeInv'
  <2>1. run' \in [Procs -> Runs] /\ \A q \in Procs \ {p} : run'[q] = run[q]
    BY <1>14, NoRunType DEF Finish
  <2>2. run[p].cycle \in CycleIds /\ run[p].outcome \in Outcomes
    BY <1>14 DEF Finish, Runs
  <2>3. cycles' \in [CycleIds -> CycleRows]
    <3>1. cycles[run[p].cycle] \in CycleRows
      BY <2>2
    <3>2. [cycles[run[p].cycle] EXCEPT !.state = run[p].outcome] \in CycleRows
      BY <2>2, <3>1, CycleStateType
    <3>3. QED
      BY <1>14, <2>2, <3>2 DEF Finish, RecordCycleFinished
  <2>4. \A d \in CycleIds \ {run[p].cycle} : cycles'[d] = cycles[d]
    BY <1>14 DEF Finish, RecordCycleFinished
  <2>5. \A q \in Procs \ {p} : pc[q] \in HasCycle => run[q].cycle # run[p].cycle
    BY <1>14 DEF Finish
  <2>6. QED
    BY <1>14, <2>1, <2>3, <2>4, <2>5 DEF Finish, GoTo
<1>15. ASSUME NEW p \in Procs, RunRaises(p) PROVE TypeInv'
  <2>1. run' \in [Procs -> Runs] /\ \A q \in Procs \ {p} : run'[q] = run[q]
    <3>1. [run[p] EXCEPT !.outcome = "ERROR"] \in Runs
      <4>1. run[p] \in Runs
        OBVIOUS
      <4>2. "ERROR" \in Outcomes
        BY DEF Outcomes
      <4>3. QED
        BY <4>1, <4>2, OutcomeType
    <3>2. \/ run' = [run EXCEPT ![p] = NoRun]
          \/ run' = [run EXCEPT ![p].outcome = "ERROR"]
      BY <1>15 DEF RunRaises
    <3>3. CASE run' = [run EXCEPT ![p] = NoRun]
      BY <3>3, NoRunType
    <3>4. CASE run' = [run EXCEPT ![p].outcome = "ERROR"]
      BY <3>4, <3>1
    <3>5. QED
      BY <3>2, <3>3, <3>4
  <2>2. pc[p] \in {"gate", "lifecycle", "entry"} => run'[p].cycle = run[p].cycle
    BY <1>15 DEF RunRaises, Runs
  <2>3. faults' \in 0..MaxFaults
    BY <1>15 DEF RunRaises, Fault
  <2>4. QED
    BY <1>15, <2>1, <2>2, <2>3 DEF RunRaises, GoTo, storeVars
<1>16. ASSUME NEW p \in Procs, Crash(p) PROVE TypeInv'
  BY <1>16, NoRunType DEF Crash, GoTo, storeVars, Fault, NoCached, Lefts
<1>17. ASSUME NEW control \in Puttable, SetControl(control) PROVE TypeInv'
  BY <1>17 DEF SetControl, PutControl, procVars
<1>18. CASE Tick
  <2>1. lease' \in Leases
    BY <1>18, LessType DEF Tick, Leases
  <2>2. cached' \in [Procs -> [token : Nat, left : Lefts]]
    <3>1. \A q \in Procs : Less(cached[q].left) \in Lefts
      BY LessType
    <3>2. \A q \in Procs : [cached[q] EXCEPT !.left = Less(@)] \in [token : Nat, left : Lefts]
      BY <3>1
    <3>3. QED
      BY <1>18, <3>2 DEF Tick
  <2>3. run' \in [Procs -> Runs] /\ \A q \in Procs : run'[q].cycle = run[q].cycle
    <3>1. ASSUME NEW q \in Procs PROVE run'[q] \in Runs /\ run'[q].cycle = run[q].cycle
      <4>1. CASE pc[q] \in Awaiting
        <5>1. run[q].age + 1 \in 0..Late
          BY <1>18, <4>1 DEF Tick, Runs
        <5>2. run'[q] = [run[q] EXCEPT !.age = @ + 1]
          BY <1>18, <4>1 DEF Tick
        <5>3. QED
          BY <5>1, <5>2 DEF Runs
      <4>2. CASE pc[q] \notin Awaiting
        BY <1>18, <4>2 DEF Tick
      <4>3. QED
        BY <4>1, <4>2
    <3>2. QED
      BY <1>18, <3>1 DEF Tick
  <2>4. QED
    BY <1>18, <2>1, <2>2, <2>3 DEF Tick
<1>19. CASE UNCHANGED vars
  BY <1>19 DEF vars, storeVars, procVars
<1>20. QED
  BY <1>1, <1>2, <1>3, <1>4, <1>5, <1>6, <1>7, <1>8, <1>9, <1>10, <1>11, <1>12, <1>13,
     <1>14, <1>15, <1>16, <1>17, <1>18, <1>19 DEF Next, Run

(* Tables and processes keep their types, and every run past its start     *)
(* owns the STARTED row it will finish.                                    *)
THEOREM TypeCorrect == Spec => []TypeOK
<1>1. TypeInv => TypeOK
  BY DEF TypeInv
<1>2. QED
  BY TypeInit, TypeStep, <1>1, PTL DEF Spec

LEMMA TypeInvariant == Spec => []TypeInv
BY TypeInit, TypeStep, PTL DEF Spec

-----------------------------------------------------------------------------
(* The lease.                                                              *)

LEMMA LeaseInit == Init => LeaseIsCurrent
<1> SUFFICES ASSUME Init PROVE LeaseIsCurrent
  OBVIOUS
<1>1. \A w \in Workers : ~Holds(w)
  BY DEF Init, Holds, NoCached
<1>2. QED
  BY <1>1 DEF LeaseIsCurrent

(* Steps that leave the row and the remembered leases alone.               *)
LEMMA LeaseUntouched ==
    LeaseIsCurrent /\ UNCHANGED <<lease, cached>> => LeaseIsCurrent'
BY DEF LeaseIsCurrent, Holds

LEMMA LeaseStep == TypeInv /\ LeaseIsCurrent /\ [Next]_vars => LeaseIsCurrent'
<1> SUFFICES ASSUME TypeInv, LeaseIsCurrent, [Next]_vars PROVE LeaseIsCurrent'
  OBVIOUS
<1>0. /\ lease \in Leases
      /\ cached \in [Procs -> [token : Nat, left : Lefts]]
      /\ pc \in [Procs -> Points]
  BY DEF TypeInv, TypeOK, StoreTypeOK
<1>1. ASSUME NEW w \in Workers, StartWorker(w) PROVE LeaseIsCurrent'
  <2>1. lease'.owner = InstanceOf[w] /\ lease'.left = LeaseTime
    BY <1>1 DEF StartWorker, AcquireLease
  <2>2. cached'[w] = [token |-> lease'.token, left |-> LeaseTime]
    BY <1>1, <1>0 DEF StartWorker
  <2>3. ASSUME NEW v \in Workers, v # w, Holds(v)'
        PROVE  lease'.owner = InstanceOf[v] /\ lease'.token = cached'[v].token
                 /\ cached'[v].left <= lease'.left
    <3>1. cached'[v] = cached[v]
      BY <1>1, <1>0, <2>3 DEF StartWorker
    <3>2. Holds(v)
      BY <2>3, <3>1 DEF Holds
    <3>3. lease.owner = InstanceOf[v] /\ lease.token = cached[v].token /\ lease.left > 0
      BY <1>0, <3>2 DEF LeaseIsCurrent, Holds, Leases, Lefts
    <3>4. lease.owner = InstanceOf[w]
      BY <1>0, <1>1, <3>3 DEF StartWorker, AcquireAllowed, Leases, Lefts
    <3>5. lease'.token = lease.token
      BY <1>1, <3>4 DEF StartWorker, AcquireLease
    <3>6. cached[v].left <= LeaseTime
      BY <1>0 DEF Lefts
    <3>7. QED
      BY <2>1, <3>1, <3>3, <3>4, <3>5, <3>6
  <2>4. QED
    BY <2>1, <2>2, <2>3 DEF LeaseIsCurrent
<1>2. ASSUME NEW w \in Workers, Renew(w) PROVE LeaseIsCurrent'
  <2>1. lease'.owner = lease.owner /\ lease'.token = lease.token /\ lease'.left = LeaseTime
    BY <1>2, <1>0 DEF Renew, RenewLease, Leases
  <2>2. cached'[w] = [cached[w] EXCEPT !.left = LeaseTime]
    BY <1>2, <1>0 DEF Renew
  <2>3. cached'[w].left = LeaseTime /\ cached'[w].token = cached[w].token
    BY <2>2, <1>0
  <2>4. lease.owner = InstanceOf[w] /\ lease.token = cached[w].token
    BY <1>2 DEF Renew, LiveLease
  <2>5. ASSUME NEW v \in Workers, v # w, Holds(v)'
        PROVE  lease'.owner = InstanceOf[v] /\ lease'.token = cached'[v].token
                 /\ cached'[v].left <= lease'.left
    <3>1. cached'[v] = cached[v]
      BY <1>2, <1>0, <2>5 DEF Renew
    <3>2. Holds(v) /\ cached[v].left <= LeaseTime
      BY <2>5, <3>1, <1>0 DEF Holds, Lefts
    <3>3. QED
      BY <2>1, <3>1, <3>2 DEF LeaseIsCurrent
  <2>6. QED
    BY <2>1, <2>3, <2>4, <2>5 DEF LeaseIsCurrent
<1>3. ASSUME NEW p \in Procs, Crash(p) PROVE LeaseIsCurrent'
  <2>1. lease' = lease /\ cached' = [cached EXCEPT ![p] = NoCached]
    BY <1>3 DEF Crash, storeVars
  <2>2. ASSUME NEW v \in Workers, Holds(v)' PROVE cached'[v] = cached[v] /\ Holds(v)
    BY <2>1, <2>2, <1>0 DEF Holds, NoCached
  <2>3. QED
    BY <2>1, <2>2 DEF LeaseIsCurrent
<1>4. CASE Tick
  <2>1. lease' = [lease EXCEPT !.left = Less(@)]
    BY <1>4 DEF Tick
  <2>2. lease'.owner = lease.owner /\ lease'.token = lease.token /\ lease'.left = Less(lease.left)
    BY <2>1, <1>0 DEF Leases
  <2>3. ASSUME NEW v \in Workers, Holds(v)'
        PROVE  lease'.owner = InstanceOf[v] /\ lease'.token = cached'[v].token
                 /\ cached'[v].left <= lease'.left
    <3>1. cached'[v] = [cached[v] EXCEPT !.left = Less(@)]
      BY <1>4 DEF Tick
    <3>2. cached'[v].left = Less(cached[v].left) /\ cached'[v].token = cached[v].token
      BY <3>1, <1>0
    <3>3. cached[v].left \in Lefts /\ lease.left \in Lefts
      BY <1>0 DEF Leases
    <3>4. Holds(v)
      BY <2>3, <3>2, <3>3, LessType DEF Holds, Lefts
    <3>5. /\ lease.owner = InstanceOf[v] /\ lease.token = cached[v].token
          /\ cached[v].left <= lease.left
      BY <3>4 DEF LeaseIsCurrent
    <3>6. Less(cached[v].left) <= Less(lease.left)
      BY <3>3, <3>5 DEF Less, Lefts
    <3>7. QED
      BY <2>2, <3>2, <3>5, <3>6
  <2>4. QED
    BY <2>3 DEF LeaseIsCurrent
<1>5. CASE UNCHANGED vars
  BY <1>5, LeaseUntouched DEF vars, storeVars, procVars
<1>6. ASSUME NEW w \in Workers, RenewerDies(w) PROVE LeaseIsCurrent'
  BY <1>6, LeaseUntouched DEF RenewerDies, storeVars
<1>7. ASSUME NEW a \in Apis, StartApi(a) PROVE LeaseIsCurrent'
  BY <1>7, LeaseUntouched DEF StartApi, storeVars
<1>8. ASSUME NEW a \in Apis, SetPaused(a) PROVE LeaseIsCurrent'
  BY <1>8, LeaseUntouched DEF SetPaused, storeVars
<1>9. ASSUME NEW p \in Procs, Begin(p) PROVE LeaseIsCurrent'
  BY <1>9, LeaseUntouched DEF Begin, storeVars
<1>10. ASSUME NEW p \in Procs, MarketClock(p) PROVE LeaseIsCurrent'
  BY <1>10, LeaseUntouched DEF MarketClock, storeVars
<1>11. ASSUME NEW p \in Procs, Decide(p) PROVE LeaseIsCurrent'
  BY <1>11, LeaseUntouched DEF Decide, storeVars
<1>12. ASSUME NEW p \in Procs, StartCycle(p) PROVE LeaseIsCurrent'
  BY <1>12, LeaseUntouched DEF StartCycle, storeVars
<1>13. ASSUME NEW p \in Procs, StartRefused(p) PROVE LeaseIsCurrent'
  BY <1>13, LeaseUntouched DEF StartRefused, storeVars
<1>14. ASSUME NEW p \in Procs, Verify(p) PROVE LeaseIsCurrent'
  BY <1>14, LeaseUntouched DEF Verify, storeVars
<1>15. ASSUME NEW p \in Procs, Lifecycle(p) PROVE LeaseIsCurrent'
  BY <1>15, LeaseUntouched DEF Lifecycle, storeVars
<1>16. ASSUME NEW p \in Procs, Entry(p) PROVE LeaseIsCurrent'
  BY <1>16, LeaseUntouched DEF Entry, storeVars
<1>17. ASSUME NEW p \in Procs, Finish(p) PROVE LeaseIsCurrent'
  BY <1>17, LeaseUntouched DEF Finish, storeVars
<1>18. ASSUME NEW p \in Procs, RunRaises(p) PROVE LeaseIsCurrent'
  BY <1>18, LeaseUntouched DEF RunRaises, storeVars
<1>19. ASSUME NEW control \in Puttable, SetControl(control) PROVE LeaseIsCurrent'
  BY <1>19, LeaseUntouched DEF SetControl, storeVars, procVars
<1>20. QED
  BY <1>1, <1>2, <1>3, <1>4, <1>5, <1>6, <1>7, <1>8, <1>9, <1>10, <1>11, <1>12, <1>13, <1>14, <1>15, <1>16, <1>17, <1>18, <1>19 DEF Next, Run

LEMMA LeaseInvariant == Spec => [](TypeInv /\ LeaseIsCurrent)
<1>1. Init => TypeInv /\ LeaseIsCurrent
  BY TypeInit, LeaseInit
<1>2. TypeInv /\ LeaseIsCurrent /\ [Next]_vars => (TypeInv /\ LeaseIsCurrent)'
  BY TypeStep, LeaseStep
<1>3. QED
  BY <1>1, <1>2, PTL DEF Spec

(* The lease is exclusive, however renewals fail and clocks are read late. *)
THEOREM LeaseExclusive == Spec => []LeaseIsExclusive
<1>1. TypeInv /\ LeaseIsCurrent => LeaseIsExclusive
  BY DEF LeaseIsCurrent, LeaseIsExclusive
<1>2. QED
  BY LeaseInvariant, <1>1, PTL

-----------------------------------------------------------------------------
(* Fencing.                                                                *)

(* Steps that change neither the identity of the rows nor the grant.       *)
LEMMA FencedUntouched ==
    ASSUME CyclesAreFenced, lease'.owner = lease.owner, lease'.token = lease.token,
           \A c \in CycleIds : /\ cycles'[c].owner = cycles[c].owner
                               /\ cycles'[c].token = cycles[c].token
                               /\ cycles'[c].state # "none" => cycles[c].state # "none"
    PROVE  CyclesAreFenced'
BY DEF CyclesAreFenced

LEMMA FencedStep == TypeInv /\ CyclesAreFenced /\ [Next]_vars => CyclesAreFenced'
<1> SUFFICES ASSUME TypeInv, CyclesAreFenced, [Next]_vars PROVE CyclesAreFenced'
  OBVIOUS
<1>0. lease \in Leases /\ cycles \in [CycleIds -> CycleRows]
  BY DEF TypeInv, TypeOK, StoreTypeOK
<1>1. ASSUME NEW w \in Workers, StartWorker(w) PROVE CyclesAreFenced'
  <2>1. cycles' = cycles
    BY <1>1 DEF StartWorker
  <2>2. CASE lease.owner = InstanceOf[w]
    <3>1. lease'.owner = lease.owner /\ lease'.token = lease.token
      BY <1>1, <2>2 DEF StartWorker, AcquireLease
    <3>2. QED
      BY <2>1, <3>1, FencedUntouched
  <2>3. CASE lease.owner # InstanceOf[w]
    <3>1. lease'.token = lease.token + 1
      BY <1>1, <2>3 DEF StartWorker, AcquireLease
    <3>2. ASSUME NEW c \in CycleIds, cycles[c].state # "none"
          PROVE  cycles[c].token < lease'.token
      <4>1. cycles[c].token <= lease.token
        BY <3>2 DEF CyclesAreFenced
      <4>2. cycles[c].token \in Nat /\ lease.token \in Nat
        BY <1>0 DEF CycleRows, Leases
      <4>3. QED
        BY <3>1, <4>1, <4>2
    <3>3. lease'.token \in Nat /\ \A c \in CycleIds : cycles[c].token \in Nat
      BY <1>0, <3>1 DEF CycleRows, Leases
    <3>4. QED
      BY <2>1, <3>2, <3>3 DEF CyclesAreFenced
  <2>4. QED
    BY <2>2, <2>3
<1>2. ASSUME NEW w \in Workers, Renew(w) PROVE CyclesAreFenced'
  <2>1. lease'.owner = lease.owner /\ lease'.token = lease.token /\ cycles' = cycles
    BY <1>2, <1>0 DEF Renew, RenewLease, Leases
  <2>2. QED
    BY <2>1, FencedUntouched
<1>3. ASSUME NEW p \in Procs, StartCycle(p) PROVE CyclesAreFenced'
  <2>1. PICK c \in CycleIds : RecordCycleStarted(c, InstanceOf[p], cached[p].token)
    BY <1>3 DEF StartCycle
  <2>2. lease' = lease /\ lease.owner = InstanceOf[p] /\ lease.token = cached[p].token
    BY <1>3 DEF StartCycle, StartAllowed, LiveLease
  <2>3. cycles'[c] = [owner |-> lease.owner, token |-> lease.token, state |-> "STARTED"]
    BY <2>1, <2>2, <1>0 DEF RecordCycleStarted
  <2>4. \A d \in CycleIds \ {c} : cycles'[d] = cycles[d]
    BY <2>1, <1>0 DEF RecordCycleStarted
  <2>5. ASSUME NEW d \in CycleIds, cycles'[d].state # "none"
        PROVE  cycles'[d].token <= lease.token /\
                 (cycles'[d].token = lease.token => cycles'[d].owner = lease.owner)
    <3>1. CASE d = c
      BY <2>3, <3>1, <1>0 DEF Leases
    <3>2. CASE d # c
      BY <2>4, <2>5, <3>2 DEF CyclesAreFenced
    <3>3. QED
      BY <3>1, <3>2
  <2>6. ASSUME NEW d \in CycleIds, NEW e \in CycleIds, cycles'[d].state # "none",
               cycles'[e].state # "none", cycles'[e].token = cycles'[d].token
        PROVE  cycles'[e].owner = cycles'[d].owner
    <3>1. CASE d = c \/ e = c
      BY <2>3, <2>5, <2>6, <3>1
    <3>2. CASE d # c /\ e # c
      BY <2>4, <2>6, <3>2 DEF CyclesAreFenced
    <3>3. QED
      BY <3>1, <3>2
  <2>7. QED
    BY <2>2, <2>5, <2>6 DEF CyclesAreFenced
<1>4. ASSUME NEW p \in Procs, Finish(p) PROVE CyclesAreFenced'
  <2>1. run[p].cycle \in CycleIds /\ cycles[run[p].cycle].state = "STARTED"
    BY <1>4 DEF Finish, TypeInv, TypeOK, HasCycle
  <2>2. lease' = lease
    BY <1>4 DEF Finish
  <2>3. \A c \in CycleIds : /\ cycles'[c].owner = cycles[c].owner
                            /\ cycles'[c].token = cycles[c].token
                            /\ cycles'[c].state # "none" => cycles[c].state # "none"
    BY <1>4, <2>1, <1>0 DEF Finish, RecordCycleFinished, CycleRows
  <2>4. QED
    BY <2>2, <2>3, FencedUntouched
<1>5. CASE Tick
  <2>1. lease'.owner = lease.owner /\ lease'.token = lease.token /\ cycles' = cycles
    BY <1>5, <1>0 DEF Tick, Leases
  <2>2. QED
    BY <2>1, FencedUntouched
<1>6. CASE UNCHANGED vars
  <2>1. lease' = lease /\ cycles' = cycles
    BY <1>6 DEF vars, storeVars
  <2>2. QED
    BY <2>1, FencedUntouched
<1>7. ASSUME NEW w \in Workers, RenewerDies(w) PROVE CyclesAreFenced'
  BY <1>7, FencedUntouched DEF RenewerDies, storeVars
<1>8. ASSUME NEW a \in Apis, StartApi(a) PROVE CyclesAreFenced'
  BY <1>8, FencedUntouched DEF StartApi, storeVars
<1>9. ASSUME NEW a \in Apis, SetPaused(a) PROVE CyclesAreFenced'
  BY <1>9, FencedUntouched DEF SetPaused, storeVars
<1>10. ASSUME NEW p \in Procs, Begin(p) PROVE CyclesAreFenced'
  BY <1>10, FencedUntouched DEF Begin, storeVars
<1>11. ASSUME NEW p \in Procs, MarketClock(p) PROVE CyclesAreFenced'
  BY <1>11, FencedUntouched DEF MarketClock, storeVars
<1>12. ASSUME NEW p \in Procs, Decide(p) PROVE CyclesAreFenced'
  BY <1>12, FencedUntouched DEF Decide, storeVars
<1>13. ASSUME NEW p \in Procs, StartRefused(p) PROVE CyclesAreFenced'
  BY <1>13, FencedUntouched DEF StartRefused, storeVars
<1>14. ASSUME NEW p \in Procs, Verify(p) PROVE CyclesAreFenced'
  BY <1>14, FencedUntouched DEF Verify, storeVars
<1>15. ASSUME NEW p \in Procs, Lifecycle(p) PROVE CyclesAreFenced'
  BY <1>15, FencedUntouched DEF Lifecycle, storeVars
<1>16. ASSUME NEW p \in Procs, Entry(p) PROVE CyclesAreFenced'
  BY <1>16, FencedUntouched DEF Entry, storeVars
<1>17. ASSUME NEW p \in Procs, RunRaises(p) PROVE CyclesAreFenced'
  BY <1>17, FencedUntouched DEF RunRaises, storeVars
<1>18. ASSUME NEW p \in Procs, Crash(p) PROVE CyclesAreFenced'
  BY <1>18, FencedUntouched DEF Crash, storeVars
<1>19. ASSUME NEW control \in Puttable, SetControl(control) PROVE CyclesAreFenced'
  BY <1>19, FencedUntouched DEF SetControl, storeVars
<1>20. QED
  BY <1>1, <1>2, <1>3, <1>4, <1>5, <1>6, <1>7, <1>8, <1>9, <1>10, <1>11, <1>12, <1>13, <1>14, <1>15, <1>16, <1>17, <1>18, <1>19 DEF Next, Run

(* Cycle rows are fenced by the lease's token.                             *)
THEOREM CyclesFenced == Spec => []CyclesAreFenced
<1>1. Init => CyclesAreFenced
  BY DEF Init, StoreInit, NoCycle, CyclesAreFenced
<1>2. QED
  BY TypeInvariant, <1>1, FencedStep, PTL DEF Spec

-----------------------------------------------------------------------------
(* Controls.                                                               *)

LEMMA JustifiedInit == Init => PermissionsAreJustified
<1> SUFFICES ASSUME Init PROVE PermissionsAreJustified
  OBVIOUS
<1>1. \A p \in Procs : pc[p] = "down" /\ run[p].known = {}
  BY DEF Init, NoRun
<1>2. QED
  BY <1>1 DEF PermissionsAreJustified

Justified(p) ==
    /\ run[p].known \subseteq controls
    /\ pc[p] \in {"start", "gate", "lifecycle", "entry"} =>
          \A c \in run[p].known : c.scope = "account" =>
              /\ run[p].entries => AllowsNewEntries(c.state)
              /\ run[p].closes => AllowsClosing(c.state)
    /\ pc[p] = "entry" => run[p].entries

(* Other runs keep what they had, and the controls only grow.              *)
LEMMA OthersStayJustified ==
    ASSUME PermissionsAreJustified, NEW q \in Procs, run'[q] = run[q], pc'[q] = pc[q],
           controls \subseteq controls'
    PROVE  Justified(q)'
BY DEF PermissionsAreJustified, Justified

(* A run that is over, or has none of the later points, is justified.      *)
LEMMA EarlyRunsAreJustified ==
    ASSUME NEW q \in Procs, run'[q].known \subseteq controls',
           pc'[q] \notin {"start", "gate", "lifecycle", "entry"}
    PROVE  Justified(q)'
BY DEF Justified

LEMMA JustifiedStep == TypeInv /\ PermissionsAreJustified /\ [Next]_vars => PermissionsAreJustified'
<1> SUFFICES ASSUME TypeInv, PermissionsAreJustified, [Next]_vars, NEW q \in Procs
             PROVE  Justified(q)'
  BY DEF PermissionsAreJustified, Justified
<1>0. /\ StoreTypeOK
      /\ pc \in [Procs -> Points]
      /\ run \in [Procs -> Runs]
  BY DEF TypeInv, TypeOK
<1>1. Justified(q)
  BY DEF PermissionsAreJustified, Justified
<1>2. NoRun.known = {}
  BY DEF NoRun
<1>3. ASSUME NEW p \in Procs, Begin(p) PROVE Justified(q)'
  <2>1. CASE q = p
    <3>1. run'[q] = [NoRun EXCEPT !.known = controls] /\ pc'[q] = "clock" /\ controls' = controls
      BY <1>0, <1>3, <2>1 DEF Begin, GoTo, storeVars
    <3>2. run'[q].known = controls
      BY <3>1 DEF NoRun
    <3>3. QED
      BY <3>1, <3>2, EarlyRunsAreJustified
  <2>2. CASE q # p
    BY <1>0, <1>3, <2>2, OthersStayJustified DEF Begin, GoTo, storeVars
  <2>3. QED
    BY <2>1, <2>2
<1>4. ASSUME NEW p \in Procs, MarketClock(p) PROVE Justified(q)'
  <2>1. CASE q = p
    <3>1. run'[q].known = run[q].known /\ pc'[q] = "decide" /\ controls' = controls
      BY <1>0, <1>4, <2>1 DEF MarketClock, GoTo, storeVars, Runs
    <3>2. QED
      BY <1>1, <3>1, EarlyRunsAreJustified DEF Justified
  <2>2. CASE q # p
    BY <1>0, <1>4, <2>2, OthersStayJustified DEF MarketClock, GoTo, storeVars
  <2>3. QED
    BY <2>1, <2>2
<1>5. ASSUME NEW p \in Procs, Decide(p) PROVE Justified(q)'
  <2>1. CASE q = p
    <3>1. /\ run'[q].known = run[q].known
          /\ run'[q].entries = AllowsNewEntries(EffectiveControl)
          /\ run'[q].closes = AllowsClosing(EffectiveControl)
          /\ pc'[q] = "start" /\ controls' = controls
      BY <1>0, <1>5, <2>1 DEF Decide, GoTo, storeVars, Runs
    <3>2. ASSUME NEW c \in run[q].known, c.scope = "account"
          PROVE  /\ AllowsNewEntries(EffectiveControl) => AllowsNewEntries(c.state)
                 /\ AllowsClosing(EffectiveControl) => AllowsClosing(c.state)
      <4>1. c \in controls
        BY <1>1 DEF Justified
      <4>2. c.state \in ControlStates /\ EffectiveControl \in ControlStates
              /\ Rank(EffectiveControl) <= Rank(c.state)
        BY <1>0, <3>2, <4>1, EffectiveControlIsLeast DEF StoreTypeOK, Controls
      <4>3. Rank("FROZEN_REVIEW") = 0 /\ Rank("PAUSED") = 1 /\ Rank("CLOSING_ONLY") = 2
              /\ Rank("RUNNING") = 3
        BY DEF Rank
      <4>4. QED
        BY <4>2, <4>3 DEF ControlStates, AllowsNewEntries, AllowsClosing
    <3>3. QED
      BY <1>1, <3>1, <3>2 DEF Justified
  <2>2. CASE q # p
    BY <1>0, <1>5, <2>2, OthersStayJustified DEF Decide, GoTo, storeVars
  <2>3. QED
    BY <2>1, <2>2
<1>6. ASSUME NEW p \in Procs, StartCycle(p) PROVE Justified(q)'
  <2>1. CASE q = p
    <3>1. /\ run'[q].known = run[q].known
          /\ run'[q].entries = run[q].entries /\ run'[q].closes = run[q].closes
          /\ pc[q] = "start" /\ pc'[q] = "gate" /\ controls' = controls
      BY <1>0, <1>6, <2>1 DEF StartCycle, GoTo, Runs
    <3>2. QED
      BY <1>1, <3>1 DEF Justified
  <2>2. CASE q # p
    BY <1>0, <1>6, <2>2, OthersStayJustified DEF StartCycle, GoTo
  <2>3. QED
    BY <2>1, <2>2
<1>7. ASSUME NEW p \in Procs, Verify(p) PROVE Justified(q)'
  <2>1. CASE q = p
    <3>1. PICK e \in BOOLEAN : run' = [run EXCEPT
                    ![p].entries = @ /\ run[p].open /\ e,
                    ![p].closes = @ /\ run[p].open /\ e,
                    ![p].outcome = IF ~run[p].open THEN "RECONCILIATION_ONLY"
                                   ELSE IF ~e THEN "ELIGIBILITY_BLOCKED"
                                   ELSE "ENTRY_BLOCKED"]
      BY <1>7 DEF Verify
    <3>2. /\ run'[q].known = run[q].known
          /\ run'[q].entries = (run[q].entries /\ run[q].open /\ e)
          /\ run'[q].closes = (run[q].closes /\ run[q].open /\ e)
      BY <1>0, <2>1, <3>1 DEF Runs
    <3>3. pc[q] = "gate" /\ pc'[q] = "lifecycle" /\ controls' = controls
      BY <1>0, <1>7, <2>1 DEF Verify, GoTo, storeVars
    <3>4. QED
      BY <1>1, <3>2, <3>3 DEF Justified
  <2>2. CASE q # p
    BY <1>0, <1>7, <2>2, OthersStayJustified DEF Verify, GoTo, storeVars
  <2>3. QED
    BY <2>1, <2>2
<1>8. ASSUME NEW p \in Procs, Lifecycle(p) PROVE Justified(q)'
  <2>1. CASE q = p
    <3>1. PICK b \in BOOLEAN : pc' = [pc EXCEPT ![p] = IF run[p].entries /\ ~b THEN "entry" ELSE "finish"]
      BY <1>8 DEF Lifecycle, GoTo
    <3>2. (pc'[q] = "entry" /\ run[q].entries) \/ pc'[q] = "finish"
      BY <1>0, <2>1, <3>1
    <3>3. run' = run /\ controls' = controls /\ pc[q] = "lifecycle"
      BY <1>8, <2>1 DEF Lifecycle, storeVars
    <3>4. QED
      BY <1>1, <3>2, <3>3 DEF Justified
  <2>2. CASE q # p
    BY <1>0, <1>8, <2>2, OthersStayJustified DEF Lifecycle, GoTo, storeVars
  <2>3. QED
    BY <2>1, <2>2
<1>9. ASSUME NEW p \in Procs, Entry(p) PROVE Justified(q)'
  <2>1. CASE q = p
    <3>1. run'[q].known = run[q].known /\ pc'[q] = "finish" /\ controls' = controls
      BY <1>0, <1>9, <2>1 DEF Entry, GoTo, storeVars, Runs
    <3>2. QED
      BY <1>1, <3>1, EarlyRunsAreJustified DEF Justified
  <2>2. CASE q # p
    BY <1>0, <1>9, <2>2, OthersStayJustified DEF Entry, GoTo, storeVars
  <2>3. QED
    BY <2>1, <2>2
<1>10. ASSUME NEW p \in Procs, StartRefused(p) \/ Finish(p) \/ Crash(p) PROVE Justified(q)'
  <2>1. controls' = controls /\ run' = [run EXCEPT ![p] = NoRun]
          /\ pc' \in {[pc EXCEPT ![p] = "idle"], [pc EXCEPT ![p] = "down"]}
    BY <1>10 DEF StartRefused, Finish, Crash, GoTo, storeVars
  <2>2. CASE q = p
    BY <1>0, <1>2, <2>1, <2>2, EarlyRunsAreJustified
  <2>3. CASE q # p
    BY <1>0, <2>1, <2>3, OthersStayJustified
  <2>4. QED
    BY <2>2, <2>3
<1>11. ASSUME NEW p \in Procs, RunRaises(p) PROVE Justified(q)'
  <2>1. controls' = controls
    BY <1>11 DEF RunRaises, storeVars
  <2>2. CASE q = p
    <3>1. run'[q].known \in {{}, run[q].known} /\ pc'[q] \in {"idle", "finish"}
      BY <1>0, <1>2, <1>11, <2>2 DEF RunRaises, GoTo, Runs
    <3>2. QED
      BY <1>1, <2>1, <3>1, EarlyRunsAreJustified DEF Justified
  <2>3. CASE q # p
    BY <1>0, <1>11, <2>1, <2>3, OthersStayJustified DEF RunRaises, GoTo
  <2>4. QED
    BY <2>2, <2>3
<1>12. ASSUME NEW control \in Puttable, SetControl(control) PROVE Justified(q)'
  BY <1>12, OthersStayJustified DEF SetControl, PutControl, procVars
<1>13. ASSUME NEW w \in Workers, StartWorker(w) PROVE Justified(q)'
  <2>1. CASE q = w
    BY <1>0, <1>1, <1>13, <2>1 DEF StartWorker, GoTo, Justified
  <2>2. CASE q # w
    BY <1>0, <1>13, <2>2, OthersStayJustified DEF StartWorker, GoTo
  <2>3. QED
    BY <2>1, <2>2
<1>14. ASSUME NEW a \in Apis, StartApi(a) PROVE Justified(q)'
  <2>1. CASE q = a
    BY <1>0, <1>1, <1>14, <2>1 DEF StartApi, GoTo, storeVars, Justified
  <2>2. CASE q # a
    BY <1>0, <1>14, <2>2, OthersStayJustified DEF StartApi, GoTo, storeVars
  <2>3. QED
    BY <2>1, <2>2
<1>15. ASSUME NEW w \in Workers, Renew(w) \/ RenewerDies(w) PROVE Justified(q)'
  BY <1>15, OthersStayJustified DEF Renew, RenewerDies, storeVars
<1>16. ASSUME NEW a \in Apis, SetPaused(a) PROVE Justified(q)'
  BY <1>16, OthersStayJustified DEF SetPaused, storeVars
<1>17. CASE Tick
  <2>1. pc' = pc /\ controls' = controls
    BY <1>17 DEF Tick
  <2>2. /\ run'[q].known = run[q].known
        /\ run'[q].entries = run[q].entries /\ run'[q].closes = run[q].closes
    BY <1>0, <1>17 DEF Tick, Runs
  <2>3. QED
    BY <1>1, <2>1, <2>2 DEF Justified
<1>18. CASE UNCHANGED vars
  BY <1>18, OthersStayJustified DEF vars, storeVars, procVars
<1>19. QED
  BY <1>3, <1>4, <1>5, <1>6, <1>7, <1>8, <1>9, <1>10, <1>11, <1>12, <1>13, <1>14, <1>15,
     <1>16, <1>17, <1>18 DEF Next, Run

(* Whatever interleaves, a run obeys every control put before it began.    *)
THEOREM ControlsObeyed == Spec => []ControlsAreObeyed
<1>1. PermissionsAreJustified => ControlsAreObeyed
  BY DEF PermissionsAreJustified, ControlsAreObeyed
<1>2. QED
  BY TypeInvariant, JustifiedInit, JustifiedStep, <1>1, PTL DEF Spec

-----------------------------------------------------------------------------
(* The lease keeps its contract.  The newest epoch in which work was begun *)
(* is the greatest token of the rows, which exists because no row has a    *)
(* token that was not granted.                                             *)

TokensAreGranted == \A c \in CycleIds : cycles[c].token <= lease.token

(* The steps that write the lease or the cycle rows.                       *)
LEMMA StepsOfTheTables ==
    ASSUME [Next]_vars
    PROVE  \/ \E w \in Workers : StartWorker(w) \/ Renew(w)
           \/ \E p \in Procs : StartCycle(p) \/ Finish(p)
           \/ Tick
           \/ UNCHANGED <<lease, cycles>>
<1>1. ASSUME NEW w \in Workers, RenewerDies(w) PROVE UNCHANGED <<lease, cycles>>
  BY <1>1 DEF RenewerDies, storeVars
<1>2. ASSUME NEW a \in Apis, StartApi(a) \/ SetPaused(a) PROVE UNCHANGED <<lease, cycles>>
  BY <1>2 DEF StartApi, SetPaused, storeVars
<1>3. ASSUME NEW p \in Procs, Begin(p) \/ RunRaises(p) \/ Crash(p)
      PROVE  UNCHANGED <<lease, cycles>>
  BY <1>3 DEF Begin, RunRaises, Crash, storeVars
<1>4. ASSUME NEW p \in Procs,
             \/ MarketClock(p) \/ Decide(p) \/ StartRefused(p)
             \/ Verify(p) \/ Lifecycle(p) \/ Entry(p)
      PROVE  UNCHANGED <<lease, cycles>>
  BY <1>4 DEF MarketClock, Decide, StartRefused, Verify, Lifecycle, Entry, storeVars
<1>5. ASSUME NEW control \in Puttable, SetControl(control) PROVE UNCHANGED <<lease, cycles>>
  BY <1>5 DEF SetControl
<1>6. CASE UNCHANGED vars
  BY <1>6 DEF vars, storeVars
<1>7. QED
  BY <1>1, <1>2, <1>3, <1>4, <1>5, <1>6 DEF Next, Run

LEMMA GrantedStep == TypeInv /\ TokensAreGranted /\ [Next]_vars => TokensAreGranted'
<1> SUFFICES ASSUME TypeInv, TokensAreGranted, [Next]_vars PROVE TokensAreGranted'
  OBVIOUS
<1>0. lease \in Leases /\ cycles \in [CycleIds -> CycleRows]
  BY DEF TypeInv, TypeOK, StoreTypeOK
<1>1. CASE cycles' = cycles /\ lease'.token >= lease.token /\ lease'.token \in Nat
  BY <1>0, <1>1 DEF TokensAreGranted, Leases, CycleRows
<1>2. ASSUME NEW w \in Workers, StartWorker(w) \/ Renew(w) PROVE TokensAreGranted'
  <2>1. cycles' = cycles /\ lease'.token >= lease.token /\ lease'.token \in Nat
    BY <1>0, <1>2 DEF StartWorker, AcquireLease, Renew, RenewLease, Leases
  <2>2. QED
    BY <1>1, <2>1
<1>3. ASSUME NEW p \in Procs, StartCycle(p) PROVE TokensAreGranted'
  BY <1>0, <1>3 DEF StartCycle, StartAllowed, LiveLease, RecordCycleStarted, TokensAreGranted, Leases, CycleRows
<1>4. ASSUME NEW p \in Procs, Finish(p) PROVE TokensAreGranted'
  BY <1>0, <1>4 DEF Finish, RecordCycleFinished, TokensAreGranted, Leases, CycleRows
<1>5. CASE Tick
  BY <1>0, <1>1, <1>5 DEF Tick, Leases
<1>6. CASE UNCHANGED <<lease, cycles>>
  BY <1>0, <1>1, <1>6 DEF Leases
<1>7. QED
  BY <1>2, <1>3, <1>4, <1>5, <1>6, StepsOfTheTables

(* The token of the newest row.                                            *)
NewestToken(rows) ==
    rows[CHOOSE c \in CycleIds : \A d \in CycleIds : rows[d].token <= rows[c].token].token

LEMMA NewestTokenIsGreatest ==
    ASSUME NEW rows \in [CycleIds -> CycleRows], NEW n \in Nat,
           \A c \in CycleIds : rows[c].token <= n
    PROVE  /\ \A c \in CycleIds : rows[c].token <= NewestToken(rows)
           /\ \E c \in CycleIds : NewestToken(rows) = rows[c].token
<1> DEFINE T == {rows[c].token : c \in CycleIds}
<1>1. PICK m \in T : \A t \in T : t <= m
  <2>1. T \subseteq Nat /\ T # {} /\ \A t \in T : t <= n
    BY DEF CycleRows
  <2> HIDE DEF T
  <2>2. QED
    BY <2>1, GreatestNatural
<1>2. \E c \in CycleIds : \A d \in CycleIds : rows[d].token <= rows[c].token
  BY <1>1
<1>3. QED
  BY <1>2 DEF NewestToken

LEMMA SameNewestToken ==
    ASSUME NEW n \in Nat, NEW rows \in [CycleIds -> CycleRows], \A c \in CycleIds : rows[c].token <= n,
           NEW later \in [CycleIds -> CycleRows],
           \A c \in CycleIds : later[c].token = rows[c].token
    PROVE  NewestToken(later) = NewestToken(rows)
<1>1. /\ \A c \in CycleIds : rows[c].token <= NewestToken(rows)
      /\ \E c \in CycleIds : NewestToken(rows) = rows[c].token
  BY NewestTokenIsGreatest
<1>2. /\ \A c \in CycleIds : later[c].token <= NewestToken(later)
      /\ \E c \in CycleIds : NewestToken(later) = later[c].token
  BY NewestTokenIsGreatest
<1>3. \A c \in CycleIds : rows[c].token \in Nat
  BY DEF CycleRows
<1>4. QED
  BY <1>1, <1>2, <1>3

LeaseSteps == [Contract!Next]_(Contract!contractVars)

LEMMA GrantRefines ==
    ASSUME TypeInv, NEW w \in Workers, StartWorker(w) \/ Renew(w)
    PROVE  LeaseSteps
<1>1. lease \in Leases /\ cycles' = cycles /\ InstanceOf[w] \in Instances
  BY DEF TypeInv, TypeOK, StoreTypeOK, StartWorker, Renew
<1>2. /\ lease.owner = InstanceOf[w] \/ ~(lease.left > 0)
      /\ lease'.owner = InstanceOf[w]
      /\ lease'.token = IF lease.owner = InstanceOf[w] THEN lease.token ELSE lease.token + 1
      /\ lease'.left > 0
  BY <1>1 DEF StartWorker, AcquireAllowed, AcquireLease, Renew, LiveLease, RenewLease, Leases, Lefts
<1>3. Contract!Grant(InstanceOf[w])
  BY <1>1, <1>2 DEF Contract!Grant, Latest
<1>4. QED
  BY <1>1, <1>3 DEF LeaseSteps, Contract!Next

LEMMA BeginRefines ==
    ASSUME TypeInv, TokensAreGranted, TypeInv', TokensAreGranted',
           NEW p \in Procs, StartCycle(p)
    PROVE  LeaseSteps
<1>1. PICK c \in CycleIds : RecordCycleStarted(c, InstanceOf[p], cached[p].token)
  BY DEF StartCycle
<1>2. lease' = lease /\ lease.token = cached[p].token /\ lease.token > 0 /\ lease.token \in Nat
  BY DEF StartCycle, StartAllowed, LiveLease, TypeInv, TypeOK, StoreTypeOK, Leases
<1>3. cycles' \in [CycleIds -> CycleRows] /\ cycles'[c].token = lease.token
  BY <1>1, <1>2 DEF RecordCycleStarted, TypeInv, TypeOK, StoreTypeOK
<1>4. \A d \in CycleIds : cycles'[d].token <= lease.token /\ cycles'[d].token \in Nat
  BY <1>2, <1>3 DEF TokensAreGranted, CycleRows
<1>5. NewestToken(cycles') = lease.token
  BY <1>2, <1>3, <1>4, NewestTokenIsGreatest
<1>6. cycles'[Latest'].token = lease.token
  BY <1>5 DEF NewestToken, Latest
<1>7. Contract!Begin
  BY <1>2, <1>6 DEF Contract!Begin
<1>8. QED
  BY <1>7 DEF LeaseSteps, Contract!Next

(* A step that leaves the grant and the tokens of the rows alone.          *)
LEMMA TokensStay ==
    ASSUME TypeInv, TokensAreGranted, TypeInv',
           lease'.owner = lease.owner, lease'.token = lease.token,
           \A c \in CycleIds : cycles'[c].token = cycles[c].token
    PROVE  UNCHANGED <<lease.owner, lease.token, cycles[Latest].token>>
<1>1. /\ cycles \in [CycleIds -> CycleRows] /\ cycles' \in [CycleIds -> CycleRows]
      /\ lease.token \in Nat
  BY DEF TypeInv, TypeOK, StoreTypeOK, Leases
<1>2. NewestToken(cycles') = NewestToken(cycles)
  BY <1>1, SameNewestToken DEF TokensAreGranted
<1>3. QED
  BY <1>2 DEF NewestToken, Latest

LEMMA LeaseStepRefines ==
    ASSUME TypeInv, TokensAreGranted, TypeInv', TokensAreGranted', [Next]_vars
    PROVE  LeaseSteps
<1>0. lease \in Leases /\ cycles \in [CycleIds -> CycleRows]
  BY DEF TypeInv, TypeOK, StoreTypeOK
<1>1. ASSUME NEW p \in Procs, Finish(p) PROVE LeaseSteps
  <2>1. lease' = lease /\ \A c \in CycleIds : cycles'[c].token = cycles[c].token
    BY <1>0, <1>1 DEF Finish, RecordCycleFinished, CycleRows
  <2>2. UNCHANGED <<lease.owner, lease.token, cycles[Latest].token>>
    BY <2>1, TokensStay
  <2>3. QED
    BY <2>1, <2>2 DEF LeaseSteps, Contract!contractVars
<1>2. CASE Tick
  <2>1. /\ lease'.owner = lease.owner /\ lease'.token = lease.token /\ cycles' = cycles
        /\ lease'.left > 0 => lease.left > 0
    BY <1>0, <1>2 DEF Tick, Leases, Lefts, Less
  <2>2. UNCHANGED <<lease.owner, lease.token, cycles[Latest].token>>
    BY <2>1, TokensStay
  <2>3. CASE lease.left > 0 /\ ~(lease'.left > 0)
    <3>1. Contract!Lapse
      BY <2>2, <2>3 DEF Contract!Lapse
    <3>2. QED
      BY <3>1 DEF LeaseSteps, Contract!Next
  <2>4. CASE (lease.left > 0) = (lease'.left > 0)
    BY <2>2, <2>4 DEF LeaseSteps, Contract!contractVars
  <2>5. QED
    BY <2>1, <2>3, <2>4
<1>3. CASE UNCHANGED <<lease, cycles>>
  BY <1>3 DEF LeaseSteps, Contract!contractVars, Latest
<1>4. QED
  BY <1>1, <1>2, <1>3, GrantRefines, BeginRefines, StepsOfTheTables

(* The lease is granted to a new owner only after it ran out, each such    *)
(* grant opens a new epoch, and work is only begun in the newest: the      *)
(* tables and the processes implement LeaseContract.                       *)
THEOREM LeaseKeepsContract == Spec => KeepsLeaseContract
<1>1. Init => TokensAreGranted
  BY DEF Init, StoreInit, NoCycle, NoLease, TokensAreGranted
<1>2. Init => Contract!Init
  <2>1. SUFFICES ASSUME Init PROVE Contract!Init
    OBVIOUS
  <2>2. /\ lease.owner = NoInstance /\ lease.token = 0 /\ ~(lease.left > 0)
        /\ \A c \in CycleIds : cycles[c].token = 0
    BY <2>1 DEF Init, StoreInit, NoLease, NoCycle
  <2>3. cycles[Latest].token = 0
    <3>1. \E c \in CycleIds : \A d \in CycleIds : cycles[d].token <= cycles[c].token
      BY <2>2
    <3>2. Latest \in CycleIds
      BY <3>1 DEF Latest
    <3>3. QED
      BY <2>2, <3>2
  <2>4. QED
    BY <2>2, <2>3 DEF Contract!Init
<1>3. TypeInv /\ TokensAreGranted /\ [Next]_vars => LeaseSteps
  BY TypeStep, GrantedStep, LeaseStepRefines
<1>4. QED
  BY <1>1, <1>2, <1>3, TypeInvariant, GrantedStep, PTL
     DEF Spec, KeepsLeaseContract, Contract!Spec, LeaseSteps

=============================================================================
