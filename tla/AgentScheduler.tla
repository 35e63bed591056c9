--------------------------- MODULE AgentScheduler ---------------------------
(***************************************************************************)
(* The processes that run trading cycles: worker processes (run_worker: a  *)
(* lease, a renewer task and the scheduler's loop) and API processes,      *)
(* whose scheduler only serves run-now requests and never takes a lease.   *)
(* Every await of AgentScheduler._run is a step boundary.  The in-process  *)
(* lock admits one run per process, so the run is state of its process.    *)
(*                                                                         *)
(* What a cycle does to positions and intents is modelled elsewhere; here  *)
(* it matters who runs one, when, and with which permissions.              *)
(***************************************************************************)
EXTENDS RuntimeStore

CONSTANTS
    Workers,     \* worker processes
    Apis,        \* API processes
    InstanceOf,  \* InstanceOf[p]: the runtime_instance_id of process p
    RenewEvery,  \* the renewer's interval
    NoCycleId,   \* the cycle of a run that has none
    MinCycle,    \* MINIMUM_FINANCIAL_CYCLE_LEASE_SECONDS
    HasGate,     \* whether an eligibility gate is wired in
    Puttable,    \* the controls operators and incidents put
    MaxFaults,   \* bound on crashes, failed renewals and failed recordings
    Faults       \* what may go wrong, a subset of FaultKinds

Procs == Workers \cup Apis

FaultKinds ==
    {"crash",        \* a process stops, or is stopped, between two steps
     "renew_error",  \* a renewal raises
     "slow_renewal", \* the renewer is not scheduled in time
     "run_error"}    \* the market clock, the gate or a stage of a run raises

ASSUME SchedulerAssumption ==
    /\ InstanceOf \in [Procs -> Instances]
    /\ Workers \cap Apis = {}
    /\ NoCycleId \notin CycleIds
    /\ RenewEvery \in Nat \ {0}
    /\ RenewEvery < LeaseTime
    /\ MinCycle \in Nat \ {0}
    /\ HasGate \in BOOLEAN
    /\ Puttable \subseteq Controls
    /\ MaxFaults \in Nat
    /\ Faults \subseteq FaultKinds

VARIABLES
    pc,        \* pc[p]: the await at which the run of p stands
    cached,    \* cached[p]: RuntimeCoordinator._lease (token and what is left)
    renewing,  \* renewing[p]: the renewer task is alive
    paused,    \* paused[p]: AgentScheduler._paused
    run,       \* run[p]: the local variables of the run
    faults     \* how many bounded faults there were

procVars == <<pc, cached, renewing, paused, run>>
vars == <<storeVars, procVars, faults>>

Points == {"down", "idle", "clock", "decide", "start", "gate", "lifecycle", "entry", "finish"}
HasCycle == {"gate", "lifecycle", "entry", "finish"}
Awaiting == {"clock", "decide", "start"}   \* between reading the clock and using it

NoCached == [token |-> 0, left |-> -Late]
Runs == [age : 0..Late,             \* how long ago started_at was read
         open : BOOLEAN,            \* market_open
         entries : BOOLEAN,         \* allow_new_entries
         closes : BOOLEAN,          \* allow_close_submission
         cycle : CycleIds \cup {NoCycleId},
         outcome : Outcomes,
         known : SUBSET Puttable]   \* history: the controls in force when it began
NoRun == [age |-> 0, open |-> FALSE, entries |-> FALSE, closes |-> FALSE,
          cycle |-> NoCycleId, outcome |-> "ERROR", known |-> {}]

TypeOK ==
    /\ StoreTypeOK
    /\ controls \subseteq Puttable
    /\ pc \in [Procs -> Points]
    /\ cached \in [Procs -> [token : Nat, left : Lefts]]
    /\ renewing \in [Procs -> BOOLEAN]
    /\ paused \in [Procs -> BOOLEAN]
    /\ run \in [Procs -> Runs]
    /\ faults \in 0..MaxFaults
    /\ \A p \in Procs : pc[p] \in HasCycle =>
          run[p].cycle \in CycleIds /\ cycles[run[p].cycle].state = "STARTED"

Init ==
    /\ StoreInit
    /\ pc = [p \in Procs |-> "down"]
    /\ cached = [p \in Procs |-> NoCached]
    /\ renewing = [p \in Procs |-> FALSE]
    /\ paused = [p \in Procs |-> FALSE]
    /\ run = [p \in Procs |-> NoRun]
    /\ faults = 0

GoTo(p, point) == pc' = [pc EXCEPT ![p] = point]
Fault == faults < MaxFaults /\ faults' = faults + 1

-----------------------------------------------------------------------------
(* run_worker and the renewer.                                             *)

(* A worker that finds the lease taken exits and is started again later:   *)
(* nothing changes.                                                        *)
StartWorker(w) ==
    /\ pc[w] = "down"
    /\ AcquireAllowed(InstanceOf[w])
    /\ AcquireLease(InstanceOf[w])
    /\ cached' = [cached EXCEPT ![w] = [token |-> lease'.token, left |-> LeaseTime]]
    /\ renewing' = [renewing EXCEPT ![w] = TRUE]
    /\ GoTo(w, "idle")
    /\ UNCHANGED <<cycles, controls, paused, run, faults>>

StartApi(a) ==
    /\ pc[a] = "down"
    /\ GoTo(a, "idle")
    /\ UNCHANGED <<storeVars, cached, renewing, paused, run, faults>>

RenewalDue(w) == renewing[w] /\ cached[w].left <= LeaseTime - RenewEvery

RenewUnchecked(w) ==   \* the row is renewed without a look at its owner
    /\ RenewalDue(w)
    /\ RenewLease
    /\ cached' = [cached EXCEPT ![w].left = LeaseTime]
    /\ UNCHANGED <<cycles, controls, pc, renewing, paused, run, faults>>

Renew(w) ==
    /\ RenewalDue(w)
    /\ LiveLease(InstanceOf[w], cached[w].token, 0)
    /\ RenewLease
    /\ cached' = [cached EXCEPT ![w].left = LeaseTime]
    /\ UNCHANGED <<cycles, controls, pc, renewing, paused, run, faults>>
(* StaleSchedulerLease, or any other exception, ends the renewer task, and *)
(* nobody awaits it before the process stops.                              *)
RenewerDies(w) ==
    /\ RenewalDue(w)
    /\ renewing' = [renewing EXCEPT ![w] = FALSE]
    /\ \/ ~LiveLease(InstanceOf[w], cached[w].token, 0) /\ UNCHANGED faults
       \/ "renew_error" \in Faults /\ Fault
    /\ UNCHANGED <<storeVars, pc, cached, paused, run>>

(* A stop cancels the loop's task: CancelledError passes `except Exception` *)
(* and leaves the cycle row as a crash does.                               *)
Crash(p) ==
    /\ "crash" \in Faults /\ Fault
    /\ pc[p] # "down"
    /\ GoTo(p, "down")
    /\ cached' = [cached EXCEPT ![p] = NoCached]
    /\ renewing' = [renewing EXCEPT ![p] = FALSE]
    /\ paused' = [paused EXCEPT ![p] = FALSE]
    /\ run' = [run EXCEPT ![p] = NoRun]
    /\ UNCHANGED storeVars

-----------------------------------------------------------------------------
(* One run: tick and run_now, then _run.                                   *)

(* The clock is read before the market clock is asked.                     *)
Begin(p) ==
    /\ pc[p] = "idle"
    /\ ~paused[p]
    /\ GoTo(p, "clock")
    /\ run' = [run EXCEPT ![p] = [NoRun EXCEPT !.known = controls]]
    /\ UNCHANGED <<storeVars, cached, renewing, paused, faults>>

MarketClock(p) ==
    /\ pc[p] = "clock"
    /\ \E open \in BOOLEAN : run' = [run EXCEPT ![p].open = open]
    /\ GoTo(p, "decide")
    /\ UNCHANGED <<storeVars, cached, renewing, paused, faults>>

(* _runtime_decision.                                                      *)
Decide(p) ==
    /\ pc[p] = "decide"
    /\ run' = [run EXCEPT ![p].entries = AllowsNewEntries(EffectiveControl),
                          ![p].closes = AllowsClosing(EffectiveControl)]
    /\ GoTo(p, "start")
    /\ UNCHANGED <<storeVars, cached, renewing, paused, faults>>

(* start_cycle measures the lease it remembers against started_at, then    *)
(* record_cycle_started measures the row against it.                       *)
StartAllowedMutant(p) ==   \* the whole lease time must remain, as just after a renewal
    /\ cached[p].token # 0
    /\ cached[p].left + run[p].age >= LeaseTime
    /\ LiveLease(InstanceOf[p], cached[p].token, run[p].age)

StartAllowed(p) ==
    /\ cached[p].token # 0
    /\ cached[p].left + run[p].age >= MinCycle
    /\ LiveLease(InstanceOf[p], cached[p].token, run[p].age)

StartCycle(p) ==
    /\ pc[p] = "start"
    /\ StartAllowed(p)
    /\ \E c \in CycleIds :
          /\ RecordCycleStarted(c, InstanceOf[p], cached[p].token)
          /\ run' = [run EXCEPT ![p].cycle = c]
    /\ GoTo(p, "gate")
    /\ UNCHANGED <<lease, controls, cached, renewing, paused, faults>>

(* RuntimeError out of _run, swallowed by the loop or answered with 409.   *)
StartRefused(p) ==
    /\ pc[p] = "start"
    /\ ~StartAllowed(p)
    /\ GoTo(p, "idle")
    /\ run' = [run EXCEPT ![p] = NoRun]
    /\ UNCHANGED <<storeVars, cached, renewing, paused, faults>>

Verify(p) ==
    /\ pc[p] = "gate"
    /\ \E eligible \in IF HasGate THEN BOOLEAN ELSE {TRUE} :
          run' = [run EXCEPT
                    ![p].entries = @ /\ run[p].open /\ eligible,
                    ![p].closes = @ /\ run[p].open /\ eligible,
                    ![p].outcome = IF ~run[p].open THEN "RECONCILIATION_ONLY"
                                   ELSE IF ~eligible THEN "ELIGIBILITY_BLOCKED"
                                   ELSE "ENTRY_BLOCKED"]
    /\ GoTo(p, "lifecycle")
    /\ UNCHANGED <<storeVars, cached, renewing, paused, faults>>

(* The lifecycle service reconciles, may submit closes if run.closes, and  *)
(* says whether entries are blocked.                                       *)
Lifecycle(p) ==
    /\ pc[p] = "lifecycle"
    /\ \E blocks \in BOOLEAN :
          GoTo(p, IF run[p].entries /\ ~blocks THEN "entry" ELSE "finish")
    /\ UNCHANGED <<storeVars, cached, renewing, paused, run, faults>>

Entry(p) ==
    /\ pc[p] = "entry"
    /\ run' = [run EXCEPT ![p].outcome = "ENTRY_COMPLETED"]
    /\ GoTo(p, "finish")
    /\ UNCHANGED <<storeVars, cached, renewing, paused, faults>>

(* An exception before the cycle row exists ends the run; one of a stage   *)
(* is recorded; one of the recording leaves the row STARTED.               *)
RunRaises(p) ==
    /\ "run_error" \in Faults
    /\ \/ /\ pc[p] \in {"clock", "decide"}
          /\ GoTo(p, "idle")
          /\ run' = [run EXCEPT ![p] = NoRun]
          /\ UNCHANGED faults
       \/ /\ pc[p] \in {"gate", "lifecycle", "entry"}
          /\ GoTo(p, "finish")
          /\ run' = [run EXCEPT ![p].outcome = "ERROR"]
          /\ UNCHANGED faults
       \/ /\ pc[p] = "finish" /\ Fault
          /\ GoTo(p, "idle")
          /\ run' = [run EXCEPT ![p] = NoRun]
    /\ UNCHANGED <<storeVars, cached, renewing, paused>>

Finish(p) ==
    /\ pc[p] = "finish"
    /\ IF FinishAllowed(run[p].cycle, InstanceOf[p], cached[p].token)
       THEN RecordCycleFinished(run[p].cycle, run[p].outcome)
       ELSE UNCHANGED cycles
    /\ GoTo(p, "idle")
    /\ run' = [run EXCEPT ![p] = NoRun]
    /\ UNCHANGED <<lease, controls, cached, renewing, paused, faults>>

Run(p) ==
    \/ MarketClock(p) \/ Decide(p) \/ StartCycle(p) \/ StartRefused(p)
    \/ Verify(p) \/ Lifecycle(p) \/ Entry(p) \/ Finish(p)

-----------------------------------------------------------------------------
(* Operators, incidents and time.                                          *)

(* set_control and open_breaker.                                           *)
SetControl(control) ==
    /\ PutControl(control)
    /\ UNCHANGED <<lease, cycles, procVars, faults>>

(* The pause and resume endpoints reach the API's own scheduler.           *)
SetPaused(a) ==
    /\ pc[a] # "down"
    /\ \E value \in BOOLEAN : paused' = [paused EXCEPT ![a] = value]
    /\ UNCHANGED <<storeVars, pc, cached, renewing, run, faults>>

Less(left) == IF left > -Late THEN left - 1 ELSE left

(* Timeouts bound the awaits between reading the clock and using it, and a *)
(* renewer that is alive runs on time unless slow_renewal says otherwise.  *)
Tick ==
    /\ \A p \in Procs : pc[p] \in Awaiting => run[p].age < Late
    /\ \/ "slow_renewal" \in Faults
       \/ \A w \in Workers : ~RenewalDue(w)
    /\ lease' = [lease EXCEPT !.left = Less(@)]
    /\ cached' = [p \in Procs |-> [cached[p] EXCEPT !.left = Less(@)]]
    /\ run' = [p \in Procs |->
                 IF pc[p] \in Awaiting THEN [run[p] EXCEPT !.age = @ + 1] ELSE run[p]]
    /\ UNCHANGED <<cycles, controls, pc, renewing, paused, faults>>

Next ==
    \/ \E w \in Workers : StartWorker(w) \/ Renew(w) \/ RenewerDies(w)
    \/ \E a \in Apis : StartApi(a) \/ SetPaused(a)
    \/ \E p \in Procs : Begin(p) \/ Run(p) \/ RunRaises(p) \/ Crash(p)
    \/ \E control \in Puttable : SetControl(control)
    \/ Tick

Spec == Init /\ [][Next]_vars

-----------------------------------------------------------------------------
(* Invariants.                                                             *)

Holds(w) == cached[w].left > 0   \* w believes it holds the lease

(* Two workers that believe they hold the lease at the same moment have    *)
(* the same instance id, whatever renewals failed or came late             *)
(* (test_runtime_store.py:20 "lease is exclusive").                        *)
LeaseIsExclusive ==
    \A v, w \in Workers : Holds(v) /\ Holds(w) => InstanceOf[v] = InstanceOf[w]

(* Fencing: no cycle row is ahead of the lease's token, and a token stands *)
(* for one owner, in the history and in the lease alike.                   *)
CyclesAreFenced ==
    \A c \in CycleIds : cycles[c].state # "none" =>
        /\ cycles[c].token <= lease.token
        /\ cycles[c].token = lease.token => cycles[c].owner = lease.owner
        /\ \A d \in CycleIds : cycles[d].state # "none" /\ cycles[d].token = cycles[c].token
              => cycles[d].owner = cycles[c].owner

(* A control that was in force when a run began binds that run: no entry   *)
(* under anything but RUNNING, no close under PAUSED or FROZEN_REVIEW.     *)
ControlsAreObeyed ==
    \A p \in Procs : \A c \in run[p].known : c.scope = "account" =>
        /\ pc[p] = "entry" => AllowsNewEntries(c.state)
        /\ pc[p] = "lifecycle" /\ run[p].closes => AllowsClosing(c.state)

-----------------------------------------------------------------------------
(* The implementation relation: what the lease promises its users.         *)
Latest == CHOOSE c \in CycleIds : \A d \in CycleIds : cycles[d].token <= cycles[c].token

Contract == INSTANCE LeaseContract WITH
    owner <- lease.owner,
    epoch <- lease.token,
    Owners <- Instances,
    Nobody <- NoInstance,
    live <- lease.left > 0,
    latest <- cycles[Latest].token

KeepsLeaseContract == Contract!Spec

-----------------------------------------------------------------------------
(* Inductive strengthenings of the invariants, for the proofs.             *)

(* Concurrent runs have cycle rows of their own.                           *)
CyclesAreDistinct ==
    \A p, q \in Procs : pc[p] \in HasCycle /\ pc[q] \in HasCycle /\ run[p].cycle = run[q].cycle
        => p = q

(* A worker that believes it holds the lease is right about the row.       *)
LeaseIsCurrent ==
    \A w \in Workers : Holds(w) =>
        /\ lease.owner = InstanceOf[w]
        /\ lease.token = cached[w].token
        /\ cached[w].left <= lease.left

(* What a run knew stays in the table, and its permissions were computed   *)
(* with it in sight.                                                       *)
PermissionsAreJustified ==
    \A p \in Procs :
        /\ run[p].known \subseteq controls
        /\ pc[p] \in {"start", "gate", "lifecycle", "entry"} =>
              \A c \in run[p].known : c.scope = "account" =>
                  /\ run[p].entries => AllowsNewEntries(c.state)
                  /\ run[p].closes => AllowsClosing(c.state)
        /\ pc[p] = "entry" => run[p].entries

-----------------------------------------------------------------------------
(* Progress.  Fairness: the platform restarts processes                    *)
(* (restartPolicyType "ON_FAILURE", railway.worker.toml), loops and timers *)
(* go on, awaits return, time passes, and stages do not raise for ever;    *)
(* the number of crashes is bounded by MaxFaults.                          *)
Fairness ==
    /\ \A w \in Workers : WF_vars(StartWorker(w)) /\ WF_vars(Renew(w)) /\ WF_vars(Begin(w))
    /\ \A p \in Procs : WF_vars(Run(p))
    /\ WF_vars(Tick)
    /\ <>[][\A w \in Workers : ~RunRaises(w)]_vars

FairSpec == Spec /\ Fairness

(* README.md:220 "The worker renews a runtime lease": some worker always   *)
(* gets to run another cycle.                                              *)
CyclesKeepRunning == []<>(\E w \in Workers : pc[w] \in {"lifecycle", "entry"})
=============================================================================
