# ConvictionOS in TLA+

This directory is the verification project of ConvictionOS, an agent that trades
option spreads in an Alpaca *paper* account. The code is Python under
`src/src/convictionos/`; paths below are relative to that directory unless they
start with `src/`.

## 1. The system

| Component | Code | State it keeps | Operations |
|---|---|---|---|
| Trade intent store | `infrastructure/store.py`, `infrastructure/models.py` | rows of `trade_intents`, `risk_reservations`, `decision_receipts`, `outbox` | create, authorize with reservation, claim, record, mark replacement / unknown / not filled, recover, save receipt |
| Order execution | `application/execution.py`, `application/agent.py` (`_persist_and_execute` and twins), `application/demo.py` | none outside a call | persist, authorize, claim, submit or poll, settle, write receipt |
| Broker adapters | `infrastructure/alpaca.py`, `alpaca_cli.py`, `brokers.py` | none; the book is at the broker | submit, look up by client order id |
| Lease, cycles and controls | `infrastructure/runtime_store.py`, `application/runtime_coordinator.py`, `domain/runtime.py`, `worker.py`, `application/agent_scheduler.py` | `scheduler_leases`, `scheduler_heartbeats`, `agent_cycles`, `runtime_controls` | acquire, renew, start and finish a cycle, put a control, decide |
| Incidents | `application/incidents.py`, `domain/incidents.py` | `runtime_incidents` and their events | open a breaker, resolve |
| Position lifecycle | `application/position_lifecycle.py`, `domain/positions.py`, `application/close_intents.py`, `infrastructure/alpaca_activities.py`, position methods of `store.py` | `managed_option_positions`, `position_transitions`, `broker_activity_cursors` | promote an opening, find unmanaged legs, apply activities, look up close orders, reconcile closes, attach and execute a close |
| Exit policy | `application/exit_policy.py` | none | `evaluate` |
| Eligibility | `application/eligibility.py`, `domain/eligibility.py`, `infrastructure/eligibility_ports.py` | `eligibility_manifests` | verify: inspect the account, find the baseline, evaluate, store |
| Strategy router and portfolio risk | `application/strategy_router.py`, `portfolio_risk.py`, `quant_signals.py`, `domain/mandates.py` | none | route a thesis to a spread, list the reasons against it, apply the mandate |
| Decision pipelines | `application/agent.py` (router and legacy), `grounded_intelligence.py`, `market_truth.py` | `intelligence_artifacts` | `run_once`, from the frame to the intent |
| Accounting | `domain/closed_accounting.py`, `domain/paper_accounting.py` | none | figures for reports |
| Model gateways, MCP, evidence | `infrastructure/model_*.py`, `mcp_client.py`, `alpaca_mcp.py`, `alpaca_evidence.py` | none | I/O |
| HTTP API and composition | `api/` | process-local scheduler state | routes, wiring |
| Settings, observability, commands | `settings.py`, `observability.py`, `commands.py` | none | I/O |

The processes are the worker (runs the scheduler and renews its lease), the API
(may also run a cycle on request) and one-off commands. They share only
PostgreSQL and the broker; every transaction locks the rows it changes, and every
`await` between two transactions or broker calls is a point at which another
process may run, answers may become stale, or the process may die.

What is hard: broker answers that are lost, late, repeated or contradictory;
several callers of one intent; crashes between two transactions that belong
together; a cycle that outlives its lease; versions read once and used several
times; controls that several actors write. `PROJECT.json` lists these hazards
at the lines where they bite.

What makes each part correct:

- *Intents and execution*: one submitter at a time; risk is reserved before the
  broker can hold an order, consumed only for a fill, given back only when no
  order can fill any more; an outcome never changes; a fill is reconciled and
  gets a receipt (which the code does not ensure, section 3).
- *Lease and cycles*: one owner at a time, a new fencing token for every new
  owner, cycles only under the newest token, and always another cycle.
- *Controls and incidents*: the most restrictive control wins and binds every
  run that begins after it; an incident is never on record without its control.
- *Position lifecycle*: a row can always be loaded; a position is closed once,
  and only called closed when its own order filled and its legs are gone; no
  assignment, exercise or expiration that is posted in order is lost; new entries stay blocked while
  anything is unexplained; a filled close is reconciled in the end.
- *Exit policy*: a spread is closed exactly if a trigger fires and it can be
  priced, whatever order the triggers are noted in.
- *Eligibility*: excuses do not build on excuses; a verification that returns speaks
  of the stored manifest; nobody certifies an account that was not clean at any moment
  of the verification.
- *Router and entry*: the best admissible spread is found if there is any; one
  body of evidence leads to one thesis.

## 2. The modules

| Module | Stands for | Extends / uses |
|---|---|---|
| `IntentStore` | tables of an intent and the transactions of `Store` on them | |
| `PaperBroker` | the book of the paper account, as the adapters see it (external) | |
| `IntentExecution` | the callers of `ExecutionOrchestrator.execute`, one step per await | `IntentStore`, `INSTANCE PaperBroker` |
| `RiskContract` | abstract: what execution promises the account | refined by `IntentExecution` |
| `FiniteSetLemmas` | sums over finite sets, least and greatest elements: lemmas | |
| `IntentExecution_proofs` | theorems about it | `FiniteSetLemmas` |
| `RuntimeControls` | `runtime_controls`, `put_control`, `effective_control` | |
| `RuntimeControls_proofs` | lemmas about them | |
| `RuntimeStore` | `scheduler_leases`, `agent_cycles` and their transactions | `RuntimeControls` |
| `AgentScheduler` | worker and API processes, renewer, one run per process | `RuntimeStore` |
| `LeaseContract` | abstract: what the lease promises | refined by `AgentScheduler` |
| `AgentScheduler_proofs` | theorems about it | |
| `Incidents`, `Incidents_proofs` | `IncidentService` and its theorems | `RuntimeControls` |
| `PositionStore` | the position tables and the transactions of `Store` on them | |
| `ExitPolicy` | `ExitPolicyEngine` as operators | |
| `PositionLifecycle` | `run_cycle` of several workers, one step per await or transaction, and the broker | `PositionStore`, `ExitPolicy` |
| `PositionContract` | abstract: what managing positions promises | refined by `PositionLifecycle` |
| `PositionLifecycle_proofs` | theorems about it | |
| `Eligibility`, `Eligibility_proofs` | `EligibilityService.verify`, the manifests and their theorems | |
| `StrategyRouter` | router, quant signal, portfolio risk and mandate as operators, with a reference for the router | |
| `EntryPipeline` | `run_once` of several processes down to the execution of its intent | `IntentExecution`, `StrategyRouter` |
| `EntryPipeline_proofs` | theorems about it | `IntentExecution_proofs` |
| `MC*` | instances for TLC | |

Operators named `...Mutant` (and `RenewUnchecked`, `InsertAlways`, `InsertUnchecked`, `RecordBrokerOrderEarly`,
`RecordBrokerOrderFirstId`, `MarkNotFilledHolding`) are plausible bugs of the
definition that follows them; no specification uses them. `PROJECT.json` pairs
each with the property that catches it.

### Order execution

`intentState`, `brokerOrderId`, `reservation`, `receipt` are the columns that
decide something in `trade_intents`, `risk_reservations` and
`decision_receipts`. Every public method of `Store` that changes them is one
action operator of `IntentStore` with an `...Allowed` guard that holds the
early returns and raises. `IntentExecution` gives each caller a program counter
whose points are the awaits: `Persist` (`create_intent`), `FindReceipt`,
`GetState`, `Authorize`, `Claim`, then `Submit...`/`Lookup`/`Poll` (the broker
calls of `execute`), `Settle...` (what `execute` does with the answer) and
`WriteReceipt`. `agent.py` has the same code twice (`_persist_and_execute`,
`_execute_existing_intent` with `_execute_authorized_intent`) and `demo.py` a
third variant with another ceiling and no resume; `Caller` tells agent and demo
apart. `DemoService` is not routed by the production `build_application`; the
run `exec_contract` includes it because the code supports both callers on one store.

The broker is what `alpaca.py`, `alpaca_cli.py` and `brokers.py` assume of it.
`Faults` lists what it and the network may do. An order is reduced to its
status, a small id that counts replacements, whether anything was filled and
whether the replacement is visible.

### Scheduler

One time unit is 15 s: `LeaseTime = 6` is the 90 s lease, `RenewEvery = 2` the
30 s renewer, `MinCycle = 3` the 45 s of
`MINIMUM_FINANCIAL_CYCLE_LEASE_SECONDS`. A lease is kept as what is left of it,
so no clock grows. Processes and database are taken to agree on the time, but a
run reads its clock (`started_at`) before it awaits the market clock and the
control, and uses it afterwards: `age`, at most `Late`, is how old that reading
is. A lease keeps counting down to `-Late`, the last moment a late reader could
mistake it for live.

A run's points are the awaits of `AgentScheduler._run`: the market clock,
`_runtime_decision`, `_start_runtime_cycle`, `_verify_eligibility`, the
lifecycle runner, the entry runner, `_finish_runtime_cycle`. `asyncio.Lock`
admits one run per process, so a process has at most one; a request that finds
it locked is refused and changes nothing. Cycle rows are unbounded in the code;
the model remembers `CycleIds` of them and reuses the id of a finished one.
`known` is a history variable: the controls that were there when the run began.
Only the variant with a lifecycle runner is modelled, which is the one
`build_container` wires.

### Incidents

`open_breaker` is two transactions (`OpenBreaker`, `RecordIncident`), and a
process may stop between them (`Crash`). Nothing in `src/src` calls
`open_breaker` yet; the service, its table and its endpoint are there.
`list_public` shows a `public_id` while the resolve endpoint takes the private
incident id; the model lets an operator find either.

### Position lifecycle

A position, its opening intent and its close intent share a name (a number, in
the order in which rows are listed). `row`, `ledger` and `cursor` are the three
tables; `opening[p]` is as much of the intent and its receipt as promotion reads.
Every transaction is one operator: `PromoteReconciledOpenings`, `Record`
(`transition_position` and the transition half of `attach_close_intent`),
`AdvanceActivityCursor`. `Accepts` is what a transition must pass under the row's
lock, including `Validates`, the validation that every load of a row repeats.

`PositionLifecycle` is `run_cycle`, one point per await or transaction, for any
number of workers: nothing but the scheduler's lease keeps cycles apart, and a
lost lease does not stop a cycle. What a cycle listed at its start (`seen`,
`broker`) is kept as it was read; every later decision is made on it, with the
versions of that moment. `local` holds its other variables, `todo` what a loop
has left. A cycle that raises (`Raise`) leaves nothing behind but what was
committed. The broker (`Fill`, `CloseOrderFills`, `CloseOrderEnds`,
`BrokerEvent`, `PostActivity`) fills spreads unit by unit, rejects or cancels
closes at any moment, assigns, exercises and expires legs, and posts the
activity with its effect or later. Reported quantities are unsigned here;
the code takes the broker's to be positive for both legs.

`api/main.py` wires the activity gateway and the order lookup, and neither an
exit evaluator nor a close executor: the service then makes no exit decisions.
The model wires them as the service's tests do, with every decision the policy
can give (`Decisions`). The execution of a close intent is its order at the
broker (`ExecuteClose`), taken once for each client order id.

`ExitPolicy` works on whole cents and days. `Evaluate` follows the code
(collect reasons in order, pick the first, derive the outcome); `ExitsMeetPolicy`
states the policy without any order.

### Eligibility

A verification has one point per await: account, positions, orders, baseline, and
the two of the store, looking the id up and inserting (`FindManifest`, `Insert`).
The accounts may trade between them, and another verification may store first. The
identity of a manifest is what `_manifest_id` hashes.

The table may hold rows of an earlier release. `EarlierRows(f)` is what that release
stored for the facts `f`, as far as the code that still reads such rows tells: it took
no feed but OPRA, so that an indicative one made the manifest ineligible, or
unavailable if a pin was missing too. `Inherited` says which facts the table may have
rows of; `Init` admits every set of these rows with one row for each id whose baselines
are roots. `_load_eligibility_manifest` loads an earlier row only if it is ineligible
for the indicative feed (`Loadable`); any other raises. What only reads a manifest (the
readiness endpoints of `api/app.py`) changes nothing and is left out.

### Entry

`StrategyRouter` translates the computations between two awaits of an entry:
`Accepted` and `MakesCandidate` filter quotes and pairs in the code's way,
`RanksBefore` orders candidates, `Route` returns the first; `RiskReasons` and
`PolicyAllows` are the portfolio and the mandate check. `IsBestSpread` is the
reference: it quantifies over all pairs with the bands spelled out once.

`EntryPipeline` gives each process a `stage` (the await it stands at) and `run`
(what it has learned). `Enter` and `Execute` are `Persist` and `Call` of
`IntentExecution`, so that an intent's amount is the maximum loss of the spread
chosen for it (`EntryAssumption`) and its authorization uses the buying power
that the run read before. The `agent.py` limits that do not depend on settings
are definitions, not constants. What the translation showed of the code:

- `now` is taken when the tick starts and a frame carries the time of the last
  trade, so that a run abstains on a frame that is newer than its own clock; a frame
  exactly five minutes old passes the freshness test and is then denied, because the
  intent expires at that moment;
- the intent's expiry is not tested again after the model has answered;
- `observe` asks for expirations 12 to 60 days away, so a thematic thesis (90
  days and more) never finds a spread and a catalyst one only from day 12;
- missing option analytics do not make a frame research-only, the feed does;
- the capacity, cooldown, duplicate-catalyst and maximum-positions reasons never see
  an earlier entry, because `_portfolio_snapshot` always passes no open positions and no
  reservations (`agent.py:1079`); nor is the debit compared with the width of the
  spread;
- the directional check sees filled orders only, at what the market values their legs
  (`Valuations`, which may lie below the debit paid), several awaits before the risk is
  reserved: two entries can pass it together. No property bounds what is at risk in one
  direction; only the ceiling on all reservations (`RiskWithinCeiling`) does.

## 3. The runs

| Run | Instance | Shows |
|---|---|---|
| `exec_all_faults` | 2 callers, 1 intent, 1 replacement, every fault | type, ledger, finality, receipts, reconciliation |
| `exec_contract` | an agent and a demo caller, 2 intents of uneven amounts, ceilings 2 and 1, buying power 1 or 4, every fault but late requests, mismatches, refused duplicates and replacements | `SingleSubmitter`, `RiskWithinCeiling`; `RiskContract` is implemented |
| `exec_unpolled` | 2 fair agents, 2 intents, no fault at all | a counterexample to `FillIsReconciled` |
| `exec_partial_cancel` | 2 agents, 1 intent, partial cancels | a counterexample to `ReleasedIsUnfilled` |
| `sched_leases` | 2 workers with ids of their own, 1 bounded fault, slow renewals and awaits | exclusion, fencing, `LeaseContract` |
| `sched_controls` | a worker and an API process, controls of two scopes, gate, failing stages | `ControlsAreObeyed` |
| `sched_progress` | 2 fair workers, a crash | `CyclesKeepRunning` |
| `incidents` | 2 incidents, 3 severities, 2 operators, 3 versions | type, `IncidentIsControlled`, `ResolutionsAreInformed` |
| `positions` | 2 workers, 1 spread of 2 units, assignments, 2 activities, 1 fault of any kind but a late activity, all exit contexts | rows load, closes are proven, activities are applied, fail-closed, exits meet the policy, `PositionContract` is implemented |
| `positions_progress` | 1 fair worker, 2 spreads of 1 unit, 2 expirations, posted at once or late, 1 fault of any kind but closes that do not fill | `EventsAreReviewed`, `ClosesComplete` |
| `eligibility` | 2 verifiers, 2 accounts, 2 sets of settings, 2 changes of an account, 2 moments, rows of the earlier release: indicative with pins (loads) and without (does not), and one of the other account | baselines, what a verification returns, certificates |
| `entry` | 2 processes, 3 theses, 6 frames shown, 4 intents | one thesis for each body of evidence, the router against its reference |

Why the bounds are enough.

*Execution, scheduler.* Intents meet only in the sum of reservations, so one
intent suffices for everything but `exec_contract`, where two amounts, two
ceilings and a buying power that moves give every order of two callers around the limit. Two callers give all
races on a claim: a third could only repeat what the second does. Two lease
owners give takeover and return; two remembered cycle rows give one live row per
worker (three in the progress run). `MaxFaults = 1` bounds only the faults that
are counted (crashes, raising renewals, failed recordings): one per behaviour, at
any moment, beside unlimited slow renewals and slow awaits.

*Positions.* Positions share only the cursor and the cycle that loops over them:
one position with two cycles gives every interleaving of stale versions, two with
one cycle give a failure at the first that the second suffers from. Two units
separate a partial fill from a full one; two activities, a repeated event on one
position and a failed transition in the middle of a page; in `positions_progress`, an
activity that is posted after the next one of its type was read. Late activities are
left to that run because `FailClosed` and `ActivitiesAreApplied` are about timely ones.
`Occurring` keeps its fees from happening, while each cycle still reads their pages. `AllContexts` takes every quantity of the exit policy at its limit
and next to it, on both sides where both matter.

*Eligibility.* Two moments are a baseline and one after it; two settings are the
deployment's and those of a process on the same account without pins and with
another feed, so that both make different manifests of one id. *Entry.* The router is compared with its reference on 768 option
chains (every subset of nine calls and of eight puts), chosen so that each quote
fails another test; six of them are shown by the market, two with the same
evidence. `Times = {2}` and `Freshness = 1` put the frames before, at and after
the limits. Two valuations put the exposure of what was filled above and below the
debits paid. `AgentCeiling = 1000` is above the 840 of all four intents: here the
directional limit of 500 is the one that bites, while `exec_contract` is about the
ceiling.

The theorems of section 5 remove these bounds for every safety property, action
property and refinement of the passing runs, and extend `SingleSubmitter` and the risk
contract to replacements, which `exec_contract` leaves out for its size.

### Disagreements with the documentation

`exec_partial_cancel` ends in a counterexample to `ReleasedIsUnfilled`: a cancel
after an unobserved partial fill releases the whole reservation.

`exec_unpolled` ends in a counterexample to `FillIsReconciled`, without any fault: a call
whose order is still open returns, the order fills, and no later call has to be about
its intent, because a tick of the agent builds an intent of its own.
`src/README.md:22` says "Reconciles broker state after execution." (`findings` in
`PROJECT.json` quotes both lines.)

The following come out of the definitions. No run shows them; they are why a property
is stated with an exception, or not stated at all:

- `application/execution.py:63`: a replacement first seen by a poll is refused for
  ever, so its fill is not reconciled even if somebody does call again.
- `infrastructure/store.py:689`: the guard that keeps a partially filled intent from
  being released looks at the recorded state. A submitter whose lookup found the order
  replaced overwrites PARTIALLY_FILLED with REPLACEMENT_PENDING (`store.py:633`), and a
  later canceled releases the reservation of a fill that the store had seen: a second
  way to the outcome of `exec_partial_cancel`. No property says that such a fill is kept.
- `application/agent.py:909-922`: neither caller resumes `ACK_UNKNOWN`
  (`Resumable`), though `claim_submission` and `execute` could poll such an
  intent. After a lookup outage its fill stays unreconciled whoever calls again.
- `application/agent_scheduler.py:271`: a cycle outlives its lease and runs beside
  the next owner's; the token only fences what it records.
- `worker.py:80`: one renewal that raises ends the renewer, and the worker idles on
  without ever starting a cycle. `sched_progress` has no raising renewal.
- `application/runtime_coordinator.py:84`: an API process holds no lease, so its
  run-once endpoint is always refused.
- `api/app.py:655`: the pause endpoint sets a flag of the API process's own
  scheduler (`SetPaused`); a worker's `Begin` reads the worker's. `src/README.md:239`
  says "Pause the timed worker loop".
- `infrastructure/runtime_store.py:166`: resolving an incident leaves its control in
  force, and a later RUNNING control does not lift it either (`ControlsNeverLoosen`).
  `tests/infrastructure/test_runtime_store.py:164` gives a control the
  `recovery_condition` "incident resolved".
- `application/position_lifecycle.py:198` and `206`: of two overlapping cycles, one
  that listed the positions before the other promoted an opening advances the shared
  cursor past an assignment of that opening, which stays OPEN. Hence the `~overlap`
  of `ActivitiesAreApplied`. `src/docs/operations/railway-paper-agent.md:19` says
  "the database claim/version guard protects duplicate cycles"; it protects the rows
  (`RowsValidate`, also with overlap), not the cursor.
- `application/position_lifecycle.py:92`: a rejected or canceled close order of a
  complete spread maps to OPEN, and the table of transitions has no way from
  CLOSE_PENDING to OPEN: every later cycle raises there, entries stay blocked and
  the positions behind are not managed. Hence the premise of `ClosesComplete`.
- `application/position_lifecycle.py:274`: `review_count` is taken from rows listed
  at the start. With an activity that is posted after its effect a cycle may move a
  position into review and the next one, or an overlapping one, may still have let
  the agent enter. Hence the timely activities of `FailClosed`, which quotes
  `src/docs/runbooks/vertical-slice-demo.md:33`.
- `application/position_lifecycle.py:274`: the cursor is all that a cycle remembers of
  the activities. One that is posted after a higher id of its type was read is never
  read, and its position is not reviewed on its account (`Behind`, the exception of
  `EventsAreReviewed`; without it `positions_progress` fails).
- `infrastructure/store.py:955`: a row of the earlier release that is unavailable for
  the indicative feed does not load. If it is the newest baseline of its account, every
  verification raises, captures of a new baseline included, so that no later baseline
  can replace it (`BaselineLoads` in `FindBaseline`).
- A crash after `attach_close_intent` and before the order leaves
  `close_order_not_found` for ever: nobody submits the close, and entries stay
  blocked (which `FailClosed` checks).
- A spread whose closing credit would be zero or less has no valid quote; it is
  never stopped out, only expires into a forced exit (`ExitMeetsPolicy`).
- Two openings of the same spread share the broker's legs; neither is then complete
  on its own and both are unmanaged. The model gives each position symbols of its own.

## 4. Fairness

*Execution* (`FillIsReconciled`, which fails): the awaits of a call return or the dead
process is restarted (weak fairness of `Call`), and every process goes on persisting
intents (weak fairness of `Persist` of whichever intent). That is what the code
schedules: ticks go on, but each builds an intent of its own, with a new id, so that
nothing says that one is ever about this intent again; only a request that repeats its
key would be. Broker and market owe nothing.

*Scheduler* (`CyclesKeepRunning`): the platform restarts a worker
(`railway.worker.toml`, `restartPolicyType = "ON_FAILURE"`, at most 10 times;
`MaxFaults` keeps crashes below that), the loop and the renewer's timer fire,
awaits return, time passes, and stages do not raise for ever. A renewal that
raises is not excluded by fairness but by the run's `Faults`; with it the
property fails. A worker that finds the lease taken exits and
its restart is the later `StartWorker`.

*Positions* (`EventsAreReviewed`, `ClosesComplete`): the worker that holds the
lease starts cycle after cycle (the scheduler's timed loop) and every call of a
cycle returns, with an error if need be: weak fairness of `Step` for the workers
in `Holders`. Failures and crashes are not fair but bounded (`MaxFaults`). The
broker owes nothing. `EventsAreReviewed` is about cycles that do not overlap (one
worker, in the run) and activities that no reader has passed, and
`ClosesComplete` that no close is rejected or canceled, for the reasons above.

## 5. Proofs

All theorems hold for any number of processes, intents, amounts, incidents,
operators, cycle rows, positions, workers, accounts and frames, any timing constants
and any faults, from the `ASSUME`s of the modules only (ranges of the constants; the
renewer is faster than the lease; what is refused as an id is no id; there is a
cycle id; each decision that can be made has its intent; a frame quotes finitely
many contracts; an exit context has the fields that the engine reads, with a known
horizon and natural amounts). A theorem that needs more says so in its statement.

*Execution.* `TypeCorrect`, `LedgerCorrect` (reservation and intent state agree),
`OutcomesAreFinal`, `ReceiptsAreReconciled` follow from
what each transaction may do to a row (`TransactionType` and its companions:
every step of a call is one `Transaction` or leaves the tables alone).
`SubmittersExclusive` needs `ClaimHeld`: whoever holds a claim keeps the intent
out of `AUTHORIZED`, and only the holder can put it back; it assumes no answers
with a foreign client order id, which really reset somebody else's claim.
`ReconciliationIsTrue` needs `AnswersStand`: a terminal answer a call carries is
still true of the book when it is applied. `ExecutionKeepsRiskContract` is the
refinement: with `ClaimIsOpen` (while the broker has no order for a claimed
intent, its reservation is active and nothing unknown is under way), initial
states map to initial states and each step to a `Hold`, `Expose`, `Consume`,
`Release` or a stutter. It assumes a broker that honours client order ids
(`TrustedBroker` in the module). `RiskIsBounded` is about a
sum over all intents, which the model writes as a fold. `FiniteSetLemmas` proves what
a sum needs: that it is a natural number (`SumType`) and that any element may be
taken out of it (`SumTakesOut`). There is no induction over data in this; the
argument is by the smallest counterexample (`SmallestSet`, from the well-foundedness
of strict inclusion on finite sets). The invariant `RiskInv` adds that only finitely
many intents hold a reservation, however many there are. It is inductive: an
authorization checks the sum with its own amount in the transaction that reserves it,
and every other step leaves the set of reserving intents alone or shrinks it.

*Scheduler.* `TypeCorrect` carries `CyclesAreDistinct` (concurrent runs own
different rows). `LeaseExclusive` needs `LeaseIsCurrent`: a worker that believes
it holds the lease is right about owner and token, and never sees more of it left
than the row has; a takeover needs an expired row, so no such worker is left.
`CyclesFenced` is inductive on types: tokens grow exactly when the owner changes.
`ControlsObeyed` needs `PermissionsAreJustified`: the controls a run knew are
still in the table, and its permissions came from a control at least as
restrictive (`EffectiveControlIsLeast`). `LeaseKeepsContract` is the refinement of
`LeaseContract`: the contract's epoch is the token of the lease row, and the newest
epoch in which work was begun is the greatest token of the cycle rows. It exists
(`GreatestNatural`) because `TokensAreGranted` bounds the token of every cycle row
by the token of the lease; the same invariant makes a cycle that starts under the
current grant the newest one.

*Incidents.* `IncidentsControlled` carries the same promise for openings under way
and rests on `ControlsNeverLoosen`: putting a control never loosens what is in
force. `ResolvedInformed` rests on `TypeCorrect`, which counts the events of an
incident in its version.

*Positions.* `PositionTypeCorrect` needs that the loops take an element of `todo`:
the least one of a set of numbers exists (`FirstIsElement`, from the
well-foundedness of `<` on `Nat`). `RowsCanBeLoaded` is inductive on types: a row
changes only by a promotion, of a position whose ledger is empty, or by a recorded
transition, which `Accepts` admits only for a row that validates
(`RowsMove`, `RecordValidates`). `ClosesAreProven` and `PositionsKeepContract`
rest on `PositionInv`: a managed position was bought (`WasBought`); its close order
exists only once it has left OPEN (`OrderIsLater`) and has filled once it counts as
closed (`FillIsOrdered`); a cycle lists only what was bought, so that legs it saw
gone stay gone (`GoneStaysGone`), although the listing may be arbitrarily old; its
last loop closes only what it saw filled and gone (`ClosesWhatItSaw`); and it
executes only a close that is attached (`ExecutesAttached`). The refinement maps
each step to `Manage` (one promotion may open many), `Close`, `Settle`, `Retire`,
`SetAside`, `Buy`, `Sell` or a stutter. `ExitsFollowPolicy` holds for contexts of any
numbers, not only those of the run: the fold over the eight triggers notes exactly
those that hold (`ReasonNoted`), and what is returned depends on which of them are
noted (`OutcomeOfReasons`).

`ActivitiesAreNotLost` and `CyclesFailClosed` rest on two further invariants. By
`BooksAgree`, legs that are gone have an activity or a filled close order to show for
it, and no cursor or page token is past what the broker has posted. `InOrder` says, as
long as cycles have not overlapped and no activity was posted after its effect, what
a cycle may rely on at each of its awaits: it is the only one (`RunsAlone`); the rows
are those it listed, but for what it changed itself (`ListingStands`); behind a cursor
or a token nothing active is left to apply (`CursorsStand`, `ReadingStands`); and, if
it has found no reason to stop entries (`FindingNothing`), every leg it saw gone is
explained, every leg it saw is whole and managed, and each close whose order is
missing or filled is still on its list. The two hypotheses are what the code depends
on. `CursorsPassNothing` states the first theorem without a constant: it holds in
every behaviour as long as what was posted was posted in time; `ActivitiesAreNotLost`
assumes the same of the broker, by a fault that is excluded, since an activity that
shows up behind the cursor is never read (`position_lifecycle.py:143`).
`CyclesFailClosed` needs no such assumption: `FailClosed` itself is about cycles that
have not overlapped and activities posted with their effect.

*Eligibility.* All four hold for any rows of the earlier release. `VerifiedStored` is
inductive on types: a verification returns only once its manifest is in the table, and
no step takes a row out (`NextType`). `BaselinesRoot` carries that the baseline a
verification has found is a stored root of its account (`FoundBaselines`; the latest one
exists, by well-foundedness again). `CertificatesEarned` needs that what a verification
has read so far is what the account was, at some moment since its start, unless an order
filled (`ReadsHold`).

*Entry.* `EntryTypeCorrect` extends the type invariant of `IntentExecution` by what
a run has learned at each await (`HasLearned`). `EvidenceSettlesThesis` needs
`DecisionsAreStored`: whoever has decided did so on a thesis that is in the table,
and so did every intent; the table has one thesis for each body of evidence and
loses none. `RouterFindsBest` holds for any frame and any thesis that the assumptions
admit: the candidates are a finite set, the ranking is a total order on them (no two
quote the same legs), a finite set with a total order has a first element
(`OneComesFirst`), and that one is what the router returns (`RouteReturns`).
`PipelineExecutesIntents` shows that the pipeline only calls the execution protocol
(`EntryStepExecutes`: each of its steps is a step of `IntentExecution` or leaves its
variables alone), so all theorems about execution hold of it.

*Only model-checked.* The three liveness properties that hold: `CyclesKeepRunning`,
`ClosesComplete` and `EventsAreReviewed`. They follow from weak
fairness, and the prover can treat neither fairness nor `ENABLED`. Every other property
of the passing runs is stated by a theorem.

## 6. Not modelled, and the plan

What the repository has and no module does:

- The legacy decision pipeline (`agent.py:601`), which runs only without any of the
  router's parts, and the market truth check, which `api/main.py:153` does not wire.
- `create_or_load_position`, `claim_open_positions` and `get_position`, which have no
  caller outside the tests; the real close executor, which is outside `src/src`.
- Hashes, symbols, quantities' signs, money below a cent; bounds of pages and of
  symbol lists.
- Closed and paper accounting: figures for reports that nothing acts on.
- Network I/O and parsing (model gateways, MCP, evidence adapters), read-only routes
  and templates, logging, settings, migrations, scripts, the web application, the
  webhook notifier; heartbeats, the outbox's consumers (none in the repository) and
  the scheduler's in-memory history, which nothing reads back.

What could follow, most valuable first: the
scheduler composed with lifecycle and entry, so that `mayEnter` is what admits a run
of `EntryPipeline`; the safety parts of the liveness properties as theorems;
consumed reservations of closed positions, once the code says what becomes of them;
the accounting as operators.
