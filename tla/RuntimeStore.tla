---------------------------- MODULE RuntimeStore ----------------------------
(***************************************************************************)
(* The tables by which scheduler processes agree on who may trade,         *)
(* scheduler_leases and agent_cycles, and the transactions of RuntimeStore *)
(* on them.  Rows are locked (with_for_update), so a transaction is one    *)
(* step.                                                                   *)
(*                                                                         *)
(* Time is kept as what is left of a lease, relative to the database's     *)
(* now: expires_at > now + d is lease.left > d.  One unit is 15 seconds.   *)
(***************************************************************************)
EXTENDS RuntimeControls

CONSTANTS
    Instances,   \* owner_instance_id
    NoInstance,  \* the owner of a lease that has no row
    LeaseTime,   \* lease_seconds
    Late,        \* how far behind now a caller's clock reading may be
    CycleIds     \* the cycle rows that are remembered

ASSUME RuntimeStoreAssumption ==
    /\ NoInstance \notin Instances
    /\ LeaseTime \in Nat \ {0}
    /\ Late \in Nat
    /\ CycleIds # {}

VARIABLES
    lease,     \* the row of scheduler_leases
    cycles     \* cycles[c]: row c of agent_cycles

storeVars == <<lease, cycles, controls>>

Lefts == (-Late)..LeaseTime
Leases == [owner : Instances \cup {NoInstance}, token : Nat, left : Lefts]
NoLease == [owner |-> NoInstance, token |-> 0, left |-> -Late]

Outcomes == {"ENTRY_COMPLETED", "ENTRY_BLOCKED", "ELIGIBILITY_BLOCKED",
             "RECONCILIATION_ONLY", "ERROR"}
CycleRows == [owner : Instances \cup {NoInstance}, token : Nat,
              state : Outcomes \cup {"none", "STARTED"}]
NoCycle == [owner |-> NoInstance, token |-> 0, state |-> "none"]

StoreTypeOK ==
    /\ lease \in Leases
    /\ cycles \in [CycleIds -> CycleRows]
    /\ controls \subseteq Controls

StoreInit ==
    /\ lease = NoLease
    /\ cycles = [c \in CycleIds |-> NoCycle]
    /\ controls = {}

-----------------------------------------------------------------------------
(* The lease.  A missing row is as free as an expired one; the loser of    *)
(* two concurrent first inserts is told the lease is taken.                *)

AcquireAllowedMutant(owner) == TRUE   \* the expiry is not looked at

AcquireAllowed(owner) == lease.owner = owner \/ lease.left <= 0

AcquireLeaseMutant(owner) ==   \* a takeover keeps the token
    lease' = [owner |-> owner,
              token |-> IF lease.token = 0 THEN 1 ELSE lease.token,
              left |-> LeaseTime]

AcquireLease(owner) ==
    lease' = [owner |-> owner,
              token |-> IF lease.owner = owner THEN lease.token ELSE lease.token + 1,
              left |-> LeaseTime]

(* _locked_live_lease, for a caller that read its clock `behind` ago.      *)
LiveLease(owner, token, behind) ==
    /\ lease.owner = owner
    /\ lease.token = token
    /\ lease.left + behind > 0

RenewLease == lease' = [lease EXCEPT !.left = LeaseTime]

-----------------------------------------------------------------------------
(* Cycle rows.  A new row takes a fresh id, or that of a finished row,     *)
(* which is then forgotten.                                                *)

RecordCycleStartedMutant(c, owner, token) ==   \* the id of a running cycle is used again
    cycles' = [cycles EXCEPT ![c] = [owner |-> owner, token |-> token, state |-> "STARTED"]]

RecordCycleStarted(c, owner, token) ==
    /\ cycles[c].state # "STARTED"
    /\ cycles' = [cycles EXCEPT ![c] =
                    [owner |-> owner, token |-> token, state |-> "STARTED"]]

FinishAllowed(c, owner, token) == cycles[c].owner = owner /\ cycles[c].token = token

RecordCycleFinished(c, outcome) == cycles' = [cycles EXCEPT ![c].state = outcome]

=============================================================================
