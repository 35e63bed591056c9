-------------------------- MODULE Incidents_proofs --------------------------
(***************************************************************************)
(* Theorems about Incidents for any number of incidents and operators.     *)
(***************************************************************************)
EXTENDS Incidents, RuntimeControls_proofs, TLAPS

USE IncidentsAssumption, ScopesAssumption

LEMMA ControlForType ==
    ASSUME NEW s \in Severities
    PROVE  /\ ControlFor(s) \in Controls
           /\ ControlFor(s).scope = "account"
           /\ ControlFor(s).state = ControlStateFor(s)
BY DEF ControlFor, ControlStateFor, Controls, ControlStates

-----------------------------------------------------------------------------
(* Type correctness.                                                       *)

LEMMA NoRowType == NoRow \in Rows
BY DEF NoRow, Rows, IncidentStates

LEMMA OpenRowType ==
    ASSUME NEW s \in Severities
    PROVE  [state |-> "OPEN", severity |-> s, version |-> 1] \in Rows
BY DEF Rows, IncidentStates

LEMMA StateType ==
    ASSUME NEW r \in Rows, NEW s \in IncidentStates
    PROVE  [r EXCEPT !.state = s] \in Rows /\ [r EXCEPT !.state = s].version = r.version
BY DEF Rows

LEMMA VersionType ==
    ASSUME NEW r \in Rows, NEW v \in 0..MaxVersion
    PROVE  [r EXCEPT !.version = v] \in Rows
BY DEF Rows

LEMMA ResolvedRow ==
    ASSUME NEW r \in Rows, r.version < MaxVersion
    PROVE  LET t == [r EXCEPT !.state = "RESOLVED", !.version = @ + 1]
           IN  /\ t \in Rows
               /\ t.state = "RESOLVED"
               /\ t.severity = r.severity
               /\ t.version = r.version + 1
<1> DEFINE u == [r EXCEPT !.state = "RESOLVED"]
<1> DEFINE t == [u EXCEPT !.version = r.version + 1]
<1>1. u \in Rows /\ u.severity = r.severity /\ u.state = "RESOLVED"
  BY StateType DEF IncidentStates, Rows
<1>2. r.version + 1 \in 0..MaxVersion
  BY DEF Rows
<1>3. t \in Rows
  BY <1>1, <1>2, VersionType
<1>4. t.severity = r.severity /\ t.state = "RESOLVED" /\ t.version = r.version + 1
  BY <1>1 DEF Rows
<1>5. [r EXCEPT !.state = "RESOLVED", !.version = @ + 1] = t
  OBVIOUS
<1>6. QED
  BY <1>3, <1>4, <1>5

(* An incident is recorded once: one that is being opened has no row yet.  *)
OpeningIsNew ==
    /\ \A i \in IncidentIds : incident[i].state = "none" => incident[i] = NoRow
    /\ \A i \in IncidentIds : incident[i].state # "none" => events[i].opened = 1
    /\ \A o \in opening : incident[o.id] = NoRow /\ \A q \in opening : q.id = o.id => q = o

(* What the control table owes to the incidents and to their openings.     *)
Controlled ==
    /\ IncidentIsControlled
    /\ \A o \in opening : Rank(EffectiveControl) <= Rank(ControlStateFor(o.severity))

IInv == TypeOK /\ OpeningIsNew /\ Controlled

LEMMA InvInit == Init => IInv
<1> SUFFICES ASSUME Init PROVE IInv
  OBVIOUS
<1>1. Nothing \in [id : IncidentIds \cup {NoIncident}, version : 0..MaxVersion]
  BY DEF Nothing
<1>2. [opened |-> 0, resolved |-> 0] \in [opened : 0..1, resolved : 0..MaxVersion]
  OBVIOUS
<1>3. TypeOK
  BY <1>1, <1>2, NoRowType DEF Init, TypeOK, NoRow
<1>4. OpeningIsNew
  BY DEF Init, OpeningIsNew, NoRow
<1>5. Controlled
  BY DEF Init, Controlled, IncidentIsControlled, NoRow
<1>6. QED
  BY <1>3, <1>4, <1>5 DEF IInv

-----------------------------------------------------------------------------
(* The invariant is inductive.                                             *)

LEMMA RanksAreNumbers ==
    ASSUME controls \subseteq Controls
    PROVE  /\ Rank(EffectiveControl) \in Int
           /\ \A s : Rank(ControlStateFor(s)) \in Int
<1>1. EffectiveControl \in ControlStates
  BY EffectiveControlIsLeast
<1>2. \A s : ControlStateFor(s) \in ControlStates
  BY DEF ControlStateFor, ControlStates
<1>3. QED
  BY <1>1, <1>2, RankValues DEF ControlStates

LEMMA OpenBreakerKeeps ==
    ASSUME IInv, NEW i \in IncidentIds, NEW s \in Severities, OpenBreaker(i, s)
    PROVE  IInv'
<1> USE DEF IInv, OpenBreaker
<1>1. PutControl(ControlFor(s)) /\ ControlFor(s) \in Controls /\ controls \subseteq Controls
  BY ControlForType DEF TypeOK
<1>2. /\ controls' \subseteq Controls
      /\ Rank(EffectiveControl') \in Int
      /\ Rank(EffectiveControl') <= Rank(EffectiveControl)
      /\ Rank(EffectiveControl') <= Rank(ControlStateFor(s))
  BY <1>1, ControlForType, ControlsNeverLoosen
<1>3. TypeOK'
  BY <1>2 DEF TypeOK
<1>4. OpeningIsNew'
  BY DEF OpeningIsNew
<1>5. Controlled'
  <2>1. \A t : Rank(EffectiveControl) <= Rank(ControlStateFor(t))
          => Rank(EffectiveControl') <= Rank(ControlStateFor(t))
    BY <1>1, <1>2, RanksAreNumbers
  <2>2. \A o \in opening' : o \in opening \/ o.severity = s
    OBVIOUS
  <2>3. QED
    BY <1>2, <2>1, <2>2 DEF Controlled, IncidentIsControlled
<1>6. QED
  BY <1>3, <1>4, <1>5

LEMMA RecordIncidentKeeps ==
    ASSUME IInv, NEW o \in opening, RecordIncident(o)
    PROVE  IInv'
<1> USE DEF IInv, RecordIncident
<1> DEFINE row == [state |-> "OPEN", severity |-> o.severity, version |-> 1]
<1>1. o.id \in IncidentIds /\ o.severity \in Severities /\ incident[o.id] = NoRow
  BY DEF TypeOK, OpeningIsNew
<1>2. row \in Rows
  BY <1>1, OpenRowType
<1>3. events[o.id].resolved = 0
  BY <1>1 DEF TypeOK, NoRow
<1>4. TypeOK'
  <2>1. incident' \in [IncidentIds -> Rows] /\ incident'[o.id].version = 1
    BY <1>1, <1>2 DEF TypeOK
  <2>2. events' \in [IncidentIds -> [opened : 0..1, resolved : 0..MaxVersion]]
    BY <1>1 DEF TypeOK
  <2>3. events'[o.id].opened = 1 /\ events'[o.id].resolved = 0
    BY <1>1, <1>3 DEF TypeOK
  <2>4. QED
    BY <1>1, <2>1, <2>2, <2>3 DEF TypeOK
<1>5. OpeningIsNew'
  BY <1>1 DEF OpeningIsNew, TypeOK
<1>6. Controlled'
  <2>1. incident'[o.id].severity = o.severity /\ \A j \in IncidentIds \ {o.id} : incident'[j] = incident[j]
    BY <1>1 DEF TypeOK
  <2>2. EffectiveControl' = EffectiveControl
    BY DEF EffectiveControl
  <2>3. QED
    BY <1>1, <2>1, <2>2 DEF Controlled, IncidentIsControlled
<1>7. QED
  BY <1>4, <1>5, <1>6

LEMMA ResolveKeeps ==
    ASSUME IInv, NEW op \in Operators, Resolve(op), reading[op].id \in IncidentIds,
           incident[reading[op].id].state # "none"
    PROVE  IInv'
<1> USE DEF IInv, Resolve
<1> DEFINE i == reading[op].id
<1>1. i \in IncidentIds /\ incident[i] \in Rows /\ incident[i].version < MaxVersion
  BY DEF TypeOK
<1>2. incident' = [incident EXCEPT ![i] = [incident[i] EXCEPT !.state = "RESOLVED", !.version = @ + 1]]
  BY <1>1 DEF TypeOK
<1>3. /\ incident' \in [IncidentIds -> Rows]
      /\ incident'[i].state = "RESOLVED"
      /\ incident'[i].severity = incident[i].severity
      /\ incident'[i].version = incident[i].version + 1
      /\ \A j \in IncidentIds \ {i} : incident'[j] = incident[j]
  <2> DEFINE t == [incident[i] EXCEPT !.state = "RESOLVED", !.version = @ + 1]
  <2>1. /\ t \in Rows
        /\ t.state = "RESOLVED"
        /\ t.severity = incident[i].severity
        /\ t.version = incident[i].version + 1
    BY <1>1, ResolvedRow
  <2>2. incident' = [incident EXCEPT ![i] = t]
    BY <1>2
  <2> HIDE DEF t
  <2>3. QED
    BY <1>1, <2>1, <2>2 DEF TypeOK
<1>4. events[i].resolved + 1 \in 0..MaxVersion
  BY <1>1 DEF TypeOK, Rows
<1>5. /\ events' \in [IncidentIds -> [opened : 0..1, resolved : 0..MaxVersion]]
      /\ events'[i].opened = events[i].opened
      /\ events'[i].resolved = events[i].resolved + 1
      /\ \A j \in IncidentIds \ {i} : events'[j] = events[j]
  BY <1>1, <1>4 DEF TypeOK
<1>6. reading' \in [Operators -> [id : IncidentIds \cup {NoIncident}, version : 0..MaxVersion]]
  BY DEF TypeOK, Nothing
<1>7. incident'[i].version = events'[i].opened + events'[i].resolved
  <2>1. incident[i].version = events[i].opened + events[i].resolved
    BY <1>1 DEF TypeOK
  <2>2. events[i].opened \in Int /\ events[i].resolved \in Int
    BY <1>1 DEF TypeOK
  <2>3. events[i].opened + events[i].resolved + 1 = events[i].opened + (events[i].resolved + 1)
    BY <2>2
  <2>4. incident'[i].version = events[i].opened + events[i].resolved + 1
    BY <1>3, <2>1
  <2>5. events'[i].opened + events'[i].resolved = events[i].opened + (events[i].resolved + 1)
    BY <1>5
  <2>6. QED
    BY <2>3, <2>4, <2>5
<1>8. TypeOK'
  BY <1>3, <1>5, <1>6, <1>7 DEF TypeOK
<1>9. OpeningIsNew'
  <2>1. \A o \in opening : o.id # i
    BY DEF OpeningIsNew, NoRow
  <2>2. QED
    BY <1>3, <2>1 DEF OpeningIsNew, TypeOK
<1>10. Controlled'
  <2>1. EffectiveControl' = EffectiveControl
    BY DEF EffectiveControl
  <2>2. QED
    BY <1>1, <1>3, <2>1 DEF Controlled, IncidentIsControlled
<1>11. QED
  BY <1>8, <1>9, <1>10

(* An operator only ever acts on an incident that is on record.            *)
Known == \A op \in Operators : reading[op] # Nothing =>
    reading[op].id \in IncidentIds /\ incident[reading[op].id].state # "none"

LEMMA InvStep == IInv /\ Known /\ [Next]_vars => IInv' /\ Known'
<1> SUFFICES ASSUME IInv, Known, [Next]_vars PROVE IInv' /\ Known'
  OBVIOUS
<1>1. ASSUME NEW i \in IncidentIds, NEW s \in Severities, OpenBreaker(i, s) PROVE IInv' /\ Known'
  BY <1>1, OpenBreakerKeeps DEF OpenBreaker, Known
<1>2. ASSUME NEW o \in opening, RecordIncident(o) PROVE IInv' /\ Known'
  <2>1. \A j \in IncidentIds : incident[j].state # "none" => incident'[j].state # "none"
    BY <1>2 DEF RecordIncident, IInv, TypeOK
  <2>2. QED
    BY <1>2, <2>1, RecordIncidentKeeps DEF RecordIncident, Known
<1>3. ASSUME NEW o \in opening, Crash(o) PROVE IInv' /\ Known'
  BY <1>3 DEF Crash, IInv, TypeOK, OpeningIsNew, Controlled, IncidentIsControlled, Known,
              EffectiveControl
<1>4. ASSUME NEW op \in Operators, NEW i \in IncidentIds, Look(op, i) PROVE IInv' /\ Known'
  <2>1. incident[i].version \in 0..MaxVersion
    BY <1>4 DEF IInv, TypeOK, Rows
  <2>2. QED
    BY <1>4, <2>1 DEF Look, IInv, TypeOK, OpeningIsNew, Controlled, IncidentIsControlled, Known,
                      EffectiveControl
<1>5. ASSUME NEW op \in Operators, Resolve(op) PROVE IInv' /\ Known'
  <2>1. reading[op].id \in IncidentIds /\ incident[reading[op].id].state # "none"
    BY <1>5 DEF Resolve, Known
  <2>2. \A j \in IncidentIds : incident[j].state # "none" => incident'[j].state # "none"
    BY <1>5, <2>1 DEF Resolve, IInv, TypeOK, Rows
  <2>3. QED
    BY <1>5, <2>1, <2>2, ResolveKeeps DEF Resolve, Known, IInv, TypeOK
<1>6. ASSUME NEW op \in Operators, GiveUp(op) PROVE IInv' /\ Known'
  <2>1. Nothing \in [id : IncidentIds \cup {NoIncident}, version : 0..MaxVersion]
    BY DEF Nothing
  <2>2. QED
    BY <1>6, <2>1 DEF GiveUp, IInv, TypeOK, OpeningIsNew, Controlled, IncidentIsControlled, Known,
                      EffectiveControl
<1>7. CASE UNCHANGED vars
  BY <1>7 DEF vars, IInv, TypeOK, OpeningIsNew, Controlled, IncidentIsControlled, Known,
              EffectiveControl
<1>8. QED
  BY <1>1, <1>2, <1>3, <1>4, <1>5, <1>6, <1>7 DEF Next

LEMMA Inductive == Spec => [](IInv /\ Known)
<1>1. Init => IInv /\ Known
  BY InvInit DEF Init, Known
<1>2. QED
  BY <1>1, InvStep, PTL DEF Spec

-----------------------------------------------------------------------------
(* Theorems.                                                               *)

(* Rows and events keep their types, and the version of a row counts the   *)
(* events logged for it.                                                   *)
THEOREM TypeCorrect == Spec => []TypeOK
BY Inductive, PTL DEF IInv

(* Whoever resolves an incident has seen every earlier resolution of it.   *)
THEOREM ResolvedInformed == Spec => ResolutionsAreInformed
<1> DEFINE Informed == \A op \in Operators, i \in IncidentIds :
          reading[op].id = i /\ reading'[op] = Nothing /\ events'[i] # events[i]
          => events[i].resolved = reading[op].version - 1
<1>1. IInv /\ Known /\ [Next]_vars => [Informed]_vars
  <2> SUFFICES ASSUME IInv, Known, Next PROVE Informed
    OBVIOUS
  <2> SUFFICES ASSUME NEW op \in Operators, NEW i \in IncidentIds,
                      reading[op].id = i, reading'[op] = Nothing, events'[i] # events[i]
               PROVE  events[i].resolved = reading[op].version - 1
    OBVIOUS
  <2>1. reading'[op] # reading[op]
    BY DEF IInv, TypeOK, Nothing
  <2>2. ASSUME NEW oq \in Operators, Resolve(oq) PROVE events[i].resolved = reading[op].version - 1
    <3>1. oq = op
      BY <2>1, <2>2 DEF Resolve, IInv, TypeOK
    <3>2. incident[i].version = reading[op].version /\ incident[i].state # "none"
      BY <2>2, <3>1 DEF Resolve, ResolveAllowed, Known
    <3>3. events[i].opened = 1
      BY <3>2 DEF IInv, OpeningIsNew
    <3>4. events[i].resolved \in Int /\ incident[i].version = events[i].opened + events[i].resolved
      BY DEF IInv, TypeOK
    <3>5. QED
      BY <3>2, <3>3, <3>4
  <2>3. ASSUME NEW o \in opening, RecordIncident(o) PROVE FALSE
    BY <2>1, <2>3 DEF RecordIncident
  <2>4. QED
    BY <2>1, <2>2, <2>3 DEF Next, OpenBreaker, Crash, Look, GiveUp
<1>2. QED
  BY <1>1, Inductive, PTL DEF Spec, ResolutionsAreInformed

(* No incident is on record without its control in force, whatever crashes *)
(* between the two transactions and however often it is resolved.          *)
THEOREM IncidentsControlled == Spec => []IncidentIsControlled
BY Inductive, PTL DEF IInv, Controlled
=============================================================================
