----------------------------- MODULE Incidents ------------------------------
(***************************************************************************)
(* IncidentService: a breaker opens an incident by putting a runtime       *)
(* control and then, in another transaction, recording the incident; an    *)
(* operator who has read an incident's version resolves it.  A process may *)
(* stop between the two transactions of an opening.                        *)
(***************************************************************************)
EXTENDS RuntimeControls

CONSTANTS
    IncidentIds,
    Operators,    \* requests of the resolve endpoint under way
    Severities,   \* the severities breakers report
    NoIncident,   \* what an operator without a request looks at
    MaxVersion    \* bound on the versions of an incident

ASSUME IncidentsAssumption ==
    /\ Severities \subseteq {"INFO", "WARNING", "ERROR", "CRITICAL"}
    /\ NoIncident \notin IncidentIds
    /\ MaxVersion \in Nat \ {0}

VARIABLES
    incident,   \* the rows of runtime_incidents
    events,     \* events[i]: the rows of runtime_incident_events of i, by type
    opening,    \* openings between their two transactions: incident and severity
    reading     \* reading[o]: the incident and version operator o acts on

vars == <<controls, incident, events, opening, reading>>

IncidentStates == {"none", "OPEN", "RESOLVED"}   \* ACKNOWLEDGED is never written
Rows == [state : IncidentStates, severity : Severities \cup {"none"}, version : 0..MaxVersion]
NoRow == [state |-> "none", severity |-> "none", version |-> 0]
Nothing == [id |-> NoIncident, version |-> 0]

TypeOK ==
    /\ controls \subseteq Controls
    /\ incident \in [IncidentIds -> Rows]
    /\ events \in [IncidentIds -> [opened : 0..1, resolved : 0..MaxVersion]]
    /\ opening \subseteq [id : IncidentIds, severity : Severities]
    /\ reading \in [Operators -> [id : IncidentIds \cup {NoIncident}, version : 0..MaxVersion]]
    /\ \A i \in IncidentIds : incident[i].version = events[i].opened + events[i].resolved

Init ==
    /\ controls = {}
    /\ incident = [i \in IncidentIds |-> NoRow]
    /\ events = [i \in IncidentIds |-> [opened |-> 0, resolved |-> 0]]
    /\ opening = {}
    /\ reading = [o \in Operators |-> Nothing]

-----------------------------------------------------------------------------

(* Severity decides: the gravest incident leaves closing possible.         *)
ControlStateFor(severity) ==
    CASE severity = "CRITICAL" -> "CLOSING_ONLY"
      [] severity \in {"ERROR", "WARNING"} -> "PAUSED"
      [] OTHER -> "RUNNING"

ControlFor(severity) == [scope |-> "account", state |-> ControlStateFor(severity)]

(* open_breaker, first transaction, under a fresh incident id ...          *)
OpenBreakerMutant(i, severity) ==   \* the incident is recorded before its control
    /\ incident[i] = NoRow /\ i \notin {o.id : o \in opening}
    /\ opening' = opening \cup {[id |-> i, severity |-> severity]}
    /\ incident' = [incident EXCEPT ![i] =
                      [state |-> "OPEN", severity |-> severity, version |-> 1]]
    /\ events' = [events EXCEPT ![i].opened = 1]
    /\ UNCHANGED <<controls, reading>>

OpenBreaker(i, severity) ==
    /\ incident[i] = NoRow /\ i \notin {o.id : o \in opening}
    /\ PutControl(ControlFor(severity))
    /\ opening' = opening \cup {[id |-> i, severity |-> severity]}
    /\ UNCHANGED <<incident, events, reading>>

(* ... and second transaction.                                             *)
RecordIncidentMutant(o) ==   \* the event is not logged
    /\ o \in opening
    /\ opening' = opening \ {o}
    /\ incident' = [incident EXCEPT ![o.id] =
                      [state |-> "OPEN", severity |-> o.severity, version |-> 1]]
    /\ UNCHANGED <<controls, events, reading>>

RecordIncident(o) ==
    /\ o \in opening
    /\ opening' = opening \ {o}
    /\ incident' = [incident EXCEPT ![o.id] =
                      [state |-> "OPEN", severity |-> o.severity, version |-> 1]]
    /\ events' = [events EXCEPT ![o.id].opened = 1]
    /\ UNCHANGED <<controls, reading>>

(* The process that was opening stops: the control stays.                  *)
Crash(o) ==
    /\ o \in opening
    /\ opening' = opening \ {o}
    /\ UNCHANGED <<controls, incident, events, reading>>

(* list_public shows an operator the version to act on.                    *)
Look(op, i) ==
    /\ reading[op] = Nothing
    /\ incident[i].state # "none"
    /\ reading' = [reading EXCEPT ![op] = [id |-> i, version |-> incident[i].version]]
    /\ UNCHANGED <<controls, incident, events, opening>>

ResolveAllowedMutant(op) == TRUE   \* the version is not compared

ResolveAllowed(op) == incident[reading[op].id].version = reading[op].version

Resolve(op) ==
    /\ reading[op] # Nothing
    /\ ResolveAllowed(op)
    /\ LET i == reading[op].id
       IN  /\ incident[i].version < MaxVersion
           /\ incident' = [incident EXCEPT ![i].state = "RESOLVED", ![i].version = @ + 1]
           /\ events' = [events EXCEPT ![i].resolved = @ + 1]
    /\ reading' = [reading EXCEPT ![op] = Nothing]
    /\ UNCHANGED <<controls, opening>>

(* The operator decides otherwise, or is answered StaleIncidentVersion.    *)
GiveUp(op) ==
    /\ reading[op] # Nothing
    /\ reading' = [reading EXCEPT ![op] = Nothing]
    /\ UNCHANGED <<controls, incident, events, opening>>

Next ==
    \/ \E i \in IncidentIds, s \in Severities : OpenBreaker(i, s)
    \/ \E o \in opening : RecordIncident(o) \/ Crash(o)
    \/ \E op \in Operators : Resolve(op) \/ GiveUp(op) \/ \E i \in IncidentIds : Look(op, i)

Spec == Init /\ [][Next]_vars

-----------------------------------------------------------------------------
(* Properties.                                                             *)

(* No incident is on record while trading goes on as if it were not: its   *)
(* control is in force from before the record exists, crash or no crash    *)
(* (incidents.py:71 before incidents.py:88).                               *)
IncidentIsControlled ==
    \A i \in IncidentIds : incident[i].state # "none" =>
        Rank(EffectiveControl) <= Rank(ControlStateFor(incident[i].severity))

(* Whoever resolves an incident has seen every earlier resolution of it in *)
(* the event log (incidents.py:118): a second operator who decided on the  *)
(* same evidence does not resolve it over the first one's head.            *)
ResolutionsAreInformed ==
    [][\A op \in Operators, i \in IncidentIds :
          reading[op].id = i /\ reading'[op] = Nothing /\ events'[i] # events[i]
          => events[i].resolved = reading[op].version - 1]_vars
=============================================================================
