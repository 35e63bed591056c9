---------------------------- MODULE MCIncidents -----------------------------
(* Instances of Incidents for TLC. *)
EXTENDS Incidents, TLC

CONSTANTS i1, i2, alice, bob

(* Incidents and operators are interchangeable.                            *)
Symmetry == Permutations(IncidentIds) \cup Permutations(Operators)
=============================================================================
