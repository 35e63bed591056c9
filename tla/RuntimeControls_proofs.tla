----------------------- MODULE RuntimeControls_proofs -----------------------
(***************************************************************************)
(* What EffectiveControl computes, for any set of controls.                *)
(***************************************************************************)
EXTENDS RuntimeControls, TLAPS

(* The states of the controls that count.                                  *)
States(rows) == {"RUNNING"} \cup {c.state : c \in {d \in rows : d.scope = "account"}}

LEMMA RankValues ==
    /\ Rank("FROZEN_REVIEW") = 0
    /\ Rank("PAUSED") = 1
    /\ Rank("CLOSING_ONLY") = 2
    /\ Rank("RUNNING") = 3
BY DEF Rank

LEMMA SomeStateIsLeast ==
    ASSUME NEW S, S \subseteq ControlStates, "RUNNING" \in S
    PROVE  \E s \in S : \A t \in S : Rank(s) <= Rank(t)
<1>1. CASE "FROZEN_REVIEW" \in S
  BY <1>1, RankValues DEF ControlStates
<1>2. CASE "FROZEN_REVIEW" \notin S /\ "PAUSED" \in S
  BY <1>2, RankValues DEF ControlStates
<1>3. CASE "FROZEN_REVIEW" \notin S /\ "PAUSED" \notin S /\ "CLOSING_ONLY" \in S
  BY <1>3, RankValues DEF ControlStates
<1>4. CASE "FROZEN_REVIEW" \notin S /\ "PAUSED" \notin S /\ "CLOSING_ONLY" \notin S
  BY <1>4, RankValues DEF ControlStates
<1>5. QED
  BY <1>1, <1>2, <1>3, <1>4

Effective(rows) == CHOOSE s \in States(rows) : \A t \in States(rows) : Rank(s) <= Rank(t)

(* The effective control is RUNNING or one that was put, and no control    *)
(* that was put is more restrictive (RuntimeStore.effective_control).      *)
LEMMA EffectiveIsLeast ==
    ASSUME NEW rows, rows \subseteq Controls
    PROVE  /\ Effective(rows) \in ControlStates
           /\ Effective(rows) \in States(rows)
           /\ \A s \in States(rows) : Rank(Effective(rows)) <= Rank(s)
           /\ \A c \in rows : c.scope = "account" => Rank(Effective(rows)) <= Rank(c.state)
<1> DEFINE S == States(rows)
<1>1. S \subseteq ControlStates /\ "RUNNING" \in S
  BY DEF States, Controls, ControlStates
<1>2. Effective(rows) = CHOOSE s \in S : \A t \in S : Rank(s) <= Rank(t)
  BY DEF Effective
<1>3. \A c \in rows : c.scope = "account" => c.state \in S
  BY DEF States
<1>4. S = States(rows)
  OBVIOUS
<1> HIDE DEF S
<1>5. Effective(rows) \in S /\ \A t \in S : Rank(Effective(rows)) <= Rank(t)
  BY <1>1, <1>2, SomeStateIsLeast
<1>6. QED
  BY <1>1, <1>3, <1>4, <1>5

LEMMA EffectiveControlIsLeast ==
    ASSUME controls \subseteq Controls
    PROVE  /\ EffectiveControl \in ControlStates
           /\ \A c \in controls : c.scope = "account" => Rank(EffectiveControl) <= Rank(c.state)
<1>1. EffectiveControl = Effective(controls)
  BY DEF EffectiveControl, Effective, States
<1>2. QED
  BY <1>1, EffectiveIsLeast

(* A control that is put never loosens what is in force, RUNNING does not  *)
(* lift PAUSED, and it binds at once (RuntimeStore.put_control).           *)
LEMMA ControlsNeverLoosen ==
    ASSUME controls \subseteq Controls, NEW c \in Controls, PutControl(c)
    PROVE  /\ controls' \subseteq Controls
           /\ Rank(EffectiveControl') \in Int
           /\ Rank(EffectiveControl') <= Rank(EffectiveControl)
           /\ c.scope = "account" => Rank(EffectiveControl') <= Rank(c.state)
<1>1. controls' \subseteq Controls /\ controls \subseteq controls' /\ c \in controls'
  BY DEF PutControl
<1>2. EffectiveControl = Effective(controls) /\ EffectiveControl' = Effective(controls')
  BY DEF EffectiveControl, Effective, States
<1>3. States(controls) \subseteq States(controls')
  BY <1>1 DEF States
<1>4. Effective(controls) \in States(controls')
  BY <1>3, EffectiveIsLeast
<1>5. Effective(controls') \in ControlStates
  BY <1>1, EffectiveIsLeast
<1>6. Rank(Effective(controls')) \in Int
  BY <1>5, RankValues DEF ControlStates
<1>7. Rank(Effective(controls')) <= Rank(Effective(controls))
  BY <1>1, <1>4, EffectiveIsLeast
<1>8. c.scope = "account" => Rank(Effective(controls')) <= Rank(c.state)
  BY <1>1, EffectiveIsLeast
<1>9. QED
  BY <1>1, <1>2, <1>6, <1>7, <1>8
=============================================================================
