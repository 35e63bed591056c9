-------------------------- MODULE Eligibility_proofs --------------------------
(***************************************************************************)
(* Theorems about Eligibility for any accounts, verifiers, settings and    *)
(* bounds.                                                                 *)
(***************************************************************************)
EXTENDS Eligibility, FiniteSetLemmas, TLAPS

-----------------------------------------------------------------------------
(* Manifests: what the domain makes of the facts.                          *)

LEMMA ManifestType ==
    ASSUME NEW f \in Facts
    PROVE  Manifest(f) \in Manifests
BY DEF Manifest, Manifests, EvaluateManifestOutcome, OutcomeOf, Outcomes

LEMMA EarlierType ==
    ASSUME NEW f \in Facts, NEW m \in EarlierRows(f)
    PROVE  m \in Manifests
<1>1. OutcomeOf(EarlierFailing(f)) \in Outcomes
  BY DEF OutcomeOf, Outcomes
<1>2. Manifest(f) \in Manifests
  BY ManifestType
<1>3. [facts |-> f, outcome |-> OutcomeOf(EarlierFailing(f)), earlier |-> TRUE] \in Manifests
  BY <1>1 DEF Manifests
<1>4. QED
  BY <1>2, <1>3 DEF EarlierRows

-----------------------------------------------------------------------------
(* Looking up the baseline: of rows that are dated there is a latest one.  *)

LEMMA LatestBaselineType ==
    ASSUME TypeOK, NEW a \in Accounts
    PROVE  LatestBaseline(a) = 0 \/
           \E m \in manifests :
              /\ m.facts.account = a
              /\ m.facts.baseline = 0
              /\ m.facts.at = LatestBaseline(a)
<1> DEFINE rows == Baselines(a)
           T == {m.facts.at : m \in rows}
<1>1. CASE rows = {}
  BY <1>1 DEF LatestBaseline
<1>2. CASE rows # {}
  <2>1. \A m \in rows : m.facts.at \in 1..MaxTime
    BY DEF Baselines, TypeOK, Manifests, Facts
  <2>2. T \subseteq Nat /\ T # {} /\ \A t \in T : t <= MaxTime
    BY <1>2, <2>1, EligibilityAssumption
  <2> HIDE DEF T
  <2>3. PICK top \in T : \A t \in T : t <= top
    BY <2>2, GreatestNatural, EligibilityAssumption
  <2>4. \E m \in rows : \A n \in rows : n.facts.at <= m.facts.at
    BY <2>3 DEF T
  <2>5. Latest(rows) \in rows
    BY <2>4 DEF Latest
  <2>6. QED
    BY <1>2, <2>5 DEF LatestBaseline, Baselines
<1>3. QED
  BY <1>1, <1>2

-----------------------------------------------------------------------------
(* Type correctness.                                                       *)

LEMMA NotReadType == NotRead \in Facts
BY EligibilityAssumption DEF NotRead, Facts, Feeds

LEMMA InitType == Init => TypeOK
<1> SUFFICES ASSUME Init PROVE TypeOK
  OBVIOUS
<1>1. manifests \subseteq Manifests
  BY EarlierType, EligibilityAssumption DEF Init
<1>2. NotRead \in Facts
  BY NotReadType
<1>3. NewAccount \in AccountStates
  BY DEF NewAccount, AccountStates
<1>4. QED
  BY <1>1, <1>2, <1>3, EligibilityAssumption DEF Init, TypeOK, Points

LEMMA EndType ==
    ASSUME TypeOK, NEW v \in Verifiers, End(v)
    PROVE  /\ pc' \in [Verifiers -> Points]
           /\ read' \in [Verifiers -> Facts]
           /\ clean' \in [Verifiers -> BOOLEAN]
           /\ filled' \in [Verifiers -> BOOLEAN]
BY NotReadType DEF End, Reads, TypeOK, Points

LEMMA ReadingType ==
    ASSUME TypeOK, NEW v \in Verifiers,
           \/ Start(v) \/ InspectAccount(v) \/ InspectPositions(v) \/ InspectOrders(v)
           \/ FindBaseline(v)
    PROVE  TypeOK' /\ UNCHANGED <<account, manifests, clock>>
<1> USE DEF Step, Reads
<1>1. CASE Start(v)
  <2>1. PICK s \in Processes :
          /\ read' = [read EXCEPT ![v] =
               [NotRead EXCEPT !.account = s.account, !.at = clock, !.pins = s.pins,
                               !.feed = s.feed]]
          /\ clean' = [clean EXCEPT ![v] = Clean(s.account)]
    BY <1>1 DEF Start
  <2>2. s \in Settings /\ clock \in 1..MaxTime
    BY EligibilityAssumption DEF TypeOK
  <2>3. [NotRead EXCEPT !.account = s.account, !.at = clock, !.pins = s.pins,
                        !.feed = s.feed] \in Facts
    <3>1. s.account \in Accounts /\ s.pins \in BOOLEAN /\ s.feed \in Feeds
      BY <2>2 DEF Settings
    <3>2. QED
      BY <2>2, <3>1, NotReadType DEF Facts
  <2>4. Clean(s.account) \in BOOLEAN
    BY DEF Clean
  <2>5. read' \in [Verifiers -> Facts] /\ clean' \in [Verifiers -> BOOLEAN]
    BY <2>1, <2>3, <2>4 DEF TypeOK
  <2>6. QED
    BY <1>1, <2>5 DEF Start, TypeOK, Points
<1>2. CASE InspectAccount(v)
  <2>1. read[v] \in Facts /\ account[read[v].account] \in AccountStates
    BY DEF TypeOK, Facts
  <2>2. Standing[read[v].account] \in [active : BOOLEAN, level3 : BOOLEAN]
    BY <2>1, EligibilityAssumption DEF Facts
  <2>3. [read[v] EXCEPT !.active = Standing[read[v].account].active,
                        !.level3 = Standing[read[v].account].level3,
                        !.fresh = account[read[v].account].fresh] \in Facts
    BY <2>1, <2>2 DEF Facts, AccountStates
  <2>4. QED
    BY <1>2, <2>3 DEF InspectAccount, TypeOK, Points
<1>3. CASE InspectPositions(v)
  <2>1. read[v] \in Facts /\ account[read[v].account] \in AccountStates
    BY DEF TypeOK, Facts
  <2>2. [read[v] EXCEPT !.positions = account[read[v].account].positions] \in Facts
    BY <2>1 DEF Facts, AccountStates
  <2>3. QED
    BY <1>3, <2>2 DEF InspectPositions, TypeOK, Points
<1>4. CASE InspectOrders(v)
  <2>1. read[v] \in Facts /\ account[read[v].account] \in AccountStates
    BY DEF TypeOK, Facts
  <2>2. [read[v] EXCEPT !.orders = account[read[v].account].orders] \in Facts
    BY <2>1 DEF Facts, AccountStates
  <2>3. QED
    BY <1>4, <2>2 DEF InspectOrders, TypeOK, Points
<1>5. CASE FindBaseline(v)
  <2>1. read[v] \in Facts
    BY DEF TypeOK
  <2>2. LatestBaseline(read[v].account) \in 0..MaxTime
    <3>1. read[v].account \in Accounts
      BY <2>1 DEF Facts
    <3>2. \A m \in manifests : m.facts.at \in 1..MaxTime
      BY DEF TypeOK, Manifests, Facts
    <3>3. QED
      BY <3>1, <3>2, LatestBaselineType, EligibilityAssumption
  <2>3. CASE End(v)
    BY <1>5, <2>3, EndType DEF FindBaseline, TypeOK
  <2>4. CASE ~End(v)
    <3>1. PICK baseline \in {0, LatestBaseline(read[v].account)} :
            read' = [read EXCEPT ![v] = [read[v] EXCEPT !.baseline = baseline]]
      BY <1>5, <2>4 DEF FindBaseline
    <3>2. baseline \in 0..MaxTime
      BY <2>2, <3>1, EligibilityAssumption
    <3>3. [read[v] EXCEPT !.baseline = baseline] \in Facts
      BY <2>1, <3>2 DEF Facts
    <3>4. QED
      BY <1>5, <2>4, <3>1, <3>3 DEF FindBaseline, TypeOK, Points
  <2>5. QED
    BY <2>3, <2>4
<1>6. QED
  BY <1>1, <1>2, <1>3, <1>4, <1>5 DEF Start, InspectAccount, InspectPositions, InspectOrders,
     FindBaseline

LEMMA TradingType ==
    ASSUME TypeOK, NEW a \in Accounts, Trade(a) \/ OrderFills(a)
    PROVE  TypeOK' /\ UNCHANGED manifests
<1>1. PICK s \in AccountStates : AccountBecomes(a, s)
  <2>1. CASE Trade(a)
    BY <2>1 DEF Trade, TypeOK, AccountStates
  <2>2. CASE OrderFills(a)
    <3> DEFINE s == [fresh |-> FALSE, positions |-> 1 - account[a].positions, orders |-> 0]
    <3>1. account[a].positions \in 0..1
      BY DEF TypeOK, AccountStates
    <3>2. s \in AccountStates
      BY <3>1 DEF AccountStates
    <3>3. QED
      BY <2>2, <3>2 DEF OrderFills
  <2>3. QED
    BY <2>1, <2>2
<1>2. \A v \in Verifiers :
        (clean[v] \/ (pc[v] # "idle" /\ read[v].account = a /\ s = NewAccount)) \in BOOLEAN
  BY DEF TypeOK
<1>3. clean' \in [Verifiers -> BOOLEAN]
  BY <1>1, <1>2 DEF AccountBecomes
<1>4. filled' \in [Verifiers -> BOOLEAN]
  BY DEF Trade, OrderFills, TypeOK
<1>5. moves' \in 0..MaxMoves /\ account' \in [Accounts -> AccountStates]
  BY <1>1, EligibilityAssumption DEF AccountBecomes, TypeOK
<1>6. QED
  BY <1>1, <1>3, <1>4, <1>5 DEF AccountBecomes, TypeOK

LEMMA StoringType ==
    ASSUME TypeOK, NEW v \in Verifiers, FindManifest(v) \/ Insert(v) \/ Leave(v) \/ VerifyFails(v)
    PROVE  TypeOK' /\ manifests \subseteq manifests'
<1>1. \/ End(v)
      \/ UNCHANGED <<read, clean, filled>> /\ \E p \in Points : pc' = [pc EXCEPT ![v] = p]
  BY DEF FindManifest, Insert, Leave, VerifyFails, CheckManifest, Return, Step, Points
<1>2. /\ pc' \in [Verifiers -> Points]
      /\ read' \in [Verifiers -> Facts]
      /\ clean' \in [Verifiers -> BOOLEAN]
      /\ filled' \in [Verifiers -> BOOLEAN]
  BY <1>1, EndType DEF TypeOK
<1> DEFINE new == Manifest(read[v])
<1>3. \/ manifests' = manifests
      \/ ~IdTaken(new) /\ manifests' = manifests \cup {new}
  BY DEF FindManifest, Insert, Leave, VerifyFails
<1>4. new \in Manifests
  BY ManifestType DEF TypeOK
<1>5. manifests' \subseteq Manifests
  BY <1>3, <1>4 DEF TypeOK
<1> HIDE DEF new
<1>6. OneRowPerId(manifests')
  BY <1>3 DEF TypeOK, OneRowPerId, IdTaken, SameId
<1>7. UNCHANGED <<account, clock, moves>>
  BY DEF FindManifest, Insert, Leave, VerifyFails
<1>8. QED
  BY <1>2, <1>3, <1>5, <1>6, <1>7 DEF TypeOK

LEMMA NextType ==
    ASSUME TypeOK, [Next]_vars
    PROVE  TypeOK' /\ manifests \subseteq manifests'
<1>1. ASSUME NEW v \in Verifiers, Verify(v)
      PROVE  TypeOK' /\ manifests \subseteq manifests'
  BY <1>1, ReadingType, StoringType DEF Verify
<1>2. ASSUME NEW a \in Accounts, Trade(a) \/ OrderFills(a)
      PROVE  TypeOK' /\ manifests \subseteq manifests'
  BY <1>2, TradingType
<1>3. CASE Tick
  BY <1>3, EligibilityAssumption DEF Tick, TypeOK
<1>4. CASE UNCHANGED vars
  BY <1>4 DEF vars, TypeOK
<1>5. QED
  BY <1>1, <1>2, <1>3, <1>4 DEF Next

(* Every state of the verifications and of the table is well typed, and no *)
(* two manifests have the same id.                                         *)
THEOREM EligibilityTypeCorrect == Spec => []TypeOK
<1>1. TypeOK /\ [Next]_vars => TypeOK'
  BY NextType
<1>2. QED
  BY <1>1, InitType, PTL DEF Spec

-----------------------------------------------------------------------------
(* What a verification returns is stored, and stays stored.                *)
THEOREM VerifiedStored == Spec => []VerifiedIsStored
<1>1. Init => VerifiedIsStored
  BY DEF Init, VerifiedIsStored
<1>2. TypeOK /\ VerifiedIsStored /\ [Next]_vars => VerifiedIsStored'
  <2> SUFFICES ASSUME TypeOK, VerifiedIsStored, [Next]_vars,
                      NEW v \in Verifiers, pc'[v] = "returned"
               PROVE  Manifest(read'[v]) \in manifests'
    BY DEF VerifiedIsStored, Manifest, EvaluateManifestOutcome
  <2>1. manifests \subseteq manifests'
    BY NextType
  <2>2. CASE pc[v] = "returned" /\ read'[v] = read[v]
    BY <2>1, <2>2 DEF VerifiedIsStored
  <2>3. CASE FindManifest(v) \/ Insert(v)
    <3>1. read' = read /\ Manifest(read[v]) \in manifests'
      BY <2>3 DEF FindManifest, Insert, CheckManifest, Return, End, Step, TypeOK
    <3>2. QED
      BY <3>1
  <2>4. CASE Verify(v) /\ ~FindManifest(v) /\ ~Insert(v)
    BY <2>4 DEF Verify, Start, InspectAccount, InspectPositions, InspectOrders, FindBaseline,
       Leave, VerifyFails, End, Step, TypeOK
  <2>5. CASE ~Verify(v)
    <3>1. pc'[v] = pc[v] /\ read'[v] = read[v]
      <4>1. ASSUME NEW u \in Verifiers, u # v, Verify(u)
            PROVE  pc'[v] = pc[v] /\ read'[v] = read[v]
        BY <4>1 DEF Verify, Start, InspectAccount, InspectPositions, InspectOrders, FindBaseline,
           FindManifest, Insert, Leave, VerifyFails, CheckManifest, Return, End, Reads, Step, TypeOK
      <4>2. ASSUME ~\E u \in Verifiers : Verify(u)
            PROVE  pc' = pc /\ read' = read
        BY <4>2 DEF Next, Trade, OrderFills, AccountBecomes, Tick, vars
      <4>3. QED
        BY <2>5, <4>1, <4>2
    <3>2. QED
      BY <2>2, <3>1
  <2>6. QED
    BY <2>3, <2>4, <2>5
<1>3. QED
  BY <1>1, <1>2, EligibilityTypeCorrect, PTL DEF Spec

-----------------------------------------------------------------------------
(* The baseline that a verification found stays there, unchanged, until it *)
(* stores its manifest.                                                    *)
IsBaseline(rows, a, at) ==
    \E n \in rows : n.facts.account = a /\ n.facts.at = at /\ n.facts.baseline = 0
FoundBaselines ==
    \A v \in Verifiers :
        read[v].baseline # 0 => IsBaseline(manifests, read[v].account, read[v].baseline)

LEMMA BaselinesStay ==
    ASSUME TypeOK, [Next]_vars, NEW a, NEW at, IsBaseline(manifests, a, at)
    PROVE  IsBaseline(manifests', a, at)
BY NextType DEF IsBaseline

LEMMA StepKeepsFoundBaselines ==
    ASSUME TypeOK, FoundBaselines, [Next]_vars
    PROVE  FoundBaselines'
<1> SUFFICES ASSUME NEW v \in Verifiers, read'[v].baseline # 0
             PROVE  IsBaseline(manifests', read'[v].account, read'[v].baseline)
  BY DEF FoundBaselines
<1>1. CASE read'[v].baseline = read[v].baseline /\ read'[v].account = read[v].account
  BY <1>1, BaselinesStay DEF FoundBaselines, IsBaseline
<1>2. CASE FindBaseline(v)
  <2>1. read[v] \in Facts
    BY DEF TypeOK
  <2>2. /\ read'[v].account = read[v].account
        /\ read'[v].baseline = LatestBaseline(read[v].account)
    BY <1>2, <2>1 DEF FindBaseline, Reads, End, NotRead, TypeOK, Facts
  <2>3. IsBaseline(manifests, read[v].account, LatestBaseline(read[v].account))
    <3>1. read[v].account \in Accounts
      BY <2>1 DEF Facts
    <3>2. QED
      BY <2>2, <3>1, LatestBaselineType DEF IsBaseline
  <2>4. UNCHANGED manifests
    BY <1>2 DEF FindBaseline
  <2>5. QED
    BY <2>2, <2>3, <2>4 DEF IsBaseline
<1>3. CASE Start(v) \/ Leave(v) \/ VerifyFails(v)
  <2>1. CASE Start(v)
    <3>1. PICK s \in Processes :
            read' = [read EXCEPT ![v] = [NotRead EXCEPT !.account = s.account, !.at = clock,
                                                        !.pins = s.pins, !.feed = s.feed]]
      BY <2>1 DEF Start, Reads
    <3>2. read'[v].baseline = 0
      BY <3>1 DEF NotRead, TypeOK
    <3>3. QED
      BY <3>2
  <2>2. CASE Leave(v) \/ VerifyFails(v)
    <3>1. read'[v] = NotRead
      BY <2>2 DEF Leave, VerifyFails, End, Reads, TypeOK
    <3>2. QED
      BY <3>1 DEF NotRead
  <2>3. QED
    BY <1>3, <2>1, <2>2
<1>4. CASE InspectAccount(v) \/ InspectPositions(v) \/ InspectOrders(v)
  <2>1. read[v] \in Facts
    BY DEF TypeOK
  <2>2. CASE InspectAccount(v)
    <3>1. read'[v].baseline = read[v].baseline /\ read'[v].account = read[v].account
      BY <2>1, <2>2 DEF InspectAccount, Reads, TypeOK, Facts
    <3>2. QED
      BY <1>1, <3>1
  <2>3. CASE InspectPositions(v) \/ InspectOrders(v)
    <3>1. read'[v].baseline = read[v].baseline /\ read'[v].account = read[v].account
      BY <2>1, <2>3 DEF InspectPositions, InspectOrders, Reads, TypeOK, Facts
    <3>2. QED
      BY <1>1, <3>1
  <2>4. QED
    BY <1>4, <2>2, <2>3
<1>5. CASE FindManifest(v) \/ Insert(v)
  <2>1. read'[v] = read[v] \/ read'[v] = NotRead
    BY <1>5 DEF FindManifest, Insert, CheckManifest, Return, End, Reads, TypeOK
  <2>2. QED
    BY <1>1, <2>1 DEF NotRead
<1>6. ASSUME NEW u \in Verifiers, u # v, Verify(u)
      PROVE  read'[v] = read[v]
  BY <1>6 DEF Verify, Start, InspectAccount, InspectPositions, InspectOrders, FindBaseline,
     FindManifest, Insert, Leave, VerifyFails, CheckManifest, Return, End, Reads, TypeOK
<1>7. ASSUME ~\E u \in Verifiers : Verify(u)
      PROVE  read' = read
  BY <1>7 DEF Next, Trade, OrderFills, AccountBecomes, Tick, vars
<1>8. QED
  BY <1>1, <1>2, <1>3, <1>4, <1>5, <1>6, <1>7 DEF Verify

(* Excuses do not build on each other: the baseline that a manifest names  *)
(* is a stored manifest of the same account without a baseline.            *)
THEOREM BaselinesRoot == Spec => []BaselinesAreRoots
<1>1. Init => FoundBaselines /\ BaselinesAreRoots
  BY DEF Init, FoundBaselines, NotRead, BaselinesAreRoots
<1>2. TypeOK /\ FoundBaselines /\ BaselinesAreRoots /\ [Next]_vars => BaselinesAreRoots'
  <2> SUFFICES ASSUME TypeOK, FoundBaselines, BaselinesAreRoots, [Next]_vars,
                      NEW m \in manifests', m.facts.baseline # 0
               PROVE  IsBaseline(manifests', m.facts.account, m.facts.baseline)
    BY DEF BaselinesAreRoots, Rooted, IsBaseline
  <2>1. CASE m \in manifests
    <3>1. IsBaseline(manifests, m.facts.account, m.facts.baseline)
      BY <2>1 DEF BaselinesAreRoots, Rooted, IsBaseline
    <3>2. QED
      BY <3>1, BaselinesStay
  <2>2. CASE m \notin manifests
    <3>1. PICK v \in Verifiers : Insert(v)
      BY <2>2 DEF Next, Verify, Start, InspectAccount, InspectPositions, InspectOrders,
         FindBaseline, FindManifest, Leave, VerifyFails, Trade, OrderFills, AccountBecomes, Tick,
         vars
    <3>2. m = Manifest(read[v])
      BY <2>2, <3>1 DEF Insert
    <3>3. m.facts = read[v]
      BY <3>2 DEF Manifest
    <3>4. QED
      BY <3>3, BaselinesStay DEF FoundBaselines
  <2>3. QED
    BY <2>1, <2>2
<1>3. TypeOK /\ FoundBaselines /\ [Next]_vars => FoundBaselines'
  BY StepKeepsFoundBaselines
<1>4. QED
  BY <1>1, <1>2, <1>3, EligibilityTypeCorrect, PTL DEF Spec

-----------------------------------------------------------------------------
(* What a verification has seen, unless an order filled meanwhile: its     *)
(* reads are still true of what only a fill can change, and once it has    *)
(* seen all of a fresh account the account has been so at one moment.      *)
Past(v, points) == pc[v] \in points
ReadHolds(v) ==
    LET a == account[read[v].account]
    IN  /\ pc[v] # "idle" /\ a = NewAccount => clean[v]
        /\ Past(v, {"positions", "orders", "baseline", "save", "insert", "returned"}) /\ ~filled[v] =>
              read[v].fresh = a.fresh
        /\ Past(v, {"orders", "baseline", "save", "insert", "returned"}) /\ ~filled[v] =>
              read[v].positions = a.positions
        /\ /\ Past(v, {"baseline", "save", "insert", "returned"}) /\ ~filled[v]
           /\ read[v].fresh /\ read[v].positions = 0 /\ read[v].orders = 0
           => clean[v]
ReadsHold == \A v \in Verifiers : ReadHolds(v)

LEMMA StateOfAccount ==
    ASSUME NEW s \in AccountStates
    PROVE  s = NewAccount <=> s.fresh /\ s.positions = 0 /\ s.orders = 0
<1>1. s = [fresh |-> s.fresh, positions |-> s.positions, orders |-> s.orders]
  BY DEF AccountStates
<1>2. s.fresh \in BOOLEAN
  BY DEF AccountStates
<1>3. QED
  BY <1>1, <1>2 DEF NewAccount

LEMMA VerifyKeepsReads ==
    ASSUME TypeOK, ReadsHold, NEW v \in Verifiers, Verify(v)
    PROVE  ReadsHold'
<1> USE DEF TypeOK
<1>1. account' = account
  BY DEF Verify, Start, InspectAccount, InspectPositions, InspectOrders, FindBaseline, FindManifest,
     Insert, Leave, VerifyFails
<1>2. ASSUME NEW u \in Verifiers, u # v
      PROVE  ReadHolds(u)'
  <2>1. pc'[u] = pc[u] /\ read'[u] = read[u] /\ clean'[u] = clean[u] /\ filled'[u] = filled[u]
    BY <1>2 DEF Verify, Start, InspectAccount, InspectPositions, InspectOrders, FindBaseline,
       FindManifest, Insert, Leave, VerifyFails, CheckManifest, Return, End, Reads, Step
  <2>2. QED
    BY <1>1, <2>1 DEF ReadsHold, ReadHolds, Past
<1>3. ReadHolds(v)'
  <2>1. ReadHolds(v) /\ read[v] \in Facts /\ account[read[v].account] \in AccountStates
    BY DEF ReadsHold, Facts
  <2>2. CASE Start(v)
    <3>1. PICK s \in Processes :
            /\ read' = [read EXCEPT ![v] = [NotRead EXCEPT !.account = s.account, !.at = clock,
                                                        !.pins = s.pins, !.feed = s.feed]]
            /\ clean' = [clean EXCEPT ![v] = Clean(s.account)]
      BY <2>2 DEF Start, Reads
    <3>2. read'[v].account = s.account /\ clean'[v] = Clean(s.account) /\ pc'[v] = "account"
      BY <2>2, <3>1 DEF Start, Step, NotRead
    <3>3. QED
      BY <1>1, <3>2 DEF ReadHolds, Past, Clean
  <2>3. CASE InspectAccount(v)
    <3>1. /\ read'[v].account = read[v].account
          /\ read'[v].fresh = account[read[v].account].fresh
          /\ pc[v] # "idle" /\ pc'[v] = "positions" /\ clean' = clean
      BY <2>1, <2>3 DEF InspectAccount, Step, Reads, Facts
    <3>2. QED
      BY <1>1, <2>1, <3>1 DEF ReadHolds, Past
  <2>4. CASE InspectPositions(v)
    <3>1. /\ read'[v].account = read[v].account
          /\ read'[v].fresh = read[v].fresh
          /\ read'[v].positions = account[read[v].account].positions
          /\ pc[v] = "positions" /\ pc'[v] = "orders" /\ clean' = clean /\ filled' = filled
      BY <2>1, <2>4 DEF InspectPositions, Step, Reads, Facts
    <3>2. QED
      BY <1>1, <2>1, <3>1 DEF ReadHolds, Past
  <2>5. CASE InspectOrders(v)
    <3>1. /\ read'[v].account = read[v].account
          /\ read'[v].fresh = read[v].fresh
          /\ read'[v].positions = read[v].positions
          /\ read'[v].orders = account[read[v].account].orders
          /\ pc[v] = "orders" /\ pc'[v] = "baseline" /\ clean' = clean /\ filled' = filled
      BY <2>1, <2>5 DEF InspectOrders, Step, Reads, Facts
    <3>2. ~filled[v] /\ read'[v].fresh /\ read'[v].positions = 0 /\ read'[v].orders = 0 => clean[v]
      BY <2>1, <3>1, StateOfAccount DEF ReadHolds, Past
    <3>3. QED
      BY <1>1, <2>1, <3>1, <3>2 DEF ReadHolds, Past
  <2>6. CASE FindBaseline(v) /\ pc'[v] # "idle"
    <3>1. /\ read'[v].account = read[v].account
          /\ read'[v].fresh = read[v].fresh
          /\ read'[v].positions = read[v].positions
          /\ read'[v].orders = read[v].orders
          /\ pc[v] = "baseline" /\ pc'[v] = "save" /\ clean' = clean /\ filled' = filled
      BY <2>1, <2>6 DEF FindBaseline, End, Step, Reads, Facts
    <3>2. QED
      BY <1>1, <2>1, <3>1 DEF ReadHolds, Past
  <2>7. CASE (FindManifest(v) \/ Insert(v)) /\ pc'[v] # "idle"
    <3>1. /\ read' = read /\ clean' = clean /\ filled' = filled
          /\ pc[v] \in {"save", "insert"} /\ pc'[v] \in {"insert", "returned"}
      BY <2>7 DEF FindManifest, Insert, CheckManifest, Return, End, Step
    <3>2. QED
      BY <1>1, <2>1, <3>1 DEF ReadHolds, Past
  <2>8. CASE pc'[v] = "idle"
    BY <2>8 DEF ReadHolds, Past
  <2>9. CASE Leave(v) \/ VerifyFails(v)
    BY <2>8, <2>9 DEF Leave, VerifyFails, End
  <2>10. QED
    BY <2>2, <2>3, <2>4, <2>5, <2>6, <2>7, <2>8, <2>9 DEF Verify
<1>4. QED
  BY <1>2, <1>3 DEF ReadsHold

LEMMA TradingKeepsReads ==
    ASSUME TypeOK, ReadsHold, NEW a \in Accounts, Trade(a) \/ OrderFills(a)
    PROVE  ReadsHold'
<1> USE DEF TypeOK
<1> SUFFICES ASSUME NEW v \in Verifiers PROVE ReadHolds(v)'
  BY DEF ReadsHold
<1>1. ReadHolds(v) /\ read[v] \in Facts /\ account[read[v].account] \in AccountStates
  BY DEF ReadsHold, Facts
<1>2. pc'[v] = pc[v] /\ read'[v] = read[v]
  BY DEF Trade, OrderFills, AccountBecomes
<1>3. CASE read[v].account # a
  <2>1. account'[read[v].account] = account[read[v].account] /\ (clean[v] => clean'[v])
    BY <1>1, <1>3 DEF Trade, OrderFills, AccountBecomes, Facts
  <2>2. filled'[v] = filled[v]
    BY <1>3 DEF Trade, OrderFills
  <2>3. QED
    BY <1>1, <1>2, <2>1, <2>2 DEF ReadHolds, Past
<1>4. CASE read[v].account = a
  <2>1. (clean[v] => clean'[v]) /\ (pc[v] # "idle" /\ account'[a] = NewAccount => clean'[v])
    BY <1>4 DEF Trade, OrderFills, AccountBecomes
  <2>2. CASE Trade(a)
    <3>1. account'[a].fresh = account[a].fresh /\ account'[a].positions = account[a].positions
      BY <1>1, <1>4, <2>2 DEF Trade, AccountBecomes, AccountStates
    <3>2. filled' = filled
      BY <2>2 DEF Trade
    <3>3. QED
      BY <1>1, <1>2, <1>4, <2>1, <3>1, <3>2 DEF ReadHolds, Past
  <2>3. CASE OrderFills(a)
    <3>1. pc[v] # "idle" => filled'[v]
      BY <1>4, <2>3 DEF OrderFills
    <3>2. QED
      BY <1>2, <1>4, <2>1, <3>1 DEF ReadHolds, Past
  <2>4. QED
    BY <2>2, <2>3
<1>5. QED
  BY <1>3, <1>4

LEMMA EligibleIsClean ==
    ASSUME NEW f \in Facts, Manifest(f).outcome = "ELIGIBLE", f.baseline = 0
    PROVE  f.fresh /\ f.positions = 0 /\ f.orders = 0
<1>1. Failing(f) = {}
  BY DEF Manifest, EvaluateManifestOutcome, OutcomeOf
<1>2. /\ Passes(f, "starting_cash")
      /\ Passes(f, "no_positions_at_baseline")
      /\ Passes(f, "no_orders_at_baseline")
  BY <1>1 DEF Failing, CheckNames
<1>3. QED
  BY <1>2 DEF Passes

(* Whoever certifies an account that has no baseline saw it fresh at some  *)
(* moment of the verification, unless an order filled in between.          *)
THEOREM CertificatesEarned == Spec => CertificatesAreEarned
<1>1. Init => ReadsHold
  BY DEF Init, ReadsHold, ReadHolds, Past
<1>2. TypeOK /\ ReadsHold /\ [Next]_vars => ReadsHold'
  <2> SUFFICES ASSUME TypeOK, ReadsHold, [Next]_vars
               PROVE  ReadsHold'
    OBVIOUS
  <2>1. CASE Tick \/ UNCHANGED vars
    BY <2>1 DEF Tick, vars, ReadsHold, ReadHolds, Past
  <2>2. QED
    BY <2>1, VerifyKeepsReads, TradingKeepsReads DEF Next
<1>3. TypeOK /\ ReadsHold /\ [Next]_vars =>
        [\A m \in manifests' \ manifests :
            m.outcome = "ELIGIBLE" /\ m.facts.baseline = 0 =>
              \E v \in Verifiers : pc[v] = "insert" /\ pc'[v] = "returned" /\ (clean[v] \/ filled[v])]_vars
  <2> SUFFICES ASSUME TypeOK, ReadsHold, [Next]_vars, NEW m \in manifests', m \notin manifests,
                      m.outcome = "ELIGIBLE", m.facts.baseline = 0
               PROVE  \E v \in Verifiers :
                         pc[v] = "insert" /\ pc'[v] = "returned" /\ (clean[v] \/ filled[v])
    OBVIOUS
  <2>1. PICK v \in Verifiers : Insert(v)
    BY DEF Next, Verify, Start, InspectAccount, InspectPositions, InspectOrders,
       FindBaseline, FindManifest, Leave, VerifyFails, Trade, OrderFills, AccountBecomes, Tick,
       vars
  <2>2. m = Manifest(read[v]) /\ read[v] \in Facts
    BY <2>1 DEF Insert, TypeOK
  <2>3. m.facts = read[v]
    BY <2>2 DEF Manifest
  <2>4. read[v].fresh /\ read[v].positions = 0 /\ read[v].orders = 0
    BY <2>2, <2>3, EligibleIsClean
  <2>5. pc[v] = "insert" /\ pc'[v] = "returned"
    BY <2>1 DEF Insert, CheckManifest, Return, TypeOK
  <2>6. clean[v] \/ filled[v]
    BY <2>4, <2>5 DEF ReadsHold, ReadHolds, Past
  <2>7. QED
    BY <2>5, <2>6
<1>4. QED
  BY <1>1, <1>2, <1>3, EligibilityTypeCorrect, PTL DEF Spec, CertificatesAreEarned
=============================================================================
