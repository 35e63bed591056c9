----------------------------- MODULE Eligibility -----------------------------
(***************************************************************************)
(* EligibilityService.verify and the table of eligibility manifests.  A    *)
(* verification (the command line, the capture endpoint) reads the account *)
(* in three requests, looks up the baseline of the account, evaluates the  *)
(* checks and stores the manifest.  Nothing keeps verifications, or the    *)
(* trading of the account, from overlapping.  One workspace; the checks of *)
(* the environment, the read and the mandate version always pass here, for *)
(* verify passes what they ask for (eligibility_ports.py:73).              *)
(***************************************************************************)
EXTENDS Integers, FiniteSets

CONSTANTS
    Accounts,
    Expected,    \* competition_account_id
    Verifiers,
    Processes,   \* the settings of the processes that verify
    Standing,    \* Standing[a]: whether a is ACTIVE and has options level 3
    Inherited,   \* what manifests of the earlier release may have been made from
    MaxTime,     \* bound on the clock
    MaxMoves     \* bound on the changes of the accounts

Feeds == {"INDICATIVE", "OPRA", "UNKNOWN"}
Settings == [account : Accounts, pins : BOOLEAN, feed : Feeds]
Facts ==
    [account : Accounts, at : 1..MaxTime, active : BOOLEAN, fresh : BOOLEAN,
     positions : 0..1, orders : 0..1, level3 : BOOLEAN, pins : BOOLEAN, feed : Feeds,
     baseline : 0..MaxTime]    \* verified_at of the baseline, 0 for none

ASSUME EligibilityAssumption ==
    /\ Expected \in Accounts
    /\ Processes \subseteq Settings
    /\ Standing \in [Accounts -> [active : BOOLEAN, level3 : BOOLEAN]]
    /\ Inherited \subseteq Facts
    /\ MaxTime \in Nat \ {0, 1}
    /\ MaxMoves \in Nat

VARIABLES
    account,     \* account[a]: the account at the broker
    manifests,   \* the rows of eligibility_manifests
    clock,
    pc,          \* pc[v]: the step at which the verification of v stands
    read,        \* read[v]: what it has read so far
    clean,       \* history, clean[v]: the account was fresh at some moment of it
    filled,      \* history, filled[v]: an order filled meanwhile
    moves        \* how many changes of accounts there were

vars == <<account, manifests, clock, pc, read, clean, filled, moves>>

(* What trading changes: whether equity and cash, which come in one reply, *)
(* are still the starting 100000.00, and whether anything is open.         *)
AccountStates == [fresh : BOOLEAN, positions : 0..1, orders : 0..1]
NewAccount == [fresh |-> TRUE, positions |-> 0, orders |-> 0]
Clean(a) == account[a] = NewAccount

-----------------------------------------------------------------------------
(* The domain: a manifest, its checks, its outcome.                        *)

(* starting_equity and starting_cash are one check here, and the pins of   *)
(* the CLI and of MCP are another.                                         *)
CheckNames ==
    {"account_identity", "account_status", "starting_cash", "no_positions_at_baseline",
     "no_orders_at_baseline", "options_level", "pins", "performance_feed"}
Outcomes == {"ELIGIBLE", "INELIGIBLE", "UNAVAILABLE"}

ExecutionTier(feed) == IF feed = "UNKNOWN" THEN "RESEARCH_ONLY" ELSE "PAPER_EXECUTABLE"

PassesMutant(f, check) ==   \* open orders are forgotten
    CASE check = "account_identity"         -> f.account = Expected
      [] check = "account_status"           -> f.active
      [] check = "starting_cash"            -> f.fresh
      [] check = "no_positions_at_baseline" -> f.positions = 0 \/ f.baseline # 0
      [] check = "options_level"            -> f.level3
      [] check = "pins"                     -> f.pins
      [] check = "performance_feed"         -> ExecutionTier(f.feed) = "PAPER_EXECUTABLE"
      [] OTHER                              -> TRUE

Passes(f, check) ==
    CASE check = "account_identity"         -> f.account = Expected
      [] check = "account_status"           -> f.active
      [] check = "starting_cash"            -> f.fresh
      [] check = "no_positions_at_baseline" -> f.positions = 0 \/ f.baseline # 0
      [] check = "no_orders_at_baseline"    -> f.orders = 0 \/ f.baseline # 0
      [] check = "options_level"            -> f.level3
      [] check = "pins"                     -> f.pins
      [] check = "performance_feed"         -> ExecutionTier(f.feed) = "PAPER_EXECUTABLE"

Failing(f) == {check \in CheckNames : ~Passes(f, check)}

(* A check that is unavailable outweighs any that fails.                   *)
OutcomeOf(failing) ==
    IF "pins" \in failing THEN "UNAVAILABLE"
    ELSE IF failing # {} THEN "INELIGIBLE" ELSE "ELIGIBLE"

EvaluateManifestOutcome(f) == OutcomeOf(Failing(f))

Manifests == [facts : Facts, outcome : Outcomes, earlier : BOOLEAN]
Manifest(f) == [facts |-> f, outcome |-> EvaluateManifestOutcome(f), earlier |-> FALSE]

(* The earlier release accepted no feed but OPRA, and worded the check     *)
(* that fails for any other feed differently.  How it worded a check that  *)
(* passes is not known: the row of an OPRA manifest may or may not be the  *)
(* one this release would store.                                           *)
EarlierFailing(f) ==
    (Failing(f) \ {"performance_feed"})
    \cup (IF f.feed = "OPRA" THEN {} ELSE {"performance_feed"})
EarlierRows(f) ==
    {[facts |-> f, outcome |-> OutcomeOf(EarlierFailing(f)), earlier |-> TRUE]}
    \cup (IF f.feed = "OPRA" THEN {Manifest(f)} ELSE {})

(* A row that this release would not have stored loads only if the feed is *)
(* why: ineligible, for the indicative feed.  Unavailable is not, be it    *)
(* for the same feed.                                                      *)
Loadable(row) ==
    row.earlier => row.outcome = "INELIGIBLE" /\ row.facts.feed = "INDICATIVE"

-----------------------------------------------------------------------------
(* The table.                                                              *)

(* The manifest id is made of workspace, account and time.                 *)
SameId(m, n) == m.facts.account = n.facts.account /\ m.facts.at = n.facts.at
OneRowPerId(rows) == \A m, n \in rows : SameId(m, n) => m = n

(* A manifest that names a baseline names a row of its account that has    *)
(* none itself.                                                            *)
Rooted(rows) ==
    \A m \in rows : m.facts.baseline # 0 =>
        \E n \in rows :
            /\ n.facts.account = m.facts.account
            /\ n.facts.at = m.facts.baseline
            /\ n.facts.baseline = 0

(* latest_baseline: the newest row without a baseline, whatever its        *)
(* outcome, which raises if that row does not load.                        *)
BaselinesMutant(a) == {m \in manifests : m.facts.baseline = 0}   \* of any account

Baselines(a) == {m \in manifests : m.facts.account = a /\ m.facts.baseline = 0}
Latest(rows) == CHOOSE m \in rows : \A n \in rows : n.facts.at <= m.facts.at

BaselineLoads(a) == Baselines(a) # {} => Loadable(Latest(Baselines(a)))
LatestBaseline(a) == IF Baselines(a) = {} THEN 0 ELSE Latest(Baselines(a)).facts.at

(* create_or_load_eligibility_manifest looks the id up, and inserts.       *)
IdTaken(m) == \E n \in manifests : SameId(m, n)

-----------------------------------------------------------------------------
NotRead ==
    [account |-> Expected, at |-> 1, active |-> FALSE, fresh |-> FALSE, positions |-> 0,
     orders |-> 0, level3 |-> FALSE, pins |-> FALSE, feed |-> "UNKNOWN", baseline |-> 0]
Points == {"idle", "account", "positions", "orders", "baseline", "save", "insert", "returned"}

TypeOK ==
    /\ account \in [Accounts -> AccountStates]
    /\ manifests \subseteq Manifests
    /\ OneRowPerId(manifests)
    /\ clock \in 1..MaxTime
    /\ pc \in [Verifiers -> Points]
    /\ read \in [Verifiers -> Facts]
    /\ clean \in [Verifiers -> BOOLEAN]
    /\ filled \in [Verifiers -> BOOLEAN]
    /\ moves \in 0..MaxMoves

Init ==
    /\ account = [a \in Accounts |-> NewAccount]
    /\ manifests \in SUBSET UNION {EarlierRows(f) : f \in Inherited}
    /\ OneRowPerId(manifests) /\ Rooted(manifests)
    /\ clock \in 1..MaxTime
    /\ \A m \in manifests : m.facts.at < clock
    /\ pc = [v \in Verifiers |-> "idle"]
    /\ read = [v \in Verifiers |-> NotRead]
    /\ clean = [v \in Verifiers |-> FALSE]
    /\ filled = [v \in Verifiers |-> FALSE]
    /\ moves = 0

Step(v, from, to) == pc[v] = from /\ pc' = [pc EXCEPT ![v] = to]
Reads(v, r) == read' = [read EXCEPT ![v] = r]
End(v) ==
    /\ pc' = [pc EXCEPT ![v] = "idle"]
    /\ Reads(v, NotRead)
    /\ clean' = [clean EXCEPT ![v] = FALSE]
    /\ filled' = [filled EXCEPT ![v] = FALSE]

(* The caller takes the time and hands it in.                              *)
Start(v) ==
    /\ Step(v, "idle", "account")
    /\ \E s \in Processes :
          /\ Reads(v, [NotRead EXCEPT !.account = s.account, !.at = clock, !.pins = s.pins,
                                      !.feed = s.feed])
          /\ clean' = [clean EXCEPT ![v] = Clean(s.account)]
    /\ UNCHANGED <<account, manifests, clock, filled, moves>>

InspectAccount(v) ==
    /\ Step(v, "account", "positions")
    /\ LET a == account[read[v].account]
       IN Reads(v, [read[v] EXCEPT !.active = Standing[read[v].account].active,
                                   !.level3 = Standing[read[v].account].level3,
                                   !.fresh = a.fresh])
    /\ UNCHANGED <<account, manifests, clock, clean, filled, moves>>

InspectPositions(v) ==
    /\ Step(v, "positions", "orders")
    /\ Reads(v, [read[v] EXCEPT !.positions = account[read[v].account].positions])
    /\ UNCHANGED <<account, manifests, clock, clean, filled, moves>>

InspectOrders(v) ==
    /\ Step(v, "orders", "baseline")
    /\ Reads(v, [read[v] EXCEPT !.orders = account[read[v].account].orders])
    /\ UNCHANGED <<account, manifests, clock, clean, filled, moves>>

(* The baseline is looked up, and has to load, for a capture too, which    *)
(* then starts a new one.                                                  *)
FindBaseline(v) ==
    /\ pc[v] = "baseline"
    /\ LET a == read[v].account
       IN  \/ /\ BaselineLoads(a)
              /\ Step(v, "baseline", "save")
              /\ \E captureBaseline \in BOOLEAN :
                    Reads(v, [read[v] EXCEPT !.baseline =
                                  IF captureBaseline THEN 0 ELSE LatestBaseline(a)])
              /\ UNCHANGED <<clean, filled>>
           \/ ~BaselineLoads(a) /\ End(v)
    /\ UNCHANGED <<account, manifests, clock, moves>>

(* The row there is, if the requested manifest hashes alike, or a raise.   *)
Return(v) ==
    /\ pc' = [pc EXCEPT ![v] = "returned"]
    /\ UNCHANGED <<read, clean, filled>>
CheckManifest(v) ==
    IF Manifest(read[v]) \in manifests THEN Return(v) ELSE End(v)

FindManifest(v) ==
    /\ pc[v] = "save"
    /\ IF IdTaken(Manifest(read[v])) THEN CheckManifest(v)
       ELSE Step(v, "save", "insert") /\ UNCHANGED <<read, clean, filled>>
    /\ UNCHANGED <<account, manifests, clock, moves>>

(* Mutants: the id is no key of the table; a lost race is not noticed.     *)
InsertAlways(v) ==
    /\ pc[v] = "insert"
    /\ manifests' = manifests \cup {Manifest(read[v])}
    /\ Return(v)
    /\ UNCHANGED <<account, clock, moves>>

InsertUnchecked(v) ==
    /\ pc[v] = "insert"
    /\ manifests' = manifests \cup
          (IF IdTaken(Manifest(read[v])) THEN {} ELSE {Manifest(read[v])})
    /\ Return(v)
    /\ UNCHANGED <<account, clock, moves>>

(* An IntegrityError: another verification was faster.                     *)
Insert(v) ==
    /\ pc[v] = "insert"
    /\ IF IdTaken(Manifest(read[v]))
       THEN CheckManifest(v) /\ UNCHANGED manifests
       ELSE manifests' = manifests \cup {Manifest(read[v])} /\ Return(v)
    /\ UNCHANGED <<account, clock, moves>>

(* The caller has its result.                                              *)
Leave(v) ==
    /\ pc[v] = "returned"
    /\ End(v)
    /\ UNCHANGED <<account, manifests, clock, moves>>

(* Any request, or the process, fails.                                     *)
VerifyFails(v) ==
    /\ pc[v] # "idle"
    /\ End(v)
    /\ UNCHANGED <<account, manifests, clock, moves>>

-----------------------------------------------------------------------------
(* The accounts trade.                                                     *)

AccountBecomes(a, s) ==
    /\ moves < MaxMoves
    /\ moves' = moves + 1
    /\ account' = [account EXCEPT ![a] = s]
    /\ clean' = [v \in Verifiers |->
                    clean[v] \/ (pc[v] # "idle" /\ read[v].account = a /\ s = NewAccount)]
    /\ UNCHANGED <<manifests, clock, pc, read>>

(* An order is placed, or canceled.                                        *)
Trade(a) ==
    /\ AccountBecomes(a, [account[a] EXCEPT !.orders = 1 - @])
    /\ UNCHANGED filled

(* An order fills, and opens a position or closes one.                     *)
OrderFills(a) ==
    /\ account[a].orders = 1
    /\ AccountBecomes(a, [fresh |-> FALSE, positions |-> 1 - account[a].positions, orders |-> 0])
    /\ filled' = [v \in Verifiers |-> filled[v] \/ (pc[v] # "idle" /\ read[v].account = a)]

Tick ==
    /\ clock < MaxTime
    /\ clock' = clock + 1
    /\ UNCHANGED <<account, manifests, pc, read, clean, filled, moves>>

Verify(v) ==
    \/ Start(v) \/ InspectAccount(v) \/ InspectPositions(v) \/ InspectOrders(v)
    \/ FindBaseline(v) \/ FindManifest(v) \/ Insert(v) \/ Leave(v) \/ VerifyFails(v)

Next ==
    \/ \E v \in Verifiers : Verify(v)
    \/ \E a \in Accounts : Trade(a) \/ OrderFills(a)
    \/ Tick

Spec == Init /\ [][Next]_vars

-----------------------------------------------------------------------------
(* Properties.                                                             *)

(* A manifest that is excused from a clean account names a baseline: a     *)
(* stored manifest of the same account that has no baseline itself, so     *)
(* that excuses never build on each other, however verifications overlap   *)
(* (eligibility.py:110, store.py:868).  It need not be earlier, nor        *)
(* eligible.                                                               *)
BaselinesAreRoots == Rooted(manifests)

(* A verification that returns speaks of the stored manifest: what it read *)
(* is what the row of its id says, although another process, with other    *)
(* settings, may have verified the account at the same moment and stored   *)
(* first (store.py:823 and store.py:843).                                  *)
VerifiedIsStored ==
    \A v \in Verifiers : pc[v] = "returned" => Manifest(read[v]) \in manifests

(* Whoever certifies an account without a baseline to excuse it saw a      *)
(* fresh account at some moment of the verification, although the three    *)
(* reads are of different moments, unless an order filled in between: that *)
(* one may escape both as a position and as an order                       *)
(* (eligibility_ports.py:61).                                              *)
CertificatesAreEarned ==
    [][\A m \in manifests' \ manifests :
          m.outcome = "ELIGIBLE" /\ m.facts.baseline = 0 =>
              \E v \in Verifiers : pc[v] = "insert" /\ pc'[v] = "returned" /\ (clean[v] \/ filled[v])]_vars
=============================================================================
