---------------------------- MODULE EntryPipeline ----------------------------
(***************************************************************************)
(* AutonomousTradingAgent.run_once, from the scheduler's tick to the       *)
(* intent, composed with the execution of the intent (IntentExecution).    *)
(*                                                                         *)
(* A run is one call of run_once by a process: the worker's, that of a     *)
(* second worker, or the run-once endpoint's.  It takes the time once,     *)
(* then awaits the market frame, the news, the stored analysis, the model, *)
(* the account and the positions; what it computes between two awaits is   *)
(* part of the step (StrategyRouter).  A run that abstains, is denied or   *)
(* fails ends; no state of it outlives it but the artifact.  Crashes and   *)
(* late requests during the execution are left to IntentExecution's own    *)
(* runs.  The market truth check is not wired (api/main.py:153) and not    *)
(* modelled.                                                               *)
(***************************************************************************)
EXTENDS IntentExecution, StrategyRouter

CONSTANTS
    None,              \* no frame, no news, no thesis yet
    Frames, Frame,     \* Frame[f]: the market frame named f
    Shown,             \* the frames the market may show in this instance
    News,              \* what the news request may return, other than nothing
    Theses, Thesis,    \* Thesis[t]: the thesis named t
    Basis,             \* Basis[i]: the decision that intent i stands for
    Accounts,          \* replies of get_account
    Valuations,        \* what the market may value the legs of each intent at, as |value|
    Times              \* what the time may be when a run starts

(* observe asks for expirations from 12 to 60 days after the run's date,   *)
(* which may be the day after the frame's.                                 *)
Quotes ==
    [name : Nat \ {0}, type : {"call", "put"}, strike : Nat \ {0}, dte : 12..61, bid : Nat,
     ask : Nat, delta : Int, interest : Nat, volume : Nat, whole : BOOLEAN,
     tradable : BOOLEAN, at : Int]
IsFrame(frame) ==
    /\ frame.at \in Nat
    /\ frame.price \in Nat \ {0} /\ frame.previousClose \in Nat \ {0}
    /\ frame.researchOnly \in BOOLEAN
    /\ frame.quotes \subseteq Quotes /\ IsFiniteSet(frame.quotes)
    /\ \A q, r \in frame.quotes : q.name = r.name => q = r

(* decision_id: the hash of the frame, the evidence, the thesis and the    *)
(* candidate, which follows from them.                                     *)
Chosen(t, f) == Route(Thesis[t], Frame[f])
Decisions ==
    {d \in {[frame |-> f, news |-> n, thesis |-> t] : f \in Shown, n \in News, t \in Theses} :
        /\ ~Frame[d.frame].researchOnly
        /\ Valid(Thesis[d.thesis])
        /\ Chosen(d.thesis, d.frame) # NoCandidate}
MaxLoss(d) == Chosen(d.thesis, d.frame).maxLoss

ASSUME EntryAssumption ==
    /\ Basis \in [Intents -> Decisions]
    /\ \A d \in Decisions : \E i \in Intents : Basis[i] = d
    /\ \A i, j \in Intents : Basis[i] = Basis[j] => i = j
    /\ \A i \in Intents : Amount[i] = MaxLoss(Basis[i])
    /\ Shown \subseteq Frames
    /\ None \notin Frames /\ None \notin News /\ None \notin Theses
    /\ \A f \in Frames : IsFrame(Frame[f])
    /\ \A t \in Theses : IsThesis(Thesis[t])
    /\ Valuations \subseteq [Intents -> Nat]
    /\ Accounts \subseteq [active : BOOLEAN, level : 0..3, buyingPower : BuyingPowers]
    /\ Times \subseteq Nat

VARIABLES
    artifacts,   \* the rows of intelligence_artifacts
    stage,       \* stage[p]: the await at which the run of p stands
    run          \* run[p]: what it has learned so far

entryVars == <<artifacts, stage, run>>
allVars == <<vars, entryVars>>

Stages == {"rest", "observe", "news", "find", "analyze", "save", "account", "positions",
           "enter", "execute"}
NoAccount == [active |-> FALSE, level |-> 0, buyingPower |-> 0]
NoRun == [now |-> 0, frame |-> None, news |-> None, thesis |-> None, candidate |-> NoCandidate,
          account |-> NoAccount]

(* EvidenceBundle.snapshot_hash: the option quotes are no part of it.      *)
Bundle(frame, news) ==
    [at |-> frame.at, price |-> frame.price, previousClose |-> frame.previousClose, news |-> news]
BundleOf(p) == Bundle(Frame[run[p].frame], run[p].news)
Artifact(f, n, t) == [bundle |-> Bundle(Frame[f], n), thesis |-> t]
Artifacts == {Artifact(f, n, t) : f \in Shown, n \in News, t \in Theses}

AllChosen == {Chosen(t, f) : t \in Theses, f \in Shown} \cup {NoCandidate}

Decision(r) == [frame |-> r.frame, news |-> r.news, thesis |-> r.thesis]
Runs ==
    [now : Times \cup {0}, frame : Shown \cup {None}, news : News \cup {None},
     thesis : Theses \cup {None}, candidate : AllChosen,
     account : Accounts \cup {NoAccount}]

(* What a run has learned at each await.                                   *)
HasLearned(at, r) ==
    /\ at \notin {"rest", "observe"} => r.frame \in Shown /\ ~Frame[r.frame].researchOnly
    /\ at \notin {"rest", "observe", "news"} => r.news \in News
    /\ at = "save" => r.thesis \in Theses
    /\ at \in {"account", "positions", "enter", "execute"} =>
          Decision(r) \in Decisions /\ r.candidate = Chosen(r.thesis, r.frame)

EntryTypeOK ==
    /\ TypeOK
    /\ artifacts \subseteq Artifacts
    /\ \A a, b \in artifacts : a.bundle = b.bundle => a = b
    /\ stage \in [Procs -> Stages]
    /\ run \in [Procs -> Runs]
    /\ \A p \in Procs : HasLearned(stage[p], run[p])
    /\ \A p \in Procs : pc[p] \notin {"idle", "down"} <=> stage[p] = "execute"

EntryInit ==
    /\ Init
    /\ artifacts = {}
    /\ stage = [p \in Procs |-> "rest"]
    /\ run = [p \in Procs |-> NoRun]

-----------------------------------------------------------------------------
GoesOn(p, to, r) ==
    /\ stage' = [stage EXCEPT ![p] = to]
    /\ run' = [run EXCEPT ![p] = r]
EndRun(p) == GoesOn(p, "rest", NoRun)

(* The scheduler's started_at, or the endpoint's.  Two processes need not  *)
(* agree on the time, so that a later run may have an earlier one.         *)
StartRun(p) ==
    /\ stage[p] = "rest"
    /\ pc[p] = "idle"
    /\ \E now \in Times : GoesOn(p, "observe", [NoRun EXCEPT !.now = now])
    /\ UNCHANGED <<artifacts, vars>>

(* The frame carries the time of the last trade.                           *)
Observe(p) ==
    /\ stage[p] = "observe"
    /\ \E f \in Shown :
          IF Recent(Frame[f].at, run[p].now) /\ ~Frame[f].researchOnly
          THEN GoesOn(p, "news", [run[p] EXCEPT !.frame = f])
          ELSE EndRun(p)
    /\ UNCHANGED <<artifacts, vars>>

ReadNews(p) ==
    /\ stage[p] = "news"
    /\ \E n \in News : GoesOn(p, "find", [run[p] EXCEPT !.news = n])
    /\ UNCHANGED <<artifacts, vars>>

(* With a thesis: it is checked, and a spread is chosen.                   *)
Decide(p, t) ==
    LET candidate == Chosen(t, run[p].frame)
    IN  IF Valid(Thesis[t]) /\ candidate # NoCandidate
        THEN GoesOn(p, "account", [run[p] EXCEPT !.thesis = t, !.candidate = candidate])
        ELSE EndRun(p)

FindArtifact(p) ==
    /\ stage[p] = "find"
    /\ \/ \E a \in artifacts : a.bundle = BundleOf(p) /\ Decide(p, a.thesis)
       \/ /\ \A a \in artifacts : a.bundle # BundleOf(p)
          /\ GoesOn(p, "analyze", run[p])
    /\ UNCHANGED <<artifacts, vars>>

(* The model may answer the same question differently.                     *)
Analyze(p) ==
    /\ stage[p] = "analyze"
    /\ \E t \in Theses : GoesOn(p, "save", [run[p] EXCEPT !.thesis = t])
    /\ UNCHANGED <<artifacts, vars>>

InsertMutant(row) == artifacts' = artifacts \cup {row}   \* no unique identity_hash

Insert(row) ==
    artifacts' = IF \E a \in artifacts : a.bundle = row.bundle THEN artifacts
                 ELSE artifacts \cup {row}

SaveArtifactMutant(p) ==   \* a run goes on with the thesis it got itself
    /\ stage[p] = "save"
    /\ Insert(Artifact(run[p].frame, run[p].news, run[p].thesis))
    /\ Decide(p, run[p].thesis)
    /\ UNCHANGED vars

(* create_or_load_intelligence_artifact: another thesis under the same     *)
(* identity raises, and the run fails.                                     *)
SaveArtifact(p) ==
    /\ stage[p] = "save"
    /\ LET row == Artifact(run[p].frame, run[p].news, run[p].thesis)
       IN  /\ Insert(row)
           /\ IF row \in artifacts' THEN Decide(p, row.thesis) ELSE EndRun(p)
    /\ UNCHANGED vars

ReadAccount(p) ==
    /\ stage[p] = "account"
    /\ \E a \in Accounts : GoesOn(p, "positions", [run[p] EXCEPT !.account = a])
    /\ UNCHANGED <<artifacts, vars>>

(* _portfolio_snapshot: the legs of filled orders, by absolute value;      *)
(* neither working orders nor reservations are in it.                      *)
Exposed(value) == SumFunctionOnSet(value, {i \in Intents : order[i].status = "filled"})
Snapshot(account, exposure) ==
    [open |-> {}, idle |-> 0, level |-> account.level, buyingPower |-> account.buyingPower,
     exposure |-> exposure]

(* The rest up to the intent: the risk check and the mandate.              *)
ReadPositions(p) ==
    /\ stage[p] = "positions"
    /\ LET r == run[p]
           c == r.candidate
       IN  \E value \in Valuations :
              IF /\ r.account.active
                 /\ RiskReasons(c, Thesis[r.thesis], Snapshot(r.account, Exposed(value))) = {}
                 /\ PolicyAllows(c.maxLoss, r.account.level, r.now, Frame[r.frame].at + Freshness)
              THEN GoesOn(p, "enter", r)
              ELSE EndRun(p)
    /\ UNCHANGED <<artifacts, vars>>

Enter(p) ==
    /\ stage[p] = "enter"
    /\ \E i \in Intents : Basis[i] = Decision(run[p]) /\ Persist(p, i)
    /\ GoesOn(p, "execute", run[p])
    /\ UNCHANGED artifacts

(* _persist_and_execute.  The capacity of the authorization comes from the *)
(* buying power that the run read before.                                  *)
SpendsWhatItRead(p) ==
    pc[p] = "authorize" /\ intentState[work[p]] = "VALIDATED" =>
        (intentState'[work[p]] = "AUTHORIZED"
            <=> AuthorizeAllowed(work[p], Capacity(p, run[p].account.buyingPower)))

Execute(p) ==
    /\ stage[p] = "execute"
    /\ Call(p)
    /\ SpendsWhatItRead(p)
    /\ IF pc'[p] = "idle" THEN EndRun(p) ELSE UNCHANGED <<stage, run>>
    /\ UNCHANGED artifacts

(* A provider fails, returns no news or no thesis, or evidence that does   *)
(* not hold together; or the process stops.                                *)
RunFails(p) ==
    /\ stage[p] \notin {"rest", "execute"}
    /\ EndRun(p)
    /\ UNCHANGED <<artifacts, vars>>

Run(p) ==
    \/ StartRun(p) \/ Observe(p) \/ ReadNews(p) \/ FindArtifact(p) \/ Analyze(p)
    \/ SaveArtifact(p) \/ ReadAccount(p) \/ ReadPositions(p) \/ Enter(p) \/ Execute(p)
    \/ RunFails(p)

EntryNext ==
    \/ \E p \in Procs : Run(p)
    \/ \E i \in Intents : MarketMoves(i) /\ UNCHANGED entryVars

EntrySpec == EntryInit /\ [][EntryNext]_allVars

-----------------------------------------------------------------------------
(* Properties.                                                             *)

(* Runs that race over the same evidence, or come back to it later, with   *)
(* other option quotes or after a crash, act on one thesis or not at all,  *)
(* although the model may answer each of them differently                  *)
(* (grounded_intelligence.py:61, store.py:781).                            *)
EvidenceOf(i) == Bundle(Frame[Basis[i].frame], Basis[i].news)
Created(i) == intentState[i] # "none"

EvidenceHasOneThesis ==
    \A i, j \in Intents :
        /\ Created(i) /\ Created(j)
        /\ EvidenceOf(i) = EvidenceOf(j)
        => Basis[i].thesis = Basis[j].thesis

(* Whatever thesis is stored, and on whichever frame of its evidence it is *)
(* used, the router finds a best admissible spread if there is any: its    *)
(* way over filtered pairs in order of strike misses none and admits none  *)
(* that it should not (strategy_router.py:56).                             *)
WellRouted ==
    {a \in Artifacts : \A f \in Frames :
        a.bundle = Bundle(Frame[f], a.bundle.news) =>
            IsBestSpread(Chosen(a.thesis, f), Thesis[a.thesis], Frame[f])}

RouteIsBest == artifacts \subseteq WellRouted

-----------------------------------------------------------------------------
(* Inductive strengthening of EvidenceHasOneThesis, for the proofs: who    *)
(* has decided did so on a thesis that is stored, and so did every intent. *)
IsStored(d) == Artifact(d.frame, d.news, d.thesis) \in artifacts

DecisionsAreStored ==
    /\ \A p \in Procs :
          stage[p] \in {"account", "positions", "enter", "execute"} => IsStored(Decision(run[p]))
    /\ \A i \in Intents : Created(i) => IsStored(Basis[i])
=============================================================================
