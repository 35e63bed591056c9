------------------------ MODULE EntryPipeline_proofs ------------------------
(***************************************************************************)
(* Theorems about EntryPipeline for any number of processes, any frames,   *)
(* news, theses and accounts, and any behaviour of the model and broker.   *)
(***************************************************************************)
EXTENDS EntryPipeline, IntentExecution_proofs

-----------------------------------------------------------------------------
(* What the execution of an intent does to the pipeline: it is a step of   *)
(* IntentExecution, the process stays up, and it creates no intent.        *)

LEMMA CallStaysUp ==
    ASSUME TypeOK, NEW p \in Procs, Call(p), pc[p] \notin {"idle", "down"}
    PROVE  pc'[p] # "down"
<1> USE DEF TypeOK, GoTo, Hear, EndCall, Leave, Raise
<1>1. CASE FindReceipt(p) \/ GetState(p) \/ Authorize(p)
  BY <1>1 DEF FindReceipt, GetState, Authorize
<1>2. CASE Claim(p)
  BY <1>2 DEF Claim
<1>3. CASE SubmitAnswered(p) \/ SubmitRefused(p) \/ SubmitUnknown(p) \/ SubmitError(p)
  BY <1>3 DEF SubmitAnswered, SubmitRefused, SubmitUnknown, SubmitError
<1>4. CASE Lookup(p) \/ Poll(p)
  BY <1>4 DEF Lookup, Poll
<1>5. CASE SettleReplaced(p) \/ SettleUnavailable(p) \/ SettleUnsubmitted(p) \/ SettleNotFilled(p)
  BY <1>5 DEF SettleReplaced, SettleUnavailable, SettleUnsubmitted, SettleNotFilled
<1>6. CASE SettleOrder(p)
  BY <1>6 DEF SettleOrder
<1>7. CASE WriteReceipt(p) \/ Restart(p)
  BY <1>7 DEF WriteReceipt, Restart
<1>8. QED
  BY <1>1, <1>2, <1>3, <1>4, <1>5, <1>6, <1>7 DEF Call

LEMMA CallCreatesNone ==
    ASSUME TypeOK, NEW p \in Procs, Call(p), pc[p] \notin {"idle", "down"},
           NEW i \in Intents, intentState'[i] # "none"
    PROVE  intentState[i] # "none"
<1> USE DEF TypeOK, StoreTypeOK
<1>1. CASE UNCHANGED storeVars
  BY <1>1 DEF storeVars
<1>2. CASE Authorize(p)
  BY <1>1, <1>2 DEF Authorize, Raise, AuthorizeWithReservation, AuthorizeAllowed
<1>3. CASE Claim(p)
  BY <1>1, <1>3 DEF Claim, Raise, ClaimSubmission, ShouldSubmit, AwaitingBroker
<1>4. CASE SettleReplaced(p)
  BY <1>1, <1>4 DEF SettleReplaced, Raise, MarkReplacementPending, ReplacementAllowed, AwaitingBroker
<1>5. CASE SettleUnavailable(p)
  BY <1>1, <1>5 DEF SettleUnavailable, Raise, MarkAckUnknown, AckUnknownAllowed, AwaitingBroker
<1>6. CASE SettleUnsubmitted(p)
  BY <1>1, <1>6 DEF SettleUnsubmitted, Raise, RecoverSubmission, RecoverAllowed, AwaitingBroker
<1>7. CASE SettleNotFilled(p)
  BY <1>1, <1>7 DEF SettleNotFilled, Raise, MarkNotFilled, NotFilledAllowed, AwaitingBroker, NotFilled
<1>8. CASE SettleOrder(p)
  BY <1>1, <1>8 DEF SettleOrder, Raise, RecordBrokerOrder, RecordAllowed, AwaitingBroker
<1>9. CASE WriteReceipt(p)
  BY <1>1, <1>9 DEF WriteReceipt, Raise, SaveReceipt
<1>10. CASE FindReceipt(p) \/ GetState(p) \/ SubmitAnswered(p) \/ SubmitRefused(p)
            \/ SubmitUnknown(p) \/ SubmitError(p) \/ Lookup(p) \/ Poll(p) \/ Restart(p)
  BY <1>1, <1>10 DEF FindReceipt, GetState, SubmitAnswered, SubmitRefused, SubmitUnknown,
     SubmitError, Lookup, Poll, Restart
<1>11. QED
  BY <1>2, <1>3, <1>4, <1>5, <1>6, <1>7, <1>8, <1>9, <1>10 DEF Call

LEMMA CallIsNext == \A p \in Procs : Call(p) => [Next]_vars
BY DEF Next

-----------------------------------------------------------------------------
(* Type correctness of a run, one lemma per kind of step.                  *)

PipelineTypeOK ==
    /\ stage \in [Procs -> Stages]
    /\ run \in [Procs -> Runs]
    /\ \A p \in Procs : HasLearned(stage[p], run[p])

LEMMA NoRunType == NoRun \in Runs /\ HasLearned("rest", NoRun)
BY DEF NoRun, Runs, AllChosen, HasLearned

LEMMA GoesOnType ==
    ASSUME PipelineTypeOK, NEW p \in Procs, NEW to \in Stages, NEW r \in Runs,
           HasLearned(to, r), GoesOn(p, to, r)
    PROVE  PipelineTypeOK'
<1>1. \A q \in Procs : HasLearned(stage'[q], run'[q])
  <2> SUFFICES ASSUME NEW q \in Procs PROVE HasLearned(stage'[q], run'[q])
    OBVIOUS
  <2>1. CASE q = p
    BY <2>1 DEF PipelineTypeOK, GoesOn
  <2>2. CASE q # p
    BY <2>2 DEF PipelineTypeOK, GoesOn
  <2>3. QED
    BY <2>1, <2>2
<1>2. QED
  BY <1>1 DEF PipelineTypeOK, GoesOn

LEMMA EndRunType ==
    ASSUME PipelineTypeOK, NEW p \in Procs, EndRun(p)
    PROVE  PipelineTypeOK'
BY GoesOnType, NoRunType DEF EndRun, Stages

LEMMA StartRunType ==
    ASSUME PipelineTypeOK, NEW p \in Procs, StartRun(p)
    PROVE  PipelineTypeOK'
<1>1. PICK now \in Times : GoesOn(p, "observe", [NoRun EXCEPT !.now = now])
  BY DEF StartRun
<1>2. [NoRun EXCEPT !.now = now] \in Runs
  BY NoRunType DEF Runs
<1>3. HasLearned("observe", [NoRun EXCEPT !.now = now])
  BY DEF HasLearned
<1>4. QED
  BY <1>1, <1>2, <1>3, GoesOnType DEF Stages

LEMMA ObserveType ==
    ASSUME PipelineTypeOK, NEW p \in Procs, Observe(p)
    PROVE  PipelineTypeOK'
<1>1. CASE EndRun(p)
  BY <1>1, EndRunType
<1>2. ASSUME NEW f \in Shown, ~Frame[f].researchOnly,
             GoesOn(p, "news", [run[p] EXCEPT !.frame = f])
      PROVE  PipelineTypeOK'
  <2> DEFINE r == [run[p] EXCEPT !.frame = f]
  <2>1. r \in Runs /\ r.frame = f
    BY DEF PipelineTypeOK, Runs
  <2>2. HasLearned("news", r)
    BY <1>2, <2>1 DEF HasLearned
  <2>3. QED
    BY <1>2, <2>1, <2>2, GoesOnType DEF Stages
<1>3. QED
  BY <1>1, <1>2 DEF Observe

LEMMA ReadNewsType ==
    ASSUME PipelineTypeOK, NEW p \in Procs, ReadNews(p)
    PROVE  PipelineTypeOK'
<1>1. PICK n \in News : GoesOn(p, "find", [run[p] EXCEPT !.news = n])
  BY DEF ReadNews
<1> DEFINE r == [run[p] EXCEPT !.news = n]
<1>2. r \in Runs /\ r.news = n /\ r.frame = run[p].frame
  BY DEF PipelineTypeOK, Runs
<1>3. run[p].frame \in Shown /\ ~Frame[run[p].frame].researchOnly
  BY DEF ReadNews, PipelineTypeOK, HasLearned
<1>4. HasLearned("find", r)
  BY <1>2, <1>3 DEF HasLearned
<1>5. QED
  BY <1>1, <1>2, <1>4, GoesOnType DEF Stages

LEMMA DecideType ==
    ASSUME PipelineTypeOK, NEW p \in Procs, stage[p] \in {"find", "save"},
           NEW t \in Theses, Decide(p, t)
    PROVE  PipelineTypeOK'
<1>1. CASE EndRun(p)
  BY <1>1, EndRunType
<1> DEFINE r == [run[p] EXCEPT !.thesis = t, !.candidate = Chosen(t, run[p].frame)]
<1>2. CASE /\ Valid(Thesis[t]) /\ Chosen(t, run[p].frame) # NoCandidate
           /\ GoesOn(p, "account", r)
  <2>1. run[p].frame \in Shown /\ ~Frame[run[p].frame].researchOnly /\ run[p].news \in News
    BY DEF PipelineTypeOK, HasLearned
  <2>2. Chosen(t, run[p].frame) \in AllChosen
    BY <2>1 DEF AllChosen
  <2>3. /\ r \in Runs /\ r.frame = run[p].frame /\ r.news = run[p].news /\ r.thesis = t
        /\ r.candidate = Chosen(t, run[p].frame)
    BY <2>2 DEF PipelineTypeOK, Runs
  <2>4. Decision(r) \in Decisions
    BY <1>2, <2>1, <2>3 DEF Decision, Decisions
  <2>5. HasLearned("account", r)
    BY <2>1, <2>3, <2>4 DEF HasLearned
  <2>6. QED
    BY <1>2, <2>3, <2>5, GoesOnType DEF Stages
<1>3. QED
  BY <1>1, <1>2 DEF Decide

LEMMA AnalyzeType ==
    ASSUME PipelineTypeOK, NEW p \in Procs, Analyze(p)
    PROVE  PipelineTypeOK'
<1>1. PICK t \in Theses : GoesOn(p, "save", [run[p] EXCEPT !.thesis = t])
  BY DEF Analyze
<1> DEFINE r == [run[p] EXCEPT !.thesis = t]
<1>2. r \in Runs /\ r.frame = run[p].frame /\ r.news = run[p].news /\ r.thesis = t
  BY DEF PipelineTypeOK, Runs
<1>3. run[p].frame \in Shown /\ ~Frame[run[p].frame].researchOnly /\ run[p].news \in News
  BY DEF Analyze, PipelineTypeOK, HasLearned
<1>4. HasLearned("save", r)
  BY <1>2, <1>3 DEF HasLearned
<1>5. QED
  BY <1>1, <1>2, <1>4, GoesOnType DEF Stages

(* Reading the account, then the positions, leaves the decision alone.     *)
LEMMA KeepsDecision ==
    ASSUME PipelineTypeOK, NEW p \in Procs,
           stage[p] \in {"account", "positions", "enter", "execute"},
           NEW r \in Runs, r.frame = run[p].frame, r.news = run[p].news,
           r.thesis = run[p].thesis, r.candidate = run[p].candidate,
           NEW to \in {"positions", "enter", "execute"}
    PROVE  HasLearned(to, r) /\ Decision(r) = Decision(run[p])
<1>1. Decision(r) = Decision(run[p])
  BY DEF Decision
<1>2. HasLearned(stage[p], run[p])
  BY DEF PipelineTypeOK
<1>3. QED
  BY <1>1, <1>2 DEF HasLearned

LEMMA ReadAccountType ==
    ASSUME PipelineTypeOK, NEW p \in Procs, ReadAccount(p)
    PROVE  PipelineTypeOK'
<1>1. PICK a \in Accounts : GoesOn(p, "positions", [run[p] EXCEPT !.account = a])
  BY DEF ReadAccount
<1> DEFINE r == [run[p] EXCEPT !.account = a]
<1>2. /\ r \in Runs /\ r.frame = run[p].frame /\ r.news = run[p].news
      /\ r.thesis = run[p].thesis /\ r.candidate = run[p].candidate
  BY DEF PipelineTypeOK, Runs
<1>3. HasLearned("positions", r)
  BY <1>2, KeepsDecision DEF ReadAccount
<1>4. QED
  BY <1>1, <1>2, <1>3, GoesOnType DEF Stages

LEMMA ReadPositionsType ==
    ASSUME PipelineTypeOK, NEW p \in Procs, ReadPositions(p)
    PROVE  PipelineTypeOK'
<1>1. EndRun(p) \/ GoesOn(p, "enter", run[p])
  BY DEF ReadPositions
<1>2. run[p] \in Runs
  BY DEF PipelineTypeOK
<1>3. HasLearned("enter", run[p])
  BY <1>2, KeepsDecision DEF ReadPositions
<1>4. QED
  BY <1>1, <1>2, <1>3, EndRunType, GoesOnType DEF Stages

LEMMA EnterType ==
    ASSUME PipelineTypeOK, NEW p \in Procs, Enter(p)
    PROVE  PipelineTypeOK'
<1>1. run[p] \in Runs
  BY DEF PipelineTypeOK
<1>2. HasLearned("execute", run[p])
  BY <1>1, KeepsDecision DEF Enter
<1>3. QED
  BY <1>1, <1>2, GoesOnType DEF Enter, Stages

-----------------------------------------------------------------------------
(* The stored analyses.  One is inserted only if its evidence has none.    *)
ArtifactsTypeOK ==
    /\ artifacts \subseteq Artifacts
    /\ \A a, b \in artifacts : a.bundle = b.bundle => a = b

LEMMA InsertType ==
    ASSUME ArtifactsTypeOK, NEW row \in Artifacts, Insert(row)
    PROVE  ArtifactsTypeOK' /\ artifacts \subseteq artifacts'
BY DEF ArtifactsTypeOK, Insert

LEMMA RunningFacts ==
    ASSUME PipelineTypeOK, NEW p \in Procs, stage[p] = "save"
    PROVE  Artifact(run[p].frame, run[p].news, run[p].thesis) \in Artifacts
<1>1. run[p].frame \in Shown /\ run[p].news \in News /\ run[p].thesis \in Theses
  BY DEF PipelineTypeOK, HasLearned
<1>2. QED
  BY <1>1 DEF Artifacts

LEMMA StoredThesis ==
    ASSUME NEW a \in Artifacts
    PROVE  a.thesis \in Theses
BY DEF Artifacts, Artifact

LEMMA FindArtifactType ==
    ASSUME PipelineTypeOK, ArtifactsTypeOK, NEW p \in Procs, FindArtifact(p)
    PROVE  PipelineTypeOK'
<1>1. ASSUME NEW a \in artifacts, Decide(p, a.thesis)
      PROVE  PipelineTypeOK'
  BY <1>1, StoredThesis, DecideType DEF FindArtifact, ArtifactsTypeOK
<1>2. CASE GoesOn(p, "analyze", run[p])
  <2>1. run[p] \in Runs
    BY DEF PipelineTypeOK
  <2>2. HasLearned("analyze", run[p])
    BY DEF PipelineTypeOK, HasLearned, FindArtifact
  <2>3. QED
    BY <1>2, <2>1, <2>2, GoesOnType DEF Stages
<1>3. QED
  BY <1>1, <1>2 DEF FindArtifact

LEMMA SaveArtifactType ==
    ASSUME PipelineTypeOK, ArtifactsTypeOK, NEW p \in Procs, SaveArtifact(p)
    PROVE  PipelineTypeOK' /\ ArtifactsTypeOK' /\ artifacts \subseteq artifacts'
<1> DEFINE row == Artifact(run[p].frame, run[p].news, run[p].thesis)
<1>1. row \in Artifacts
  BY RunningFacts DEF SaveArtifact
<1>2. ArtifactsTypeOK' /\ artifacts \subseteq artifacts'
  BY <1>1, InsertType DEF SaveArtifact
<1>3. Decide(p, row.thesis) \/ EndRun(p)
  BY DEF SaveArtifact
<1>4. PipelineTypeOK'
  BY <1>1, <1>3, StoredThesis, DecideType, EndRunType DEF SaveArtifact
<1>5. QED
  BY <1>2, <1>4

(* The steps that leave the store and the broker alone.                    *)
Thinks(p) ==
    \/ StartRun(p) \/ Observe(p) \/ ReadNews(p) \/ FindArtifact(p) \/ Analyze(p)
    \/ SaveArtifact(p) \/ ReadAccount(p) \/ ReadPositions(p) \/ RunFails(p)

LEMMA ThinksType ==
    ASSUME PipelineTypeOK, ArtifactsTypeOK, NEW p \in Procs, Thinks(p)
    PROVE  /\ PipelineTypeOK' /\ ArtifactsTypeOK'
           /\ artifacts \subseteq artifacts'
           /\ UNCHANGED vars
<1>1. CASE StartRun(p) \/ Observe(p) \/ ReadNews(p) \/ FindArtifact(p) \/ Analyze(p)
           \/ ReadAccount(p) \/ ReadPositions(p) \/ RunFails(p)
  <2>1. PipelineTypeOK'
    BY <1>1, StartRunType, ObserveType, ReadNewsType, FindArtifactType, AnalyzeType,
       ReadAccountType, ReadPositionsType, EndRunType DEF RunFails
  <2>2. UNCHANGED <<artifacts, vars>>
    BY <1>1 DEF StartRun, Observe, ReadNews, FindArtifact, Analyze, ReadAccount, ReadPositions,
       RunFails
  <2>3. QED
    BY <2>1, <2>2 DEF ArtifactsTypeOK
<1>2. CASE SaveArtifact(p)
  BY <1>2, SaveArtifactType DEF SaveArtifact
<1>3. QED
  BY <1>1, <1>2 DEF Thinks

(* A run executes exactly while its process is in a call.                  *)
InCall == \A p \in Procs : pc[p] \notin {"idle", "down"} <=> stage[p] = "execute"

LEMMA ThinksOutsideCalls ==
    ASSUME PipelineTypeOK, InCall, NEW p \in Procs, Thinks(p), UNCHANGED vars
    PROVE  InCall'
<1>1. pc' = pc
  BY DEF vars, callVars
<1>2. stage[p] # "execute" /\ stage'[p] # "execute" /\ \A q \in Procs \ {p} : stage'[q] = stage[q]
  BY DEF Thinks, StartRun, Observe, ReadNews, FindArtifact, Decide, Analyze, SaveArtifact,
     ReadAccount, ReadPositions, RunFails, EndRun, GoesOn, PipelineTypeOK
<1>3. QED
  BY <1>1, <1>2 DEF InCall

LEMMA EnterOpensCall ==
    ASSUME TypeOK, PipelineTypeOK, InCall, NEW p \in Procs, Enter(p)
    PROVE  InCall' /\ [Next]_vars
<1>1. PICK i \in Intents : Basis[i] = Decision(run[p]) /\ Persist(p, i)
  BY DEF Enter
<1>2. pc' = [pc EXCEPT ![p] = "find_receipt"] /\ stage' = [stage EXCEPT ![p] = "execute"]
  BY <1>1 DEF Persist, Enter, GoesOn
<1>3. InCall'
  BY <1>2 DEF InCall, TypeOK, PipelineTypeOK
<1>4. QED
  BY <1>1, <1>3 DEF Next

LEMMA ExecuteType ==
    ASSUME TypeOK, PipelineTypeOK, InCall, NEW p \in Procs, Execute(p)
    PROVE  PipelineTypeOK' /\ InCall' /\ [Next]_vars /\ pc[p] \notin {"idle", "down"}
<1>1. Call(p) /\ pc[p] \notin {"idle", "down"}
  BY DEF Execute, InCall
<1>2. PipelineTypeOK'
  <2>1. CASE EndRun(p)
    BY <2>1, EndRunType
  <2>2. CASE UNCHANGED <<stage, run>>
    BY <2>2 DEF PipelineTypeOK
  <2>3. QED
    BY <2>1, <2>2 DEF Execute
<1>3. pc' \in [Procs -> Points] /\ pc'[p] # "down"
  BY <1>1, CallStaysUp, CallKeepsCallType DEF CallTypeOK
<1>4. \A q \in Procs : q # p => pc'[q] = pc[q]
  BY <1>1, OnlyTheCallerMoves
<1>5. stage' = [stage EXCEPT ![p] = IF pc'[p] = "idle" THEN "rest" ELSE stage[p]]
  <2>1. CASE pc'[p] = "idle"
    BY <2>1 DEF Execute, EndRun, GoesOn
  <2>2. CASE pc'[p] # "idle"
    BY <2>2 DEF Execute, PipelineTypeOK
  <2>3. QED
    BY <2>1, <2>2
<1>6. InCall'
  BY <1>3, <1>4, <1>5 DEF InCall, PipelineTypeOK, Execute
<1>7. QED
  BY <1>1, <1>2, <1>6, CallIsNext

-----------------------------------------------------------------------------
(* Every state of the composition is well typed, what a run has learned at *)
(* each await and the uniqueness of stored analyses included.              *)

LEMMA EntryTypeParts ==
    EntryTypeOK <=> TypeOK /\ ArtifactsTypeOK /\ PipelineTypeOK /\ InCall
BY DEF EntryTypeOK, ArtifactsTypeOK, PipelineTypeOK, InCall

LEMMA EntryInitType == EntryInit => EntryTypeOK
<1> SUFFICES ASSUME EntryInit PROVE EntryTypeOK
  OBVIOUS
<1>1. TypeOK
  BY InitType DEF EntryInit
<1>2. PipelineTypeOK
  BY NoRunType DEF EntryInit, PipelineTypeOK, Stages
<1>3. ArtifactsTypeOK /\ InCall
  BY DEF EntryInit, Init, ArtifactsTypeOK, InCall
<1>4. QED
  BY <1>1, <1>2, <1>3, EntryTypeParts

LEMMA EntryStepType ==
    ASSUME EntryTypeOK, [EntryNext]_allVars
    PROVE  EntryTypeOK' /\ artifacts \subseteq artifacts'
<1>1. TypeOK /\ ArtifactsTypeOK /\ PipelineTypeOK /\ InCall
  BY EntryTypeParts
<1> DEFINE Typed == /\ TypeOK' /\ ArtifactsTypeOK' /\ PipelineTypeOK' /\ InCall'
                    /\ artifacts \subseteq artifacts'
<1>2. ASSUME NEW p \in Procs, Thinks(p) PROVE Typed
  <2>1. ArtifactsTypeOK' /\ PipelineTypeOK' /\ UNCHANGED vars /\ artifacts \subseteq artifacts'
    BY <1>1, <1>2, ThinksType
  <2>2. TypeOK' /\ InCall'
    BY <1>1, <1>2, <2>1, NextType, ThinksOutsideCalls
  <2>3. QED
    BY <2>1, <2>2
<1>3. ASSUME NEW p \in Procs, Enter(p) PROVE Typed
  <2>1. UNCHANGED artifacts
    BY <1>3 DEF Enter
  <2>2. QED
    BY <1>1, <1>3, <2>1, EnterType, EnterOpensCall, NextType DEF ArtifactsTypeOK
<1>4. ASSUME NEW p \in Procs, Execute(p) PROVE Typed
  <2>1. UNCHANGED artifacts
    BY <1>4 DEF Execute
  <2>2. QED
    BY <1>1, <1>4, <2>1, ExecuteType, NextType DEF ArtifactsTypeOK
<1>5. ASSUME NEW i \in Intents, MarketMoves(i), UNCHANGED entryVars PROVE Typed
  <2>1. [Next]_vars
    BY <1>5 DEF Next
  <2>2. pc' = pc
    BY <1>5 DEF MarketMoves, callVars
  <2>3. QED
    BY <1>1, <1>5, <2>1, <2>2, NextType DEF entryVars, ArtifactsTypeOK, PipelineTypeOK, InCall
<1>6. ASSUME UNCHANGED allVars PROVE Typed
  <2>1. [Next]_vars /\ pc' = pc
    BY <1>6 DEF allVars, vars, callVars
  <2>2. QED
    <3>1. TypeOK'
      BY <1>1, <2>1, NextType
    <3>2. ArtifactsTypeOK' /\ PipelineTypeOK' /\ InCall' /\ artifacts \subseteq artifacts'
      BY <1>1, <1>6, <2>1 DEF allVars, entryVars, ArtifactsTypeOK, PipelineTypeOK, InCall
    <3>3. QED
      BY <3>1, <3>2
<1>7. Typed
  <2>1. ASSUME NEW p \in Procs, Run(p) PROVE Typed
    BY <1>2, <1>3, <1>4, <2>1 DEF Run, Thinks
  <2>2. QED
    BY <1>5, <1>6, <2>1 DEF EntryNext
<1>8. QED
  BY <1>7 DEF EntryTypeOK, ArtifactsTypeOK, PipelineTypeOK, InCall

(* In every reachable state, for any number of processes, intents, news    *)
(* and frames, every artifact and every local of a run is what it is       *)
(* declared to be, and a run that is past its decision holds an admissible *)
(* one, with the spread the router chose for it (agent.py:350).            *)
THEOREM EntryTypeCorrect == EntrySpec => []EntryTypeOK
<1>1. EntryTypeOK /\ [EntryNext]_allVars => EntryTypeOK'
  BY EntryStepType
<1>2. QED
  BY <1>1, EntryInitType, PTL DEF EntrySpec

-----------------------------------------------------------------------------
(* Intents created from the same evidence stand for the same thesis: who   *)
(* decides does so on the one stored analysis of its evidence.             *)

LEMMA RunMovesItself ==
    ASSUME PipelineTypeOK, NEW p \in Procs, Run(p), NEW q \in Procs, q # p
    PROVE  stage'[q] = stage[q] /\ run'[q] = run[q]
BY DEF Run, StartRun, Observe, ReadNews, FindArtifact, Decide, Analyze, SaveArtifact, ReadAccount,
   ReadPositions, Enter, Execute, RunFails, EndRun, GoesOn, PipelineTypeOK

(* An analysis that is stored for the evidence of a run is the one that    *)
(* backs a decision of this run for its thesis.                            *)
LEMMA StoredForRun ==
    ASSUME NEW p \in Procs, NEW a \in Artifacts, a.bundle = BundleOf(p)
    PROVE  Artifact(run[p].frame, run[p].news, a.thesis) = a
BY DEF Artifacts, Artifact, BundleOf

LEMMA DecideIsBacked ==
    ASSUME PipelineTypeOK, NEW p \in Procs, NEW t, Decide(p, t),
           Artifact(run[p].frame, run[p].news, t) \in artifacts'
    PROVE  stage'[p] # "rest" => IsStored(Decision(run[p]))'
<1>1. CASE EndRun(p)
  BY <1>1 DEF EndRun, GoesOn, PipelineTypeOK
<1> DEFINE r == [run[p] EXCEPT !.thesis = t, !.candidate = Chosen(t, run[p].frame)]
<1>2. CASE GoesOn(p, "account", r)
  <2>1. r.frame = run[p].frame /\ r.news = run[p].news /\ r.thesis = t
    BY DEF PipelineTypeOK, Runs
  <2>2. run'[p] = r
    BY <1>2 DEF GoesOn, PipelineTypeOK
  <2>3. QED
    BY <2>1, <2>2 DEF IsStored, Decision
<1>3. QED
  BY <1>1, <1>2 DEF Decide

LEMMA RunBacksItself ==
    ASSUME PipelineTypeOK, ArtifactsTypeOK, artifacts \subseteq artifacts', NEW p \in Procs, Run(p),
           stage[p] \in {"account", "positions", "enter", "execute"} => IsStored(Decision(run[p]))
    PROVE  stage'[p] \in {"account", "positions", "enter", "execute"} =>
               IsStored(Decision(run[p]))'
<1> DEFINE Backed == stage'[p] \in {"account", "positions", "enter", "execute"} =>
                         IsStored(Decision(run[p]))'
<1>1. CASE StartRun(p) \/ Observe(p) \/ ReadNews(p) \/ Analyze(p) \/ RunFails(p)
  BY <1>1 DEF StartRun, Observe, ReadNews, Analyze, RunFails, EndRun, GoesOn, PipelineTypeOK
<1>2. CASE FindArtifact(p)
  <2>1. ASSUME NEW a \in artifacts, a.bundle = BundleOf(p), Decide(p, a.thesis)
        PROVE  Backed
    BY <2>1, StoredForRun, DecideIsBacked DEF ArtifactsTypeOK
  <2>2. CASE GoesOn(p, "analyze", run[p])
    BY <2>2 DEF GoesOn, PipelineTypeOK
  <2>3. QED
    BY <1>2, <2>1, <2>2 DEF FindArtifact
<1>3. CASE SaveArtifact(p)
  <2> DEFINE row == Artifact(run[p].frame, run[p].news, run[p].thesis)
  <2>1. row.thesis = run[p].thesis
    BY DEF Artifact
  <2>2. CASE row \in artifacts' /\ Decide(p, row.thesis)
    BY <2>1, <2>2, DecideIsBacked
  <2>3. CASE EndRun(p)
    BY <2>3 DEF EndRun, GoesOn, PipelineTypeOK
  <2>4. QED
    BY <1>3, <2>2, <2>3 DEF SaveArtifact
<1>4. CASE ReadAccount(p) \/ ReadPositions(p) \/ Enter(p) \/ Execute(p)
  <2>1. IsStored(Decision(run[p]))
    BY <1>4 DEF ReadAccount, ReadPositions, Enter, Execute
  <2>2. stage'[p] = "rest" \/ Decision(run'[p]) = Decision(run[p])
    <3>1. CASE EndRun(p)
      BY <3>1 DEF EndRun, GoesOn, PipelineTypeOK
    <3>2. CASE ReadAccount(p)
      BY <3>2 DEF ReadAccount, GoesOn, PipelineTypeOK, Runs, Decision
    <3>3. CASE ReadPositions(p)
      BY <3>1, <3>3 DEF ReadPositions, GoesOn, PipelineTypeOK, Runs, Decision
    <3>4. CASE Enter(p) \/ Execute(p)
      BY <3>1, <3>4 DEF Enter, Execute, GoesOn, PipelineTypeOK
    <3>5. QED
      BY <1>4, <3>2, <3>3, <3>4
  <2>3. QED
    BY <2>1, <2>2 DEF IsStored
<1>5. QED
  BY <1>1, <1>2, <1>3, <1>4 DEF Run

LEMMA OnlyEnterCreates ==
    ASSUME TypeOK, InCall, [EntryNext]_allVars, NEW i \in Intents, ~Created(i), Created(i)'
    PROVE  \E p \in Procs : Enter(p) /\ Basis[i] = Decision(run[p])
<1>1. ASSUME NEW p \in Procs, Run(p)
      PROVE  Enter(p) /\ Basis[i] = Decision(run[p])
  <2>1. ~UNCHANGED vars
    BY DEF Created, vars, storeVars
  <2>2. ~Execute(p)
    BY CallCreatesNone DEF Execute, InCall, Created
  <2>3. Enter(p)
    BY <1>1, <2>1, <2>2 DEF Run, StartRun, Observe, ReadNews, FindArtifact, Analyze, SaveArtifact,
       ReadAccount, ReadPositions, RunFails
  <2>4. PICK j \in Intents : Basis[j] = Decision(run[p]) /\ Persist(p, j)
    BY <2>3 DEF Enter
  <2>5. j = i
    BY <2>4 DEF Persist, CreateIntent, Created, TypeOK, StoreTypeOK
  <2>6. QED
    BY <2>3, <2>4, <2>5
<1>2. ~(\E j \in Intents : MarketMoves(j)) /\ ~UNCHANGED allVars
  BY DEF MarketMoves, Created, storeVars, allVars, vars
<1>3. QED
  BY <1>1, <1>2 DEF EntryNext

LEMMA StepKeepsDecisionsStored ==
    ASSUME EntryTypeOK, DecisionsAreStored, [EntryNext]_allVars
    PROVE  DecisionsAreStored'
<1>1. TypeOK /\ ArtifactsTypeOK /\ PipelineTypeOK /\ InCall /\ artifacts \subseteq artifacts'
  BY EntryTypeParts, EntryStepType
<1>2. \A d : IsStored(d) => IsStored(d)'
  BY <1>1 DEF IsStored
<1> DEFINE Deciding(q) == stage[q] \in {"account", "positions", "enter", "execute"}
<1> DEFINE Backed(q) == Deciding(q)' => IsStored(Decision(run[q]))'
<1>3. \A q \in Procs : stage'[q] = stage[q] /\ run'[q] = run[q] => Backed(q)
  BY <1>2 DEF DecisionsAreStored, IsStored
<1>4. ASSUME NEW p \in Procs, Run(p)
      PROVE  \A q \in Procs : q # p => Backed(q)
  BY <1>1, <1>3, <1>4, RunMovesItself
<1>5. ASSUME NEW p \in Procs, Run(p)
      PROVE  Backed(p)
  BY <1>1, <1>5, RunBacksItself DEF DecisionsAreStored
<1>6. ASSUME UNCHANGED entryVars
      PROVE  \A q \in Procs : Backed(q)
  BY <1>3, <1>6 DEF entryVars
<1>7. \A q \in Procs : Backed(q)
  BY <1>4, <1>5, <1>6 DEF EntryNext, allVars
<1>8. ASSUME NEW i \in Intents, Created(i)'
      PROVE  IsStored(Basis[i])'
  <2>1. CASE Created(i)
    BY <1>2, <2>1 DEF DecisionsAreStored, IsStored
  <2>2. CASE ~Created(i)
    <3>1. PICK p \in Procs : Enter(p) /\ Basis[i] = Decision(run[p])
      BY <1>1, <1>8, <2>2, OnlyEnterCreates
    <3>2. IsStored(Basis[i])
      BY <3>1 DEF DecisionsAreStored, Enter
    <3>3. QED
      BY <1>2, <3>2 DEF IsStored
  <2>3. QED
    BY <2>1, <2>2
<1>9. QED
  BY <1>7, <1>8 DEF DecisionsAreStored

(* One bundle of evidence never has two theses: of any number of runs that *)
(* miss the stored analysis and ask a model that answers differently each  *)
(* time, all act on the first answer saved (grounded_intelligence.py:61).  *)
THEOREM EvidenceSettlesThesis == EntrySpec => []EvidenceHasOneThesis
<1>1. EntryInit => DecisionsAreStored
  BY DEF EntryInit, Init, StoreInit, DecisionsAreStored, Created
<1>2. EntryTypeOK /\ DecisionsAreStored /\ [EntryNext]_allVars => DecisionsAreStored'
  BY StepKeepsDecisionsStored
<1>3. EntryTypeOK /\ DecisionsAreStored => EvidenceHasOneThesis
  <2> SUFFICES ASSUME EntryTypeOK, DecisionsAreStored, NEW i \in Intents, NEW j \in Intents,
                      Created(i), Created(j), EvidenceOf(i) = EvidenceOf(j)
               PROVE  Basis[i].thesis = Basis[j].thesis
    BY DEF EvidenceHasOneThesis
  <2>1. IsStored(Basis[i]) /\ IsStored(Basis[j])
    BY DEF DecisionsAreStored
  <2>2. Artifact(Basis[i].frame, Basis[i].news, Basis[i].thesis)
          = Artifact(Basis[j].frame, Basis[j].news, Basis[j].thesis)
    BY <2>1 DEF IsStored, EntryTypeOK, Artifact, EvidenceOf
  <2>3. QED
    BY <2>2 DEF Artifact
<1>4. QED
  BY <1>1, <1>2, <1>3, EntryTypeCorrect, PTL DEF EntrySpec

-----------------------------------------------------------------------------
(* The choice of a spread.  Two quotes make a candidate exactly if they    *)
(* are an admissible pair in one of their two orders, the one by strike.   *)

LEMMA DivType ==
    ASSUME NEW a \in Int, NEW b \in Int, b > 0
    PROVE  a \div b \in Int
OBVIOUS

LEMMA UtilityType ==
    ASSUME NEW thesis, IsThesis(thesis), NEW long \in Quotes, NEW short \in Quotes,
           long.ask - short.bid > 0, long.strike # short.strike
    PROVE  Utility(thesis, long, short) \in Int
<1> DEFINE debit == long.ask - short.bid
           spreads == (long.ask - long.bid) + (short.ask - short.bid)
           away == Abs(short.strike - long.strike)
<1>1. /\ \A q \in {long, short} : /\ q.ask \in Int /\ q.bid \in Int /\ q.strike \in Int
                                 /\ q.dte \in Int /\ q.interest \in Int /\ q.volume \in Int
      /\ thesis.confidence \in Int
  BY DEF Quotes, IsThesis
<1>2. debit \in Int /\ debit > 0 /\ spreads \in Int /\ away \in Int /\ away > 0
  BY <1>1 DEF Abs
<1>3. (50000 * spreads) \div debit \in Int /\ (1000 * debit) \div away \in Int
  <2>1. 50000 * spreads \in Int /\ 1000 * debit \in Int
    BY <1>2
  <2> HIDE DEF debit, spreads, away
  <2>2. QED
    BY <2>1, <1>2, DivType
<1>4. (1000 * Abs(short.dte - 60)) \div 3 \in Int
  BY <1>1, DivType DEF Abs
<1>5. /\ 125 * AtMost(1000, AtMost(long.interest, short.interest)) \in Int
      /\ 1250 * AtMost(100, AtMost(long.volume, short.volume)) \in Int
  BY <1>1 DEF AtMost
<1>6. \A x \in Int : AtLeast(0, 150000 - x) \in Int /\ AtLeast(0, 100000 - x) \in Int
  BY DEF AtLeast
<1> DEFINE A == 125 * AtMost(1000, AtMost(long.interest, short.interest))
           B == 1250 * AtMost(100, AtMost(long.volume, short.volume))
           D == (1000 * Abs(short.dte - 60)) \div 3
           E == (50000 * spreads) \div debit
           F == (1000 * debit) \div away
<1>7. Utility(thesis, long, short) =
        4000 * thesis.confidence + (A + B) + AtLeast(0, 150000 - D)
          + AtLeast(0, 100000 - E) + AtLeast(0, 100000 - F)
  BY DEF Utility
<1>8. /\ AtLeast(0, 150000 - D) \in Int /\ AtLeast(0, 100000 - E) \in Int
      /\ AtLeast(0, 100000 - F) \in Int
  <2> HIDE DEF D, E, F
  <2>1. D \in Int /\ E \in Int /\ F \in Int
    BY <1>3, <1>4 DEF D, E, F
  <2>2. QED
    BY <1>6, <2>1
<1>9. A \in Int /\ B \in Int /\ 4000 * thesis.confidence \in Int
  BY <1>1, <1>5
<1> HIDE DEF A, B, D, E, F
<1>10. QED
  BY <1>7, <1>8, <1>9

(* By strike, then by symbol: the order of the two legs.                   *)
Precedes(q, r) == q.strike < r.strike \/ (q.strike = r.strike /\ q.name <= r.name)

LEMMA LegsOfPair ==
    ASSUME NEW q \in Quotes, NEW r \in Quotes, q.name # r.name, Precedes(q, r)
    PROVE  Low({q, r}) = q /\ High({q, r}) = r
<1>1. /\ q.strike \in Int /\ r.strike \in Int /\ q.name \in Int /\ r.name \in Int
  BY DEF Quotes
<1>2. Precedes(q, q) /\ ~Precedes(r, q)
  BY <1>1 DEF Precedes
<1>3. \A x \in {q, r} : (\A y \in {q, r} : Precedes(x, y)) <=> x = q
  BY <1>2
<1>4. Low({q, r}) = CHOOSE x \in {q, r} : \A y \in {q, r} : Precedes(x, y)
  BY DEF Low, Precedes
<1>5. Low({q, r}) = q
  BY <1>3, <1>4
<1>6. QED
  BY <1>5 DEF High

LEMMA PairIsOrdered ==
    ASSUME NEW thesis, NEW frame, IsFrame(frame), NEW pair \in Pairs(thesis, frame)
    PROVE  \E q, r \in Accepted(frame) :
              /\ pair = {q, r} /\ q.name # r.name /\ Precedes(q, r)
              /\ Low(pair) = q /\ High(pair) = r
<1>1. PICK a \in Accepted(frame), b \in Accepted(frame) : pair = {a, b} /\ a # b
  BY DEF Pairs
<1>2. /\ a \in frame.quotes /\ b \in frame.quotes /\ a \in Quotes /\ b \in Quotes
  BY DEF Accepted, OptionQuotes, IsFrame
<1>3. a.name # b.name
  BY <1>1, <1>2 DEF IsFrame
<1>4. Precedes(a, b) \/ Precedes(b, a)
  BY <1>2 DEF Precedes, Quotes
<1>5. CASE Precedes(a, b)
  BY <1>1, <1>2, <1>3, <1>5, LegsOfPair
<1>6. CASE Precedes(b, a)
  <2>1. {b, a} = pair
    BY <1>1
  <2>2. QED
    BY <1>2, <1>3, <1>6, <2>1, LegsOfPair
<1>7. QED
  BY <1>4, <1>5, <1>6

(* A quote that passes the filters, as the properties put it.              *)
Usable(thesis, frame, q) ==
    /\ q.whole /\ q.tradable
    /\ q.type = IF thesis.direction = "BULLISH" THEN "call" ELSE "put"
    /\ q.at \in (frame.at - Freshness)..frame.at
    /\ 0 < q.bid /\ q.bid <= q.ask
    /\ q.interest * q.volume > 0
    /\ IF thesis.direction = "BULLISH" THEN q.delta > 0 ELSE q.delta < 0

LEMMA ProductIsPositive ==
    ASSUME NEW a \in Nat, NEW b \in Nat
    PROVE  a * b > 0 <=> a > 0 /\ b > 0
OBVIOUS

LEMMA AcceptedIsUsable ==
    ASSUME NEW thesis, thesis.direction \in {"BULLISH", "BEARISH"},
           NEW frame, IsFrame(frame), NEW q \in Quotes
    PROVE  Usable(thesis, frame, q) /\ q \in frame.quotes
             <=> /\ q \in Accepted(frame)
                 /\ IF thesis.direction = "BULLISH" THEN q.delta > 0 ELSE q.delta < 0
<1>1. /\ q.at \in Int /\ q.bid \in Nat /\ q.ask \in Nat /\ q.delta \in Int
      /\ q.type \in {"call", "put"}
  BY DEF Quotes
<1>2. q.interest * q.volume > 0 <=> q.interest > 0 /\ q.volume > 0
  BY ProductIsPositive DEF Quotes
<1>3. frame.at \in Int /\ Freshness \in Int
  BY FreshnessAssumption DEF IsFrame
<1>4. q.at \in (frame.at - Freshness)..frame.at <=> Recent(q.at, frame.at)
  BY <1>1, <1>3 DEF Recent
<1>5. 0 < q.bid /\ q.bid <= q.ask <=> q.bid > 0 /\ q.ask > 0 /\ q.ask >= q.bid
  BY <1>1
<1>6. ASSUME IF thesis.direction = "BULLISH" THEN q.delta > 0 ELSE q.delta < 0
      PROVE  (IF q.type = "call" THEN q.delta > 0 ELSE q.delta < 0)
               <=> q.type = IF thesis.direction = "BULLISH" THEN "call" ELSE "put"
  BY <1>1, <1>6
<1>7. QED
  BY <1>2, <1>4, <1>5, <1>6 DEF Usable, Accepted, OptionQuotes

(* The conditions on a pair, once its legs are known.                      *)
LEMMA PairConditions ==
    ASSUME NEW thesis, thesis.direction \in {"BULLISH", "BEARISH"}, IsThesis(thesis),
           NEW frame, IsFrame(frame), NEW q \in Quotes, NEW r \in Quotes,
           NEW pair, Low(pair) = q, High(pair) = r
    PROVE  LET long == IF thesis.direction = "BULLISH" THEN q ELSE r
               short == IF thesis.direction = "BULLISH" THEN r ELSE q
           IN  /\ Long(thesis, pair) = long /\ Short(thesis, pair) = short
               /\ MakesCandidate(thesis, frame, pair) <=>
                     /\ long.dte \in DteBand[thesis.horizon]
                     /\ Abs(long.delta) >= 35 /\ Abs(long.delta) <= 70
                     /\ 100 * (r.strike - q.strike) \in (2 * frame.price)..(8 * frame.price)
                     /\ long.ask - short.bid \in 1..MaxDebit
<1> DEFINE long == IF thesis.direction = "BULLISH" THEN q ELSE r
           short == IF thesis.direction = "BULLISH" THEN r ELSE q
<1>1. Long(thesis, pair) = long /\ Short(thesis, pair) = short
  BY DEF Long, Short
<1>2. Width(pair) = r.strike - q.strike
  BY DEF Width
<1>3. /\ q.strike \in Int /\ r.strike \in Int /\ frame.price \in Int /\ long.delta \in Int
      /\ long.ask \in Int /\ short.bid \in Int
  BY DEF Quotes, IsFrame
<1>4. Abs(long.delta) \in 35..70 <=> Abs(long.delta) >= 35 /\ Abs(long.delta) <= 70
  BY <1>3 DEF Abs
<1>5. 100 * (r.strike - q.strike) \in (2 * frame.price)..(8 * frame.price) <=>
        100 * (r.strike - q.strike) >= 2 * frame.price
          /\ 100 * (r.strike - q.strike) <= 8 * frame.price
  BY <1>3
<1>6. long.ask - short.bid \in 1..MaxDebit <=>
        long.ask - short.bid > 0 /\ long.ask - short.bid <= MaxDebit
  BY <1>3 DEF MaxDebit
<1> HIDE DEF long, short
<1>7. MakesCandidate(thesis, frame, pair) <=>
        /\ long.dte \in DteBand[thesis.horizon]
        /\ Abs(long.delta) >= 35 /\ Abs(long.delta) <= 70
        /\ 100 * (r.strike - q.strike) \in (2 * frame.price)..(8 * frame.price)
        /\ long.ask - short.bid \in 1..MaxDebit
  BY <1>1, <1>2, <1>4, <1>5, <1>6 DEF MakesCandidate
<1>8. QED
  BY <1>1, <1>7 DEF long, short

(* Every candidate is an admissible pair, bought and sold the right way    *)
(* round.                                                                  *)
LEMMA CandidateIsAdmissible ==
    ASSUME NEW thesis, thesis.direction \in {"BULLISH", "BEARISH"}, IsThesis(thesis),
           NEW frame, IsFrame(frame),
           NEW pair \in Pairs(thesis, frame), MakesCandidate(thesis, frame, pair)
    PROVE  /\ Long(thesis, pair) \in frame.quotes /\ Short(thesis, pair) \in frame.quotes
           /\ Admissible(thesis, frame, Long(thesis, pair), Short(thesis, pair))
<1>1. PICK q \in Accepted(frame), r \in Accepted(frame) :
          /\ pair = {q, r} /\ q.name # r.name /\ Precedes(q, r)
          /\ Low(pair) = q /\ High(pair) = r
  BY PairIsOrdered
<1>2. q \in frame.quotes /\ r \in frame.quotes /\ q \in Quotes /\ r \in Quotes
  BY DEF Accepted, OptionQuotes, IsFrame
<1> DEFINE long == IF thesis.direction = "BULLISH" THEN q ELSE r
           short == IF thesis.direction = "BULLISH" THEN r ELSE q
<1>3. Long(thesis, pair) = long /\ Short(thesis, pair) = short
  BY <1>1, <1>2, PairConditions
<1>4. /\ long.dte \in DteBand[thesis.horizon]
      /\ Abs(long.delta) >= 35 /\ Abs(long.delta) <= 70
      /\ 100 * (r.strike - q.strike) \in (2 * frame.price)..(8 * frame.price)
      /\ long.ask - short.bid \in 1..MaxDebit
  BY <1>1, <1>2, PairConditions
<1>5. /\ q.dte = r.dte
      /\ \A x \in {q, r} : IF thesis.direction = "BULLISH" THEN x.delta > 0 ELSE x.delta < 0
  BY <1>1 DEF Pairs
<1>6. \A x \in {q, r} : Usable(thesis, frame, x)
  BY <1>2, <1>5, AcceptedIsUsable
<1>7. \A x \in {long, short} : Usable(thesis, frame, x)
  BY <1>6
<1>8. long.dte = short.dte
  BY <1>5
<1>9. r.strike - q.strike = IF thesis.direction = "BULLISH" THEN short.strike - long.strike
                           ELSE long.strike - short.strike
  OBVIOUS
<1>10. long \in frame.quotes /\ short \in frame.quotes
  BY <1>2
<1> HIDE DEF long, short
<1>11. Admissible(thesis, frame, long, short)
  BY <1>4, <1>7, <1>8, <1>9 DEF Admissible, Usable
<1>12. QED
  BY <1>3, <1>10, <1>11

(* Every admissible pair makes a candidate.                                *)
LEMMA AdmissibleMakesCandidate ==
    ASSUME NEW thesis, thesis.direction \in {"BULLISH", "BEARISH"}, IsThesis(thesis),
           NEW frame, IsFrame(frame), NEW long \in frame.quotes, NEW short \in frame.quotes,
           Admissible(thesis, frame, long, short)
    PROVE  /\ {long, short} \in Pairs(thesis, frame)
           /\ MakesCandidate(thesis, frame, {long, short})
           /\ Long(thesis, {long, short}) = long /\ Short(thesis, {long, short}) = short
<1> DEFINE q == IF thesis.direction = "BULLISH" THEN long ELSE short
           r == IF thesis.direction = "BULLISH" THEN short ELSE long
<1>1. long \in Quotes /\ short \in Quotes
  BY DEF IsFrame
<1>2. \A x \in {long, short} : Usable(thesis, frame, x)
  BY DEF Admissible, Usable
<1>3. /\ long.dte = short.dte
      /\ long.dte \in DteBand[thesis.horizon]
      /\ Abs(long.delta) >= 35 /\ Abs(long.delta) <= 70
      /\ 100 * (r.strike - q.strike) \in (2 * frame.price)..(8 * frame.price)
      /\ long.ask - short.bid \in 1..MaxDebit
  BY DEF Admissible
<1>4. q.strike < r.strike
  <2>1. frame.price \in Nat \ {0} /\ r.strike \in Int /\ q.strike \in Int
    BY <1>1 DEF IsFrame, Quotes
  <2>2. QED
    BY <1>3, <2>1
<1>5. q \in Quotes /\ r \in Quotes /\ q \in frame.quotes /\ r \in frame.quotes /\ {q, r} = {long, short}
  BY <1>1
<1>6. q.name # r.name
  BY <1>4, <1>5 DEF IsFrame, Quotes
<1>7. Low({q, r}) = q /\ High({q, r}) = r
  BY <1>4, <1>5, <1>6, LegsOfPair DEF Precedes
<1>8. \A x \in {long, short} : /\ x \in Accepted(frame)
                              /\ IF thesis.direction = "BULLISH" THEN x.delta > 0 ELSE x.delta < 0
  BY <1>1, <1>2, AcceptedIsUsable
<1>9. {long, short} \in Pairs(thesis, frame)
  <2>1. long # short
    BY <1>6
  <2>2. QED
    BY <1>3, <1>8, <2>1 DEF Pairs
<1>10. /\ long = IF thesis.direction = "BULLISH" THEN q ELSE r
       /\ short = IF thesis.direction = "BULLISH" THEN r ELSE q
  OBVIOUS
<1> HIDE DEF q, r
<1>11. /\ Long(thesis, {q, r}) = long /\ Short(thesis, {q, r}) = short
       /\ MakesCandidate(thesis, frame, {q, r})
  BY <1>3, <1>5, <1>7, <1>10, PairConditions
<1>12. QED
  BY <1>5, <1>9, <1>11

(* So the candidates are what the admissible pairs make.                   *)
Spread(thesis, long, short) ==
    [long |-> long.name, short |-> short.name, direction |-> thesis.direction,
     horizon |-> thesis.horizon, dte |-> long.dte, maxLoss |-> long.ask - short.bid,
     utility |-> Utility(thesis, long, short)]
Spreads(thesis, frame) ==
    {pair \in frame.quotes \X frame.quotes : Admissible(thesis, frame, pair[1], pair[2])}

LEMMA CandidatesAreSpreads ==
    ASSUME NEW thesis, thesis.direction \in {"BULLISH", "BEARISH"}, IsThesis(thesis),
           NEW frame, IsFrame(frame)
    PROVE  Candidates(thesis, frame)
             = {Spread(thesis, s[1], s[2]) : s \in Spreads(thesis, frame)}
<1>0. \A pair : Candidate(thesis, pair)
                  = Spread(thesis, Long(thesis, pair), Short(thesis, pair))
  BY DEF Candidate, Spread
<1>1. ASSUME NEW c \in Candidates(thesis, frame)
      PROVE  \E s \in Spreads(thesis, frame) : c = Spread(thesis, s[1], s[2])
  <2>1. PICK pair \in Pairs(thesis, frame) :
            MakesCandidate(thesis, frame, pair) /\ c = Candidate(thesis, pair)
    BY DEF Candidates
  <2> DEFINE s == <<Long(thesis, pair), Short(thesis, pair)>>
  <2>2. /\ Long(thesis, pair) \in frame.quotes /\ Short(thesis, pair) \in frame.quotes
        /\ Admissible(thesis, frame, Long(thesis, pair), Short(thesis, pair))
    BY <2>1, CandidateIsAdmissible
  <2>3. s \in Spreads(thesis, frame)
    BY <2>2 DEF Spreads
  <2>4. c = Spread(thesis, s[1], s[2])
    BY <2>1, <1>0
  <2>5. QED
    BY <2>3, <2>4
<1>2. ASSUME NEW s \in Spreads(thesis, frame)
      PROVE  Spread(thesis, s[1], s[2]) \in Candidates(thesis, frame)
  <2> DEFINE pair == {s[1], s[2]}
  <2>1. s[1] \in frame.quotes /\ s[2] \in frame.quotes /\ Admissible(thesis, frame, s[1], s[2])
    BY DEF Spreads
  <2>2. /\ pair \in Pairs(thesis, frame) /\ MakesCandidate(thesis, frame, pair)
        /\ Long(thesis, pair) = s[1] /\ Short(thesis, pair) = s[2]
    BY <2>1, AdmissibleMakesCandidate
  <2>3. Candidate(thesis, pair) = Spread(thesis, s[1], s[2])
    BY <2>2, <1>0
  <2>4. QED
    BY <2>2, <2>3 DEF Candidates
<1>3. QED
  BY <1>1, <1>2

LEMMA CandidatesAreFinite ==
    ASSUME NEW thesis, thesis.direction \in {"BULLISH", "BEARISH"}, IsThesis(thesis),
           NEW frame, IsFrame(frame)
    PROVE  IsFiniteSet(Candidates(thesis, frame))
<1> DEFINE D == Spreads(thesis, frame)
           f == [s \in D |-> Spread(thesis, s[1], s[2])]
<1>1. IsFiniteSet(D)
  <2>1. IsFiniteSet(frame.quotes \X frame.quotes)
    BY FS_Product DEF IsFrame
  <2>2. D \in SUBSET (frame.quotes \X frame.quotes)
    BY DEF Spreads
  <2>3. QED
    BY <2>1, <2>2, FS_Subset
<1>2. Candidates(thesis, frame) = {f[s] : s \in D}
  BY CandidatesAreSpreads
<1>3. f = [s \in D |-> f[s]]
  OBVIOUS
<1> HIDE DEF D, f
<1>4. QED
  BY <1>1, <1>2, <1>3, ValuesAreFinite

(* What the ranking compares are numbers, and no two candidates have the   *)
(* same of all.                                                            *)
LEMMA SpreadIsRanked ==
    ASSUME NEW thesis, thesis.direction \in {"BULLISH", "BEARISH"}, IsThesis(thesis),
           NEW frame, IsFrame(frame), NEW s \in Spreads(thesis, frame)
    PROVE  LET c == Spread(thesis, s[1], s[2])
           IN  c.utility \in Int /\ c.maxLoss \in Nat /\ c.maxLoss > 0
               /\ c.long \in Nat \ {0} /\ c.short \in Nat \ {0}
<1> DEFINE long == s[1]
           short == s[2]
<1>1. long \in Quotes /\ short \in Quotes /\ Admissible(thesis, frame, long, short)
  BY DEF Spreads, IsFrame
<1> HIDE DEF long, short
<1>2. /\ long.ask \in Int /\ short.bid \in Int /\ long.strike \in Int /\ short.strike \in Int
      /\ long.name \in Nat \ {0} /\ short.name \in Nat \ {0}
  BY <1>1 DEF Quotes
<1>3. long.ask - short.bid \in 1..MaxDebit
  BY <1>1 DEF Admissible
<1>4. long.strike # short.strike
  <2>1. frame.price \in Nat \ {0}
    BY DEF IsFrame
  <2>2. \/ 100 * (short.strike - long.strike) \in (2 * frame.price)..(8 * frame.price)
        \/ 100 * (long.strike - short.strike) \in (2 * frame.price)..(8 * frame.price)
    BY <1>1 DEF Admissible
  <2>3. QED
    BY <1>2, <2>1, <2>2
<1>5. Utility(thesis, long, short) \in Int
  BY <1>1, <1>2, <1>3, <1>4, UtilityType DEF MaxDebit
<1>6. long.ask - short.bid \in Nat /\ long.ask - short.bid > 0
  BY <1>2, <1>3 DEF MaxDebit
<1>7. QED
  BY <1>2, <1>5, <1>6 DEF Spread, long, short

LEMMA SameRankSameSpread ==
    ASSUME NEW thesis, NEW frame, IsFrame(frame),
           NEW s \in Spreads(thesis, frame), NEW u \in Spreads(thesis, frame),
           Spread(thesis, s[1], s[2]).long = Spread(thesis, u[1], u[2]).long,
           Spread(thesis, s[1], s[2]).short = Spread(thesis, u[1], u[2]).short
    PROVE  s = u
<1>1. s \in frame.quotes \X frame.quotes /\ u \in frame.quotes \X frame.quotes
  BY DEF Spreads
<1>2. s[1].name = u[1].name /\ s[2].name = u[2].name
  BY DEF Spread
<1>3. s[1] = u[1] /\ s[2] = u[2]
  BY <1>1, <1>2 DEF IsFrame
<1>4. QED
  BY <1>1, <1>3

(* So the ranking has a first candidate if there is any.                   *)
LEMMA SomeRanksFirst ==
    ASSUME NEW thesis, thesis.direction \in {"BULLISH", "BEARISH"}, IsThesis(thesis),
           NEW frame, IsFrame(frame), Candidates(thesis, frame) # {}
    PROVE  \E c \in Candidates(thesis, frame) :
              \A d \in Candidates(thesis, frame) \ {c} : RanksBefore(c, d)
<1> DEFINE C == Candidates(thesis, frame)
           R == {x \in C \X C : RanksBefore(x[1], x[2])}
<1>1. \A c, d \in C : <<c, d>> \in R <=> RanksBefore(c, d)
  OBVIOUS
<1>2. \A c \in C : /\ c.utility \in Int /\ c.maxLoss \in Int
                    /\ c.long \in Int /\ c.short \in Int
  BY CandidatesAreSpreads, SpreadIsRanked
<1>3. \A c, d \in C : c.long = d.long /\ c.short = d.short => c = d
  <2>1. SUFFICES ASSUME NEW c \in C, NEW d \in C, c.long = d.long, c.short = d.short
                 PROVE  c = d
    OBVIOUS
  <2>2. PICK s \in Spreads(thesis, frame) : c = Spread(thesis, s[1], s[2])
    BY CandidatesAreSpreads
  <2>3. PICK u \in Spreads(thesis, frame) : d = Spread(thesis, u[1], u[2])
    BY CandidatesAreSpreads
  <2>4. s = u
    BY <2>1, <2>2, <2>3, SameRankSameSpread
  <2>5. QED
    BY <2>2, <2>3, <2>4
<1>4. IsFiniteSet(C)
  BY CandidatesAreFinite
<1> HIDE DEF C
<1>5. \A c \in C : ~RanksBefore(c, c)
  BY <1>2 DEF RanksBefore
<1>6. \A b, c, d \in C : RanksBefore(b, c) /\ RanksBefore(c, d) => RanksBefore(b, d)
  BY <1>2, SMTT(60) DEF RanksBefore
<1>7. \A c, d \in C : c # d => RanksBefore(c, d) \/ RanksBefore(d, c)
  BY <1>2, <1>3, SMTT(60) DEF RanksBefore
<1>8. /\ \A c \in C : <<c, c>> \notin R
      /\ \A b, c, d \in C : <<b, c>> \in R /\ <<c, d>> \in R => <<b, d>> \in R
      /\ \A c, d \in C : c # d => <<c, d>> \in R \/ <<d, c>> \in R
  <2> HIDE DEF R
  <2>1. QED
    BY <1>1, <1>5, <1>6, <1>7
<1>9. C # {}
  BY DEF C
<1> HIDE DEF R
<1>10. \E m \in C : \A d \in C \ {m} : <<m, d>> \in R
  BY <1>4, <1>8, <1>9, OneComesFirst
<1>11. QED
  BY <1>1, <1>10 DEF C

(* What the router returns: a candidate that no other ranks before, for a  *)
(* direction that the price confirms, or none if there is no candidate.    *)
LEMMA RouteReturns ==
    ASSUME NEW thesis, IsThesis(thesis), NEW frame, IsFrame(frame)
    PROVE  \/ /\ Route(thesis, frame) = NoCandidate
              /\ \/ thesis.direction = "NEUTRAL" \/ thesis.direction # QuantDirection(frame)
                 \/ Candidates(thesis, frame) = {}
           \/ /\ thesis.direction \in {"BULLISH", "BEARISH"}
              /\ thesis.direction = QuantDirection(frame)
              /\ Route(thesis, frame) \in Candidates(thesis, frame)
              /\ \A d \in Candidates(thesis, frame) \ {Route(thesis, frame)} :
                    RanksBefore(Route(thesis, frame), d)
<1> DEFINE C == Candidates(thesis, frame)
<1>1. CASE \/ thesis.direction = "NEUTRAL" \/ thesis.direction # QuantDirection(frame)
           \/ C = {}
  BY <1>1 DEF Route
<1>2. CASE ~(\/ thesis.direction = "NEUTRAL" \/ thesis.direction # QuantDirection(frame)
             \/ C = {})
  <2>1. thesis.direction \in {"BULLISH", "BEARISH"}
    BY <1>2 DEF IsThesis
  <2>2. \E c \in C : \A d \in C \ {c} : RanksBefore(c, d)
    BY <1>2, <2>1, SomeRanksFirst
  <2>3. Route(thesis, frame) = CHOOSE c \in C : \A d \in C \ {c} : RanksBefore(c, d)
    BY <1>2 DEF Route
  <2> HIDE DEF C
  <2>4. Route(thesis, frame) \in C /\ \A d \in C \ {Route(thesis, frame)} :
                                        RanksBefore(Route(thesis, frame), d)
    BY <2>2, <2>3
  <2>5. QED
    BY <1>2, <2>1, <2>4 DEF C
<1>3. QED
  BY <1>1, <1>2

(* The router's way over the sorted, filtered pairs returns the best of    *)
(* all pairs that a person would admit, for any thesis and any frame.      *)
LEMMA RouteFindsBest ==
    ASSUME NEW thesis, IsThesis(thesis), NEW frame, IsFrame(frame)
    PROVE  IsBestSpread(Route(thesis, frame), thesis, frame)
<1> DEFINE C == Candidates(thesis, frame)
           c == Route(thesis, frame)
           P == AdmissiblePairs(thesis, frame)
<1>1. thesis.direction \in {"BULLISH", "BEARISH"} /\ thesis.direction = QuantDirection(frame)
        => P = Spreads(thesis, frame)
  BY DEF AdmissiblePairs, Spreads
<1>2. thesis.direction \notin {"BULLISH", "BEARISH"} \/ thesis.direction # QuantDirection(frame)
        => P = {}
  BY DEF AdmissiblePairs
<1>3. ASSUME thesis.direction \in {"BULLISH", "BEARISH"}
      PROVE  C = {Spread(thesis, s[1], s[2]) : s \in Spreads(thesis, frame)}
  BY <1>3, CandidatesAreSpreads
<1>4. CASE /\ c = NoCandidate
           /\ \/ thesis.direction = "NEUTRAL" \/ thesis.direction # QuantDirection(frame)
              \/ C = {}
  <2>1. P = {}
    BY <1>1, <1>2, <1>3, <1>4
  <2>2. QED
    BY <1>4, <2>1 DEF IsBestSpread
<1>5. CASE /\ thesis.direction \in {"BULLISH", "BEARISH"}
           /\ thesis.direction = QuantDirection(frame)
           /\ c \in C
           /\ \A d \in C \ {c} : RanksBefore(c, d)
  <2>1. P = Spreads(thesis, frame)
    BY <1>1, <1>5
  <2>2. PICK s \in Spreads(thesis, frame) : c = Spread(thesis, s[1], s[2])
    BY <1>3, <1>5
  <2>3. ASSUME NEW other \in P
        PROVE  Utility(thesis, other[1], other[2]) <= Utility(thesis, s[1], s[2])
    <3> DEFINE d == Spread(thesis, other[1], other[2])
    <3>1. d \in C
      BY <1>3, <1>5, <2>1
    <3>2. c.utility \in Int /\ d.utility \in Int
      BY <1>5, <2>1, <2>2, SpreadIsRanked
    <3>3. d.utility = Utility(thesis, other[1], other[2])
            /\ c.utility = Utility(thesis, s[1], s[2])
      BY <2>2 DEF Spread
    <3> HIDE DEF d, c
    <3>4. d = c \/ RanksBefore(c, d)
      BY <1>5, <3>1
    <3>5. d.utility <= c.utility
      BY <3>2, <3>4 DEF RanksBefore
    <3>6. QED
      BY <3>3, <3>5
  <2>4. c.long = s[1].name /\ c.short = s[2].name /\ c.maxLoss = s[1].ask - s[2].bid
    BY <2>2 DEF Spread
  <2>5. s \in P
    BY <2>1
  <2> HIDE DEF P, c
  <2>6. QED
    BY <2>3, <2>4, <2>5 DEF IsBestSpread, P, c
<1>6. QED
  BY <1>4, <1>5, RouteReturns

(* Whatever thesis is stored, and on whichever frame of its evidence it is *)
(* used, the router finds a best admissible spread if there is any         *)
(* (strategy_router.py:56).                                                *)
THEOREM RouterFindsBest == EntrySpec => []RouteIsBest
<1>1. EntryTypeOK => RouteIsBest
  <2> SUFFICES ASSUME EntryTypeOK, NEW a \in artifacts
               PROVE  a \in WellRouted
    BY DEF RouteIsBest
  <2>1. a \in Artifacts
    BY DEF EntryTypeOK
  <2>2. a.thesis \in Theses
    BY <2>1, StoredThesis
  <2>3. ASSUME NEW f \in Frames
        PROVE  IsBestSpread(Chosen(a.thesis, f), Thesis[a.thesis], Frame[f])
    <3>1. IsThesis(Thesis[a.thesis]) /\ IsFrame(Frame[f])
      BY <2>2, EntryAssumption
    <3>2. QED
      BY <3>1, RouteFindsBest DEF Chosen
  <2>4. QED
    BY <2>1, <2>3 DEF WellRouted
<1>2. QED
  BY <1>1, EntryTypeCorrect, PTL

-----------------------------------------------------------------------------
(* The composition executes intents as IntentExecution does, so that what  *)
(* is proved of every execution holds of these as well.                    *)

LEMMA EntryStepExecutes ==
    ASSUME EntryTypeOK, [EntryNext]_allVars
    PROVE  [Next]_vars
<1>1. TypeOK /\ ArtifactsTypeOK /\ PipelineTypeOK /\ InCall
  BY EntryTypeParts
<1>2. ASSUME NEW p \in Procs, Thinks(p)
      PROVE  [Next]_vars
  BY <1>1, <1>2, ThinksType
<1>3. ASSUME NEW p \in Procs, Enter(p) \/ Execute(p)
      PROVE  [Next]_vars
  BY <1>1, <1>3, EnterOpensCall, ExecuteType
<1>4. ASSUME NEW i \in Intents, MarketMoves(i)
      PROVE  [Next]_vars
  BY <1>4 DEF Next
<1>5. CASE UNCHANGED allVars
  BY <1>5 DEF allVars
<1>6. QED
  BY <1>2, <1>3, <1>4, <1>5 DEF EntryNext, Run, Thinks

(* Every behaviour of the pipeline is one of IntentExecution: a run reaches*)
(* the store and the broker only by persisting an intent and executing it  *)
(* (agent.py:930).                                                         *)
THEOREM PipelineExecutesIntents == EntrySpec => Spec
<1>1. EntryInit => Init
  BY DEF EntryInit
<1>2. EntryTypeOK /\ [EntryNext]_allVars => [Next]_vars
  BY EntryStepExecutes
<1>3. QED
  BY <1>1, <1>2, EntryTypeCorrect, PTL DEF EntrySpec, Spec

=============================================================================
