--------------------------- MODULE StrategyRouter ---------------------------
(***************************************************************************)
(* What the entry pipeline computes between two awaits: the quotes of a    *)
(* frame, the validation of a thesis, the quantitative signal, the choice  *)
(* of a spread, the risk check and the mandate.  Operators only, no state. *)
(*                                                                         *)
(* Money of options is in cents per share, so that a debit of 200 is also  *)
(* a maximal loss of 200 dollars; strikes and prices are in dollars,       *)
(* confidence and delta in hundredths, expirations in days from the date   *)
(* of the frame.  One underlying is traded.                                *)
(***************************************************************************)
EXTENDS Integers, FiniteSets

LOCAL INSTANCE FiniteSetsExt

CONSTANT Freshness   \* the 5 minutes of the code, in ticks of the clock

ASSUME FreshnessAssumption == Freshness \in Nat \ {0}

MaxDebit == 250
DteBand == [CATALYST |-> 7..30, SWING |-> 30..90, THEMATIC |-> 90..450]
(* _legacy_risk_service, the same for every horizon but the band.          *)
PerTradeMaxLoss == 250
AggregateCapacity == 1000
MaxPositions == 10
ConfidenceThreshold == 70
CooldownTime == 0
MaxDirectionalExposure == 500
MinimumOptionsLevel == 3
(* _mandate                                                                *)
MaxTradeLoss == 250
MaxNotional == 1000
AutonomousNotional == 250

Abs(x) == IF x < 0 THEN -x ELSE x
AtMost(bound, x) == IF x > bound THEN bound ELSE x
AtLeast(bound, x) == IF x < bound THEN bound ELSE x

(* at is no later than now and at most the freshness old.                  *)
Recent(at, now) == at <= now /\ now - at <= Freshness

-----------------------------------------------------------------------------
(* What the model's answer is parsed into.                                 *)
IsThesis(thesis) ==
    /\ thesis.direction \in {"BULLISH", "BEARISH", "NEUTRAL"}
    /\ thesis.confidence \in 0..100
    /\ thesis.horizon \in DOMAIN DteBand

(* validate_thesis.  first is what beneficiaries[0] names, benefits and    *)
(* suffers say whether the underlying is in a list, cites whether every    *)
(* cited source is in the evidence and none is cited both ways.            *)
Valid(thesis) ==
    /\ thesis.cites
    /\ thesis.confidence >= 70
    /\ thesis.direction = "BULLISH" => thesis.benefits
    /\ thesis.direction = "BEARISH" => thesis.suffers
    /\ thesis.direction = "NEUTRAL" => thesis.first = "none" /\ ~thesis.suffers

(* compute_quant_signal                                                    *)
QuantDirection(frame) ==
    IF frame.price > frame.previousClose THEN "BULLISH"
    ELSE IF frame.price < frame.previousClose THEN "BEARISH" ELSE "NEUTRAL"

-----------------------------------------------------------------------------
(* StrategyRouter.route                                                    *)

(* observe: what _parse_option_quote makes of the snapshots of the chain.  *)
(* whole says that a snapshot has its analytics and an active contract     *)
(* that agrees with its symbol.                                            *)
OptionQuotes(frame) ==
    {q \in frame.quotes :
        /\ q.whole
        /\ Recent(q.at, frame.at)
        /\ q.interest > 0 /\ q.volume > 0
        /\ q.bid > 0 /\ q.ask > 0 /\ q.ask >= q.bid
        /\ IF q.type = "call" THEN q.delta > 0 ELSE q.delta < 0}

(* _filter_quotes                                                          *)
Accepted(frame) ==
    {q \in OptionQuotes(frame) :
        /\ Recent(q.at, frame.at)
        /\ q.tradable
        /\ q.bid > 0 /\ q.ask > 0 /\ q.ask >= q.bid
        /\ q.interest > 0 /\ q.volume > 0}

(* _is_call_pair, _is_put_pair, and the same expiration.                   *)
Pairs(thesis, frame) ==
    {pair \in {{q, r} : q, r \in Accepted(frame)} :
        /\ \E q, r \in pair : q # r
        /\ \A q, r \in pair : q.dte = r.dte
        /\ \A q \in pair : IF thesis.direction = "BULLISH" THEN q.delta > 0 ELSE q.delta < 0}

(* By strike, then by symbol.                                              *)
Low(pair) ==
    CHOOSE q \in pair : \A r \in pair :
        q.strike < r.strike \/ (q.strike = r.strike /\ q.name <= r.name)
High(pair) == CHOOSE q \in pair : q # Low(pair)
Long(thesis, pair) == IF thesis.direction = "BULLISH" THEN Low(pair) ELSE High(pair)
Short(thesis, pair) == IF thesis.direction = "BULLISH" THEN High(pair) ELSE Low(pair)
Width(pair) == High(pair).strike - Low(pair).strike

(* _utility, in millionths, each term rounded (the code keeps 28 digits).  *)
Utility(thesis, long, short) ==
    LET debit == long.ask - short.bid
        spreads == (long.ask - long.bid) + (short.ask - short.bid)
        liquidity == 125 * AtMost(1000, AtMost(long.interest, short.interest))
                     + 1250 * AtMost(100, AtMost(long.volume, short.volume))
        expiryFit == AtLeast(0, 150000 - (1000 * Abs(short.dte - 60)) \div 3)
        slippage == AtLeast(0, 100000 - (50000 * spreads) \div debit)
        efficiency == AtLeast(0, 100000 - (1000 * debit) \div Abs(short.strike - long.strike))
    IN  4000 * thesis.confidence + liquidity + expiryFit + slippage + efficiency

(* _make_candidate: the conditions, and the candidate of a pair.           *)
MakesCandidate(thesis, frame, pair) ==
    LET long == Long(thesis, pair)
        debit == long.ask - Short(thesis, pair).bid
    IN  /\ long.dte \in DteBand[thesis.horizon]
        /\ Abs(long.delta) \in 35..70
        /\ 100 * Width(pair) >= 2 * frame.price
        /\ 100 * Width(pair) <= 8 * frame.price
        /\ debit > 0
        /\ debit <= MaxDebit

Candidate(thesis, pair) ==
    LET long == Long(thesis, pair)
        short == Short(thesis, pair)
    IN  [long |-> long.name, short |-> short.name, direction |-> thesis.direction,
         horizon |-> thesis.horizon, dte |-> long.dte, maxLoss |-> long.ask - short.bid,
         utility |-> Utility(thesis, long, short)]

Candidates(thesis, frame) ==
    {Candidate(thesis, pair) : pair \in
        {pair \in Pairs(thesis, frame) : MakesCandidate(thesis, frame, pair)}}

RanksBeforeMutant(c, d) ==   \* the cheapest first
    c.maxLoss < d.maxLoss \/ (c.maxLoss = d.maxLoss /\ c.long < d.long)

(* _rank_key                                                               *)
RanksBefore(c, d) ==
    \/ c.utility > d.utility
    \/ /\ c.utility = d.utility
       /\ \/ c.maxLoss < d.maxLoss
          \/ c.maxLoss = d.maxLoss /\ c.long < d.long
          \/ c.maxLoss = d.maxLoss /\ c.long = d.long /\ c.short < d.short

NoCandidate == [long |-> 0, short |-> 0, direction |-> "NEUTRAL", horizon |-> "SWING",
                dte |-> 0, maxLoss |-> 0, utility |-> 0]

Route(thesis, frame) ==
    LET candidates == Candidates(thesis, frame)
    IN  IF \/ thesis.direction = "NEUTRAL"
           \/ thesis.direction # QuantDirection(frame)
           \/ candidates = {}
        THEN NoCandidate
        ELSE CHOOSE c \in candidates : \A d \in candidates \ {c} : RanksBefore(c, d)

-----------------------------------------------------------------------------
(* PortfolioRiskService.evaluate.  A snapshot's open is the set of its     *)
(* positions and reservations, idle the time since the last trade.         *)
Loss(open) == MapThenSumSet(LAMBDA o : o.maxLoss, open)

(* projected_exposure: what the account has in the first beneficiary, and  *)
(* the candidate's loss with the sign of its direction.                    *)
CurrentExposure(thesis, snapshot) == IF thesis.first = "self" THEN snapshot.exposure ELSE 0
ProjectedExposure(c, thesis, snapshot) ==
    CurrentExposure(thesis, snapshot) + (IF c.direction = "BULLISH" THEN c.maxLoss ELSE -c.maxLoss)

Hedge(c, thesis, snapshot) ==
    /\ CurrentExposure(thesis, snapshot) # 0
    /\ Abs(ProjectedExposure(c, thesis, snapshot)) < Abs(CurrentExposure(thesis, snapshot))

RiskReasons(c, thesis, snapshot) ==
    LET same == {o \in snapshot.open : o.horizon = c.horizon}
        found ==
          [horizon_mismatch |-> c.horizon # thesis.horizon,
           dte_outside_budget |-> c.dte \notin DteBand[c.horizon],
           confidence_below_threshold |-> thesis.confidence < ConfidenceThreshold,
           per_trade_max_loss_exceeded |-> c.maxLoss > PerTradeMaxLoss,
           options_level_insufficient |-> snapshot.level < MinimumOptionsLevel,
           buying_power_insufficient |-> c.maxLoss > snapshot.buyingPower,
           cooldown_active |-> snapshot.idle < CooldownTime,
           horizon_capacity_exceeded |-> Loss(same) + c.maxLoss > AggregateCapacity,
           aggregate_max_loss_exceeded |-> Loss(snapshot.open) + c.maxLoss > AggregateCapacity,
           duplicate_catalyst |-> \E o \in snapshot.open :
                o.underlying = thesis.first /\ o.catalyst = thesis.catalyst,
           max_positions_exceeded |-> Cardinality(same) >= MaxPositions,
           directional_concentration_exceeded |->
                /\ ~Hedge(c, thesis, snapshot)
                /\ Abs(ProjectedExposure(c, thesis, snapshot)) > MaxDirectionalExposure]
    IN  {reason \in DOMAIN found : found[reason]}

(* evaluate_policy with the mandate and the context that the agent makes:  *)
(* one unit, its own account and underlying, no kill switch, a mandate     *)
(* that is never expired; beyond the autonomous notional it escalates,     *)
(* which the agent treats as a denial.                                     *)
PolicyAllows(maxLoss, level, now, expiresAt) ==
    /\ now < expiresAt
    /\ level >= MinimumOptionsLevel
    /\ maxLoss <= MaxTradeLoss
    /\ maxLoss <= MaxNotional
    /\ maxLoss <= AutonomousNotional

-----------------------------------------------------------------------------
(* What the choice of a spread amounts to, for the properties: among all   *)
(* ordered pairs of quotes, those a person would call admissible, and one  *)
(* that none of them beats.                                                *)
Admissible(thesis, frame, long, short) ==
    LET bought == long.ask - short.bid
        away == IF thesis.direction = "BULLISH" THEN short.strike - long.strike
                ELSE long.strike - short.strike
    IN  /\ \A q \in {long, short} :
              /\ q.whole /\ q.tradable
              /\ q.type = IF thesis.direction = "BULLISH" THEN "call" ELSE "put"
              /\ q.at \in (frame.at - Freshness)..frame.at
              /\ 0 < q.bid /\ q.bid <= q.ask
              /\ q.interest * q.volume > 0
              /\ IF thesis.direction = "BULLISH" THEN q.delta > 0 ELSE q.delta < 0
        /\ long.dte = short.dte
        /\ long.dte \in DteBand[thesis.horizon]
        /\ Abs(long.delta) >= 35 /\ Abs(long.delta) <= 70
        /\ 100 * away \in (2 * frame.price)..(8 * frame.price)
        /\ bought \in 1..MaxDebit

AdmissiblePairs(thesis, frame) ==
    IF thesis.direction \in {"BULLISH", "BEARISH"} /\ thesis.direction = QuantDirection(frame)
    THEN {pair \in frame.quotes \X frame.quotes : Admissible(thesis, frame, pair[1], pair[2])}
    ELSE {}

IsBestSpread(c, thesis, frame) ==
    LET pairs == AdmissiblePairs(thesis, frame)
    IN  IF pairs = {} THEN c = NoCandidate
        ELSE \E pair \in pairs :
               /\ c.long = pair[1].name /\ c.short = pair[2].name
               /\ c.maxLoss = pair[1].ask - pair[2].bid
               /\ \A other \in pairs :
                     Utility(thesis, other[1], other[2]) <= Utility(thesis, pair[1], pair[2])
=============================================================================
