----------------------------- MODULE ExitPolicy -----------------------------
(***************************************************************************)
(* ExitPolicyEngine.evaluate: whether a managed spread is held, closed or  *)
(* handed to a person.  Prices are whole cents per share, times are days   *)
(* (minutes for quotes and signals); what makes a quote unusable besides   *)
(* its age is one defect.                                                  *)
(***************************************************************************)
EXTENDS Integers, Sequences

Presets ==
    [CATALYST |-> [takeProfit |-> 40, stopLoss |-> -35, buffer |-> 2,  maxHold |-> 10],
     SWING    |-> [takeProfit |-> 50, stopLoss |-> -40, buffer |-> 7,  maxHold |-> 56],
     THEMATIC |-> [takeProfit |-> 60, stopLoss |-> -50, buffer |-> 21, maxHold |-> 365]]

(* What one evaluation looks at.  Its numbers may be anything: no check    *)
(* before it bounds a price, an age or a date.                             *)
Directions == {"BULLISH", "BEARISH", "NEUTRAL"}
ExitContexts ==
    [horizon : DOMAIN Presets,
     direction : Directions,
     fill : Int, authorized : Int,                \* per share
     quoteDefect : {"none", "missing", "other"},
     quoteAge : Int, longBid : Int, shortAsk : Int,
     signals : {"none", "unbound", "bound"},      \* bound: valid, and of this observation
     signalAge : Int, ai : Directions, quant : Directions,
     versionSupported : BOOLEAN, brokerEvent : BOOLEAN, brokerMatch : BOOLEAN,
     thesisInvalidated : BOOLEAN,
     dte : Int, held : Int]                       \* to the expiration, since the opening

Freshness == 5
Fresh(age) == age \in 0..Freshness   \* a negative age is an observation from the future

(* The broker's fill price, or the authorized ceiling of a spread filled   *)
(* at nothing.  The position is valid, so its fill adds up (positions.py). *)
EntryBasis(c) == IF c.fill > 0 THEN c.fill ELSE c.authorized

(* Both legs quoted, for this spread, at the same instant as the           *)
(* observation, tradable and uncrossed; and the credit is positive.        *)
CloseCredit(c) == c.longBid - c.shortAsk
QuoteValid(c) == c.quoteDefect = "none" /\ Fresh(c.quoteAge) /\ CloseCredit(c) > 0

JointReversal(c) ==
    /\ c.signals = "bound"
    /\ Fresh(c.signalAge)
    /\ c.ai = c.quant
    /\ c.ai \notin {"NEUTRAL", c.direction}

(* Returns are compared without dividing: (credit - basis) / basis <= s.   *)
ReturnAtMost(c, percent) == (CloseCredit(c) - EntryBasis(c)) * 100 <= percent * EntryBasis(c)
ReturnAtLeast(c, percent) == (CloseCredit(c) - EntryBasis(c)) * 100 >= percent * EntryBasis(c)

(* In the order in which evaluate appends its reasons.                     *)
ReasonOrder ==
    <<"unsupported_exit_policy_version", "broker_event_or_position_mismatch",
      "expiry_buffer_reached", "structured_thesis_invalidation",
      "joint_reversal_confirmed", "stop_loss_reached", "take_profit_reached",
      "max_holding_time_reached">>

Holds(c, reason) ==
    LET preset == Presets[c.horizon]
        priced == EntryBasis(c) > 0 /\ QuoteValid(c)
    IN CASE reason = "unsupported_exit_policy_version"   -> ~c.versionSupported
         [] reason = "broker_event_or_position_mismatch" -> c.brokerEvent \/ ~c.brokerMatch
         [] reason = "expiry_buffer_reached"             -> c.dte <= preset.buffer
         [] reason = "structured_thesis_invalidation"    -> c.thesisInvalidated
         [] reason = "joint_reversal_confirmed"          -> JointReversal(c)
         [] reason = "stop_loss_reached"   -> priced /\ ReturnAtMost(c, preset.stopLoss)
         [] reason = "take_profit_reached" -> priced /\ ReturnAtLeast(c, preset.takeProfit)
         [] OTHER                          -> c.held >= preset.maxHold

Reasons(c) == {i \in DOMAIN ReasonOrder : Holds(c, ReasonOrder[i])}

NeedsReviewMutant(c) ==   \* an expiration that cannot be priced is held
    \/ Holds(c, "unsupported_exit_policy_version")
    \/ Holds(c, "broker_event_or_position_mismatch")

NeedsReview(c) ==
    \/ Holds(c, "unsupported_exit_policy_version")
    \/ Holds(c, "broker_event_or_position_mismatch")
    \/ Holds(c, "expiry_buffer_reached") /\ ~QuoteValid(c)

PrimaryReason(c) ==
    IF Reasons(c) # {}
    THEN ReasonOrder[CHOOSE i \in Reasons(c) : \A j \in Reasons(c) : i <= j]
    ELSE IF QuoteValid(c) THEN "no_exit_trigger" ELSE "close_quote_unavailable"

Outcome(c) ==
    IF NeedsReview(c) THEN "REVIEW_REQUIRED"
    ELSE IF PrimaryReason(c) = "expiry_buffer_reached" THEN "CLOSE"
    ELSE IF PrimaryReason(c) \in {"no_exit_trigger", "close_quote_unavailable"} THEN "HOLD"
    ELSE IF QuoteValid(c) THEN "CLOSE" ELSE "HOLD"

(* The credit is 0 where the code has none.  CLOSE without a valid quote   *)
(* becomes HOLD at last: Outcome never gets there.                         *)
Evaluate(c) ==
    LET unpriced == Outcome(c) = "CLOSE" /\ ~QuoteValid(c)
    IN [outcome |-> IF unpriced THEN "HOLD" ELSE Outcome(c),
        reason  |-> IF unpriced THEN "close_quote_unavailable" ELSE PrimaryReason(c),
        credit  |-> IF QuoteValid(c) THEN CloseCredit(c) ELSE 0]
=============================================================================
