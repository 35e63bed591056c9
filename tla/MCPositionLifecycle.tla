------------------------ MODULE MCPositionLifecycle ------------------------
(* Instances of PositionLifecycle for TLC. *)
EXTENDS PositionLifecycle, TLC

(* A spread bought at 100, or at nothing and authorized at 110, with what  *)
(* the policy may find about it on either side of its limits.              *)
Bought ==
    [horizon |-> "CATALYST", direction |-> "BULLISH", fill |-> 100, authorized |-> 110,
     quoteDefect |-> "none", quoteAge |-> 0, longBid |-> 150, shortAsk |-> 50,
     signals |-> "none", signalAge |-> 0, ai |-> "NEUTRAL", quant |-> "NEUTRAL",
     versionSupported |-> TRUE, brokerEvent |-> FALSE, brokerMatch |-> TRUE,
     dte |-> 30, thesisInvalidated |-> FALSE, held |-> 0]
Quoted ==
    {[Bought EXCEPT !.fill = f, !.quoteDefect = d, !.quoteAge = age, !.longBid = bid] :
        f \in {0, 100}, d \in {"none", "missing"}, age \in {-1, Freshness, Freshness + 1},
        bid \in {50, 115, 116, 189, 190}}
Signalled(C) ==
    C \cup {[c EXCEPT !.signals = "bound", !.signalAge = age, !.ai = ai, !.quant = quant] :
              c \in C, age \in {Freshness, Freshness + 1},
              ai \in {"BEARISH", "BULLISH"}, quant \in {"BEARISH", "NEUTRAL"}}
Aged(C) ==
    {[c EXCEPT !.dte = dte, !.held = held, !.thesisInvalidated = t] :
        c \in C, dte \in {2, 3}, held \in {9, 10}, t \in BOOLEAN}
Suspect(C) ==
    C \cup {[c EXCEPT !.versionSupported = FALSE] : c \in C}
      \cup {[c EXCEPT !.brokerEvent = TRUE] : c \in C}
      \cup {[c EXCEPT !.brokerMatch = FALSE] : c \in C}
AllContexts == Aged(Signalled(Quoted)) \cup Suspect(Aged(Quoted))

SomeContexts ==
    {Bought, [Bought EXCEPT !.longBid = 90], [Bought EXCEPT !.quoteDefect = "missing"]}

Assignments == <<"OPASN">>
Expirations == <<"OPEXP", "FEE">>

ClosesFill == FaultKinds \ {"no_fill"}
TimelyFaults == FaultKinds \ {"late_activity"}

Symmetry == Permutations(Workers)
=============================================================================
