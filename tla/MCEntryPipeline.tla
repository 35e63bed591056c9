--------------------------- MODULE MCEntryPipeline ---------------------------
(* An instance of EntryPipeline for TLC. *)
EXTENDS EntryPipeline, TLC

CONSTANTS p1, p2

AllAgents == [p \in Procs |-> "agent"]

Quote(name, type, strike, bid, ask, delta, at) ==
    [name |-> name, type |-> type, strike |-> strike, dte |-> 30, bid |-> bid, ask |-> ask,
     delta |-> delta, interest |-> 500, volume |-> 50, whole |-> TRUE, tradable |-> TRUE,
     at |-> at]

(* Calls around 100 that fit together, or not: stale, from the future, too *)
(* far, of another expiration, illiquid, of the same strike, too dear.     *)
Calls ==
    {Quote(1, "call", 100, 390, 400, 55, 2), Quote(2, "call", 105, 200, 210, 38, 2),
     Quote(3, "call", 103, 260, 270, 45, 1), Quote(4, "call", 105, 215, 216, 38, 0),
     [Quote(5, "call", 102, 300, 310, 50, 2) EXCEPT !.dte = 60],
     [Quote(6, "call", 105, 240, 241, 38, 2) EXCEPT !.interest = 0],
     Quote(7, "call", 105, 201, 205, 39, 3),
     [Quote(8, "call", 108, 195, 200, 35, 2) EXCEPT !.dte = 60],
     [Quote(9, "call", 100, 430, 440, 55, 2) EXCEPT !.dte = 60]}
(* Puts, crossed, with a wrong contract or not tradable ones among them,   *)
(* and a call.                                                             *)
Puts ==
    {Quote(1, "put", 98, 390, 400, -55, 1), Quote(2, "put", 94, 200, 210, -36, 1),
     Quote(3, "put", 92, 180, 170, -30, 1), Quote(4, "put", 94, 205, 210, -36, 0),
     Quote(5, "put", 104, 600, 610, -72, 1), Quote(6, "call", 100, 390, 400, 55, 1),
     [Quote(7, "put", 94, 300, 310, -36, 1) EXCEPT !.whole = FALSE],
     [Quote(8, "put", 93, 290, 310, -36, 1) EXCEPT !.tradable = FALSE]}

(* A frame is named by a number, whose bits say which quotes it has.  The  *)
(* frames with puts are old enough for the mandate to have expired when    *)
(* the run gets there.  Others are too old, too new or of a feed for       *)
(* research only.                                                          *)
Among(n, quotes) == {q \in quotes : (n \div 2 ^ (q.name - 1)) % 2 = 1}
FrameAt(at, price, quotes) ==
    [at |-> at, price |-> price, previousClose |-> 99, researchOnly |-> FALSE, quotes |-> quotes]
SomeFrame ==
    [f \in 0..770 |->
        CASE f < 512 -> FrameAt(2, 100, Among(f, Calls))
          [] f \in 512..767 -> FrameAt(1, 98, Among(f - 512, Puts))
          [] f = 768 -> FrameAt(0, 100, {})
          [] f = 769 -> FrameAt(3, 100, {})
          [] f = 770 -> [FrameAt(2, 100, {}) EXCEPT !.researchOnly = TRUE]]
AllFrames == DOMAIN SomeFrame

(* Two bullish frames with the same evidence, whose spreads cost 200 and   *)
(* 245, a bearish one, and those that no run gets past.                    *)
SomeShown == {3, 384, 767, 768, 769, 770}

(* The intents that can come of them.                                      *)
IntentOf(f, t) == [frame |-> f, news |-> "news", thesis |-> t]
SomeBasis ==
    [i1 |-> IntentOf(3, "bull"), i2 |-> IntentOf(384, "bull"), i3 |-> IntentOf(3, "peer"),
     i4 |-> IntentOf(767, "bear")]
SomeAmount == [i1 |-> 200, i2 |-> 245, i3 |-> 200, i4 |-> 195]

SomeThesis ==
    [bull |-> [direction |-> "BULLISH", confidence |-> 80, horizon |-> "SWING", catalyst |-> "a",
               first |-> "self", benefits |-> TRUE, suffers |-> FALSE, cites |-> TRUE],
     peer |-> [direction |-> "BULLISH", confidence |-> 90, horizon |-> "CATALYST", catalyst |-> "a",
               first |-> "other", benefits |-> TRUE, suffers |-> FALSE, cites |-> TRUE],
     bear |-> [direction |-> "BEARISH", confidence |-> 70, horizon |-> "SWING", catalyst |-> "b",
               first |-> "self", benefits |-> TRUE, suffers |-> TRUE, cites |-> TRUE]]

SomeAccounts ==
    {[active |-> TRUE, level |-> 3, buyingPower |-> 2000],
     [active |-> TRUE, level |-> 2, buyingPower |-> 2000]}

(* The market above the debits that were paid, and below.                  *)
SomeValuations ==
    {[i1 |-> 255, i2 |-> 320, i3 |-> 250, i4 |-> 250],
     [i1 |-> 150, i2 |-> 90, i3 |-> 160, i4 |-> 0]}

NoFaults == {}

(* The processes are interchangeable.                                      *)
Symmetry == Permutations(Procs)
=============================================================================
