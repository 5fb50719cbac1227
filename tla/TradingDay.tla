----------------------------- MODULE TradingDay -----------------------------
(***************************************************************************)
(* A trading day of the close profile, minute by minute: the replay of     *)
(* backtest/simulator.py, and the live monitoring pass over the same       *)
(* profile.  The market chooses the candles; of the epics the entry        *)
(* strategy's rule admits, any may be opened, within its own pacing.       *)
(*                                                                         *)
(* The book of the live pass is monitored without the broker's order,      *)
(* which PositionBook and StopRatchet model.                               *)
(***************************************************************************)
EXTENDS ExitZones, EntryRules

CONSTANTS
    Days,        \* what a day is played with: [mode, profile, strategy, epics, shapes, last]
    Opening,     \* shapes of the candles before the first decision
    FirstClose,  \* the price the day starts from
    SpreadWidth, \* bid to offer
    MinStop,     \* IG's padded minimum stop distance (live)
    MaxBuffer,   \* buffer_max_candles
    CloseMinute  \* hour_close

\* mode is "replay" or "live"; profile is [policy, start, band, secure, profit];
\* strategy the entry knobs [rule, ranker, target, cooldown, flat, reopen,
\* shorts, warmup]; shapes are candles relative to the last close, [gap, body, up,
\* down]; last bounds the day: the minute of its last candle.
CandleShapes == [gap : Int, body : Int, up : Nat, down : Nat]

\* atr_period is the same number in every entry strategy and close profile, and
\* open_five, whose ranking is filtered, selects across the epics.
ASSUME DayAssumption ==
    /\ {FirstClose, SpreadWidth, MaxBuffer, CloseMinute} \subseteq Nat \ {0}
    /\ MinStop \in Nat
    /\ Opening \in Seq(CandleShapes) \ {<<>>}
    /\ Windows.atr = Knobs.atr
    /\ \A d \in Days : /\ d.mode \in {"replay", "live"}
                        /\ d.shapes \subseteq CandleShapes
                        /\ IsFiniteSet(d.epics)
                        /\ Len(Opening) < d.last
                        /\ {d.strategy.target, d.strategy.cooldown} \subseteq Nat
                        /\ d.strategy.rule \in Rules
                        /\ d.profile.policy \in Policies
                        /\ d.profile.start \in StartUpdaters
                        /\ d.profile.band \in BandUpdaters
                        /\ d.profile.secure \in SecureUpdaters
                        /\ d.profile.profit \in ProfitUpdaters
    /\ \A d \in Days : d.strategy.rule = "five" => d.strategy.ranker

VARIABLES
    day,      \* one of Days
    minute,
    buffers,  \* EpicBuffer of each epic
    extremes, \* SessionExtremes: [low, high] of each epic, offer highs
    trades,   \* the open positions, a function on the epics that have one
    used,     \* used_today
    lastOpen, \* last_open_ts: a set of at most one minute
    closed,   \* the trades of the day that were closed
    over

vars == <<day, minute, buffers, extremes, trades, used, lastOpen, closed, over>>

mode == day.mode
profile == day.profile
strategy == day.strategy
Epics == day.epics

CandleAt(time, close, s) ==
    LET open == close + s.gap
        end  == open + s.body
    IN [time |-> time, open |-> open, close |-> end, spread |-> SpreadWidth,
        high |-> Max({open, end}) + s.up, low |-> Min({open, end}) - s.down]

LastCandle(buffer) == buffer[Len(buffer)]
LastClose(buffer) == LastCandle(buffer).close

\* The candles of the opening; a fold over the shapes.
Warmed ==
    LET grow[i \in 1..Len(Opening)] ==
          IF i = 1 THEN <<CandleAt(1, FirstClose, Opening[1])>>
          ELSE Append(grow[i - 1], CandleAt(i, LastClose(grow[i - 1]), Opening[i]))
    IN LastN(grow[Len(Opening)], MaxBuffer)

Init ==
    /\ day \in Days
    /\ minute = Len(Opening)
    /\ buffers = [e \in Epics |-> Warmed]
    /\ extremes = [e \in Epics |-> [low |-> Lowest([i \in DOMAIN Warmed |-> Warmed[i].low]),
                                    high |-> Highest([i \in DOMAIN Warmed |-> Adverse(Warmed[i], -1)])]]
    /\ trades = <<>> /\ used = {} /\ lastOpen = {} /\ closed = {} /\ over = FALSE

(***************************************************************************)
(* One candle of each epic that has one this minute.                       *)
(***************************************************************************)
Arrivals == UNION {[E -> day.shapes] : E \in SUBSET Epics \ {{}}}

NewCandle(e, shapes) == CandleAt(minute + 1, LastClose(buffers[e]), shapes[e])

Ingested(shapes) ==
    [e \in Epics |-> IF e \in DOMAIN shapes
                     THEN LastN(Append(buffers[e], NewCandle(e, shapes)), MaxBuffer)
                     ELSE buffers[e]]

\* SessionExtremes.update
Widened(shapes) ==
    [e \in Epics |->
        IF e \in DOMAIN shapes
        THEN LET c == NewCandle(e, shapes)
             IN [low |-> Min({extremes[e].low, c.low}),
                 high |-> Max({extremes[e].high, Adverse(c, -1)})]
        ELSE extremes[e]]

DayExtreme(e, sign, seen) == {IF sign < 0 THEN seen[e].high ELSE seen[e].low}

AtClose == minute + 1 >= CloseMinute

(***************************************************************************)
(* Monitoring.  What becomes of a position: at most one [level, reason] it *)
(* is closed with, and at most one new stop.                               *)
(***************************************************************************)
\* Mutant: the candle's favourable extreme is read.
StopFilledAtBest(p, c) == p.sign * (Best(c, p.sign) - p.follower) <= 0

StopFilled(p, c) == p.sign * (Adverse(c, p.sign) - p.follower) <= 0

\* StrategySimulator._monitor, with the profile's decision d.
Replayed(p, c, d) ==
    IF StopFilled(p, c)
    THEN [close |-> {[level |-> p.follower,
                      reason |-> IF p.updates > 0 THEN "follower" ELSE "stop"]},
          stop |-> {}]
    ELSE [close |-> {[level |-> CloseOut(c, p.sign), reason |-> r] : r \in d.close},
          stop |-> d.stop]

Members(book, bufs) ==
    [e \in DOMAIN book |-> GroupMember(book[e], LastClose(bufs[e]), bufs[e])]

GroupLevel(plan, e) == IF e \in DOMAIN plan THEN {plan[e]} ELSE {}

\* manage_position, with its own guard on the level it is given.
Managed(p, c, d) ==
    [close |-> {[level |-> CloseOut(c, p.sign), reason |-> r] : r \in d.close},
     stop |-> {l \in d.stop : p.follower > 0 => p.sign * (l - p.follower) > 0}]

Outcome(p, c, d, printed) ==
    CASE mode = "live" -> Managed(p, c, d)
      [] mode = "replay" /\ printed -> Replayed(p, c, d)
      [] mode = "replay" /\ ~printed -> Hold

Plan(bufs) == IF GroupAware(profile) THEN GroupPlan(Members(trades, bufs)) ELSE <<>>

Outcomes(bufs, arrived, plan) ==
    [e \in DOMAIN trades |->
       Outcome(trades[e], LastCandle(bufs[e]),
               Evaluate(profile, trades[e], LastClose(bufs[e]), bufs[e], AtClose,
                        GroupLevel(plan, e)),
               e \in arrived)]

Moved(p, levels) ==
    IF levels = {} THEN p
    ELSE [p EXCEPT !.follower = CHOOSE l \in levels : TRUE, !.updates = 1]

Result(p, ending) == [sign |-> p.sign, loose |-> p.loose, opened |-> p.opened,
                      level |-> ending.level, reason |-> ending.reason]

(***************************************************************************)
(* Opening.  Picks are the epics opened this minute with their direction.  *)
(***************************************************************************)
Signs == IF strategy.shorts THEN {1, -1} ELSE {1}

FirstStop(c, sign, plan) ==
    IF mode = "live"
    THEN c.close - sign * Max({sign * (c.close - plan.stop), MinStop})
    ELSE plan.stop

Position(c, sign, plan, stop) ==
    [sign |-> sign, open |-> IF sign < 0 THEN c.close ELSE c.close + c.spread,
     zero |-> plan.zero, margin |-> plan.margin, follower |-> stop, loose |-> stop,
     epp |-> 1, mind |-> IF mode = "live" THEN MinStop ELSE 0,
     since |-> IF mode = "live" THEN minute + 2 ELSE 0,
     opened |-> minute + 1, updates |-> 0]

Planned(c, sign, plan) == Position(c, sign, plan, FirstStop(c, sign, plan))

Opened(e, sign, bufs, seen) ==
    Planned(LastCandle(bufs[e]), sign,
            InitialPlan(profile, bufs[e], LastClose(bufs[e]), sign, DayExtreme(e, sign, seen)))

\* The candidates: never an epic that is open, one that was used today only
\* where re-opening is allowed, and none before its buffer is warm.
Eligible(kept, bufs) ==
    {e \in Epics \ kept : /\ strategy.reopen \/ e \notin used
                          /\ Len(bufs[e]) >= strategy.warmup}

Paced ==
    strategy.cooldown > 0 =>
        \A m \in lastOpen : minute + 1 - m >= strategy.cooldown

\* Mutant: the flat-book rule is forgotten.
SlotsOfTarget(kept) ==
    IF ~Paced THEN 0
    ELSE IF strategy.cooldown > 0 THEN Min({1, strategy.target - Cardinality(kept)})
    ELSE strategy.target - Cardinality(kept)

\* _select_and_open: how many may be opened this minute.
Slots(kept) ==
    IF (strategy.flat /\ kept # {}) \/ ~Paced THEN 0
    ELSE IF strategy.cooldown > 0 THEN Min({1, strategy.target - Cardinality(kept)})
    ELSE strategy.target - Cardinality(kept)

\* What evaluate returns for these epics, [epic, sign, sig].
Intents(E, bufs) ==
    UNION {{[epic |-> e, sign |-> s, sig |-> Signature(bufs[e])] :
              s \in Directions(strategy.rule, e, bufs[e]) \cap Signs} : e \in E}

OnePerEpic(S) == \A p, q \in S : p.epic = q.epic => p = q

Baskets(intents) == {S \in SUBSET intents : OnePerEpic(S)}

AsPicks(S) ==
    [e \in {p.epic : p \in S} |-> (CHOOSE p \in S : p.epic = e).sign]

\* The intents in some order of their scores; some may not have reached the
\* ranking, or may be refused at the open.
Rankings(S) ==
    {r \in [1..Cardinality(S) -> S] : \A i, j \in DOMAIN r : r[i] = r[j] => i = j}

\* The rest of the ranking replaces what its filter drops.
Winners(intents) ==
    IF strategy.rule = "five"
    THEN UNION {UNION {SUBSET Range(Deduplicate(r)) : r \in Rankings(S)} : S \in Baskets(intents)}
    ELSE Baskets(intents)

RankerPicks(intents, slots) ==
    IF slots <= 0 THEN {<<>>}
    ELSE {AsPicks(S) : S \in {W \in Winners(intents) : Cardinality(W) <= slots}}

GatedPicks(intents) == {AsPicks(S) : S \in Baskets(intents)}

\* _run_day_gated: every epic for itself, on its own candle, and not on the
\* candle that closed it.
Considered(kept, bufs, arrived) ==
    IF strategy.ranker THEN Eligible(kept, bufs)
    ELSE (Eligible(kept, bufs) \cap arrived) \ DOMAIN trades

Picks(kept, intents) ==
    IF strategy.ranker THEN RankerPicks(intents, Slots(kept)) ELSE GatedPicks(intents)

Step(arrived, bufs, seen, out, kept) ==
    \E picks \in Picks(kept, Intents(Considered(kept, bufs, arrived), bufs)) :
        /\ trades' = [e \in kept \cup DOMAIN picks |->
                        IF e \in kept THEN Moved(trades[e], out[e].stop)
                        ELSE Opened(e, picks[e], bufs, seen)]
        /\ closed' = closed \cup UNION {{Result(trades[e], r) : r \in out[e].close}
                                         : e \in DOMAIN trades}
        /\ used' = used \cup DOMAIN picks
        /\ lastOpen' = IF picks = <<>> THEN lastOpen ELSE {minute + 1}

Kept(out) == {e \in DOMAIN trades : out[e].close = {}}

Minute ==
    /\ ~over /\ minute < day.last
    /\ \E shapes \in Arrivals :
         /\ buffers' = Ingested(shapes)
         /\ extremes' = Widened(shapes)
         /\ \E out \in {Outcomes(buffers', DOMAIN shapes, Plan(buffers'))} :
              Step(DOMAIN shapes, buffers', extremes', out, Kept(out))
    /\ minute' = minute + 1
    /\ UNCHANGED <<day, over>>

(***************************************************************************)
(* The end of the candles closes what is left, at the last close-out price.*)
(***************************************************************************)
EndOfDay ==
    /\ mode = "replay" /\ ~over /\ minute = day.last
    /\ over' = TRUE
    /\ closed' = closed \cup
         {Result(trades[e], [level |-> CloseOut(buffers[e][Len(buffers[e])], trades[e].sign),
                             reason |-> "end_of_day"]) : e \in DOMAIN trades}
    /\ trades' = <<>>
    /\ UNCHANGED <<day, minute, buffers, extremes, used, lastOpen>>

Next == Minute \/ EndOfDay

Spec == Init /\ [][Next]_vars
-----------------------------------------------------------------------------
Both == DOMAIN trades \cap DOMAIN trades'
Same(e) == trades[e].opened = trades'[e].opened

\* The stop a position is managed by never gives ground.  The replay applies
\* what an updater returns verbatim, so there it is up to every updater, in
\* every zone the price may wander to, never to propose less than an earlier
\* one did.
FollowerTightens ==
    [][\A e \in Both : Same(e) =>
          trades[e].sign * (trades'[e].follower - trades[e].follower) >= 0]_vars

\* A stop is never put at or past the price the position would be closed at:
\* it would be closed on the spot.  Holds at the open (the stop policies'
\* floors) and after every move.
StopBehindPrice ==
    \A e \in DOMAIN trades :
        trades[e].sign * (CloseOut(buffers[e][Len(buffers[e])], trades[e].sign)
                            - trades[e].follower) > 0

\* What the replay reports: no trade is closed further against it than the
\* stop it was opened with, whichever rule closed it.
LossWithinRisk ==
    \A r \in closed : mode = "replay" => r.sign * (r.level - r.loose) >= 0

\* A series opens on a flat book, so that what is open together was opened
\* together; a paced strategy spaces its opens; the target is not exceeded.
OpensPaced ==
    LET openings == {trades[e].opened : e \in DOMAIN trades} \cup {r.opened : r \in closed}
        held == {trades[e].opened : e \in DOMAIN trades}
    IN strategy.ranker =>
         /\ Cardinality(DOMAIN trades) <= strategy.target
         /\ strategy.flat => \A m, n \in held : m = n
         /\ strategy.cooldown > 0 => \A m, n \in openings : m < n => n - m >= strategy.cooldown

\* A series is a basket of different bets: no two of the positions opened in
\* one minute move together, whatever their names, on the curves they were
\* opened on.  Likeness is not transitive, and a pair that is opposed is one
\* bet when it is taken on opposite sides.
BasketDistinct ==
    [][strategy.rule = "five" =>
         LET opened == {e \in DOMAIN trades' : trades'[e].opened = minute'}
             bet(e) == [sig |-> Signature(buffers'[e]), sign |-> trades'[e].sign]
         IN \A e, f \in opened : e # f => ~SameBet(bet(e), bet(f))]_vars

Hit(p, c) == p.sign * (CloseOut(c, p.sign) - p.follower) <= 0

\* The promise of smartgroup: on a pass whose plan is armed, with every
\* position warm and short of its stop, the stops the book is left with bank
\* a gain, net of the slip and of the haircut.
GroupPromise ==
    [][LET members == Members(trades, buffers')
           left == [e \in DOMAIN trades |-> [members[e] EXCEPT !.follower = trades'[e].follower]]
           atStop(m) == Haircut(m.sign * (m.follower - m.sign * m.slip - m.open) * m.epp)
       IN (/\ mode = "live" /\ GroupAware(profile) /\ ~(minute + 1 >= CloseMinute)
           /\ GroupPlan(members) # <<>>
           /\ \A e \in DOMAIN trades :
                 /\ AtrOf(buffers'[e]) > 0
                 /\ ~Hit(trades[e], buffers'[e][Len(buffers'[e])]))
          => 0 < Total([e \in DOMAIN trades |-> atStop(left[e])])]_vars
=============================================================================
