----------------------------- MODULE EntryRules -----------------------------
(***************************************************************************)
(* What the entry strategies of entry/ may open: the conditions under      *)
(* which each returns an intent, and its direction, and the filter that    *)
(* keeps one bet of each kind in a basket (core/similarity.py).            *)
(*                                                                         *)
(* Scores are left out.  A score floor or the projection consensus may     *)
(* refuse any candidate, and a ranking is any order of those left, so what *)
(* is opened is among what these rules admit.                              *)
(***************************************************************************)
EXTENDS Indicators

CONSTANTS
    Knobs,        \* windows in candles, and the thresholds that depend on the price grid
    Commodities   \* the epics with a commodity's prefix

Rules == {"any", "manual", "testing", "ranking", "allincrease", "slope", "linear",
          "steady", "rebound", "saferanking", "ultraranking", "five", "pullback",
          "fade", "donchian", "projection"}

\* Moves are in hundredths of a percent, the spread in thousandths of the bid.
ASSUME KnobsAssumption ==
    /\ DOMAIN Knobs = {"atr", "channel", "regime", "horizon", "trend", "mid", "entry",
                       "roc", "recent", "gate", "dip", "session", "steady", "signature",
                       "overlap", "spread", "fadeMove", "joinMove", "midMove", "entryMove",
                       "minAtr"}
    /\ \A k \in DOMAIN Knobs : Knobs[k] \in Nat \ {0}

(***************************************************************************)
(* The history each strategy waits for.                                    *)
(***************************************************************************)
Spans(rule) ==
    {Knobs.atr} \cup
    CASE rule = "donchian"             -> {Knobs.channel, Knobs.regime}
      [] rule = "projection"           -> {Knobs.channel, Knobs.regime, Knobs.horizon}
      [] rule = "slope"                -> {Knobs.recent}
      [] rule = "linear"               -> {Knobs.session}
      [] rule = "steady"               -> {Knobs.session - 1, Knobs.steady - 1}
      [] rule = "allincrease"          -> {Knobs.trend}
      [] rule = "rebound"              -> {Knobs.dip, Knobs.recent}
      [] rule = "fade"                 -> {Knobs.trend}
      [] rule = "pullback"             -> {Knobs.trend, Knobs.mid, Knobs.entry, Knobs.roc}
      [] rule \in {"ranking", "saferanking", "ultraranking"} ->
            {Knobs.horizon, Knobs.trend, Knobs.regime, Knobs.gate}
      [] rule = "five" ->
            {Knobs.horizon, Knobs.trend, Knobs.regime, Knobs.gate, Knobs.signature}
      [] rule \in {"testing", "any", "manual"} -> {}

WarmUp(rule) == IF rule = "manual" THEN 1 ELSE Max(Spans(rule)) + 1

(***************************************************************************)
(* Measures.                                                               *)
(***************************************************************************)
Recent(candles, n) == Closes(LastN(candles, n))

SlopeSigns(s) ==
    {sign \in {1, -1} : Len(s) > 1 /\ sign * SlopeNum(s) > 0}

Rising(s) == 1 \in SlopeSigns(s)

\* trend_pct(s) in the direction sign is TrendMove / TrendScale.
TrendMove(s, sign) == 10000 * sign * SlopeNum(s) * Len(s)
TrendScale(s) == SlopeDen(s) * s[Len(s)]

Volatile(candles, k) ==
    10000 * Atr(candles, Knobs.atr) >= k * candles[Len(candles)].close

Directed(candles, k) == Efficient(LastN(Mids(candles), Knobs.regime + 1), k)

ChannelHigh(candles) == Highest([i \in DOMAIN candles |-> candles[i].high])
ChannelLow(candles) == Lowest([i \in DOMAIN candles |-> candles[i].low])

(***************************************************************************)
(* The rules: the directions an epic's candles admit, at most one of them. *)
(***************************************************************************)
\* A close outside the channel of the candles before it, on a quiet spread
\* and a directed path.
Breakout(candles) ==
    LET c     == candles[Len(candles)]
        prior == LastN(SubSeq(candles, 1, Len(candles) - 1), Knobs.channel)
    IN {sign \in {1, -1} :
          /\ 1000 * c.spread <= Knobs.spread * c.close
          /\ Directed(candles, 60)
          /\ IF sign > 0 THEN c.close > ChannelHigh(prior) ELSE c.close < ChannelLow(prior)}

\* Against a clean trend, at its extreme, on a commodity.
Fade(epic, candles) ==
    LET window == LastN(candles, Knobs.trend)
        s      == Closes(window)
        high   == ChannelHigh(window)
        low    == ChannelLow(window)
        left(sign) == IF sign > 0 THEN s[Len(s)] - low ELSE high - s[Len(s)]
    IN {sign \in {1, -1} :
          /\ epic \in Commodities
          /\ Volatile(candles, Knobs.minAtr)
          /\ TrendMove(s, -sign) >= Knobs.fadeMove * TrendScale(s)
          /\ Tight(s, 6)
          /\ high > low /\ 10 * left(sign) <= 3 * (high - low)}

\* With a clean trend that is still going, during a pause, a little off its
\* extreme.
Pullback(candles) ==
    LET window == LastN(candles, Knobs.trend)
        s      == Closes(window)
        all    == Closes(candles)
        mid    == LastN(all, Knobs.mid)
        leg    == LastN(all, Knobs.entry)
        last   == all[Len(all)]
        range  == Atr(candles, Knobs.atr)
        off(sign) == IF sign > 0 THEN ChannelHigh(window) - last ELSE last - ChannelLow(window)
    IN {sign \in {1, -1} :
          /\ Volatile(candles, Knobs.minAtr)
          /\ TrendMove(s, sign) >= Knobs.joinMove * TrendScale(s)
          /\ Tight(s, 7)
          /\ TrendMove(mid, sign) >= Knobs.midMove * TrendScale(mid)
          /\ TrendMove(leg, sign) <= Knobs.entryMove * TrendScale(leg)
          /\ sign * (last - all[Len(all) - Knobs.roc]) <= 0
          /\ 5 * range <= 10 * off(sign) /\ 10 * off(sign) <= 35 * range}

\* The fall from the high before the lowest close of s to that close.
DropTo(s) ==
    LET trough == Min({i \in DOMAIN s : s[i] = Lowest(s)})
    IN Highest(SubSeq(s, 1, trough)) - s[trough]

\* A rising day, rising again after a fall worth an ATR.
Rebound(candles) ==
    {sign \in {1} :
        /\ Rising(Closes(candles)) /\ Rising(Recent(candles, Knobs.recent))
        /\ DropTo(Recent(candles, Knobs.dip)) >= Atr(candles, Knobs.atr)}

\* No hole in the last readings, and no step that is half of the way.
Steady(candles) ==
    LET run   == LastN(candles, Knobs.session)
        s     == Recent(candles, Knobs.steady)
        steps == Steps(s)
        sizes == [i \in DOMAIN steps |-> Abs(steps[i])]
    IN {sign \in SlopeSigns(s) :
          /\ \A i \in 1..(Len(run) - 1) : run[i + 1].time - run[i].time = 1
          /\ 2 * Highest(sizes) <= Total(sizes)}

\* The session and its last candles agree on a strict sign.
Agreed(candles) ==
    SlopeSigns(Closes(candles)) \cap SlopeSigns(Recent(candles, Knobs.gate))

Five(candles) == Agreed(candles)

SafeRanking(candles) == Agreed(candles) \cap {1}

\* Not on a path that has gone nowhere.
UltraRanking(candles) ==
    {sign \in SafeRanking(candles) : Directed(candles, 15)}

\* The floor of 70 % is out of reach of a candidate whose short or medium
\* horizon, worth 45 % and 35 %, does not rise.
AllIncrease(candles) ==
    {sign \in {1} : /\ Rising(Recent(candles, Knobs.recent))
                    /\ Rising(Recent(candles, Knobs.trend))}

Slope(candles) == {sign \in {1} : Rising(Recent(candles, Knobs.recent))}

Linear(candles) == SlopeSigns(Closes(candles))

\* Every epic with a price and a volatility, for its score alone.
Ranking(candles) == {1}
Testing(candles) == {1}

Scored(candles) == candles[Len(candles)].close > 0 /\ Atr(candles, Knobs.atr) > 0

\* The intents of the rule in force; "any" stands for a strategy that may
\* choose either side.
Directions(rule, epic, candles) ==
    {sign \in CASE rule = "any"          -> {1, -1}
                [] rule = "manual"       -> {}
                [] rule = "testing"      -> Testing(candles)
                [] rule = "ranking"      -> Ranking(candles)
                [] rule = "allincrease"  -> AllIncrease(candles)
                [] rule = "slope"        -> Slope(candles)
                [] rule = "linear"       -> Linear(candles)
                [] rule = "steady"       -> Steady(candles)
                [] rule = "rebound"      -> Rebound(candles)
                [] rule = "saferanking"  -> SafeRanking(candles)
                [] rule = "ultraranking" -> UltraRanking(candles)
                [] rule = "five"         -> Five(candles)
                [] rule = "pullback"     -> Pullback(candles)
                [] rule = "fade"         -> Fade(epic, candles)
                [] rule \in {"donchian", "projection"} -> Breakout(candles) :
        Scored(candles)}

(***************************************************************************)
(* The same bet under two names.  A signature is the sequence of returns,  *)
(* in percent, of the last candles, each with its minute.                  *)
(***************************************************************************)
Signature(candles) ==
    LET r == LastN(candles, Knobs.signature)
    IN [i \in 1..(Len(r) - 1) |->
          [at |-> r[i + 1].time,
           gain |-> (200 * (r[i + 1].close - r[i].close) + r[i].close) \div (2 * r[i].close)]]

Gains(sig) == [i \in DOMAIN sig |-> sig[i].gain]

\* The fingerprint: a letter per return, the number of cuts at -1.5, -0.5, 0.5
\* and 1.5 standard deviations it reaches.
Word(sig) ==
    LET g == Gains(sig)
        n == Len(g)
        away(i) == 2 * (n * g[i] - Total(g))
        reaches(i, k) ==
            IF k > 0 THEN away(i) >= 0 /\ away(i) * away(i) >= k * k * Scatter(g)
            ELSE away(i) >= 0 \/ away(i) * away(i) <= k * k * Scatter(g)
    IN [i \in 1..n |-> Cardinality({k \in {-3, -1, 1, 3} : reaches(i, k)})]

Flat(sig) == Len(sig) < 2 \/ Scatter(Gains(sig)) = 0

\* The returns two curves share: those of one minute.
Pairs(a, b) == {q \in (DOMAIN a) \X (DOMAIN b) : a[q[1]].at = b[q[2]].at}

\* sign * corr(a, b) > 0.8
Correlated(a, b, sign) ==
    LET pairs == Pairs(a, b)
        n     == Cardinality(pairs)
        x     == [q \in pairs |-> a[q[1]].gain]
        y     == [q \in pairs |-> b[q[2]].gain]
        dot(u, v) == Total([q \in pairs |-> u[q] * v[q]])
        varX == n * dot(x, x) - Total(x) * Total(x)
        varY == n * dot(y, y) - Total(y) * Total(y)
        cov  == sign * (n * dot(x, y) - Total(x) * Total(y))
    IN /\ n >= Max({2, Knobs.overlap}) /\ varX > 0 /\ varY > 0
       /\ cov > 0 /\ 100 * cov * cov > 64 * varX * varY

\* bet_redundancy above the veto, for items [sig, sign].
SameBet(p, q) ==
    IF ~Flat(p.sig) /\ Word(p.sig) = Word(q.sig) THEN p.sign = q.sign
    ELSE Correlated(p.sig, q.sig, p.sign * q.sign)

\* Mutant: a candidate is compared with the last one kept only.
DeduplicateLast(items) ==
    LET kept[i \in 0..Len(items)] ==
          IF i = 0 THEN <<>>
          ELSE IF kept[i - 1] # <<>> /\ SameBet(items[i], kept[i - 1][Len(kept[i - 1])])
               THEN kept[i - 1]
               ELSE Append(kept[i - 1], items[i])
    IN kept[Len(items)]

\* The ranking without the items that repeat a bet ranked before them.
Deduplicate(items) ==
    LET kept[i \in 0..Len(items)] ==
          IF i = 0 THEN <<>>
          ELSE IF \E j \in DOMAIN kept[i - 1] : SameBet(items[i], kept[i - 1][j])
               THEN kept[i - 1]
               ELSE Append(kept[i - 1], items[i])
    IN kept[Len(items)]
=============================================================================
