----------------------------- MODULE Indicators -----------------------------
(***************************************************************************)
(* The measures every trading rule reads: core/indicators.py over the      *)
(* candles of feed/price_buffer.py.                                        *)
(*                                                                         *)
(* Prices are integers, in units of a price grid; a quotient is rounded    *)
(* down to the grid and a ratio is compared by cross-multiplication.  A    *)
(* multiplier is given in tenths.  The offer of a candle is its bid plus   *)
(* one spread throughout the candle.                                       *)
(***************************************************************************)
EXTENDS Integers, Sequences, FiniteSetsExt

Tenths(k, x) == (k * x) \div 10
Abs(x) == IF x < 0 THEN -x ELSE x

\* The largest r with r * r <= x.
ISqrt(x) == CHOOSE r \in 0..x : r * r <= x /\ (r + 1) * (r + 1) > x

Highest(s) == Max({s[i] : i \in DOMAIN s})
Lowest(s) == Min({s[i] : i \in DOMAIN s})

\* The sum of the values of a function, be it a sequence or not.
Total(s) == MapThenSumSet(LAMBDA i : s[i], DOMAIN s)

\* s[-n:]
LastN(s, n) == SubSeq(s, IF Len(s) > n THEN Len(s) - n + 1 ELSE 1, Len(s))

\* The steps s[i + 1] - s[i].
Steps(s) == [i \in 1..(Len(s) - 1) |-> s[i + 1] - s[i]]

(***************************************************************************)
(* Candles: [open, high, low, close : bid prices, spread].  A long is      *)
(* closed at the bid and a short at the offer.                             *)
(***************************************************************************)
CloseOut(c, sign) == IF sign < 0 THEN c.close + c.spread ELSE c.close
CloseOutOpen(c, sign) == IF sign < 0 THEN c.open + c.spread ELSE c.open
Adverse(c, sign) == IF sign < 0 THEN c.high + c.spread ELSE c.low
Best(c, sign) == IF sign < 0 THEN c.low + c.spread ELSE c.high

Closes(candles) == [i \in DOMAIN candles |-> candles[i].close]

\* Twice the mid closes.
Mids(candles) ==
    [i \in DOMAIN candles |-> 2 * candles[i].close + candles[i].spread]

\* Close-out prices that rise when the trade goes into profit.
Favourable(candles, sign) ==
    [i \in DOMAIN candles |-> sign * CloseOut(candles[i], sign)]

TrueRange(before, c) ==
    Max({c.high - c.low, Abs(c.high - before.close), Abs(c.low - before.close)})

Atr(candles, period) ==
    IF Len(candles) <= period THEN 0
    ELSE LET n == Len(candles)
         IN Total([i \in (n - period + 1)..n |-> TrueRange(candles[i - 1], candles[i])])
              \div period

(***************************************************************************)
(* mean + 2 * std of the falls of s over its last window steps.            *)
(***************************************************************************)
AdverseNoise(s, window) ==
    LET steps == Steps(LastN(s, window + 1))
        n     == Len(steps)
        falls == [i \in 1..n |-> Max({0, -steps[i]})]
        sum   == Total(falls)
        sumSq == Total([i \in 1..n |-> falls[i] * falls[i]])
    IN IF n <= 0 THEN 0 ELSE (sum + 2 * ISqrt(n * sumSq - sum * sum)) \div n

(***************************************************************************)
(* The least-squares line of s.  With x the index of a value and y the     *)
(* value less the first one, the slope is SlopeNum / SlopeDen, R^2 is      *)
(* SlopeNum^2 / (SlopeDen * Scatter), and the residuals have the standard  *)
(* deviation sqrt(Scatter - SlopeNum^2 / SlopeDen) / n.                    *)
(***************************************************************************)
SlopeNum(s) ==
    LET n == Len(s)
    IN n * Total([i \in 1..n |-> (i - 1) * (s[i] - s[1])])
       - ((n * (n - 1)) \div 2) * Total([i \in 1..n |-> s[i] - s[1]])

SlopeDen(s) == LET n == Len(s) IN (n * n * (n * n - 1)) \div 12

Scatter(s) ==
    LET n   == Len(s)
        sum == Total([i \in 1..n |-> s[i] - s[1]])
    IN n * Total([i \in 1..n |-> (s[i] - s[1]) * (s[i] - s[1])]) - sum * sum

\* linear_regression(s).slope < 0
Falling(s) == Len(s) > 1 /\ SlopeNum(s) < 0

\* linear_regression(s).r_squared >= k / 10
Tight(s, k) ==
    /\ Scatter(s) > 0
    /\ 10 * SlopeNum(s) * SlopeNum(s) >= k * SlopeDen(s) * Scatter(s)

BandNoise(s) ==
    IF Len(s) < 3 THEN 0
    ELSE LET spread == Scatter(s) - (SlopeNum(s) * SlopeNum(s)) \div SlopeDen(s)
         IN ISqrt(Max({0, spread})) \div Len(s)

(***************************************************************************)
(* Kaufman's efficiency ratio of s is Net(s) / Path(s), 0 on a flat path.  *)
(***************************************************************************)
Net(s) == Abs(s[Len(s)] - s[1])
Path(s) == Total([i \in 1..(Len(s) - 1) |-> Abs(s[i + 1] - s[i])])

\* efficiency_ratio(s, len(s) - 1) >= k / 100
Efficient(s, k) == Len(s) > 1 /\ Path(s) > 0 /\ 100 * Net(s) >= k * Path(s)
=============================================================================
