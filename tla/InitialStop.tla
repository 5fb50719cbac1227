----------------------------- MODULE InitialStop -----------------------------
(***************************************************************************)
(* Where the protective stop of a position about to open is put: the six   *)
(* policies of src/stops, selected by STOP_STRATEGY.  Each one chooses a   *)
(* distance from the price the position would be closed at.                *)
(***************************************************************************)
EXTENDS Indicators

\* The lookback windows of the rules, in candles: atr (atr_period), noise
\* (noise_window), confirm (confirm_window), drop (drop_guard_window), ticks
\* (min_ticks), review (period_minutes), hour (stop_lookback and the other
\* one-hour windows), long (long_lookback), speed (speed_lookback) and
\* halfLife (the half-life of a candle's weight).
CONSTANT Windows

ASSUME WindowsAssumption ==
    \A w \in {"atr", "noise", "confirm", "drop", "ticks", "review", "hour",
              "long", "speed", "halfLife"} : Windows[w] \in Nat \ {0}

Policies == {"atr", "support", "regression", "hourlow", "linearspeed", "shape"}

Spread(candles) == IF candles = <<>> THEN 0 ELSE candles[Len(candles)].spread
AtrOf(candles) == Atr(candles, Windows.atr)

\* The live bid for a long, the live offer for a short.
Reference(candles, entry, sign) ==
    IF sign < 0 /\ candles # <<>> THEN CloseOut(candles[Len(candles)], sign)
    ELSE entry

\* The floor wins over the cap; a cap of 0 is no cap.
Bounded(distance, floor, cap) ==
    LET far == Max({distance, floor})
    IN IF cap = 0 THEN far ELSE Min({far, Max({cap, floor})})

(***************************************************************************)
(* The 20 % quantile of the levels, each one weighted by its age: the      *)
(* weight halves every halfLife candles into the past (whole half-lives).  *)
(***************************************************************************)
Weight(i) == 2 ^ ((i - 1) \div Windows.halfLife)

WeightedSupport(levels) ==
    LET weight(I) == Total([i \in I |-> Weight(i)])
        upTo(l) == {i \in DOMAIN levels : levels[i] <= l}
    IN Min({l \in {levels[i] : i \in DOMAIN levels} :
              5 * weight(upTo(l)) >= weight(DOMAIN levels)})

WeightedResistance(levels) ==
    -WeightedSupport([i \in DOMAIN levels |-> -levels[i]])

\* At most one level: none in an empty window.
WindowExtreme(candles, sign) ==
    IF candles = <<>> THEN {}
    ELSE {sign * Lowest([i \in DOMAIN candles |-> sign * Adverse(candles[i], sign)])}

(***************************************************************************)
(* The band the price wanders in, times 0.5 on a straight path up to 2.0   *)
(* on a directionless one.                                                 *)
(***************************************************************************)
NoiseFloor(candles) ==
    LET mids == Mids(candles)
        straight == IF Path(mids) = 0 THEN 0 ELSE (10 * Net(mids)) \div Path(mids)
    IN IF Len(mids) < 3 THEN 0
       ELSE Tenths(20 - (15 * straight) \div 10, BandNoise(mids)) \div 2

QuietFloor(candles) == Max({AtrOf(candles) \div 2, 2 * Spread(candles)})

FlatDistance(candles) == Tenths(25, AtrOf(candles))

SupportDistance(candles, entry) ==
    LET lows == [i \in DOMAIN candles |-> candles[i].low]
        support == IF candles = <<>> THEN entry
                   ELSE WeightedSupport(LastN(lows, Windows.hour))
    IN Bounded(entry - support + AtrOf(candles) \div 2,
               Max({Tenths(25, AtrOf(candles)), 2 * Spread(candles)}),
               4 * AtrOf(candles))

RegressionDistance(candles) ==
    LET closes == LastN(Closes(candles), Windows.hour)
        sigma  == BandNoise(closes)
        choppy == IF Len(closes) < 2 \/ Path(closes) = 0 THEN 10
                  ELSE 10 - (10 * Net(closes)) \div Path(closes)
    IN Bounded(Tenths(10 + choppy, Tenths(25, sigma)),
               Max({2 * Spread(candles), AtrOf(candles)}), 0)

\* The distance of an extreme, on the wrong side or missing included.
BeyondExtreme(reference, extreme, sign, cushion) ==
    IF extreme = {} THEN 0
    ELSE sign * (reference - (CHOOSE l \in extreme : TRUE)) + cushion

HourLowDistance(candles, reference, sign) ==
    LET window == LastN(candles, Windows.hour)
    IN Bounded(BeyondExtreme(reference, WindowExtreme(window, sign), sign, 0),
               Max({NoiseFloor(window), QuietFloor(candles)}), 0)

(***************************************************************************)
(* stop_linearspeed: near the price when the market travels fast with the  *)
(* trade (2 ATR over the window), behind the hour's structure when it does *)
(* not (0.5 ATR), and in between a blend of the two, in percent.           *)
(***************************************************************************)
SpeedPercent(candles, sign) ==
    LET mids == Mids(LastN(candles, Windows.speed))
        n == Len(mids)
    IN IF n < 2 \/ AtrOf(candles) = 0 THEN 0
       ELSE (100 * sign * SlopeNum(mids) * (n - 1))
              \div (2 * SlopeDen(mids) * AtrOf(candles))

StructureDistance(candles, reference, sign) ==
    LET window == LastN(candles, Windows.hour)
        level  == IF sign < 0
                  THEN WeightedResistance([i \in DOMAIN window |-> Adverse(window[i], sign)])
                  ELSE WeightedSupport([i \in DOMAIN window |-> Adverse(window[i], sign)])
        atr    == AtrOf(candles)
    IN Max({Tenths(25, atr)} \cup
           (IF window = <<>> THEN {} ELSE {sign * (reference - level) + atr \div 2}))

LinearSpeedDistance(candles, reference, sign) ==
    LET atr   == AtrOf(candles)
        blend == Min({100, Max({0, (100 * (SpeedPercent(candles, sign) - 50)) \div 150})})
    IN Bounded((blend * atr + (100 - blend) * StructureDistance(candles, reference, sign))
                 \div 100,
               Max({2 * Spread(candles), (3 * atr) \div 4}), 4 * atr)

(***************************************************************************)
(* stop_shape: the hour's extreme on a clean trend, the long window's on a *)
(* noisy one, the session's on a path without direction.                   *)
(***************************************************************************)
Shape(window) ==
    LET mids == Mids(window)
    IN IF Len(mids) < 3 \/ ~Efficient(mids, 15) THEN "chop"
       ELSE IF Tight(mids, 5) THEN "clean" ELSE "noisy"

ShapeExtreme(shape, candles, sign, dayExtreme) ==
    IF shape = "chop" /\ dayExtreme # {} THEN dayExtreme
    ELSE WindowExtreme(LastN(candles, IF shape = "clean" THEN Windows.hour
                                      ELSE Windows.long), sign)

ShapeDistance(candles, reference, sign, dayExtreme) ==
    LET window == LastN(candles, Windows.hour)
    IN Bounded(BeyondExtreme(reference,
                             ShapeExtreme(Shape(window), candles, sign, dayExtreme),
                             sign, Tenths(3, AtrOf(candles))),
               Max({NoiseFloor(window), QuietFloor(candles)}), 0)

Distance(policy, candles, entry, sign, dayExtreme) ==
    LET reference == Reference(candles, entry, sign)
    IN CASE policy = "hourlow" -> HourLowDistance(candles, reference, sign)
         [] policy = "linearspeed" -> LinearSpeedDistance(candles, reference, sign)
         [] policy = "shape" -> ShapeDistance(candles, reference, sign, dayExtreme)
         [] policy = "support" /\ sign > 0 -> SupportDistance(candles, entry)
         [] policy = "regression" /\ sign > 0 -> RegressionDistance(candles)
         [] OTHER -> FlatDistance(candles)

StopLevel(policy, candles, entry, sign, dayExtreme) ==
    Reference(candles, entry, sign)
      - sign * Distance(policy, candles, entry, sign, dayExtreme)
=============================================================================
