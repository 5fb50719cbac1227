----------------------------- MODULE ExitZones -----------------------------
(***************************************************************************)
(* The close profile: exit/close_zoneprofit.py composes a stop policy      *)
(* (InitialStop) with one stop updater per price zone (exit/zones), and    *)
(* decides on every candle whether a position is held, closed or has its   *)
(* stop moved.                                                             *)
(*                                                                         *)
(* A proposal is a set of at most one level; the empty set is the code's   *)
(* None, "hold".  Every rule is written for both sides: sign is 1 for a    *)
(* long and -1 for a short, and a level lies beyond another one when it is *)
(* further into profit.                                                    *)
(***************************************************************************)
EXTENDS InitialStop

CONSTANTS
    GainTarget,   \* gain_target_eur of breakeven_safe
    RangePercent  \* range_pct of breakeven_safe

ASSUME LockAssumption == {GainTarget, RangePercent} \subseteq Nat \ {0}

StartUpdaters  == {"hold", "trendcut", "timedlift", "smartgroup"}
BandUpdaters   == {"hold", "breakeven_lock", "breakeven_safe", "limitloose"}
SecureUpdaters == {"hold", "breakeven_half"}
ProfitUpdaters == {"trailing_ratchet", "trailing_ratchetmore"}

(***************************************************************************)
(* StopContext: [price, zero, margin, follower, atr, spread, epp, mind,    *)
(* sign, group, candles].                                                  *)
(***************************************************************************)
Gain(ctx, level) == ctx.sign * (level - ctx.zero)
Beyond(ctx, level, reference) == ctx.sign * (level - reference) > 0
Offset(ctx, reference, distance) == reference + ctx.sign * distance
FavourableCloses(ctx) == Favourable(ctx.candles, ctx.sign)

Noise(ctx) == AdverseNoise(FavourableCloses(ctx), Windows.noise)

Furthest(ctx, levels) ==
    {l \in levels : \A k \in levels : Gain(ctx, l) >= Gain(ctx, k)}
Nearest(ctx, levels) ==
    {l \in levels : \A k \in levels : Gain(ctx, l) <= Gain(ctx, k)}

\* The guard every updater repeats: never a level short of the follower.
Tightening(ctx, levels) ==
    {l \in levels : ctx.follower > 0 => Beyond(ctx, l, ctx.follower)}

\* Mutant: the price is not looked at.
BehindAny(ctx, levels) == levels

\* Never a level at or past the price, which would close the position.
BehindPrice(ctx, levels) == {l \in levels : Beyond(ctx, ctx.price, l)}

When(guard, levels) == IF guard THEN levels ELSE {}

(***************************************************************************)
(* Zone 1, short of break-even.                                            *)
(***************************************************************************)
TrendCut(ctx) ==
    LET risk   == -Gain(ctx, ctx.follower)
        closes == FavourableCloses(ctx)
        cut    == Offset(ctx, ctx.zero, -(risk \div 2))
        close  == Offset(ctx, ctx.price, -ctx.spread)
    IN When(/\ risk > 0
            /\ Len(closes) > Windows.ticks
            /\ Falling(closes)
            /\ Efficient(closes, 50),
            {l \in Nearest(ctx, {cut, close}) : Beyond(ctx, l, ctx.follower)})

\* The candles of the last completed period since the first candle.
ReviewWindow(candles) ==
    LET opened    == candles[1].time
        completed == (candles[Len(candles)].time - opened) \div Windows.review
        end       == opened + completed * Windows.review
    IN IF Len(candles) < 2 \/ completed < 1 THEN {}
       ELSE {i \in DOMAIN candles :
               end - Windows.review <= candles[i].time /\ candles[i].time < end}

TimedLift(ctx) ==
    LET window  == ReviewWindow(ctx.candles)
        support == ctx.sign * Min({ctx.sign * Adverse(ctx.candles[i], ctx.sign) : i \in window})
        cushion == Max({Noise(ctx), ctx.atr \div 2, ctx.spread})
        lifted  == Offset(ctx, support, -cushion)
        safety  == Max({2 * Noise(ctx), ctx.atr, 2 * ctx.spread, ctx.mind})
    IN When(/\ ctx.follower > 0 /\ Gain(ctx, ctx.follower) < 0
            /\ ctx.candles # <<>> /\ window # {},
            {l \in {lifted} : /\ Gain(ctx, l) < 0
                              /\ 4 * ctx.sign * (l - ctx.follower) > ctx.atr
                              /\ ctx.sign * (ctx.price - l) >= safety})

(***************************************************************************)
(* Zone 2, between break-even and the margin.                              *)
(***************************************************************************)
LockLevel(ctx) ==
    LET closes == FavourableCloses(ctx)
        zero   == ctx.sign * ctx.zero
        swing  == Lowest(LastN(closes, Windows.confirm))
        target == Max({zero + Tenths(6, swing - zero), zero + ctx.spread})
    IN When(/\ Len(closes) >= Windows.confirm
            /\ swing - 2 * Noise(ctx) > zero
            /\ target < ctx.sign * ctx.price,
            {ctx.sign * target})

BreakevenLock(ctx) == Tightening(ctx, LockLevel(ctx))

\* The last n steps of the closes all went into profit.
RisingStreak(ctx, n) ==
    LET steps == Steps(LastN(FavourableCloses(ctx), n + 1))
    IN Len(ctx.candles) > n /\ \A i \in DOMAIN steps : steps[i] > 0

LastBarAdverse(ctx) ==
    LET bar == ctx.candles[Len(ctx.candles)]
    IN ctx.sign * (CloseOut(bar, ctx.sign) - CloseOutOpen(bar, ctx.sign)) < 0

PriceRange(ctx) ==
    Highest([i \in DOMAIN ctx.candles |-> ctx.candles[i].high])
      - Lowest([i \in DOMAIN ctx.candles |-> ctx.candles[i].low])

SafeLevels(ctx) ==
    {Offset(ctx, ctx.zero, d) : d \in
        When(ctx.epp > 0, {GainTarget \div ctx.epp})
          \cup When(PriceRange(ctx) > 0, {(RangePercent * PriceRange(ctx)) \div 100})}

BreakevenSafe(ctx) ==
    When(/\ Gain(ctx, ctx.follower) <= 0
         /\ RisingStreak(ctx, 2) /\ ~LastBarAdverse(ctx),
         Tightening(ctx, BehindPrice(ctx, Nearest(ctx, SafeLevels(ctx)))))

\* Mutant: the level is not held against the stop already in place.
LimitLooseEither(ctx) ==
    {Offset(ctx, ctx.price, -Max({2 * Noise(ctx), ctx.mind}))}

LimitLoose(ctx) ==
    LET cushion == Max({2 * Noise(ctx), ctx.mind})
    IN When(cushion > 0, Tightening(ctx, {Offset(ctx, ctx.price, -cushion)}))

(***************************************************************************)
(* Zone 3, between the margin and the profit trigger.                      *)
(***************************************************************************)
BreakevenHalf(ctx) ==
    When(Gain(ctx, ctx.margin) > 0,
         Tightening(ctx, BehindPrice(ctx, {ctx.zero + (ctx.margin - ctx.zero) \div 2})))

(***************************************************************************)
(* Zone 4, past the profit trigger.  exit/trailing.py's chandelier, k      *)
(* tenths of an ATR behind the price, is called with euro_stop = 0, which  *)
(* lifts its ceiling.                                                      *)
(***************************************************************************)
TrailingDistance(ctx, k) == Max({Tenths(k, ctx.atr), 2 * ctx.spread, 2 * Noise(ctx)})

Chandelier(ctx, k) ==
    {l \in {Offset(ctx, ctx.price, -TrailingDistance(ctx, k))} :
        /\ RisingStreak(ctx, 2)
        /\ ctx.atr > 0
        /\ ctx.sign * (l - ctx.follower) > Tenths(3, ctx.atr)
        /\ Beyond(ctx, l, ctx.margin)}

SharpReversal(ctx) ==
    LET best == Highest(LastN(FavourableCloses(ctx), Windows.drop))
    IN ctx.candles # <<>> /\ best - ctx.sign * ctx.price >= 2 * ctx.atr

Ratchet(ctx, k) ==
    When(~SharpReversal(ctx),
         Tightening(ctx, Furthest(ctx, Chandelier(ctx, k) \cup LockLevel(ctx))))

TrailingRatchet(ctx) == Ratchet(ctx, 25)

\* The best gain the recorded prices reached, 0 while it is under one ATR.
PeakGain(ctx) ==
    LET peak == Highest(FavourableCloses(ctx)) - ctx.sign * ctx.zero
    IN IF ctx.candles # <<>> /\ ctx.atr > 0 /\ peak >= ctx.atr THEN peak ELSE 0

NarrowedWidth(ctx) ==
    LET peak == PeakGain(ctx)
    IN IF peak = 0 THEN 25
       ELSE Max({12, 25 - (5 * (peak - ctx.atr)) \div (2 * ctx.atr)})

GiveBack(ctx) ==
    {l \in BehindPrice(ctx, {Offset(ctx, ctx.zero, PeakGain(ctx) \div 2)}) :
        PeakGain(ctx) > 0 /\ Beyond(ctx, l, ctx.margin)}

TrailingRatchetMore(ctx) ==
    Tightening(ctx, Furthest(ctx, Ratchet(ctx, NarrowedWidth(ctx)) \cup GiveBack(ctx)))

(***************************************************************************)
(* CloseZoneProfit.  A profile names the policy and the four updaters; a   *)
(* position is [sign, open, zero, margin, follower, epp, mind, since], with *)
(* since = 0 when the row does not carry its open instant.                 *)
(***************************************************************************)
GroupAware(profile) == profile.start = "smartgroup"

CloseOutPrice(bid, spread, sign) == IF sign < 0 THEN bid + spread ELSE bid

NoiseMargin(atr) == Tenths(15, atr)

\* The open-frozen references of a position about to open.
InitialPlan(profile, candles, entry, sign, dayExtreme) ==
    LET last == candles[Len(candles)]
        zero == IF sign < 0 \/ candles = <<>> THEN entry ELSE last.close + last.spread
    IN [stop |-> StopLevel(profile.policy, candles, entry, sign, dayExtreme),
        zero |-> zero,
        margin |-> zero + sign * NoiseMargin(AtrOf(candles))]

MarginOf(p, atr) ==
    IF p.margin > 0 THEN p.margin ELSE p.zero + p.sign * NoiseMargin(atr)

Zone(p, price, margin) ==
    LET gain == p.sign * (price - p.zero)
        band == p.sign * (margin - p.zero)
    IN IF gain > 2 * band THEN "profit"
       ELSE IF gain > band THEN "secure"
       ELSE IF gain > 0 THEN "band" ELSE "start"

\* _buffer_since
SinceOpen(candles, p) ==
    LET kept[i \in 0..Len(candles)] ==
          IF i = 0 THEN <<>>
          ELSE IF p.since = 0 \/ candles[i].time >= p.since
               THEN Append(kept[i - 1], candles[i])
               ELSE kept[i - 1]
    IN kept[Len(candles)]

Context(p, price, candles, group) ==
    [price |-> price, zero |-> p.zero, margin |-> MarginOf(p, AtrOf(candles)),
     follower |-> p.follower, atr |-> AtrOf(candles), spread |-> Spread(candles),
     epp |-> p.epp, mind |-> p.mind, sign |-> p.sign, group |-> group,
     candles |-> SinceOpen(candles, p)]

Proposal(updater, ctx) ==
    CASE updater = "trendcut" -> TrendCut(ctx)
      [] updater = "timedlift" -> TimedLift(ctx)
      [] updater = "smartgroup" -> ctx.group
      [] updater = "breakeven_lock" -> BreakevenLock(ctx)
      [] updater = "breakeven_safe" -> BreakevenSafe(ctx)
      [] updater = "limitloose" -> LimitLoose(ctx)
      [] updater = "breakeven_half" -> BreakevenHalf(ctx)
      [] updater = "trailing_ratchet" -> TrailingRatchet(ctx)
      [] updater = "trailing_ratchetmore" -> TrailingRatchetMore(ctx)
      [] updater = "hold" -> {}

ZoneUpdater(profile, zone) ==
    CASE zone = "start" -> profile.start
      [] zone = "band" -> profile.band
      [] zone = "secure" -> profile.secure
      [] zone = "profit" -> profile.profit

OwnProposal(profile, p, ctx) ==
    Proposal(ZoneUpdater(profile, Zone(p, ctx.price, ctx.margin)), ctx)

\* The group's level applies in every zone, when it is the tighter one.
WithGroup(profile, ctx, own) ==
    IF GroupAware(profile) THEN Furthest(ctx, own \cup ctx.group) ELSE own

\* Mutant: the group only moves a position that is still short of break-even.
NewStopOwn(profile, p, ctx) == OwnProposal(profile, p, ctx)

NewStop(profile, p, ctx) == WithGroup(profile, ctx, OwnProposal(profile, p, ctx))

Hold == [close |-> {}, stop |-> {}]

\* CloseDecision: a reason to close, a new stop, or neither.
Evaluate(profile, p, bid, candles, closeHour, group) ==
    LET price == CloseOutPrice(bid, Spread(candles), p.sign)
        hit   == p.follower > 0 /\ p.sign * (price - p.follower) <= 0
    IN CASE closeHour -> [Hold EXCEPT !.close = {"end_of_day"}]
         [] ~closeHour /\ candles = <<>> -> Hold
         [] ~closeHour /\ candles # <<>> /\ hit -> [Hold EXCEPT !.close = {"stop"}]
         [] OTHER ->
              IF AtrOf(candles) = 0 THEN Hold
              ELSE [Hold EXCEPT !.stop =
                      NewStop(profile, p, Context(p, price, candles, group))]

(***************************************************************************)
(* smartgroup: the members of the book, [price, noise, mind, slip, sign,   *)
(* open, follower, epp], indexed by position.  A euro figure is in         *)
(* hundredths: 2 % of its absolute value is taken off.                     *)
(***************************************************************************)
GroupMember(p, bid, candles) ==
    LET noise == AdverseNoise(Favourable(candles, p.sign), Windows.noise)
    IN [price |-> CloseOutPrice(bid, Spread(candles), p.sign),
        noise |-> noise, mind |-> p.mind, sign |-> p.sign, open |-> p.open,
        follower |-> p.follower, epp |-> p.epp,
        slip |-> (Spread(candles) + Max({noise, p.mind})) \div 2]

Candidate(m) == m.price - m.sign * Max({m.noise, m.mind})

Tightens(m) ==
    /\ m.sign * (m.price - Candidate(m)) > 0
    /\ m.follower > 0 => m.sign * (Candidate(m) - m.follower) > 0

Haircut(euro) == 100 * euro - 2 * Abs(euro)

\* What a member banks if the stop it would have is hit.
Banked(m) ==
    LET level == IF Tightens(m) THEN Candidate(m) ELSE m.follower
    IN Haircut(m.sign * (level - m.sign * m.slip - m.open) * m.epp)

Priceable(members) == {i \in DOMAIN members : members[i].epp > 0 /\ members[i].open > 0}

Disarmed(members) ==
    \E i \in Priceable(members) : ~Tightens(members[i]) /\ members[i].follower <= 0

BookTotal(members) ==
    Total([i \in Priceable(members) |-> Banked(members[i])])

\* explain_group_tightening(members).plan
GroupPlan(members) ==
    LET movable == {i \in Priceable(members) : Tightens(members[i])}
    IN IF Disarmed(members) \/ BookTotal(members) <= 0 THEN <<>>
       ELSE [i \in movable |-> Candidate(members[i])]
=============================================================================
