---------------------------- MODULE MCTradingDay ----------------------------
(***************************************************************************)
(* Small days: one epic against every close profile in the replay, two     *)
(* epics under the live pass of a group-aware profile, one epic under each *)
(* entry rule, and three under the rule that opens a basket.               *)
(***************************************************************************)
EXTENDS TradingDay

MCWindows ==
    [atr |-> 2, noise |-> 4, confirm |-> 2, drop |-> 2, ticks |-> 2, review |-> 2,
     hour |-> 4, long |-> 6, speed |-> 3, halfLife |-> 2]

Shape4(gap, body, up, down) == [gap |-> gap, body |-> body, up |-> up, down |-> down]

MCOpening == <<Shape4(0, 6, 2, 2), Shape4(0, -4, 2, 2), Shape4(0, 4, 2, 2)>>

\* A rally, a rise, a dip, a collapse that gaps.
Rally == Shape4(0, 20, 2, 0)
Rise  == Shape4(0, 6, 2, 4)
Dip   == Shape4(0, -8, 4, 2)
Crash == Shape4(-10, -20, 0, 10)

Close(policy, start, band, secure, profit) ==
    [policy |-> policy, start |-> start, band |-> band, secure |-> secure, profit |-> profit]

Profiles ==
    {Close("shape", "trendcut", "breakeven_lock", "hold", "trailing_ratchet"),
     Close("linearspeed", "timedlift", "limitloose", "breakeven_half", "trailing_ratchetmore"),
     Close("hourlow", "hold", "breakeven_safe", "breakeven_half", "trailing_ratchet")}

LongOnly ==
    {Close("support", "trendcut", "limitloose", "hold", "trailing_ratchetmore"),
     Close("regression", "timedlift", "breakeven_lock", "hold", "trailing_ratchet"),
     Close("atr", "trendcut", "breakeven_safe", "hold", "trailing_ratchet")}

Smart == Close("shape", "smartgroup", "breakeven_lock", "hold", "trailing_ratchet")

Entry(rule, ranker, target, cooldown, flat, reopen, shorts) ==
    [rule |-> rule, ranker |-> ranker, target |-> target, cooldown |-> cooldown, flat |-> flat,
     reopen |-> reopen, shorts |-> shorts, 
     warmup |-> IF rule = "any" THEN 3 ELSE WarmUp(rule)]

Gated  == Entry("any", FALSE, 1, 0, FALSE, TRUE, TRUE)
Longs  == Entry("any", FALSE, 1, 0, FALSE, FALSE, FALSE)
Series == Entry("any", TRUE, 2, 0, TRUE, TRUE, TRUE)
Slow   == Entry("any", TRUE, 2, 2, FALSE, TRUE, FALSE)

Day(m, p, s, es, shapes, last) ==
    [mode |-> m, profile |-> p, strategy |-> s, epics |-> es, shapes |-> shapes, last |-> last]

\* A gated breakout, rankers that take one epic at a time, and a series.
Breakouts(rule) == Entry(rule, FALSE, 1, 0, FALSE, TRUE, FALSE)
Rolling(rule)   == Entry(rule, TRUE, 1, 2, FALSE, TRUE,
                         rule \in {"linear", "steady", "pullback", "fade"})
Baskets5        == Entry("five", TRUE, 3, 0, TRUE, TRUE, TRUE)

Rolled == {"testing", "ranking", "allincrease", "slope", "linear", "steady", "rebound",
           "saferanking", "ultraranking", "pullback", "fade", "manual"}

MCKnobs ==
    [atr |-> 2, channel |-> 2, regime |-> 3, horizon |-> 3, trend |-> 4, mid |-> 3,
     entry |-> 2, roc |-> 1, recent |-> 2, gate |-> 3, dip |-> 4, session |-> 3,
     steady |-> 3, signature |-> 4, overlap |-> 2, spread |-> 15, fadeMove |-> 30,
     joinMove |-> 40, midMove |-> 20, entryMove |-> 300, minAtr |-> 3]

MCCommodities == {"e1"}

Plain == Close("shape", "trendcut", "breakeven_lock", "hold", "trailing_ratchet")

MCDays ==
    {Day("replay", p, Gated, {"e1"}, {Rally, Rise, Dip, Crash}, 8) : p \in Profiles}
    \cup {Day("replay", p, Longs, {"e1"}, {Rally, Rise, Dip, Crash}, 8) : p \in LongOnly}
    \cup {Day("live", Smart, s, {"e1", "e2"}, {Rally, Dip}, 6) : s \in {Series, Slow}}
    \cup {Day("replay", Plain, Breakouts(r), {"e1"}, {Rally, Rise, Dip}, 7) :
             r \in {"donchian", "projection"}}
    \cup {Day("replay", Plain, Rolling(r), {"e1"}, {Rally, Rise, Dip}, 7) : r \in Rolled}
    \cup {Day("replay", Plain, Baskets5, {"e1", "e2", "e3"}, {Rise, Dip}, 5)}
=============================================================================
