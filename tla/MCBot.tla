-------------------------------- MODULE MCBot --------------------------------
(***************************************************************************)
(* Six markets: two variants of one index, a currency pair in two          *)
(* products, a share off the allowed classes and an option; one of the     *)
(* pair's epics cannot be resolved.                                        *)
(***************************************************************************)
EXTENDS Bot

Mkt(epic, base, product, class, option, funds, spread) ==
    [epic |-> epic, base |-> base, product |-> product, class |-> class,
     option |-> option, funds |-> funds, spread |-> spread]

MCCatalogue ==
    {Mkt("dax", "DAX", "IFMM", "INDICES", FALSE, 5, 3),
     Mkt("daxMini", "DAX", "MINI", "INDICES", FALSE, 2, 4),
     Mkt("ftse", "FTSE", "CFD", "INDICES", FALSE, 3, 5),
     Mkt("eur", "EUR", "CFD", "CURRENCIES", FALSE, -1, 1),
     Mkt("gbp", "GBP", "CFD", "CURRENCIES", FALSE, 9, 2),
     Mkt("yen", "YEN", "CFD", "CURRENCIES", FALSE, 1, 6),
     Mkt("gold", "GOLD", "CASH", "SHARES", FALSE, 1, 7),
     Mkt("call", "DAX", "OPTCALL", "INDICES", TRUE, 1, 8)}

MCAllowed == {"INDICES", "CURRENCIES"}
MCUnresolvable == {"yen"}

Page1 == {"dax", "daxMini", "gold", "call", "eur"}
Page2 == {"ftse", "gbp", "yen", "eur"}

Every(s) == [e \in AllEpics |-> s]
DaxShut == [Every("TRADEABLE") EXCEPT !["daxMini"] = "CLOSED", !["ftse"] = "NO_PRICE"]
FtseShut == [Every("TRADEABLE") EXCEPT !["ftse"] = "CLOSED"]

MCCatchUp == <<EpicList, "summary">>
MCSlotAt == (EpicList :> 0) @@ ("summary" :> 1)

Scene(jobs, most, acts, pages, lost, statuses, open) ==
    [jobs |-> jobs, asks |-> most, acts |-> acts, pages |-> pages, lost |-> lost,
     statuses |-> statuses, held |-> open]

Quiet(jobs, most, acts) ==
    Scene(jobs, most, acts, {{Page1}}, {{}}, {Every("TRADEABLE")}, {})

MCScenarios ==
    {Quiet({"summary"}, 3, {"modes", "bot", "trigger", "crash"}),
     Quiet({"summary"}, 3, {"switch", "time", "crash"}),
     Quiet({"summary"}, 2, {"modes", "time", "crash"}),
     Quiet({Monitor}, 3, {"modes", "candles"}),
     Scene({Tradable}, 1, {"lists", "trigger"}, {{Page1, Page2}}, {{}},
           {Every("TRADEABLE"), DaxShut}, {"ftse"}),
     Scene({EpicList}, 1, {"lists", "trigger"}, {{}, {Page1}}, {{}, {"eur"}},
           {Every("TRADEABLE")}, {}),
     Scene({Tradable}, 0, {"lists", "crash", "failures"}, {{Page1, Page2}}, {{}},
           {FtseShut}, {"ftse"})}
=============================================================================
