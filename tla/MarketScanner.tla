---------------------------- MODULE MarketScanner ----------------------------
(***************************************************************************)
(* markets/market_scanner.py: which epics the bot knows, and which of them *)
(* it may trade.                                                           *)
(*                                                                         *)
(* A market is what IG's pages say of it: [epic, base, product, class,     *)
(* option, funds, spread], with base the underlying market (the epic less  *)
(* its product segment), class its instrument type ("" when the page omits *)
(* it) and funds the margin of one BUY, -1 when it cannot be computed.     *)
(***************************************************************************)
EXTENDS Integers, Sequences, FiniteSetsExt, SequencesExt

CONSTANTS
    Catalogue, \* the markets of IG that the terms and the watchlists can name
    Unresolvable, \* epics whose presence makes /markets?epics= answer 500
    Allowed,   \* scanner_allowed_instrument_types; {} allows every class
    MaxFunds,  \* max_funds_per_position; 0 is no limit
    BatchSize, \* epics of one /markets?epics= request
    Cap        \* streaming_max_epics

ASSUME ScannerAssumption ==
    /\ IsFiniteSet(Catalogue)
    /\ BatchSize \in Nat \ {0} /\ Cap \in Nat \ {0} /\ MaxFunds \in Nat
    /\ \A m, n \in Catalogue : m.epic = n.epic => m = n
    /\ \A m, n \in Catalogue : m.spread = n.spread => m = n

AllEpics == {m.epic : m \in Catalogue}
Markets == [e \in AllEpics |-> CHOOSE m \in Catalogue : m.epic = e]
Market(e) == Markets[e]

TypeAllowed(class) == Allowed = {} \/ class = "" \/ class \in Allowed

(***************************************************************************)
(* Discovery: what a term or a watchlist contributes, and one epic for     *)
(* each underlying market, a CFD before a MINI before a DAILY.             *)
(***************************************************************************)
Keepable(found) == {e \in found : ~Market(e).option /\ TypeAllowed(Market(e).class)}

Preference == <<"CFD", "MINI", "DAILY", "DFB", "WEEKLY">>

Rank(product) ==
    IF \E i \in DOMAIN Preference : Preference[i] = product
    THEN CHOOSE i \in DOMAIN Preference : Preference[i] = product
    ELSE Len(Preference) + 1

Representative(group) ==
    CHOOSE e \in group : \A f \in group : Rank(Market(e).product) <= Rank(Market(f).product)

\* _deduplicate_by_market
OnePerMarket(epics) ==
    {Representative({f \in epics : Market(f).base = Market(e).base}) : e \in epics}

\* get_tradeable_epics over the pages that answered.
Discovered(pages) == OnePerMarket(UNION {Keepable(page) : page \in pages})

(***************************************************************************)
(* Market details, in batches.  A batch with an unresolvable epic answers  *)
(* 500 and is cut in halves; an epic that answers 500 alone is poison and  *)
(* never asked for again.  Any other failure loses the batch: lost holds   *)
(* the epics whose request fails that way.                                 *)
(***************************************************************************)
FetchBatch(batch, lost) ==
    LET half[i \in 1..(Len(batch) + 1), j \in 0..Len(batch)] ==
          LET asked == {batch[k] : k \in i..j}
              mid   == i + ((j - i + 1) \div 2) - 1
          IN IF i > j \/ asked \cap lost # {} THEN [got |-> {}, poison |-> {}]
             ELSE IF asked \cap Unresolvable = {} THEN [got |-> asked, poison |-> {}]
             ELSE IF i = j THEN [got |-> {}, poison |-> asked]
             ELSE [got |-> half[i, mid].got \cup half[mid + 1, j].got,
                   poison |-> half[i, mid].poison \cup half[mid + 1, j].poison]
    IN half[1, Len(batch)]

\* The order of the epics in a request, one of those their list may have.
ListOrder ==
    [i \in 1..Cardinality(AllEpics) |-> CHOOSE e \in AllEpics :
        Cardinality({f \in AllEpics : Market(f).spread < Market(e).spread}) = i - 1]

\* _fetch_market_details: every batch at once, known poison left out.
FetchDetails(epics, poison, lost) ==
    LET asked   == SelectSeq(ListOrder, LAMBDA e : e \in epics \ poison)
        batches == {SubSeq(asked, i, Min({Len(asked), i + BatchSize - 1})) :
                      i \in {k \in DOMAIN asked : (k - 1) % BatchSize = 0}}
        answers == {FetchBatch(b, lost) : b \in batches}
    IN [got |-> UNION {a.got : a \in answers},
        poison |-> poison \cup UNION {a.poison : a \in answers}]

(***************************************************************************)
(* The tradable subset of the markets fetched; status gives the market     *)
(* status, "NO_PRICE" standing for a TRADEABLE market without bid or offer.*)
(***************************************************************************)
Affordable(e) ==
    MaxFunds = 0 \/ Market(e).funds = -1 \/ Market(e).funds <= MaxFunds

\* get_all_market_infos filters the class again, on the details.
InClass(epics) == {e \in AllEpics : e \in epics /\ TypeAllowed(Market(e).class)}

OpenTradeable(epics, status) == {e \in epics : status[e] = "TRADEABLE"}

Tightest(epics) ==
    {e \in epics : \A f \in epics :
        Market(f).base = Market(e).base => Market(e).spread <= Market(f).spread}

SelectTradable(epics, status) ==
    Tightest({e \in OpenTradeable(epics, status) : Affordable(e)})

(***************************************************************************)
(* select_diversified_subset deals the classes out in turn, each one's     *)
(* tightest market first: a market comes before another one when it is     *)
(* better placed in its class, or as well placed in an earlier class.      *)
(***************************************************************************)
Bucket(e) == IF Market(e).class = "" THEN "OTHER" ELSE Market(e).class

ClassOrder == <<"COMMODITIES", "CURRENCIES", "INDICES", "OTHER", "SHARES">>

Place(e, epics) ==
    Cardinality({f \in epics : Bucket(f) = Bucket(e) /\ Market(f).spread < Market(e).spread})

DealtBefore(f, e, epics) ==
    LET turn(x) == CHOOSE i \in DOMAIN ClassOrder : ClassOrder[i] = Bucket(x)
    IN \/ Place(f, epics) < Place(e, epics)
       \/ Place(f, epics) = Place(e, epics) /\ turn(f) < turn(e)

Diversified(epics, cap) ==
    IF cap <= 0 THEN epics
    ELSE {e \in epics : Cardinality({f \in epics : DealtBefore(f, e, epics)}) < cap}

(***************************************************************************)
(* Why a fetched market is not tradable.                                   *)
(***************************************************************************)
Reason(e, status) ==
    CASE status[e] \notin {"TRADEABLE", "NO_PRICE"} -> status[e]
      [] status[e] = "NO_PRICE" -> "no_price"
      [] status[e] = "TRADEABLE" /\ ~Affordable(e) -> "too_expensive"
      [] OTHER -> "duplicate"

NonTradableReasons(epics, selected, status) ==
    [e \in epics \ selected |-> Reason(e, status)]
=============================================================================
