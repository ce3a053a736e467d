------------------------------ MODULE Valuation ------------------------------
(* What a holding is worth now, from the price lists on the device or from    *)
(* the value entered by hand, and the day's snapshot of it all.              *)
(* A price list is [date, fetchedAt, currency, prices, dates]: prices and      *)
(* dates map codes, dates only the codes priced on another day. Units, prices *)
(* and rates are integers of one UnitScale-th or PriceScale-th.              *)
(* Sources: src/domain/prices/price.ts, universe.ts, valuation.ts,            *)
(* records/snapshot.ts, records/catalogue.ts.                                *)
EXTENDS Money

CONSTANTS
    UnitScale, PriceScale,   \* 10^8 and 10^12
    MaxPaise,                \* the largest safe integer
    StaleAfter,              \* STALE_AFTER_MS
    Upper,                   \* the codes that are not upper case, each mapped to what is
    Day(_)                   \* the calendar day of a time, in India (istDate)

INR == PriceScale

RoundHalfUp(n, d) == (2 * n + d) \div (2 * d)

(* Rounded once, at the end; Null for a value no number holds.                 *)
Safe(paise) == IF paise > MaxPaise THEN Null ELSE paise

MarketValue(quantity, price, fx) ==
    Safe(RoundHalfUp(100 * quantity * price * fx, UnitScale * PriceScale * PriceScale))

MetalValue(weightMg, karat, perGram) ==
    Safe(RoundHalfUp(weightMg * karat * perGram, 240 * PriceScale))

(* The price of one unit of b in units of a's currency, never of nothing.      *)
Ratio(a, b) == IF b = 0 THEN Null ELSE RoundHalfUp(a * PriceScale, b)
SettleOneDate(perCode) ==
    IF DOMAIN perCode = {} THEN Null
    ELSE [date |-> Max({perCode[c] : c \in DOMAIN perCode}), dates |-> [c \in {} |-> 0]]

(* The commonest date of a feed, the latest of those, and the codes off it.    *)
SettleDates(perCode) ==
    LET Count(d) == Cardinality({c \in DOMAIN perCode : perCode[c] = d})
        days     == {perCode[c] : c \in DOMAIN perCode}
        most     == {d \in days : \A e \in days : Count(e) <= Count(d)}
        date     == Max(most)
        off      == {c \in DOMAIN perCode : perCode[c] # date}
    IN  IF days = {} THEN Null ELSE [date |-> date, dates |-> [c \in off |-> perCode[c]]]

NormaliseCode(code) == IF code \in DOMAIN Upper THEN Upper[code] ELSE code

DateOf(file, code) == IF code \in DOMAIN file.dates THEN file.dates[code] ELSE file.date

Lookup(universes, instrument) ==
    LET code == NormaliseCode(instrument.code)
        file == universes[instrument.source]
    IN  IF instrument.source \notin DOMAIN universes \/ code \notin DOMAIN file.prices THEN Null
        ELSE [price |-> file.prices[code], currency |-> file.currency,
              date |-> DateOf(file, code)]

FxRate(universes, currency) ==
    IF currency = "INR" THEN INR
    ELSE IF "fx" \in DOMAIN universes /\ currency \in DOMAIN universes.fx.prices
    THEN universes.fx.prices[currency]
    ELSE Null
------------------------------------------------------------------------------
Manual(data, priceable) ==
    [source |-> "manual", value |-> NetWorthValue(data), priceable |-> priceable]

IsStale(now, files) == \E file \in files : now - file.fetchedAt > StaleAfter

Market(data, value, asOf, now, files) ==
    IF value = Null THEN Manual(data, TRUE)
    ELSE [source |-> "market", value |-> value, asOf |-> asOf, stale |-> IsStale(now, files)]

FxFileForgotten(universes, currency) == {}

FxFile(universes, currency) == IF currency = "INR" THEN {} ELSE {universes.fx}

(* quantity × price × rate, when the price and the rate are both here.         *)
Priced(data, universes, now) ==
    LET quote == Lookup(universes, data.instrument)
        fx    == FxRate(universes, quote.currency)
    IN  IF quote = Null \/ fx = Null THEN Manual(data, TRUE)
        ELSE Market(data, MarketValue(data.quantity, quote.price, fx), quote.date, now,
                    {universes[data.instrument.source]} \cup FxFile(universes, quote.currency))

(* A balance in hundredths of its currency.                                   *)
ForeignBank(data, universes, now) ==
    LET fx == FxRate(universes, data.currency)
    IN  IF fx = Null \/ data.currency = "INR" THEN Manual(data, TRUE)
        ELSE Market(data, MarketValue((data.balanceMinor * UnitScale) \div 100, fx, INR),
                    universes.fx.date, now, {universes.fx})

(* Silver is 999 whatever its karat field says; gold without one is 24.        *)
Metal(data, universes, now) ==
    LET code  == IF data.metal = "gold" THEN "gold999" ELSE "silver999"
        karat == IF data.metal = "gold" /\ data.karat # Null THEN data.karat ELSE 24
        file  == universes.metal
    IN  IF data.weightMg = Null \/ "metal" \notin DOMAIN universes
           \/ code \notin DOMAIN file.prices
        THEN Manual(data, TRUE)
        ELSE Market(data, MetalValue(data.weightMg, karat, file.prices[code]),
                    DateOf(file, code), now, {file})

PricedKinds == {"mutualFund", "stock", "usStock", "crypto", "rsu"}

ValuationOf(data, universes, now) ==
    CASE data.kind \in PricedKinds     -> Priced(data, universes, now)
      [] data.kind = "foreignBank"     -> ForeignBank(data, universes, now)
      [] data.kind = "preciousMetal"   -> Metal(data, universes, now)
      [] OTHER                         -> Manual(data, FALSE)

PriceSummaryNewest(valuations) ==
    LET market == {v \in valuations : v.source = "market"}
    IN  [asOf  |-> IF market = {} THEN Null ELSE Max({v.asOf : v \in market}),
         stale |-> \E v \in market : v.stale]

(* The oldest market price behind a screen, and whether any is stale.          *)
PriceSummary(valuations) ==
    LET market == {v \in valuations : v.source = "market"}
    IN  [asOf  |-> IF market = {} THEN Null ELSE Min({v.asOf : v \in market}),
         stale |-> \E v \in market : v.stale]
(* The bucket each kind of asset belongs to (ASSET_PLACEMENT).                 *)
BucketOf(kind) ==
    CASE kind \in {"bankAccount", "cash", "wallet", "foreignBank"} -> "cashBank"
      [] kind \in {"fixedDeposit", "recurringDeposit"} -> "deposits"
      [] kind \in {"ppf", "epf", "nps", "sukanyaSamriddhi", "smallSavings",
                   "employerBenefit"} -> "retirement"
      [] kind \in PricedKinds \cup {"bond", "unlisted"} -> "investments"
      [] kind \in {"realEstate", "vehicle", "preciousMetal", "valuable"} -> "property"
      [] kind \in {"insurance", "term"} -> "insurance"
      [] OTHER -> "lendingLoans"

(* The day's record: every lens, the buckets, and how old its prices are.      *)
BuildSnapshot(assets, liabilities, universes, members, now) ==
    LET valued  == [a \in DOMAIN assets |-> ValuationOf(assets[a], universes, now)]
        Held(i) == IF i \in DOMAIN assets THEN assets[i] ELSE liabilities[i]
        Item(i) == [side |-> IF i \in DOMAIN assets THEN "asset" ELSE "liability",
                    value |-> IF i \in DOMAIN assets THEN valued[i].value
                              ELSE NetWorthValue(liabilities[i]),
                    includeInNetWorth |-> Held(i).includeInNetWorth, owners |-> Held(i).owners]
        lenses  == AllLenses([i \in DOMAIN assets \cup DOMAIN liabilities |-> Item(i)], members)
        In(b)   == {a \in DOMAIN assets :
                       assets[a].includeInNetWorth /\ BucketOf(assets[a].kind) = b}
        held    == {BucketOf(assets[a].kind) :
                       a \in {x \in DOMAIN assets : assets[x].includeInNetWorth}}
        prices  == PriceSummary({valued[a] : a \in DOMAIN assets})
    IN  [date |-> Day(now), household |-> lenses.household, members |-> lenses.byMember,
         formerMembers |-> lenses.formerMembers,
         buckets |-> [b \in held |-> Total([a \in In(b) |-> valued[a].value])],
         pricesAsOf |-> prices.asOf, stale |-> prices.stale]
==============================================================================
