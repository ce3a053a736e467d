------------------------------ MODULE PriceFeeds ------------------------------
(* From a feed's answer to the price list the server stores. A row of a file or   *)
(* an entry of an answer is [code, price, date ...], a part that does not read    *)
(* being Null; names and ISINs, which only the picker and imports use, are left   *)
(* out. What throws gives NoPrices.                                              *)
(* Sources: src/domain/prices/amfi.ts, bhavcopy.ts, us.ts, crypto.ts, fx.ts,     *)
(* metal.ts.                                                                    *)
EXTENDS Valuation, Sequences, SequencesExt

CONSTANTS
    NoPrices,
    DayLength, IstOffset,     \* a day and India's offset, in units of time
    DateOfNumber(_)           \* the n-th day as a date

(* What the rows of a feed with a date per code leave: SettleDates makes it a list. *)
Reading == [prices |-> [c \in {} |-> 0], on |-> [c \in {} |-> 0], skipped |-> 0]

Skipped(reading) == [reading EXCEPT !.skipped = @ + 1]

Put(f, key, value) == [k \in DOMAIN f \cup {key} |-> IF k = key THEN value ELSE f[k]]

Settled(reading, currency) ==
    LET settled == SettleDates(reading.on)
    IN  IF settled = Null THEN NoPrices
        ELSE [date |-> settled.date, dates |-> settled.dates, prices |-> reading.prices,
              currency |-> currency, skipped |-> reading.skipped]
------------------------------------------------------------------------------
(* AMFI's file: a line that reads replaces an earlier one of its scheme.          *)
ReadScheme(reading, line) ==
    IF Null \in {line.code, line.price, line.date} THEN Skipped(reading)
    ELSE [reading EXCEPT !.prices = Put(@, line.code, line.price),
                         !.on = Put(@, line.code, line.date)]

(* Its date is the one most lines carry, the latest of those: it counts every      *)
(* line, also one that a later line of its scheme replaces.                       *)
ParseAmfi(lines) ==
    LET reading  == FoldLeft(ReadScheme, Reading, lines)
        read     == {i \in DOMAIN lines :
                        Null \notin {lines[i].code, lines[i].price, lines[i].date}}
        Count(d) == Cardinality({i \in read : lines[i].date = d})
        days     == {lines[i].date : i \in read}
        date     == Max({d \in days : \A e \in days : Count(e) <= Count(d)})
        off      == {c \in DOMAIN reading.on : reading.on[c] # date}
    IN  IF read = {} THEN NoPrices
        ELSE [date |-> date, dates |-> [c \in off |-> reading.on[c]],
              prices |-> reading.prices, currency |-> "INR", skipped |-> reading.skipped]

(* A bhavcopy is of one day, that of its first row that reads; of a symbol the      *)
(* first row counts. Rows of other series are not looked at.                      *)
ReadTrade(file, row) ==
    LET symbol == NormaliseCode(row.code)
        reads  == /\ Null \notin {row.code, row.price, row.date}
                  /\ file.date \in {Null, row.date}
                  /\ symbol \notin DOMAIN file.prices
    IN  IF ~row.kept THEN file
        ELSE IF ~reads THEN Skipped(file)
        ELSE [file EXCEPT !.date = row.date, !.prices = Put(@, symbol, row.price)]

ParseBhavcopy(rows) ==
    LET start == [date |-> Null, dates |-> [c \in {} |-> 0], prices |-> [c \in {} |-> 0],
                  currency |-> "INR", skipped |-> 0]
        file  == FoldLeft(ReadTrade, start, rows)
    IN  IF file.date = Null THEN NoPrices ELSE file
------------------------------------------------------------------------------
(* A quote is dated by its own time, at its exchange; of a symbol the first counts. *)
ReadQuote(reading, quote, offset) ==
    LET symbol == NormaliseCode(quote.code)
    IN  IF quote.code = Null \/ quote.price = Null \/ symbol \in DOMAIN reading.prices
        THEN Skipped(reading)
        ELSE [reading EXCEPT
                 !.prices = Put(@, symbol, quote.price),
                 !.on = Put(@, symbol, DateOfNumber((quote.at + offset) \div DayLength))]

(* Yahoo's answers to the batches, in any order, one after another.               *)
ParseSpark(quotes) ==
    Settled(FoldLeft(LAMBDA reading, q : ReadQuote(reading, q, q.offset), Reading, quotes),
            "USD")

(* CoinGecko's pages; its days are India's.                                       *)
ParseCoinGecko(coins) ==
    Settled(FoldLeft(LAMBDA reading, c : ReadQuote(reading, c, IstOffset), Reading, coins),
            "USD")

ParseFrankfurterUpsideDown(base, date, rates) ==
    LET read == {c \in DOMAIN rates \ {"INR"} : rates[c] \notin {Null, 0}}
    IN  [date |-> date, dates |-> [c \in {} |-> 0], currency |-> "INR", skipped |-> 0,
         prices |-> [c \in read \cup {base} |->
                        IF c \in read THEN Ratio(rates[c], rates["INR"]) ELSE rates["INR"]]]

(* Rates of one base currency to rupees per unit of each; the base is the INR rate,  *)
(* unless the feed lists the base itself.                                         *)
ParseFrankfurter(base, date, rates) ==
    LET unusable == {Null, 0}
        inr      == rates["INR"]
        read     == {c \in DOMAIN rates \ {"INR"} : rates[c] \notin unusable}
    IN  IF "INR" \notin DOMAIN rates \/ inr \in unusable THEN NoPrices
        ELSE [date |-> date, dates |-> [c \in {} |-> 0], currency |-> "INR",
              prices |-> [c \in read \cup {base} |->
                             IF c \in read THEN Ratio(inr, rates[c]) ELSE inr],
              skipped |-> Cardinality(DOMAIN rates \ read) - 1]

PickFirstOfDay(best, row) ==
    IF Null \in {row.gold, row.silver} THEN best
    ELSE IF best = Null \/ row.date > best.date THEN row ELSE best

(* The rates page: of the rows with both rates, the latest day's, PM over AM.        *)
Pick(best, row) ==
    IF Null \in {row.gold, row.silver} THEN best
    ELSE IF best = Null \/ row.date > best.date THEN row
    ELSE IF row.date = best.date /\ row.session = "PM" THEN row
    ELSE best

ParseIbja(rows) ==
    LET pick == FoldLeft(Pick, Null, rows)
    IN  IF pick = Null THEN NoPrices
        ELSE [date |-> pick.date, dates |-> [c \in {} |-> 0], currency |-> "INR",
              prices |-> [gold999   |-> Ratio(pick.gold, 10 * PriceScale),
                          silver999 |-> Ratio(pick.silver, 1000 * PriceScale)],
              skipped |-> 0]
==============================================================================
