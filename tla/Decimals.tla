------------------------------- MODULE Decimals -------------------------------
(* Exact decimals as text: the integers the program counts in, and what it      *)
(* stores, shows and reads. A decimal is [whole, frac], frac being its digits   *)
(* after the point.                                                            *)
(* Sources: src/domain/units.ts, prices/price.ts, features/add/kinds.ts,       *)
(* fields.ts.                                                                  *)
EXTENDS Integers, Sequences, SequencesExt

CONSTANTS
    Null,                    \* text that is not a number of its kind
    UnitPlaces, PricePlaces, \* 8 and 12
    MaxWhole,                \* the largest whole part of a stored price,
    MaxRupees, MaxGrams,     \* ... and of what a form reads
    FullBps

Zeros(n)     == [i \in 1 .. Max({0, n}) |-> 0]
First(s, n)  == SubSeq(s, 1, Min({n, Len(s)}))

Value(digits) == FoldLeft(LAMBDA n, d : 10 * n + d, 0, digits)

(* Ten to the n: a one and n zeros.                                             *)
Scale(n) == Value(<<1>> \o Zeros(n))

DigitsUnpadded(n, places) ==
    LET all == [i \in 1 .. places |-> (n \div Scale(places - i)) % 10]
    IN  SelectSeq(all, LAMBDA d : d # 0)

(* `n` with exactly `places` digits, then without its trailing zeros.           *)
Digits(n, places) == [i \in 1 .. places |-> (n \div Scale(places - i)) % 10]

Trimmed(digits) ==
    LET last == Max({0} \cup {i \in DOMAIN digits : digits[i] # 0})
    IN  SubSeq(digits, 1, last)

Spell(n, places) ==
    [whole |-> n \div Scale(places), frac |-> Trimmed(Digits(n % Scale(places), places))]

Count(text, places) ==
    text.whole * Scale(places) + Value(text.frac \o Zeros(places - Len(text.frac)))

Readable(text, places, largest) == Len(text.frac) <= places /\ text.whole <= largest

(* Units and prices: a stored string to an integer and back.                    *)
ToUnits(quantity)     == Count(quantity, UnitPlaces)
FormatUnits(units)    == Spell(units, UnitPlaces)
ToPriceUnits(price)   == Count(price, PricePlaces)
FromPriceUnits(units) == Spell(units, PricePlaces)

(* What the forms show and read back, with at most two or three decimals. The    *)
(* three whole digits of a percentage hold every share.                         *)
PaiseToInput(p)     == Spell(p, 2)
ParseRupees(input)  == IF Readable(input, 2, MaxRupees) THEN Count(input, 2) ELSE Null
BpsToPercent(bps)   == Spell(bps, 2)
ParsePercent(input) ==
    IF Len(input.frac) <= 2 /\ Count(input, 2) <= FullBps THEN Count(input, 2) ELSE Null

GramsToInput(mg)    == Spell(mg, 3)
ParseGrams(input)   == IF Readable(input, 3, MaxGrams) THEN Count(input, 3) ELSE Null
PriceCut(spelt) ==
    LET point == spelt.dot + spelt.exp
        whole == IF point <= 0 THEN <<0>>
                 ELSE First(spelt.digits, point) \o Zeros(point - Len(spelt.digits))
        frac  == IF point <= 0 THEN Zeros(-point) \o spelt.digits
                 ELSE SubSeq(spelt.digits, point + 1, Len(spelt.digits))
        price == [whole |-> Value(whole), frac |-> Trimmed(First(frac, PricePlaces))]
    IN  IF price.whole <= MaxWhole THEN price ELSE Null

(* A price from a number of a feed, by its shortest spelling: mantissa digits   *)
(* with `dot` of them before the point, times ten to `exp`; half up.            *)
PriceFromNumber(spelt) ==
    LET point == spelt.dot + spelt.exp
        n     == Len(spelt.digits)
        whole == IF point <= 0 THEN <<0>>
                 ELSE First(spelt.digits, point) \o Zeros(point - n)
        frac  == IF point <= 0 THEN Zeros(-point) \o spelt.digits
                 ELSE SubSeq(spelt.digits, point + 1, n)
        next  == IF Len(frac) > PricePlaces THEN frac[PricePlaces + 1] ELSE 0
        kept  == First(frac, PricePlaces)
        units == Value(whole) * Scale(PricePlaces)
                 + Value(kept \o Zeros(PricePlaces - Len(kept)))
                 + IF next >= 5 THEN 1 ELSE 0
        price == FromPriceUnits(units)
    IN  IF price.whole <= MaxWhole THEN price ELSE Null
==============================================================================
