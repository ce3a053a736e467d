--------------------------------- MODULE Lots ---------------------------------
(* Tax lots, consumed first in, first out. A lot is [units, cost, acquired,    *)
(* fmv], fmv being Null for a lot without a grandfathered value; lots are a    *)
(* sequence, in the order they were entered.                                  *)
(* Sources: src/domain/lots.ts, units.ts, records/common.ts.                  *)
EXTENDS Integers, Sequences, SequencesExt

CONSTANTS
    Null,
    NotEnough,        \* consumeFifo's RangeError
    GrandfatherDate   \* the last day of a lot with a grandfathered value

SumOver(lots, Of(_)) == FoldFunction(+, 0, [i \in DOMAIN lots |-> Of(lots[i])])

SumUnits(lots) == SumOver(lots, LAMBDA lot : lot.units)

(* The lots that go before lot i: older ones, and of its day those entered earlier. *)
Before(lots, i) ==
    {j \in DOMAIN lots : \/ lots[j].acquired < lots[i].acquired
                         \/ lots[j].acquired = lots[i].acquired /\ j < i}

Place(lots, i) == Cardinality(Before(lots, i)) + 1

(* Oldest first; lots of one day keep the order they were entered in.          *)
FifoOrder(lots) ==
    [k \in DOMAIN lots |-> lots[CHOOSE i \in DOMAIN lots : Place(lots, i) = k]]

Prorate(amount, part, whole) == (amount * part) \div whole

(* The part of a lot that is taken; the rounding stays with what is kept.      *)
Taken(lot, take) ==
    [lot EXCEPT !.units = take,
                !.cost = Prorate(lot.cost, take, lot.units),
                !.fmv = IF @ = Null THEN Null ELSE Prorate(@, take, lot.units)]

KeptProrated(lot, take) ==
    LET left == lot.units - take
    IN  [lot EXCEPT !.units = left,
                    !.cost = Prorate(@, left, lot.units),
                    !.fmv = IF @ = Null THEN Null ELSE Prorate(@, left, lot.units)]

Kept(lot, take) ==
    LET taken == Taken(lot, take)
    IN  [lot EXCEPT !.units = @ - take,
                    !.cost = @ - taken.cost,
                    !.fmv = IF @ = Null THEN Null ELSE @ - taken.fmv]

(* One lot of the walk: sold whole, kept whole, or split where the sale ends.  *)
Consume(walk, lot) ==
    IF walk.left <= 0 THEN [walk EXCEPT !.remaining = Append(@, lot)]
    ELSE IF lot.units <= walk.left
    THEN [walk EXCEPT !.sold = Append(@, lot), !.left = @ - lot.units]
    ELSE [sold |-> Append(walk.sold, Taken(lot, walk.left)),
          remaining |-> Append(walk.remaining, Kept(lot, walk.left)),
          left |-> 0]

ConsumeFifo(lots, units) ==
    IF units > SumUnits(lots) THEN NotEnough
    ELSE LET walk == FoldLeft(Consume, [sold |-> <<>>, remaining |-> <<>>, left |-> units],
                              FifoOrder(lots))
         IN  [sold |-> walk.sold, remaining |-> walk.remaining]

(* The schema's lots: some units each, a grandfathered value only when old.     *)
LotValid(lot) ==
    /\ lot.units > 0 /\ lot.cost >= 0
    /\ lot.fmv # Null => lot.fmv >= 0 /\ lot.acquired <= GrandfatherDate

(* Lots account for every unit held.                                           *)
LotsMatch(units, lots) == lots = Null \/ SumUnits(lots) = units
==============================================================================
