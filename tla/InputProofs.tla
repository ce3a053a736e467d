----------------------------- MODULE InputProofs -----------------------------
(* Proofs about what comes in from outside: that a number of a feed is rounded  *)
(* as it should be and every form fits its schema (Decimals, RecordForm); that a *)
(* form saves what it shows and nothing else (RecordForm, GoalForm); that a      *)
(* price keeps its row, its day and its ratio from a feed to what it values, in  *)
(* whatever order the rows come (PriceFeeds, Valuation); that charts and plans  *)
(* hold (Timeline, GoalMaths). MCData's run checks the same properties on small  *)
(* instances.                                                                  *)
EXTENDS DataProofs


------------------------------------------------------------------------------
(* A feed's number: its digits before the point, and those after it.                 *)
LEMMA FirstIs ==
    ASSUME NEW s \in Seq(0 .. 9), NEW n \in Nat
    PROVE  /\ n <= Len(s) => Text!First(s, n) = SubSeq(s, 1, n)
           /\ n >= Len(s) => Text!First(s, n) = s
  <1>1. PICK k \in Nat : k = Len(s)
    OBVIOUS
  <1>2. n <= k => Text!Min({n, k}) = n
    BY DEF Text!Min
  <1>3. n >= k => Text!Min({n, k}) = k
    BY DEF Text!Min
  <1>4. SubSeq(s, 1, k) = s
    BY <1>1
  <1>5. Text!First(s, n) = SubSeq(s, 1, Text!Min({n, k}))
    BY <1>1, Zenon DEF Text!First
  <1>6. ASSUME n <= k PROVE Text!First(s, n) = SubSeq(s, 1, n)
    BY <1>2, <1>5, <1>6, Zenon
  <1>7. ASSUME n >= k PROVE Text!First(s, n) = s
    BY <1>3, <1>4, <1>5, <1>7, Zenon
  <1> QED
    BY <1>1, <1>6, <1>7

WholeOf(x) ==
    IF x.dot + x.exp <= 0 THEN <<0>>
    ELSE Text!First(x.digits, x.dot + x.exp) \o Text!Zeros((x.dot + x.exp) - Len(x.digits))

FracOf(x) ==
    IF x.dot + x.exp <= 0 THEN Text!Zeros(-(x.dot + x.exp)) \o x.digits
    ELSE SubSeq(x.digits, x.dot + x.exp + 1, Len(x.digits))

(* `w` and `f` say what `digits` say with the point after the one at `point`.          *)
PriceParts(w, f, digits, point) ==
    /\ w \in Seq(0 .. 9) /\ f \in Seq(0 .. 9)
    /\ point < Len(digits) =>
          /\ Len(f) = Len(digits) - point
          /\ Text!Value(w) * Text!Scale(Len(f)) + Text!Value(f) = Text!Value(digits)
    /\ point >= Len(digits) =>
          /\ f = <<>>
          /\ Text!Value(w) = Text!Value(digits) * Text!Scale(point - Len(digits))

SoundNumber(x) ==
    /\ x.digits \in Seq(0 .. 9) /\ x.digits # <<>>
    /\ x.dot \in 1 .. Len(x.digits) /\ x.exp \in Int

LEMMA DigitsAreNats == \A s \in Seq(0 .. 9) : s \in Seq(Nat)
  OBVIOUS

LEMMA ZerosAreDigits == \A n \in Nat : Text!Zeros(n) \in Seq(0 .. 9)
  <1> TAKE n \in Nat
  <1>1. PICK z : z = Text!Zeros(n)
    OBVIOUS
  <1>2. z \in Seq(Nat) /\ Len(z) = n /\ \A i \in 1 .. n : z[i] = 0
    BY <1>1, ZerosAre
  <1>3. z \in Seq(0 .. 9)
    BY <1>2
  <1> QED
    BY <1>1, <1>3

LEMMA SmallParts ==
    ASSUME NEW digits \in Seq(0 .. 9), digits # <<>>, NEW point \in Int, point <= 0
    PROVE  PriceParts(<<0>>, Text!Zeros(-point) \o digits, digits, point)
  <1>1. PICK n \in Nat, k \in Nat : n = Len(digits) /\ n > 0 /\ k = -point
    <2>1. Len(digits) \in Nat /\ Len(digits) > 0 /\ -point \in Nat
      OBVIOUS
    <2> QED
      BY <2>1
  <1>2. PICK z : z = Text!Zeros(k)
    OBVIOUS
  <1>3. z \in Seq(0 .. 9) /\ z \in Seq(Nat) /\ Len(z) = k /\ Text!Value(z) = 0
    BY <1>2, ZerosAre, ZerosAreDigits, ValueOfZeros
  <1>4. digits \in Seq(Nat)
    BY DigitsAreNats
  <1>5. PICK f : f = z \o digits
    OBVIOUS
  <1>6. f \in Seq(0 .. 9) /\ Len(f) = k + n
    BY <1>1, <1>3, <1>5, ConcatProperties
  <1>7. Text!Value(f) = 0 * Text!Scale(n) + Text!Value(digits)
    BY <1>1, <1>3, <1>4, <1>5, ValueOfJoined
  <1>8. PICK y \in Nat, x \in Nat : y = Text!Scale(n) /\ x = Text!Scale(Len(f))
    <2>1. Len(f) \in Nat
      BY <1>6
    <2> QED
      BY <2>1, ScaleIsSome
  <1>9. Text!Value(digits) \in Nat
    BY <1>4, ValueIsNat
  <1>10. Text!Value(f) = Text!Value(digits)
    BY <1>7, <1>8, <1>9
  <1>11. PICK w : w = <<0>>
    OBVIOUS
  <1>12. w \in Seq(0 .. 9) /\ Text!Value(w) = 0
    <2>1. PICK none : none = <<>>
      OBVIOUS
    <2>2. none \in Seq(Nat) /\ 0 \in Nat /\ w = Append(none, 0) /\ w \in Seq(0 .. 9)
      BY <1>11, <2>1
    <2>3. Text!Value(Append(none, 0)) = 10 * Text!Value(none) + 0
      BY <2>2, ValueOfMore
    <2>4. Text!Value(none) = 0
      BY <2>1, ValueOfNone
    <2> QED
      BY <2>2, <2>3, <2>4
  <1>13. Text!Value(w) * Text!Scale(Len(f)) + Text!Value(f) = Text!Value(digits)
    <2>1. 0 * x = 0
      OBVIOUS
    <2> QED
      BY <1>8, <1>9, <1>10, <1>12, <2>1
  <1>14. point < n /\ Len(f) = n - point
    BY <1>1, <1>6
  <1>15. ~(point >= n)
    BY <1>14
  <1>16. PriceParts(w, f, digits, point)
    BY <1>1, <1>6, <1>12, <1>13, <1>14, <1>15, Zenon DEF PriceParts
  <1> QED
    BY <1>1, <1>2, <1>5, <1>11, <1>16, Zenon

LEMMA MixedParts ==
    ASSUME NEW digits \in Seq(0 .. 9), NEW point \in Int, point > 0, point < Len(digits)
    PROVE  PriceParts(Text!First(digits, point) \o Text!Zeros(point - Len(digits)),
                 SubSeq(digits, point + 1, Len(digits)), digits, point)
  <1>1. PICK n \in Nat : n = Len(digits)
    OBVIOUS
  <1>2. point \in 1 .. n /\ point \in Nat /\ point - n \in Int /\ point - n <= 0
    BY <1>1
  <1>3. Text!Zeros(point - n) = <<>>
    BY <1>2, NoZeros
  <1>4. Text!First(digits, point) = SubSeq(digits, 1, point)
    BY <1>1, <1>2, FirstIs
  <1>5. PICK w, f : w = SubSeq(digits, 1, point) /\ f = SubSeq(digits, point + 1, n)
    OBVIOUS
  <1>6. w \in Seq(0 .. 9) /\ f \in Seq(0 .. 9) /\ Len(f) = n - point
    BY <1>1, <1>2, <1>5
  <1>7. w \o <<>> = w
    BY <1>6
  <1>8. w \o f = digits
    <2>1. 1 \in 1 .. n + 1 /\ point \in (1 - 1) .. n /\ n \in point .. n
      BY <1>2
    <2>2. SubSeq(digits, 1, point) \o SubSeq(digits, point + 1, n) = SubSeq(digits, 1, n)
      BY <1>1, <2>1, ConcatAdjacentSubSeq
    <2>3. SubSeq(digits, 1, n) = digits
      BY <1>1
    <2> QED
      BY <1>5, <2>2, <2>3, Zenon
  <1>9. Text!Value(digits) = Text!Value(w) * Text!Scale(Len(f)) + Text!Value(f)
    <2>1. w \in Seq(Nat) /\ f \in Seq(Nat)
      BY <1>6, DigitsAreNats
    <2> QED
      BY <1>8, <2>1, ValueOfJoined
  <1>10. ~(point >= n)
    BY <1>1
  <1>11. PriceParts(w, f, digits, point)
    BY <1>1, <1>6, <1>9, <1>10, Zenon DEF PriceParts
  <1> QED
    BY <1>1, <1>3, <1>4, <1>5, <1>7, <1>11, Zenon

LEMMA LargeParts ==
    ASSUME NEW digits \in Seq(0 .. 9), NEW point \in Int, point > 0, point >= Len(digits)
    PROVE  PriceParts(Text!First(digits, point) \o Text!Zeros(point - Len(digits)),
                 SubSeq(digits, point + 1, Len(digits)), digits, point)
  <1>1. PICK n \in Nat, k \in Nat : n = Len(digits) /\ k = point - n
    <2>1. Len(digits) \in Nat /\ point - Len(digits) \in Nat
      OBVIOUS
    <2> QED
      BY <2>1
  <1>2. Text!First(digits, point) = digits
    BY FirstIs
  <1>3. PICK z : z = Text!Zeros(k)
    OBVIOUS
  <1>4. z \in Seq(0 .. 9)
    BY <1>3, ZerosAreDigits
  <1>5. PICK w, f : w = digits \o z /\ f = SubSeq(digits, point + 1, n)
    OBVIOUS
  <1>6. w \in Seq(0 .. 9)
    BY <1>4, <1>5, ConcatProperties
  <1>7. f = <<>> /\ f \in Seq(0 .. 9)
    <2>1. point + 1 > n /\ point + 1 \in Int /\ n \in Int
      BY <1>1
    <2>2. f = <<>>
      BY <1>1, <1>5, <2>1
    <2> QED
      BY <2>2
  <1>8. Text!Value(w) = Text!Value(digits) * Text!Scale(k)
    <2>1. digits \in Seq(Nat)
      BY DigitsAreNats
    <2> QED
      BY <1>3, <1>5, <2>1, ValuePadded
  <1>9. ~(point < n)
    BY <1>1
  <1>10. PriceParts(w, f, digits, point)
    BY <1>1, <1>6, <1>7, <1>8, <1>9, Zenon DEF PriceParts
  <1> QED
    BY <1>1, <1>2, <1>3, <1>5, <1>10, Zenon

LEMMA PartsAre ==
    ASSUME NEW x, SoundNumber(x)
    PROVE  PriceParts(WholeOf(x), FracOf(x), x.digits, x.dot + x.exp)
  <1>1. PICK digits \in Seq(0 .. 9), point \in Int :
           digits = x.digits /\ digits # <<>> /\ point = x.dot + x.exp
    <2>1. x.digits \in Seq(0 .. 9) /\ x.digits # <<>> /\ x.dot + x.exp \in Int
      BY DEF SoundNumber
    <2> QED
      BY <2>1
  <1>2. CASE point <= 0
    <2>1. PriceParts(<<0>>, Text!Zeros(-point) \o digits, digits, point)
      BY <1>1, <1>2, SmallParts
    <2> QED
      BY <1>1, <1>2, <2>1, Zenon DEF WholeOf, FracOf
  <1>3. CASE ~(point <= 0)
    <2>1. PriceParts(Text!First(digits, point) \o Text!Zeros(point - Len(digits)),
                SubSeq(digits, point + 1, Len(digits)), digits, point)
      <3>1. point > 0 /\ Len(digits) \in Nat
        BY <1>3
      <3>2. CASE point < Len(digits)
        BY <3>1, <3>2, MixedParts
      <3>3. CASE point >= Len(digits)
        BY <3>1, <3>3, LargeParts
      <3> QED
        BY <3>1, <3>2, <3>3
    <2>2. WholeOf(x) = Text!First(digits, point) \o Text!Zeros(point - Len(digits))
      <3>1. ~(x.dot + x.exp <= 0)
        BY <1>1, <1>3, Zenon
      <3>2. WholeOf(x) = Text!First(x.digits, x.dot + x.exp)
                            \o Text!Zeros((x.dot + x.exp) - Len(x.digits))
        BY <3>1, Zenon DEF WholeOf
      <3> QED
        BY <1>1, <3>2, Zenon
    <2>3. FracOf(x) = SubSeq(digits, point + 1, Len(digits))
      BY <1>1, <1>3, Zenon DEF FracOf
    <2> QED
      BY <1>1, <2>1, <2>2, <2>3, Zenon
  <1> QED
    BY <1>2, <1>3

------------------------------------------------------------------------------
(* The units of a price from its parts: what is kept, and half up for what is not.     *)
UnitsOf(w, f) ==
    LET next == IF Len(f) > PricePlaces THEN f[PricePlaces + 1] ELSE 0
        kept == Text!First(f, PricePlaces)
    IN  Text!Value(w) * Text!Scale(PricePlaces)
        + Text!Value(kept \o Text!Zeros(PricePlaces - Len(kept)))
        + IF next >= 5 THEN 1 ELSE 0

(* All digits fit: nothing is cut.                                                *)
LEMMA UnitsExact ==
    ASSUME NEW w \in Seq(0 .. 9), NEW f \in Seq(0 .. 9), Len(f) <= PricePlaces
    PROVE  UnitsOf(w, f) = (Text!Value(w) * Text!Scale(Len(f)) + Text!Value(f))
                               * Text!Scale(PricePlaces - Len(f))
  <1>1. PICK p \in Nat, k \in Nat, m \in Nat : p = PricePlaces /\ k = Len(f) /\ m = p - k
    <2>1. PricePlaces \in Nat /\ Len(f) \in Nat
      BY TextAssumption
    <2>2. PricePlaces - Len(f) \in Nat
      BY <2>1
    <2> QED
      BY <2>1, <2>2
  <1>2. k <= p /\ k + m = p
    BY <1>1
  <1>3. Text!First(f, p) = f
    BY <1>1, <1>2, FirstIs
  <1>4. f \in Seq(Nat) /\ w \in Seq(Nat)
    BY DigitsAreNats
  <1>5. Text!Value(f \o Text!Zeros(m)) = Text!Value(f) * Text!Scale(m)
    BY <1>4, ValuePadded
  <1>6. PICK a \in Nat, b \in Nat, x \in Nat, y \in Nat :
           a = Text!Value(w) /\ b = Text!Value(f) /\ x = Text!Scale(k) /\ y = Text!Scale(m)
    BY <1>4, ValueIsNat, ScaleIsSome
  <1>7. Text!Scale(p) = x * y
    BY <1>2, <1>6, ScaleOfSum
  <1>8. UnitsOf(w, f) = a * (x * y) + b * y + 0
    <2>1. ~(Len(f) > PricePlaces) /\ ~(0 >= 5)
      BY <1>1, <1>2
    <2>2. UnitsOf(w, f) = Text!Value(w) * Text!Scale(p) + Text!Value(f \o Text!Zeros(p - Len(f))) + 0
      BY <1>1, <1>3, <2>1, Zenon DEF UnitsOf
    <2> QED
      BY <1>1, <1>5, <1>6, <1>7, <2>2, Zenon
  <1>9. (a * x + b) * y = a * (x * y) + b * y /\ a * (x * y) \in Nat /\ b * y \in Nat
    OBVIOUS
  <1>10. UnitsOf(w, f) = (a * x + b) * y
    BY <1>8, <1>9
  <1> QED
    BY <1>1, <1>6, <1>10, Zenon

(* The last digits of some, by their first one: at least half of a unit or less.        *)
LEMMA HalfUp ==
    ASSUME NEW base \in Nat, NEW s \in Nat \ {0}, NEW d \in 0 .. 9, NEW r \in Nat, r < s
    PROVE  (2 * (base * (10 * s) + (d * s + r)) + 10 * s) \div (2 * (10 * s))
               = base + IF d >= 5 THEN 1 ELSE 0
  <1>1. PICK t \in Nat \ {0} : t = 2 * (10 * s)
    OBVIOUS
  <1>2. PICK u \in Nat, v \in Nat : u = base * s /\ v = d * s
    OBVIOUS
  <1>3. base * (10 * s) = 10 * u
    BY <1>2
  <1>4. t * base = 20 * u
    BY <1>1, <1>2
  <1>5. CASE d >= 5
    <2>1. PICK e \in Nat, g \in Nat : d = 5 + e /\ e + g = 4
      <3>1. d - 5 \in Nat /\ 9 - d \in Nat /\ d = 5 + (d - 5) /\ (d - 5) + (9 - d) = 4
        BY <1>5
      <3> QED
        BY <3>1
    <2>2. PICK h \in Nat, l \in Nat : h = e * s /\ l = g * s
      OBVIOUS
    <2>3. v = 5 * s + h /\ h + l = 4 * s
      <3>1. (5 + e) * s = 5 * s + e * s /\ (e + g) * s = e * s + g * s
        OBVIOUS
      <3> QED
        BY <1>2, <2>1, <2>2, <3>1
    <2>4. PICK c \in Nat : c = 2 * h + 2 * r
      OBVIOUS
    <2>5. c < t
      BY <1>1, <2>3, <2>4
    <2>6. t * (base + 1) = 20 * u + 20 * s
      <3>1. t * (base + 1) = t * base + t
        OBVIOUS
      <3> QED
        BY <1>1, <1>4, <3>1
    <2>7. 2 * (base * (10 * s) + (d * s + r)) + 10 * s = t * (base + 1) + c
      BY <1>2, <1>3, <2>3, <2>4, <2>6
    <2>8. PICK n \in Nat : n = t * (base + 1) + c
      <3>1. t * (base + 1) \in Nat
        OBVIOUS
      <3> QED
        BY <3>1
    <2>9. n \div t = base + 1
      BY <2>5, <2>8, QuotientBy
    <2> QED
      BY <1>1, <1>5, <2>7, <2>8, <2>9
  <1>6. CASE ~(d >= 5)
    <2>1. PICK g \in Nat : d + g = 4
      <3>1. 4 - d \in Nat /\ d + (4 - d) = 4
        BY <1>6
      <3> QED
        BY <3>1
    <2>2. PICK l \in Nat : l = g * s
      OBVIOUS
    <2>3. v + l = 4 * s
      <3>1. (d + g) * s = d * s + g * s
        OBVIOUS
      <3> QED
        BY <1>2, <2>1, <2>2, <3>1
    <2>4. PICK c \in Nat : c = 2 * v + 2 * r + 10 * s
      OBVIOUS
    <2>5. c < t
      BY <1>1, <2>3, <2>4
    <2>6. 2 * (base * (10 * s) + (d * s + r)) + 10 * s = t * base + c
      BY <1>2, <1>3, <1>4, <2>4
    <2>7. PICK n \in Nat : n = t * base + c
      <3>1. t * base \in Nat
        OBVIOUS
      <3> QED
        BY <3>1
    <2>8. n \div t = base
      BY <2>5, <2>7, QuotientBy
    <2> QED
      BY <1>1, <1>6, <2>6, <2>7, <2>8
  <1> QED
    BY <1>5, <1>6

------------------------------------------------------------------------------
LEMMA ValueOfOne ==
    ASSUME NEW d \in Nat, NEW s, s = <<d>>
    PROVE  Text!Value(s) = d
  <1>1. PICK none : none = <<>>
    OBVIOUS
  <1>2. none \in Seq(Nat) /\ s = Append(none, d)
    BY <1>1
  <1>3. Text!Value(Append(none, d)) = 10 * Text!Value(none) + d
    BY <1>2, ValueOfMore
  <1>4. Text!Value(none) = 0
    BY <1>1, ValueOfNone
  <1>5. Text!Value(s) = Text!Value(Append(none, d))
    BY <1>2, Zenon
  <1> QED
    BY <1>3, <1>4, <1>5

(* Some digits are cut: what is kept, the first that is not, and the others.           *)
Cut(f, kept, d, r, p, j) ==
    /\ kept \in Seq(0 .. 9) /\ Len(kept) = p /\ kept = Text!First(f, p)
    /\ d = f[p + 1] /\ d \in 0 .. 9
    /\ r \in Nat /\ r < Text!Scale(j)
    /\ Text!Value(f) = Text!Value(kept) * Text!Scale(j + 1) + (d * Text!Scale(j) + r)

LEMMA IsCut ==
    ASSUME NEW f \in Seq(0 .. 9), NEW p \in Nat, NEW j \in Nat, Len(f) = p + j + 1
    PROVE  \E kept, d, r : Cut(f, kept, d, r, p, j)
  <1>1. PICK k \in Nat : k = Len(f) /\ k = p + j + 1
    OBVIOUS
  <1>2. PICK kept, rest, one, more :
           /\ kept = SubSeq(f, 1, p) /\ rest = SubSeq(f, p + 1, k)
           /\ one = SubSeq(f, p + 1, p + 1) /\ more = SubSeq(f, (p + 1) + 1, k)
    OBVIOUS
  <1>3. kept \in Seq(0 .. 9) /\ Len(kept) = p
    BY <1>1, <1>2
  <1>4. rest \in Seq(0 .. 9) /\ Len(rest) = j + 1
    <2>1. /\ p + 1 \in Int /\ k \in Int /\ p + 1 <= k /\ (k - (p + 1)) + 1 = j + 1
          /\ \A i \in p + 1 .. k : i \in 1 .. Len(f)
      BY <1>1
    <2>2. \A i \in p + 1 .. k : f[i] \in 0 .. 9
      BY <2>1
    <2>3. rest = [i \in 1 .. j + 1 |-> f[p + i]]
      BY <1>1, <1>2
    <2>4. \A i \in 1 .. j + 1 : p + i \in p + 1 .. k
      BY <1>1
    <2> QED
      BY <2>2, <2>3, <2>4
  <1>5. more \in Seq(0 .. 9) /\ Len(more) = j
    BY <1>1, <1>2
  <1>6. PICK d \in 0 .. 9 : d = f[p + 1]
    <2>1. p + 1 \in 1 .. Len(f)
      BY <1>1
    <2> QED
      BY <2>1
  <1>7. one = <<d>> /\ one \in Seq(0 .. 9)
    <2>1. one \in Seq(0 .. 9) /\ Len(one) = 1 /\ one[1] = f[p + 1]
      BY <1>1, <1>2
    <2> QED
      BY <1>6, <2>1
  <1>8. f = kept \o rest
    <2>1. 1 \in 1 .. k + 1 /\ p \in (1 - 1) .. k /\ k \in p .. k
      BY <1>1
    <2>2. SubSeq(f, 1, p) \o SubSeq(f, p + 1, k) = SubSeq(f, 1, k)
      BY <1>1, <2>1, ConcatAdjacentSubSeq
    <2>3. SubSeq(f, 1, k) = f
      BY <1>1
    <2> QED
      BY <1>2, <2>2, <2>3, Zenon
  <1>9. rest = one \o more
    <2>1. p + 1 \in 1 .. k + 1 /\ p + 1 \in ((p + 1) - 1) .. k /\ k \in (p + 1) .. k
      BY <1>1
    <2>2. SubSeq(f, p + 1, p + 1) \o SubSeq(f, (p + 1) + 1, k) = SubSeq(f, p + 1, k)
      BY <1>1, <2>1, ConcatAdjacentSubSeq
    <2> QED
      BY <1>2, <2>2, Zenon
  <1>10. kept \in Seq(Nat) /\ rest \in Seq(Nat) /\ one \in Seq(Nat) /\ more \in Seq(Nat)
    BY <1>3, <1>4, <1>5, <1>7, DigitsAreNats
  <1>11. Text!Value(f) = Text!Value(kept) * Text!Scale(j + 1) + Text!Value(rest)
    BY <1>4, <1>8, <1>10, ValueOfJoined
  <1>12. Text!Value(rest) = d * Text!Scale(j) + Text!Value(more)
    <2>1. Text!Value(rest) = Text!Value(one) * Text!Scale(j) + Text!Value(more)
      BY <1>5, <1>9, <1>10, ValueOfJoined
    <2>2. Text!Value(one) = d
      BY <1>7, ValueOfOne
    <2> QED
      BY <2>1, <2>2
  <1>13. PICK r \in Nat : r = Text!Value(more) /\ r < Text!Scale(j)
    <2>1. Text!Value(more) < Text!Scale(j) /\ Text!Value(more) \in Nat
      BY <1>5, <1>10, ValueIsBelow, ValueIsNat
    <2> QED
      BY <2>1
  <1>14. kept = Text!First(f, p)
    <2>1. p <= Len(f)
      BY <1>1
    <2> QED
      BY <1>2, <2>1, FirstIs
  <1>15. Text!Value(f) = Text!Value(kept) * Text!Scale(j + 1) + (d * Text!Scale(j) + r)
    BY <1>11, <1>12, <1>13
  <1>16. Cut(f, kept, d, r, p, j)
    BY <1>3, <1>6, <1>13, <1>14, <1>15, ZenonT(40) DEF Cut
  <1> QED
    BY <1>16, Zenon

LEMMA UnitsRounded ==
    ASSUME NEW w \in Seq(0 .. 9), NEW f \in Seq(0 .. 9), Len(f) > PricePlaces
    PROVE  UnitsOf(w, f) = (2 * (Text!Value(w) * Text!Scale(Len(f)) + Text!Value(f))
                                + Text!Scale(Len(f) - PricePlaces))
                               \div (2 * Text!Scale(Len(f) - PricePlaces))
  <1>1. PICK p \in Nat, k \in Nat, j \in Nat : p = PricePlaces /\ k = Len(f) /\ k = p + j + 1
    <2>1. PricePlaces \in Nat /\ Len(f) \in Nat
      BY TextAssumption
    <2>2. Len(f) - PricePlaces - 1 \in Nat
      BY <2>1
    <2>3. Len(f) = PricePlaces + (Len(f) - PricePlaces - 1) + 1
      BY <2>1
    <2> QED
      BY <2>1, <2>2, <2>3
  <1>2. PICK kept, d, r : Cut(f, kept, d, r, p, j)
    BY <1>1, IsCut
  <1>3. d \in 0 .. 9 /\ r \in Nat /\ r < Text!Scale(j)
    BY <1>2, Zenon DEF Cut
  <1>4. w \in Seq(Nat) /\ kept \in Seq(Nat)
    <2>1. kept \in Seq(0 .. 9)
      BY <1>2, Zenon DEF Cut
    <2> QED
      BY <2>1, DigitsAreNats
  <1>5. PICK a \in Nat, b \in Nat, x \in Nat, s \in Nat \ {0} :
           a = Text!Value(w) /\ b = Text!Value(kept) /\ x = Text!Scale(p) /\ s = Text!Scale(j)
    BY <1>4, ValueIsNat, ScaleIsSome
  <1>6. Text!Scale(j + 1) = 10 * s
    BY <1>5, ScaleGrows
  <1>7. Text!Scale(k) = x * (10 * s)
    <2>1. p + (j + 1) = k /\ j + 1 \in Nat
      BY <1>1
    <2>2. PICK m \in Nat : m = j + 1
      OBVIOUS
    <2>3. Text!Scale(p + m) = Text!Scale(p) * Text!Scale(m)
      BY ScaleOfSum
    <2> QED
      BY <1>5, <1>6, <2>1, <2>2, <2>3, Zenon
  <1>8. Text!Value(f) = b * (10 * s) + (d * s + r)
    BY <1>2, <1>5, <1>6, Zenon DEF Cut
  <1>9. PICK base \in Nat : base = a * x + b
    OBVIOUS
  <1>10. a * Text!Scale(k) + Text!Value(f) = base * (10 * s) + (d * s + r)
    <2>1. base * (10 * s) = a * (x * (10 * s)) + b * (10 * s)
      BY <1>9
    <2>2. a * (x * (10 * s)) \in Nat /\ b * (10 * s) \in Nat /\ d * s + r \in Nat
      BY <1>3
    <2>3. a * Text!Scale(k) = a * (x * (10 * s))
      BY <1>7, Zenon
    <2>4. PICK e \in Nat, g \in Nat, h \in Nat :
             e = a * (x * (10 * s)) /\ g = b * (10 * s) /\ h = d * s + r
      BY <2>2
    <2>5. a * Text!Scale(k) = e /\ Text!Value(f) = g + h /\ base * (10 * s) = e + g
      BY <1>8, <2>1, <2>3, <2>4, Zenon
    <2>6. a * Text!Scale(k) + Text!Value(f) = e + (g + h)
      BY <2>5, Zenon
    <2>7. base * (10 * s) + (d * s + r) = (e + g) + h
      BY <2>4, <2>5, Zenon
    <2>8. e + (g + h) = (e + g) + h
      OBVIOUS
    <2> QED
      BY <2>6, <2>7, <2>8, Zenon
  <1>11. UnitsOf(w, f) = base + IF d >= 5 THEN 1 ELSE 0
    <2>1. Len(f) > PricePlaces /\ PricePlaces = p
      BY <1>1
    <2>2. /\ kept = Text!First(f, PricePlaces) /\ Len(kept) = PricePlaces
          /\ d = f[PricePlaces + 1]
      BY <1>1, <1>2, Zenon DEF Cut
    <2>3. PricePlaces - PricePlaces = 0
      BY <1>1
    <2>4. Text!Zeros(PricePlaces - Len(kept)) = <<>>
      BY <2>2, <2>3, NoZeros
    <2>5. kept \o <<>> = kept
      BY <1>4
    <2>6. UnitsOf(w, f) = Text!Value(w) * Text!Scale(PricePlaces)
                          + Text!Value(kept \o Text!Zeros(PricePlaces - Len(kept)))
                          + IF d >= 5 THEN 1 ELSE 0
      BY <2>1, <2>2, Zenon DEF UnitsOf
    <2>7. UnitsOf(w, f) = a * x + b + IF d >= 5 THEN 1 ELSE 0
      BY <1>1, <1>5, <2>4, <2>5, <2>6, ZenonT(40)
    <2> QED
      BY <1>9, <2>7
  <1>12. (2 * (base * (10 * s) + (d * s + r)) + 10 * s) \div (2 * (10 * s))
             = base + IF d >= 5 THEN 1 ELSE 0
    BY <1>3, <1>5, HalfUp
  <1>13. Len(f) - PricePlaces = j + 1
    BY <1>1
  <1>14. (2 * (a * Text!Scale(k) + Text!Value(f)) + 10 * s) \div (2 * (10 * s))
             = base + IF d >= 5 THEN 1 ELSE 0
    BY <1>10, <1>12, Zenon
  <1> QED
    BY <1>1, <1>5, <1>6, <1>11, <1>13, <1>14, Zenon

------------------------------------------------------------------------------
LEMMA PriceOfParts ==
    ASSUME NEW x
    PROVE  Text!PriceFromNumber(x) =
               LET price == Text!FromPriceUnits(UnitsOf(WholeOf(x), FracOf(x)))
               IN  IF price.whole <= MaxWhole THEN price ELSE Null
  BY Zenon DEF Text!PriceFromNumber, UnitsOf, WholeOf, FracOf

(* The number of a feed, in units of a price, half up.                              *)
NearestUnits(x) ==
    LET digits == Text!Value(x.digits)
        shift  == (x.dot + x.exp) - Len(x.digits) + PricePlaces
        cut    == Text!Scale(-shift)
    IN  IF shift >= 0 THEN digits * Text!Scale(shift) ELSE (2 * digits + cut) \div (2 * cut)

LEMMA UnitsAreNearest ==
    ASSUME NEW x, SoundNumber(x)
    PROVE  UnitsOf(WholeOf(x), FracOf(x)) = NearestUnits(x)
  <1>1. PICK w, f : w = WholeOf(x) /\ f = FracOf(x)
    OBVIOUS
  <1>2. PICK digits, point : digits = x.digits /\ point = x.dot + x.exp
    OBVIOUS
  <1>3. PriceParts(w, f, digits, point)
    BY <1>1, <1>2, PartsAre
  <1>4. digits \in Seq(0 .. 9) /\ point \in Int
    BY <1>2 DEF SoundNumber
  <1>5. w \in Seq(0 .. 9) /\ f \in Seq(0 .. 9)
    BY <1>3, Zenon DEF PriceParts
  <1>6. PICK n \in Nat, k \in Nat, p \in Nat : n = Len(digits) /\ k = Len(f) /\ p = PricePlaces
    <2>1. Len(digits) \in Nat /\ Len(f) \in Nat /\ PricePlaces \in Nat
      BY <1>4, <1>5, TextAssumption
    <2> QED
      BY <2>1
  <1>7. PICK shift \in Int : shift = point - n + p
    BY <1>4
  <1>8. PICK v \in Nat : v = Text!Value(digits)
    BY <1>4, DigitsAreNats, ValueIsNat
  <1>9. NearestUnits(x) = IF shift >= 0 THEN v * Text!Scale(shift)
                          ELSE (2 * v + Text!Scale(-shift)) \div (2 * Text!Scale(-shift))
    <2>1. (x.dot + x.exp) - Len(x.digits) + PricePlaces = shift
      BY <1>2, <1>6, <1>7, Zenon
    <2>2. Text!Value(x.digits) = v
      BY <1>2, <1>8, Zenon
    <2> QED
      BY <2>1, <2>2, Zenon DEF NearestUnits
  <1>10. ASSUME k <= p
         PROVE  UnitsOf(w, f) = (Text!Value(w) * Text!Scale(k) + Text!Value(f)) * Text!Scale(p - k)
    BY <1>5, <1>6, <1>10, UnitsExact
  <1>11. ASSUME k > p
         PROVE  UnitsOf(w, f) = (2 * (Text!Value(w) * Text!Scale(k) + Text!Value(f))
                                    + Text!Scale(k - p)) \div (2 * Text!Scale(k - p))
    BY <1>5, <1>6, <1>11, UnitsRounded
  <1>12. CASE point < n
    <2>1. k = n - point /\ Text!Value(w) * Text!Scale(k) + Text!Value(f) = v
      BY <1>3, <1>6, <1>8, <1>12, Zenon DEF PriceParts
    <2>2. shift = p - k
      BY <1>4, <1>7, <2>1
    <2>3. CASE k <= p
      <3>1. UnitsOf(w, f) = v * Text!Scale(p - k)
        BY <1>10, <2>1, <2>3, Zenon
      <3>2. shift >= 0
        BY <2>2, <2>3
      <3> QED
        BY <1>1, <1>9, <2>2, <3>1, <3>2, Zenon
    <2>4. CASE k > p
      <3>1. UnitsOf(w, f) = (2 * v + Text!Scale(k - p)) \div (2 * Text!Scale(k - p))
        BY <1>11, <2>1, <2>4, Zenon
      <3>2. ~(shift >= 0) /\ -shift = k - p
        BY <2>2, <2>4
      <3> QED
        BY <1>1, <1>9, <3>1, <3>2, Zenon
    <2> QED
      BY <2>3, <2>4
  <1>13. CASE point >= n
    <2>1. f = <<>> /\ Text!Value(w) = v * Text!Scale(point - n)
      BY <1>3, <1>6, <1>8, <1>13, Zenon DEF PriceParts
    <2>2. k = 0 /\ Text!Value(f) = 0 /\ Text!Scale(k) = 1 /\ p - k = p /\ k <= p
      BY <1>6, <2>1, ValueOfNone, ScaleOfNone
    <2>3. PICK m \in Nat : m = point - n /\ shift = m + p
      <3>1. point - n \in Nat /\ shift = (point - n) + p
        BY <1>4, <1>7, <1>13
      <3> QED
        BY <3>1
    <2>4. PICK a \in Nat, b \in Nat : a = Text!Scale(m) /\ b = Text!Scale(p)
      BY ScaleIsSome
    <2>5. Text!Scale(shift) = a * b
      BY <2>3, <2>4, ScaleOfSum
    <2>6. UnitsOf(w, f) = (Text!Value(w) * 1 + 0) * b
      BY <1>10, <2>2, <2>4, Zenon
    <2>7. Text!Value(w) = v * a
      BY <2>1, <2>3, <2>4, Zenon
    <2>8. (v * a * 1 + 0) * b = v * (a * b)
      OBVIOUS
    <2>9. UnitsOf(w, f) = v * Text!Scale(shift)
      BY <2>5, <2>6, <2>7, <2>8, Zenon
    <2>10. shift >= 0
      BY <2>3
    <2> QED
      BY <1>1, <1>9, <2>9, <2>10, Zenon
  <1> QED
    BY <1>4, <1>12, <1>13

LEMMA NearestIsNat ==
    ASSUME NEW x, SoundNumber(x)
    PROVE  NearestUnits(x) \in Nat
  <1>1. PICK v \in Nat : v = Text!Value(x.digits)
    <2>1. x.digits \in Seq(Nat)
      BY DigitsAreNats DEF SoundNumber
    <2> QED
      BY <2>1, ValueIsNat
  <1>2. PICK shift \in Int : shift = (x.dot + x.exp) - Len(x.digits) + PricePlaces
    <2>1. PICK digits \in Seq(0 .. 9), dot \in Int, exp \in Int :
             digits = x.digits /\ dot = x.dot /\ exp = x.exp
      BY DEF SoundNumber
    <2>2. Len(digits) \in Int /\ PricePlaces \in Int
      BY TextAssumption
    <2>3. (dot + exp) - Len(digits) + PricePlaces \in Int
      BY <2>2
    <2> QED
      BY <2>1, <2>3
  <1>3. CASE shift >= 0
    <2>1. shift \in Nat
      BY <1>3
    <2>2. PICK y \in Nat : y = Text!Scale(shift)
      BY <2>1, ScaleIsSome
    <2>3. NearestUnits(x) = v * y
      BY <1>1, <1>2, <1>3, <2>2, Zenon DEF NearestUnits
    <2> QED
      BY <2>3
  <1>4. CASE ~(shift >= 0)
    <2>1. -shift \in Nat
      BY <1>4
    <2>2. PICK y \in Nat \ {0} : y = Text!Scale(-shift)
      BY <2>1, ScaleIsSome
    <2>3. NearestUnits(x) = (2 * v + y) \div (2 * y)
      BY <1>1, <1>2, <1>4, <2>2, Zenon DEF NearestUnits
    <2>4. 2 * v + y \in Nat /\ 2 * y \in Nat \ {0}
      OBVIOUS
    <2> QED
      BY <2>3, <2>4, Divided
  <1> QED
    BY <1>3, <1>4

LEMMA PriceDoesRound == NumbersInv => PriceIsRounded
  <1> SUFFICES ASSUME NumbersInv, side = "number" PROVE PriceIsRounded
    BY DEF PriceIsRounded
  <1>1. PICK x : x = input /\ SoundNumber(x)
    BY TextAssumption DEF NumbersInv, SoundNumber
  <1>2. PICK units \in Nat : units = NearestUnits(x)
    BY <1>1, NearestIsNat
  <1>3. PICK t : t = Text!FromPriceUnits(units)
    OBVIOUS
  <1>4. Text!PriceFromNumber(x) = IF t.whole <= MaxWhole THEN t ELSE Null
    <2>1. UnitsOf(WholeOf(x), FracOf(x)) = units
      BY <1>1, <1>2, UnitsAreNearest
    <2> QED
      BY <1>3, <2>1, PriceOfParts, Zenon
  <1>5. PricePlaces \in Nat /\ MaxWhole \in Nat
    BY TextAssumption
  <1>6. t = Text!Spell(units, PricePlaces) /\ Spelt(t, units, PricePlaces)
    BY <1>3, <1>5, SpellIs DEF Text!FromPriceUnits
  <1>7. Text!ToPriceUnits(t) = units
    BY <1>5, <1>6, CountsWhatIsSpelt DEF Text!ToPriceUnits
  <1>8. t.whole <= MaxWhole <=> units < (MaxWhole + 1) * Text!Scale(PricePlaces)
    <2>1. PICK y \in Nat \ {0} : y = Text!Scale(PricePlaces)
      BY <1>5, ScaleIsSome
    <2>2. t.whole = units \div y
      BY <1>6, <2>1, Zenon DEF Spelt
    <2>3. units \div y <= MaxWhole <=> units < (MaxWhole + 1) * y
      BY <1>5, WholeIsUpTo
    <2> QED
      BY <2>1, <2>2, <2>3, Zenon
  <1>9. t # Null
    <2>1. t = [whole |-> t.whole, frac |-> t.frac] /\ t.whole \in Nat /\ t.frac \in Seq(0 .. 9)
      BY <1>6, Zenon DEF Spelt
    <2>2. t.frac \in Seq(Nat)
      BY <2>1, DigitsAreNats
    <2>3. t \in [whole : Nat, frac : Seq(Nat)]
      BY <2>1, <2>2
    <2> QED
      BY <2>3, TextAssumption
  <1>10. PICK y \in Nat : y = Text!Scale(PricePlaces)
    BY <1>5, ScaleIsSome
  <1>11. IF units >= (MaxWhole + 1) * Text!Scale(PricePlaces) THEN Text!PriceFromNumber(x) = Null
         ELSE Text!PriceFromNumber(x) # Null /\ Text!ToPriceUnits(Text!PriceFromNumber(x)) = units
    <2>1. (MaxWhole + 1) * y \in Nat
      BY <1>5
    <2>2. CASE units >= (MaxWhole + 1) * y
      <3>1. ~(t.whole <= MaxWhole)
        BY <1>8, <1>10, <2>1, <2>2
      <3> QED
        BY <1>4, <1>10, <2>2, <3>1, Zenon
    <2>3. CASE ~(units >= (MaxWhole + 1) * y)
      <3>1. t.whole <= MaxWhole
        BY <1>8, <1>10, <2>1, <2>3
      <3>2. Text!PriceFromNumber(x) = t
        BY <1>4, <3>1, Zenon
      <3> QED
        BY <1>7, <1>9, <1>10, <2>3, <3>2, Zenon
    <2> QED
      BY <2>2, <2>3
  <1> QED
    <2>1. units = LET digits == Text!Value(input.digits)
                      shift  == input.dot + input.exp - Len(input.digits) + PricePlaces
                      cut    == Text!Scale(-shift)
                  IN  IF shift >= 0 THEN digits * Text!Scale(shift)
                      ELSE (2 * digits + cut) \div (2 * cut)
      <3>1. (x.dot + x.exp) - Len(x.digits) + PricePlaces
                = x.dot + x.exp - Len(x.digits) + PricePlaces
        <4>1. x.dot \in Int /\ x.exp \in Int /\ PricePlaces \in Int /\ Len(x.digits) \in Int
          BY <1>1, <1>5 DEF SoundNumber
        <4> QED
          BY <4>1
      <3> QED
        BY <1>1, <1>2, <3>1, Zenon DEF NearestUnits
    <2> QED
      BY <1>1, <1>11, <2>1, Zenon DEF PriceIsRounded

------------------------------------------------------------------------------
(* Every form asks for what its kind stores. The inputs that fit a field, then form and     *)
(* schema of each kind field by field.                                                      *)
FitsIn(asks) ==
    CASE asks \in {"select"} -> {"enum"}
      [] asks = "switch"  -> {"boolean"}
      [] asks = "rupees"  -> {"paise", "somePaise"}
      [] asks = "percent" -> {"bps"}
      [] asks = "grams"   -> {"int"}
      [] OTHER -> {asks}

FormFits(kind) ==
    /\ \A k \in DOMAIN Form!FormOf(kind) :
          k \in DOMAIN Form!Schema(kind) /\ Form!Schema(kind)[k] \in FitsIn(Form!FormOf(kind)[k])
    /\ DOMAIN Form!Required(kind) \subseteq DOMAIN Form!FormOf(kind) \cup DOMAIN Form!KindBase(kind)
    /\ DOMAIN Form!KindBase(kind) \subseteq DOMAIN Form!Schema(kind)

Fit(asks, stores) ==
    \/ asks = "select" /\ stores = "enum"
    \/ asks = "switch" /\ stores = "boolean"
    \/ asks = "rupees" /\ stores \in {"paise", "somePaise"}
    \/ asks = "percent" /\ stores = "bps"
    \/ asks = "grams" /\ stores = "int"
    \/ asks \in {"text", "units", "instrument", "date", "int"} /\ stores = asks

LEMMA FitFits == \A asks, stores : Fit(asks, stores) => stores \in FitsIn(asks)
  BY DEF Fit, FitsIn

FieldFits(kind, k) ==
    k \in DOMAIN Form!Schema(kind) /\ Fit(Form!FormOf(kind)[k], Form!Schema(kind)[k])

LEMMA NoFields == DOMAIN Form!Nothing = {}
  BY DEF Form!Nothing, Form!Map

LEMMA NoBase == \A kind : kind # "realEstate" => DOMAIN Form!KindBase(kind) = {}
  <1> TAKE kind
  <1> HAVE kind # "realEstate"
  <1>1. Form!KindBase(kind) = Form!Nothing
    BY ZenonT(20) DEF Form!KindBase
  <1> QED
    BY <1>1, NoFields

LEMMA BankAccountFits == \A kind : kind = "bankAccount" => FormFits(kind)
  <1>0. SUFFICES ASSUME NEW kind, kind = "bankAccount" PROVE FormFits(kind)
    OBVIOUS
  <1>1. Form!FormOf(kind) = [accountType |-> "select", last4 |-> "text"]
    BY <1>0 DEF Form!FormOf, Form!++, Form!Map
  <1>2. Form!Required(kind) = [accountType |-> "enum"]
    BY <1>0 DEF Form!Required, Form!++, Form!Map
  <1>3. Form!Optional(kind) = [last4 |-> "text"]
    BY <1>0 DEF Form!Optional, Form!Term, Form!Interest, Form!LotsToo, Form!++, Form!Map
  <1>4. Form!Schema(kind) = [accountType |-> "enum", last4 |-> "text"]
    BY <1>0, <1>2, <1>3 DEF Form!Schema, Form!LiabilityKinds, Form!++, Form!Map, Form!Nothing
  <1>5. DOMAIN Form!FormOf(kind) = {"accountType", "last4"}
    BY <1>1
  <1>6. DOMAIN Form!Required(kind) = {"accountType"}
    BY <1>2
  <1>7. FieldFits(kind, "accountType") /\ FieldFits(kind, "last4")
    BY <1>1, <1>4 DEF FieldFits, Fit
  <1>8. DOMAIN Form!KindBase(kind) = {}
    BY <1>0, NoBase
  <1> QED
    BY <1>5, <1>6, <1>7, <1>8, FitFits DEF FormFits, FieldFits

LEMMA ForeignBankFits == \A kind : kind = "foreignBank" => FormFits(kind)
  <1>0. SUFFICES ASSUME NEW kind, kind = "foreignBank" PROVE FormFits(kind)
    OBVIOUS
  <1>1. Form!FormOf(kind) = [currency |-> "text", balanceMinor |-> "rupees"]
    BY <1>0 DEF Form!FormOf, Form!++, Form!Map
  <1>2. Form!Required(kind) = [currency |-> "text", balanceMinor |-> "paise"]
    BY <1>0 DEF Form!Required, Form!++, Form!Map
  <1>3. Form!Optional(kind) = Form!Nothing
    BY <1>0 DEF Form!Optional, Form!Term, Form!Interest, Form!LotsToo, Form!++, Form!Map
  <1>4. Form!Schema(kind) = [currency |-> "text", balanceMinor |-> "paise"]
    BY <1>0, <1>2, <1>3 DEF Form!Schema, Form!LiabilityKinds, Form!++, Form!Map, Form!Nothing
  <1>5. DOMAIN Form!FormOf(kind) = {"currency", "balanceMinor"}
    BY <1>1
  <1>6. DOMAIN Form!Required(kind) = {"currency", "balanceMinor"}
    BY <1>2
  <1>7. FieldFits(kind, "currency") /\ FieldFits(kind, "balanceMinor")
    BY <1>1, <1>4 DEF FieldFits, Fit
  <1>8. DOMAIN Form!KindBase(kind) = {}
    BY <1>0, NoBase
  <1> QED
    BY <1>5, <1>6, <1>7, <1>8, FitFits DEF FormFits, FieldFits

LEMMA FixedDepositFits == \A kind : kind = "fixedDeposit" => FormFits(kind)
  <1>0. SUFFICES ASSUME NEW kind, kind = "fixedDeposit" PROVE FormFits(kind)
    OBVIOUS
  <1>1. Form!FormOf(kind) = [maturityDate |-> "date", interestBps |-> "percent",
                             autoRenew |-> "switch", taxSaver |-> "switch",
                             issuer |-> "select", payout |-> "select"]
    BY <1>0 DEF Form!FormOf, Form!++, Form!Map
  <1>2. Form!Required(kind) = [issuer |-> "enum", payout |-> "enum",
                               taxSaver |-> "boolean", autoRenew |-> "boolean"]
    BY <1>0 DEF Form!Required, Form!++, Form!Map
  <1>3. Form!Optional(kind) = [interestBps |-> "bps", startDate |-> "date",
                             maturityDate |-> "date"]
    BY <1>0 DEF Form!Optional, Form!Term, Form!Interest, Form!LotsToo, Form!++, Form!Map
  <1>4. Form!Schema(kind) = [issuer |-> "enum", payout |-> "enum", taxSaver |-> "boolean",
                             autoRenew |-> "boolean", interestBps |-> "bps",
                             startDate |-> "date", maturityDate |-> "date"]
    BY <1>0, <1>2, <1>3 DEF Form!Schema, Form!LiabilityKinds, Form!++, Form!Map, Form!Nothing
  <1>5. DOMAIN Form!FormOf(kind) = {"maturityDate", "interestBps", "autoRenew", "taxSaver",
                                  "issuer", "payout"}
    BY <1>1
  <1>6. DOMAIN Form!Required(kind) = {"issuer", "payout", "taxSaver", "autoRenew"}
    BY <1>2
  <1>7. FieldFits(kind, "maturityDate") /\ FieldFits(kind, "interestBps") /\
        FieldFits(kind, "autoRenew") /\ FieldFits(kind, "taxSaver") /\
        FieldFits(kind, "issuer") /\ FieldFits(kind, "payout")
    BY <1>1, <1>4 DEF FieldFits, Fit
  <1>8. DOMAIN Form!KindBase(kind) = {}
    BY <1>0, NoBase
  <1> QED
    BY <1>5, <1>6, <1>7, <1>8, FitFits DEF FormFits, FieldFits

LEMMA RecurringDepositFits == \A kind : kind = "recurringDeposit" => FormFits(kind)
  <1>0. SUFFICES ASSUME NEW kind, kind = "recurringDeposit" PROVE FormFits(kind)
    OBVIOUS
  <1>1. Form!FormOf(kind) = [maturityDate |-> "date", interestBps |-> "percent",
                             instalment |-> "rupees"]
    BY <1>0 DEF Form!FormOf, Form!++, Form!Map
  <1>2. Form!Required(kind) = [instalment |-> "somePaise"]
    BY <1>0 DEF Form!Required, Form!++, Form!Map
  <1>3. Form!Optional(kind) = [interestBps |-> "bps", startDate |-> "date",
                             maturityDate |-> "date"]
    BY <1>0 DEF Form!Optional, Form!Term, Form!Interest, Form!LotsToo, Form!++, Form!Map
  <1>4. Form!Schema(kind) = [instalment |-> "somePaise", interestBps |-> "bps",
                             startDate |-> "date", maturityDate |-> "date"]
    BY <1>0, <1>2, <1>3 DEF Form!Schema, Form!LiabilityKinds, Form!++, Form!Map, Form!Nothing
  <1>5. DOMAIN Form!FormOf(kind) = {"maturityDate", "interestBps", "instalment"}
    BY <1>1
  <1>6. DOMAIN Form!Required(kind) = {"instalment"}
    BY <1>2
  <1>7. FieldFits(kind, "maturityDate") /\ FieldFits(kind, "interestBps") /\
        FieldFits(kind, "instalment")
    BY <1>1, <1>4 DEF FieldFits, Fit
  <1>8. DOMAIN Form!KindBase(kind) = {}
    BY <1>0, NoBase
  <1> QED
    BY <1>5, <1>6, <1>7, <1>8, FitFits DEF FormFits, FieldFits

LEMMA MutualFundFits == \A kind : kind = "mutualFund" => FormFits(kind)
  <1>0. SUFFICES ASSUME NEW kind, kind = "mutualFund" PROVE FormFits(kind)
    OBVIOUS
  <1>1. Form!FormOf(kind) = [quantity |-> "units", instrument |-> "instrument",
                             plan |-> "select", folio |-> "text", sip |-> "rupees"]
    BY <1>0 DEF Form!FormOf, Form!++, Form!Map
  <1>2. Form!Required(kind) = [quantity |-> "units", instrument |-> "instrument",
                               plan |-> "enum"]
    BY <1>0 DEF Form!Required, Form!++, Form!Map
  <1>3. Form!Optional(kind) = [lots |-> "lots", folio |-> "text", sip |-> "somePaise"]
    BY <1>0 DEF Form!Optional, Form!Term, Form!Interest, Form!LotsToo, Form!++, Form!Map
  <1>4. Form!Schema(kind) = [quantity |-> "units", instrument |-> "instrument",
                             plan |-> "enum", lots |-> "lots", folio |-> "text",
                             sip |-> "somePaise"]
    BY <1>0, <1>2, <1>3 DEF Form!Schema, Form!LiabilityKinds, Form!++, Form!Map, Form!Nothing
  <1>5. DOMAIN Form!FormOf(kind) = {"quantity", "instrument", "plan", "folio", "sip"}
    BY <1>1
  <1>6. DOMAIN Form!Required(kind) = {"quantity", "instrument", "plan"}
    BY <1>2
  <1>7. FieldFits(kind, "quantity") /\ FieldFits(kind, "instrument") /\
        FieldFits(kind, "plan") /\ FieldFits(kind, "folio") /\ FieldFits(kind, "sip")
    BY <1>1, <1>4 DEF FieldFits, Fit
  <1>8. DOMAIN Form!KindBase(kind) = {}
    BY <1>0, NoBase
  <1> QED
    BY <1>5, <1>6, <1>7, <1>8, FitFits DEF FormFits, FieldFits

LEMMA StockFits == \A kind : kind \in {"stock", "crypto", "usStock"} => FormFits(kind)
  <1>0. SUFFICES ASSUME NEW kind, kind \in {"stock", "crypto", "usStock"} PROVE FormFits(kind)
    OBVIOUS
  <1>1. Form!FormOf(kind) = [quantity |-> "units", instrument |-> "instrument"]
    BY <1>0 DEF Form!FormOf, Form!++, Form!Map
  <1>2. Form!Required(kind) = [quantity |-> "units", instrument |-> "instrument"]
    BY <1>0 DEF Form!Required, Form!++, Form!Map
  <1>3. Form!Optional(kind) = [lots |-> "lots"]
    BY <1>0 DEF Form!Optional, Form!Term, Form!Interest, Form!LotsToo, Form!++, Form!Map
  <1>4. Form!Schema(kind) = [quantity |-> "units", instrument |-> "instrument",
                             lots |-> "lots"]
    BY <1>0, <1>2, <1>3 DEF Form!Schema, Form!LiabilityKinds, Form!++, Form!Map, Form!Nothing
  <1>5. DOMAIN Form!FormOf(kind) = {"quantity", "instrument"}
    BY <1>1
  <1>6. DOMAIN Form!Required(kind) = {"quantity", "instrument"}
    BY <1>2
  <1>7. FieldFits(kind, "quantity") /\ FieldFits(kind, "instrument")
    BY <1>1, <1>4 DEF FieldFits, Fit
  <1>8. DOMAIN Form!KindBase(kind) = {}
    BY <1>0, NoBase
  <1> QED
    BY <1>5, <1>6, <1>7, <1>8, FitFits DEF FormFits, FieldFits

LEMMA BondFits == \A kind : kind = "bond" => FormFits(kind)
  <1>0. SUFFICES ASSUME NEW kind, kind = "bond" PROVE FormFits(kind)
    OBVIOUS
  <1>1. Form!FormOf(kind) = [maturityDate |-> "date", interestBps |-> "percent",
                             bondType |-> "select"]
    BY <1>0 DEF Form!FormOf, Form!++, Form!Map
  <1>2. Form!Required(kind) = [bondType |-> "enum"]
    BY <1>0 DEF Form!Required, Form!++, Form!Map
  <1>3. Form!Optional(kind) = [interestBps |-> "bps", maturityDate |-> "date"]
    BY <1>0 DEF Form!Optional, Form!Term, Form!Interest, Form!LotsToo, Form!++, Form!Map
  <1>4. Form!Schema(kind) = [bondType |-> "enum", interestBps |-> "bps",
                             maturityDate |-> "date"]
    BY <1>0, <1>2, <1>3 DEF Form!Schema, Form!LiabilityKinds, Form!++, Form!Map, Form!Nothing
  <1>5. DOMAIN Form!FormOf(kind) = {"maturityDate", "interestBps", "bondType"}
    BY <1>1
  <1>6. DOMAIN Form!Required(kind) = {"bondType"}
    BY <1>2
  <1>7. FieldFits(kind, "maturityDate") /\ FieldFits(kind, "interestBps") /\
        FieldFits(kind, "bondType")
    BY <1>1, <1>4 DEF FieldFits, Fit
  <1>8. DOMAIN Form!KindBase(kind) = {}
    BY <1>0, NoBase
  <1> QED
    BY <1>5, <1>6, <1>7, <1>8, FitFits DEF FormFits, FieldFits

LEMMA UnlistedFits == \A kind : kind = "unlisted" => FormFits(kind)
  <1>0. SUFFICES ASSUME NEW kind, kind = "unlisted" PROVE FormFits(kind)
    OBVIOUS
  <1>1. Form!FormOf(kind) = [units |-> "units"]
    BY <1>0 DEF Form!FormOf, Form!++, Form!Map
  <1>2. Form!Required(kind) = Form!Nothing
    BY <1>0 DEF Form!Required, Form!++, Form!Map
  <1>3. Form!Optional(kind) = [units |-> "units"]
    BY <1>0 DEF Form!Optional, Form!Term, Form!Interest, Form!LotsToo, Form!++, Form!Map
  <1>4. Form!Schema(kind) = [units |-> "units"]
    BY <1>0, <1>2, <1>3 DEF Form!Schema, Form!LiabilityKinds, Form!++, Form!Map, Form!Nothing
  <1>5. DOMAIN Form!FormOf(kind) = {"units"}
    BY <1>1
  <1>6. DOMAIN Form!Required(kind) = {}
    BY <1>2 DEF Form!Nothing, Form!Map
  <1>7. FieldFits(kind, "units")
    BY <1>1, <1>4 DEF FieldFits, Fit
  <1>8. DOMAIN Form!KindBase(kind) = {}
    BY <1>0, NoBase
  <1> QED
    BY <1>5, <1>6, <1>7, <1>8, FitFits DEF FormFits, FieldFits

LEMMA RealEstateFits == \A kind : kind = "realEstate" => FormFits(kind)
  <1>0. SUFFICES ASSUME NEW kind, kind = "realEstate" PROVE FormFits(kind)
    OBVIOUS
  <1>1. Form!FormOf(kind) = [address |-> "text"]
    BY <1>0 DEF Form!FormOf, Form!++, Form!Map
  <1>2. Form!Required(kind) = [linkedLiabilityIds |-> "ids"]
    BY <1>0 DEF Form!Required, Form!++, Form!Map
  <1>3. Form!Optional(kind) = [address |-> "text"]
    BY <1>0 DEF Form!Optional, Form!Term, Form!Interest, Form!LotsToo, Form!++, Form!Map
  <1>4. Form!Schema(kind) = [linkedLiabilityIds |-> "ids", address |-> "text"]
    BY <1>0, <1>2, <1>3 DEF Form!Schema, Form!LiabilityKinds, Form!++, Form!Map, Form!Nothing
  <1>5. DOMAIN Form!FormOf(kind) = {"address"}
    BY <1>1
  <1>6. DOMAIN Form!Required(kind) = {"linkedLiabilityIds"}
    BY <1>2
  <1>7. FieldFits(kind, "address")
    BY <1>1, <1>4 DEF FieldFits, Fit
  <1>8. DOMAIN Form!KindBase(kind) = {"linkedLiabilityIds"}
    BY <1>0 DEF Form!KindBase
  <1>9. "linkedLiabilityIds" \in DOMAIN Form!Schema(kind)
    BY <1>4
  <1> QED
    BY <1>5, <1>6, <1>7, <1>8, <1>9, FitFits DEF FormFits, FieldFits

LEMMA VehicleFits == \A kind : kind = "vehicle" => FormFits(kind)
  <1>0. SUFFICES ASSUME NEW kind, kind = "vehicle" PROVE FormFits(kind)
    OBVIOUS
  <1>1. Form!FormOf(kind) = [registration |-> "text"]
    BY <1>0 DEF Form!FormOf, Form!++, Form!Map
  <1>2. Form!Required(kind) = Form!Nothing
    BY <1>0 DEF Form!Required, Form!++, Form!Map
  <1>3. Form!Optional(kind) = [registration |-> "text"]
    BY <1>0 DEF Form!Optional, Form!Term, Form!Interest, Form!LotsToo, Form!++, Form!Map
  <1>4. Form!Schema(kind) = [registration |-> "text"]
    BY <1>0, <1>2, <1>3 DEF Form!Schema, Form!LiabilityKinds, Form!++, Form!Map, Form!Nothing
  <1>5. DOMAIN Form!FormOf(kind) = {"registration"}
    BY <1>1
  <1>6. DOMAIN Form!Required(kind) = {}
    BY <1>2 DEF Form!Nothing, Form!Map
  <1>7. FieldFits(kind, "registration")
    BY <1>1, <1>4 DEF FieldFits, Fit
  <1>8. DOMAIN Form!KindBase(kind) = {}
    BY <1>0, NoBase
  <1> QED
    BY <1>5, <1>6, <1>7, <1>8, FitFits DEF FormFits, FieldFits

LEMMA RsuFits == \A kind : kind = "rsu" => FormFits(kind)
  <1>0. SUFFICES ASSUME NEW kind, kind = "rsu" PROVE FormFits(kind)
    OBVIOUS
  <1>1. Form!FormOf(kind) = [quantity |-> "units", instrument |-> "instrument",
                             vestingStart |-> "date", unvested |-> "units",
                             schedule |-> "select", plan |-> "select"]
    BY <1>0 DEF Form!FormOf, Form!++, Form!Map
  <1>2. Form!Required(kind) = [quantity |-> "units", unvested |-> "units", plan |-> "enum",
                               schedule |-> "enum", instrument |-> "instrument",
                               vestingStart |-> "date"]
    BY <1>0 DEF Form!Required, Form!++, Form!Map
  <1>3. Form!Optional(kind) = [lots |-> "lots"]
    BY <1>0 DEF Form!Optional, Form!Term, Form!Interest, Form!LotsToo, Form!++, Form!Map
  <1>4. Form!Schema(kind) = [quantity |-> "units", unvested |-> "units", plan |-> "enum",
                             schedule |-> "enum", instrument |-> "instrument",
                             vestingStart |-> "date", lots |-> "lots"]
    BY <1>0, <1>2, <1>3 DEF Form!Schema, Form!LiabilityKinds, Form!++, Form!Map, Form!Nothing
  <1>5. DOMAIN Form!FormOf(kind) = {"quantity", "instrument", "vestingStart", "unvested",
                                  "schedule", "plan"}
    BY <1>1
  <1>6. DOMAIN Form!Required(kind) = {"quantity", "unvested", "plan", "schedule",
                                  "instrument", "vestingStart"}
    BY <1>2
  <1>7. FieldFits(kind, "quantity") /\ FieldFits(kind, "instrument") /\
        FieldFits(kind, "vestingStart") /\ FieldFits(kind, "unvested") /\
        FieldFits(kind, "schedule") /\ FieldFits(kind, "plan")
    BY <1>1, <1>4 DEF FieldFits, Fit
  <1>8. DOMAIN Form!KindBase(kind) = {}
    BY <1>0, NoBase
  <1> QED
    BY <1>5, <1>6, <1>7, <1>8, FitFits DEF FormFits, FieldFits

LEMMA PpfFits == \A kind : kind = "ppf" => FormFits(kind)
  <1>0. SUFFICES ASSUME NEW kind, kind = "ppf" PROVE FormFits(kind)
    OBVIOUS
  <1>1. Form!FormOf(kind) = [maturityDate |-> "date", startDate |-> "date"]
    BY <1>0 DEF Form!FormOf, Form!++, Form!Map
  <1>2. Form!Required(kind) = Form!Nothing
    BY <1>0 DEF Form!Required, Form!++, Form!Map
  <1>3. Form!Optional(kind) = [startDate |-> "date", maturityDate |-> "date"]
    BY <1>0 DEF Form!Optional, Form!Term, Form!Interest, Form!LotsToo, Form!++, Form!Map
  <1>4. Form!Schema(kind) = [startDate |-> "date", maturityDate |-> "date"]
    BY <1>0, <1>2, <1>3 DEF Form!Schema, Form!LiabilityKinds, Form!++, Form!Map, Form!Nothing
  <1>5. DOMAIN Form!FormOf(kind) = {"maturityDate", "startDate"}
    BY <1>1
  <1>6. DOMAIN Form!Required(kind) = {}
    BY <1>2 DEF Form!Nothing, Form!Map
  <1>7. FieldFits(kind, "maturityDate") /\ FieldFits(kind, "startDate")
    BY <1>1, <1>4 DEF FieldFits, Fit
  <1>8. DOMAIN Form!KindBase(kind) = {}
    BY <1>0, NoBase
  <1> QED
    BY <1>5, <1>6, <1>7, <1>8, FitFits DEF FormFits, FieldFits

LEMMA SukanyaSamriddhiFits == \A kind : kind = "sukanyaSamriddhi" => FormFits(kind)
  <1>0. SUFFICES ASSUME NEW kind, kind = "sukanyaSamriddhi" PROVE FormFits(kind)
    OBVIOUS
  <1>1. Form!FormOf(kind) = [maturityDate |-> "date", startDate |-> "date",
                             beneficiary |-> "text"]
    BY <1>0 DEF Form!FormOf, Form!++, Form!Map
  <1>2. Form!Required(kind) = [beneficiary |-> "text"]
    BY <1>0 DEF Form!Required, Form!++, Form!Map
  <1>3. Form!Optional(kind) = [startDate |-> "date", maturityDate |-> "date"]
    BY <1>0 DEF Form!Optional, Form!Term, Form!Interest, Form!LotsToo, Form!++, Form!Map
  <1>4. Form!Schema(kind) = [beneficiary |-> "text", startDate |-> "date",
                             maturityDate |-> "date"]
    BY <1>0, <1>2, <1>3 DEF Form!Schema, Form!LiabilityKinds, Form!++, Form!Map, Form!Nothing
  <1>5. DOMAIN Form!FormOf(kind) = {"maturityDate", "startDate", "beneficiary"}
    BY <1>1
  <1>6. DOMAIN Form!Required(kind) = {"beneficiary"}
    BY <1>2
  <1>7. FieldFits(kind, "maturityDate") /\ FieldFits(kind, "startDate") /\
        FieldFits(kind, "beneficiary")
    BY <1>1, <1>4 DEF FieldFits, Fit
  <1>8. DOMAIN Form!KindBase(kind) = {}
    BY <1>0, NoBase
  <1> QED
    BY <1>5, <1>6, <1>7, <1>8, FitFits DEF FormFits, FieldFits

LEMMA EpfFits == \A kind : kind = "epf" => FormFits(kind)
  <1>0. SUFFICES ASSUME NEW kind, kind = "epf" PROVE FormFits(kind)
    OBVIOUS
  <1>1. Form!FormOf(kind) = [includesVpf |-> "switch"]
    BY <1>0 DEF Form!FormOf, Form!++, Form!Map
  <1>2. Form!Required(kind) = [includesVpf |-> "boolean"]
    BY <1>0 DEF Form!Required, Form!++, Form!Map
  <1>3. Form!Optional(kind) = Form!Nothing
    BY <1>0 DEF Form!Optional, Form!Term, Form!Interest, Form!LotsToo, Form!++, Form!Map
  <1>4. Form!Schema(kind) = [includesVpf |-> "boolean"]
    BY <1>0, <1>2, <1>3 DEF Form!Schema, Form!LiabilityKinds, Form!++, Form!Map, Form!Nothing
  <1>5. DOMAIN Form!FormOf(kind) = {"includesVpf"}
    BY <1>1
  <1>6. DOMAIN Form!Required(kind) = {"includesVpf"}
    BY <1>2
  <1>7. FieldFits(kind, "includesVpf")
    BY <1>1, <1>4 DEF FieldFits, Fit
  <1>8. DOMAIN Form!KindBase(kind) = {}
    BY <1>0, NoBase
  <1> QED
    BY <1>5, <1>6, <1>7, <1>8, FitFits DEF FormFits, FieldFits

LEMMA NpsFits == \A kind : kind = "nps" => FormFits(kind)
  <1>0. SUFFICES ASSUME NEW kind, kind = "nps" PROVE FormFits(kind)
    OBVIOUS
  <1>1. Form!FormOf(kind) = [tier |-> "select"]
    BY <1>0 DEF Form!FormOf, Form!++, Form!Map
  <1>2. Form!Required(kind) = [tier |-> "enum"]
    BY <1>0 DEF Form!Required, Form!++, Form!Map
  <1>3. Form!Optional(kind) = Form!Nothing
    BY <1>0 DEF Form!Optional, Form!Term, Form!Interest, Form!LotsToo, Form!++, Form!Map
  <1>4. Form!Schema(kind) = [tier |-> "enum"]
    BY <1>0, <1>2, <1>3 DEF Form!Schema, Form!LiabilityKinds, Form!++, Form!Map, Form!Nothing
  <1>5. DOMAIN Form!FormOf(kind) = {"tier"}
    BY <1>1
  <1>6. DOMAIN Form!Required(kind) = {"tier"}
    BY <1>2
  <1>7. FieldFits(kind, "tier")
    BY <1>1, <1>4 DEF FieldFits, Fit
  <1>8. DOMAIN Form!KindBase(kind) = {}
    BY <1>0, NoBase
  <1> QED
    BY <1>5, <1>6, <1>7, <1>8, FitFits DEF FormFits, FieldFits

LEMMA EmployerBenefitFits == \A kind : kind = "employerBenefit" => FormFits(kind)
  <1>0. SUFFICES ASSUME NEW kind, kind = "employerBenefit" PROVE FormFits(kind)
    OBVIOUS
  <1>1. Form!FormOf(kind) = [benefit |-> "select"]
    BY <1>0 DEF Form!FormOf, Form!++, Form!Map
  <1>2. Form!Required(kind) = [benefit |-> "enum"]
    BY <1>0 DEF Form!Required, Form!++, Form!Map
  <1>3. Form!Optional(kind) = Form!Nothing
    BY <1>0 DEF Form!Optional, Form!Term, Form!Interest, Form!LotsToo, Form!++, Form!Map
  <1>4. Form!Schema(kind) = [benefit |-> "enum"]
    BY <1>0, <1>2, <1>3 DEF Form!Schema, Form!LiabilityKinds, Form!++, Form!Map, Form!Nothing
  <1>5. DOMAIN Form!FormOf(kind) = {"benefit"}
    BY <1>1
  <1>6. DOMAIN Form!Required(kind) = {"benefit"}
    BY <1>2
  <1>7. FieldFits(kind, "benefit")
    BY <1>1, <1>4 DEF FieldFits, Fit
  <1>8. DOMAIN Form!KindBase(kind) = {}
    BY <1>0, NoBase
  <1> QED
    BY <1>5, <1>6, <1>7, <1>8, FitFits DEF FormFits, FieldFits

LEMMA SmallSavingsFits == \A kind : kind = "smallSavings" => FormFits(kind)
  <1>0. SUFFICES ASSUME NEW kind, kind = "smallSavings" PROVE FormFits(kind)
    OBVIOUS
  <1>1. Form!FormOf(kind) = [maturityDate |-> "date", interestBps |-> "percent",
                             scheme |-> "select"]
    BY <1>0 DEF Form!FormOf, Form!++, Form!Map
  <1>2. Form!Required(kind) = [scheme |-> "enum"]
    BY <1>0 DEF Form!Required, Form!++, Form!Map
  <1>3. Form!Optional(kind) = [interestBps |-> "bps", startDate |-> "date",
                             maturityDate |-> "date"]
    BY <1>0 DEF Form!Optional, Form!Term, Form!Interest, Form!LotsToo, Form!++, Form!Map
  <1>4. Form!Schema(kind) = [scheme |-> "enum", interestBps |-> "bps",
                             startDate |-> "date", maturityDate |-> "date"]
    BY <1>0, <1>2, <1>3 DEF Form!Schema, Form!LiabilityKinds, Form!++, Form!Map, Form!Nothing
  <1>5. DOMAIN Form!FormOf(kind) = {"maturityDate", "interestBps", "scheme"}
    BY <1>1
  <1>6. DOMAIN Form!Required(kind) = {"scheme"}
    BY <1>2
  <1>7. FieldFits(kind, "maturityDate") /\ FieldFits(kind, "interestBps") /\
        FieldFits(kind, "scheme")
    BY <1>1, <1>4 DEF FieldFits, Fit
  <1>8. DOMAIN Form!KindBase(kind) = {}
    BY <1>0, NoBase
  <1> QED
    BY <1>5, <1>6, <1>7, <1>8, FitFits DEF FormFits, FieldFits

LEMMA PreciousMetalFits == \A kind : kind = "preciousMetal" => FormFits(kind)
  <1>0. SUFFICES ASSUME NEW kind, kind = "preciousMetal" PROVE FormFits(kind)
    OBVIOUS
  <1>1. Form!FormOf(kind) = [weightMg |-> "grams", metal |-> "select", form |-> "select"]
    BY <1>0 DEF Form!FormOf, Form!++, Form!Map
  <1>2. Form!Required(kind) = [metal |-> "enum", form |-> "enum"]
    BY <1>0 DEF Form!Required, Form!++, Form!Map
  <1>3. Form!Optional(kind) = [weightMg |-> "int", karat |-> "int"]
    BY <1>0 DEF Form!Optional, Form!Term, Form!Interest, Form!LotsToo, Form!++, Form!Map
  <1>4. Form!Schema(kind) = [metal |-> "enum", form |-> "enum", weightMg |-> "int",
                             karat |-> "int"]
    BY <1>0, <1>2, <1>3 DEF Form!Schema, Form!LiabilityKinds, Form!++, Form!Map, Form!Nothing
  <1>5. DOMAIN Form!FormOf(kind) = {"weightMg", "metal", "form"}
    BY <1>1
  <1>6. DOMAIN Form!Required(kind) = {"metal", "form"}
    BY <1>2
  <1>7. FieldFits(kind, "weightMg") /\ FieldFits(kind, "metal") /\ FieldFits(kind, "form")
    BY <1>1, <1>4 DEF FieldFits, Fit
  <1>8. DOMAIN Form!KindBase(kind) = {}
    BY <1>0, NoBase
  <1> QED
    BY <1>5, <1>6, <1>7, <1>8, FitFits DEF FormFits, FieldFits

LEMMA InsuranceFits == \A kind : kind = "insurance" => FormFits(kind)
  <1>0. SUFFICES ASSUME NEW kind, kind = "insurance" PROVE FormFits(kind)
    OBVIOUS
  <1>1. Form!FormOf(kind) = [maturityDate |-> "date", policyType |-> "select",
                             sumAssured |-> "rupees"]
    BY <1>0 DEF Form!FormOf, Form!++, Form!Map
  <1>2. Form!Required(kind) = [policyType |-> "enum", sumAssured |-> "paise"]
    BY <1>0 DEF Form!Required, Form!++, Form!Map
  <1>3. Form!Optional(kind) = [maturityDate |-> "date"]
    BY <1>0 DEF Form!Optional, Form!Term, Form!Interest, Form!LotsToo, Form!++, Form!Map
  <1>4. Form!Schema(kind) = [policyType |-> "enum", sumAssured |-> "paise",
                             maturityDate |-> "date"]
    BY <1>0, <1>2, <1>3 DEF Form!Schema, Form!LiabilityKinds, Form!++, Form!Map, Form!Nothing
  <1>5. DOMAIN Form!FormOf(kind) = {"maturityDate", "policyType", "sumAssured"}
    BY <1>1
  <1>6. DOMAIN Form!Required(kind) = {"policyType", "sumAssured"}
    BY <1>2
  <1>7. FieldFits(kind, "maturityDate") /\ FieldFits(kind, "policyType") /\
        FieldFits(kind, "sumAssured")
    BY <1>1, <1>4 DEF FieldFits, Fit
  <1>8. DOMAIN Form!KindBase(kind) = {}
    BY <1>0, NoBase
  <1> QED
    BY <1>5, <1>6, <1>7, <1>8, FitFits DEF FormFits, FieldFits

LEMMA MoneyLentFits == \A kind : kind = "moneyLent" => FormFits(kind)
  <1>0. SUFFICES ASSUME NEW kind, kind = "moneyLent" PROVE FormFits(kind)
    OBVIOUS
  <1>1. Form!FormOf(kind) = [interestBps |-> "percent", counterparty |-> "text",
                             expectedBy |-> "date"]
    BY <1>0 DEF Form!FormOf, Form!++, Form!Map
  <1>2. Form!Required(kind) = [counterparty |-> "text"]
    BY <1>0 DEF Form!Required, Form!++, Form!Map
  <1>3. Form!Optional(kind) = [interestBps |-> "bps", expectedBy |-> "date"]
    BY <1>0 DEF Form!Optional, Form!Term, Form!Interest, Form!LotsToo, Form!++, Form!Map
  <1>4. Form!Schema(kind) = [counterparty |-> "text", interestBps |-> "bps",
                             expectedBy |-> "date"]
    BY <1>0, <1>2, <1>3 DEF Form!Schema, Form!LiabilityKinds, Form!++, Form!Map, Form!Nothing
  <1>5. DOMAIN Form!FormOf(kind) = {"interestBps", "counterparty", "expectedBy"}
    BY <1>1
  <1>6. DOMAIN Form!Required(kind) = {"counterparty"}
    BY <1>2
  <1>7. FieldFits(kind, "interestBps") /\ FieldFits(kind, "counterparty") /\
        FieldFits(kind, "expectedBy")
    BY <1>1, <1>4 DEF FieldFits, Fit
  <1>8. DOMAIN Form!KindBase(kind) = {}
    BY <1>0, NoBase
  <1> QED
    BY <1>5, <1>6, <1>7, <1>8, FitFits DEF FormFits, FieldFits

LEMMA SecurityDepositFits == \A kind : kind \in {"securityDeposit", "reimbursement"} => FormFits(kind)
  <1>0. SUFFICES ASSUME NEW kind, kind \in {"securityDeposit", "reimbursement"} PROVE FormFits(kind)
    OBVIOUS
  <1>1. Form!FormOf(kind) = [counterparty |-> "text"]
    BY <1>0 DEF Form!FormOf, Form!++, Form!Map
  <1>2. Form!Required(kind) = [counterparty |-> "text"]
    BY <1>0 DEF Form!Required, Form!++, Form!Map
  <1>3. Form!Optional(kind) = Form!Nothing
    BY <1>0 DEF Form!Optional, Form!Term, Form!Interest, Form!LotsToo, Form!++, Form!Map
  <1>4. Form!Schema(kind) = [counterparty |-> "text"]
    BY <1>0, <1>2, <1>3 DEF Form!Schema, Form!LiabilityKinds, Form!++, Form!Map, Form!Nothing
  <1>5. DOMAIN Form!FormOf(kind) = {"counterparty"}
    BY <1>1
  <1>6. DOMAIN Form!Required(kind) = {"counterparty"}
    BY <1>2
  <1>7. FieldFits(kind, "counterparty")
    BY <1>1, <1>4 DEF FieldFits, Fit
  <1>8. DOMAIN Form!KindBase(kind) = {}
    BY <1>0, NoBase
  <1> QED
    BY <1>5, <1>6, <1>7, <1>8, FitFits DEF FormFits, FieldFits

LEMMA ChitFundFits == \A kind : kind = "chitFund" => FormFits(kind)
  <1>0. SUFFICES ASSUME NEW kind, kind = "chitFund" PROVE FormFits(kind)
    OBVIOUS
  <1>1. Form!FormOf(kind) = [instalment |-> "rupees", monthsPaid |-> "int",
                             monthsTotal |-> "int"]
    BY <1>0 DEF Form!FormOf, Form!++, Form!Map
  <1>2. Form!Required(kind) = [instalment |-> "somePaise", monthsPaid |-> "int",
                               monthsTotal |-> "int"]
    BY <1>0 DEF Form!Required, Form!++, Form!Map
  <1>3. Form!Optional(kind) = Form!Nothing
    BY <1>0 DEF Form!Optional, Form!Term, Form!Interest, Form!LotsToo, Form!++, Form!Map
  <1>4. Form!Schema(kind) = [instalment |-> "somePaise", monthsPaid |-> "int",
                             monthsTotal |-> "int"]
    BY <1>0, <1>2, <1>3 DEF Form!Schema, Form!LiabilityKinds, Form!++, Form!Map, Form!Nothing
  <1>5. DOMAIN Form!FormOf(kind) = {"instalment", "monthsPaid", "monthsTotal"}
    BY <1>1
  <1>6. DOMAIN Form!Required(kind) = {"instalment", "monthsPaid", "monthsTotal"}
    BY <1>2
  <1>7. FieldFits(kind, "instalment") /\ FieldFits(kind, "monthsPaid") /\
        FieldFits(kind, "monthsTotal")
    BY <1>1, <1>4 DEF FieldFits, Fit
  <1>8. DOMAIN Form!KindBase(kind) = {}
    BY <1>0, NoBase
  <1> QED
    BY <1>5, <1>6, <1>7, <1>8, FitFits DEF FormFits, FieldFits

LEMMA LoanFits == \A kind : kind = "loan" => FormFits(kind)
  <1>0. SUFFICES ASSUME NEW kind, kind = "loan" PROVE FormFits(kind)
    OBVIOUS
  <1>1. Form!FormOf(kind) = [interestBps |-> "percent", loanType |-> "select",
                             emi |-> "rupees", tenureMonthsLeft |-> "int"]
    BY <1>0 DEF Form!FormOf, Form!++, Form!Map
  <1>2. Form!Required(kind) = [loanType |-> "enum"]
    BY <1>0 DEF Form!Required, Form!++, Form!Map
  <1>3. Form!OptionalOwed(kind) = [interestBps |-> "bps", emi |-> "somePaise",
                                 tenureMonthsLeft |-> "int", linkedAssetId |-> "id"]
    BY <1>0 DEF Form!OptionalOwed, Form!Interest, Form!LotsToo, Form!++, Form!Map
  <1>4. Form!Schema(kind) = [loanType |-> "enum", interestBps |-> "bps",
                             emi |-> "somePaise", tenureMonthsLeft |-> "int",
                             linkedAssetId |-> "id"]
    BY <1>0, <1>2, <1>3 DEF Form!Schema, Form!LiabilityKinds, Form!++, Form!Map, Form!Nothing
  <1>5. DOMAIN Form!FormOf(kind) = {"interestBps", "loanType", "emi", "tenureMonthsLeft"}
    BY <1>1
  <1>6. DOMAIN Form!Required(kind) = {"loanType"}
    BY <1>2
  <1>7. FieldFits(kind, "interestBps") /\ FieldFits(kind, "loanType") /\
        FieldFits(kind, "emi") /\ FieldFits(kind, "tenureMonthsLeft")
    BY <1>1, <1>4 DEF FieldFits, Fit
  <1>8. DOMAIN Form!KindBase(kind) = {}
    BY <1>0, NoBase
  <1> QED
    BY <1>5, <1>6, <1>7, <1>8, FitFits DEF FormFits, FieldFits

LEMMA CreditCardFits == \A kind : kind = "creditCard" => FormFits(kind)
  <1>0. SUFFICES ASSUME NEW kind, kind = "creditCard" PROVE FormFits(kind)
    OBVIOUS
  <1>1. Form!FormOf(kind) = [last4 |-> "text", dueDate |-> "date"]
    BY <1>0 DEF Form!FormOf, Form!++, Form!Map
  <1>2. Form!Required(kind) = Form!Nothing
    BY <1>0 DEF Form!Required, Form!++, Form!Map
  <1>3. Form!OptionalOwed(kind) = [interestBps |-> "bps", last4 |-> "text",
                                 dueDate |-> "date"]
    BY <1>0 DEF Form!OptionalOwed, Form!Interest, Form!LotsToo, Form!++, Form!Map
  <1>4. Form!Schema(kind) = [interestBps |-> "bps", last4 |-> "text", dueDate |-> "date"]
    BY <1>0, <1>2, <1>3 DEF Form!Schema, Form!LiabilityKinds, Form!++, Form!Map, Form!Nothing
  <1>5. DOMAIN Form!FormOf(kind) = {"last4", "dueDate"}
    BY <1>1
  <1>6. DOMAIN Form!Required(kind) = {}
    BY <1>2 DEF Form!Nothing, Form!Map
  <1>7. FieldFits(kind, "last4") /\ FieldFits(kind, "dueDate")
    BY <1>1, <1>4 DEF FieldFits, Fit
  <1>8. DOMAIN Form!KindBase(kind) = {}
    BY <1>0, NoBase
  <1> QED
    BY <1>5, <1>6, <1>7, <1>8, FitFits DEF FormFits, FieldFits

LEMMA BorrowingFits == \A kind : kind = "borrowing" => FormFits(kind)
  <1>0. SUFFICES ASSUME NEW kind, kind = "borrowing" PROVE FormFits(kind)
    OBVIOUS
  <1>1. Form!FormOf(kind) = [interestBps |-> "percent", counterparty |-> "text",
                             repayBy |-> "date"]
    BY <1>0 DEF Form!FormOf, Form!++, Form!Map
  <1>2. Form!Required(kind) = [counterparty |-> "text"]
    BY <1>0 DEF Form!Required, Form!++, Form!Map
  <1>3. Form!OptionalOwed(kind) = [interestBps |-> "bps", repayBy |-> "date"]
    BY <1>0 DEF Form!OptionalOwed, Form!Interest, Form!LotsToo, Form!++, Form!Map
  <1>4. Form!Schema(kind) = [counterparty |-> "text", interestBps |-> "bps",
                             repayBy |-> "date"]
    BY <1>0, <1>2, <1>3 DEF Form!Schema, Form!LiabilityKinds, Form!++, Form!Map, Form!Nothing
  <1>5. DOMAIN Form!FormOf(kind) = {"interestBps", "counterparty", "repayBy"}
    BY <1>1
  <1>6. DOMAIN Form!Required(kind) = {"counterparty"}
    BY <1>2
  <1>7. FieldFits(kind, "interestBps") /\ FieldFits(kind, "counterparty") /\
        FieldFits(kind, "repayBy")
    BY <1>1, <1>4 DEF FieldFits, Fit
  <1>8. DOMAIN Form!KindBase(kind) = {}
    BY <1>0, NoBase
  <1> QED
    BY <1>5, <1>6, <1>7, <1>8, FitFits DEF FormFits, FieldFits

LEMMA FormsFit == \A kind : FormFits(kind)
  <1> TAKE kind
  <1>1. CASE kind \notin {"bankAccount", "foreignBank", "fixedDeposit", "recurringDeposit",
                        "mutualFund", "stock", "crypto", "usStock", "bond", "unlisted",
                        "realEstate", "vehicle", "rsu", "ppf", "sukanyaSamriddhi", "epf",
                        "nps", "employerBenefit", "smallSavings", "preciousMetal",
                        "insurance", "moneyLent", "securityDeposit", "reimbursement",
                        "chitFund", "loan", "creditCard", "borrowing"}
    <2>1. Form!FormOf(kind) = Form!Nothing /\ Form!Required(kind) = Form!Nothing
      BY <1>1 DEF Form!FormOf, Form!Required
    <2>2. DOMAIN Form!FormOf(kind) = {} /\ DOMAIN Form!Required(kind) = {}
      BY <2>1, NoFields
    <2>3. DOMAIN Form!KindBase(kind) = {}
      BY <1>1, NoBase
    <2> QED
      BY <2>2, <2>3 DEF FormFits
  <1>2. CASE kind = "bankAccount"
    BY <1>2, BankAccountFits
  <1>3. CASE kind = "foreignBank"
    BY <1>3, ForeignBankFits
  <1>4. CASE kind = "fixedDeposit"
    BY <1>4, FixedDepositFits
  <1>5. CASE kind = "recurringDeposit"
    BY <1>5, RecurringDepositFits
  <1>6. CASE kind = "mutualFund"
    BY <1>6, MutualFundFits
  <1>7. CASE kind \in {"stock", "crypto", "usStock"}
    BY <1>7, StockFits
  <1>8. CASE kind = "bond"
    BY <1>8, BondFits
  <1>9. CASE kind = "unlisted"
    BY <1>9, UnlistedFits
  <1>10. CASE kind = "realEstate"
    BY <1>10, RealEstateFits
  <1>11. CASE kind = "vehicle"
    BY <1>11, VehicleFits
  <1>12. CASE kind = "rsu"
    BY <1>12, RsuFits
  <1>13. CASE kind = "ppf"
    BY <1>13, PpfFits
  <1>14. CASE kind = "sukanyaSamriddhi"
    BY <1>14, SukanyaSamriddhiFits
  <1>15. CASE kind = "epf"
    BY <1>15, EpfFits
  <1>16. CASE kind = "nps"
    BY <1>16, NpsFits
  <1>17. CASE kind = "employerBenefit"
    BY <1>17, EmployerBenefitFits
  <1>18. CASE kind = "smallSavings"
    BY <1>18, SmallSavingsFits
  <1>19. CASE kind = "preciousMetal"
    BY <1>19, PreciousMetalFits
  <1>20. CASE kind = "insurance"
    BY <1>20, InsuranceFits
  <1>21. CASE kind = "moneyLent"
    BY <1>21, MoneyLentFits
  <1>22. CASE kind \in {"securityDeposit", "reimbursement"}
    BY <1>22, SecurityDepositFits
  <1>23. CASE kind = "chitFund"
    BY <1>23, ChitFundFits
  <1>24. CASE kind = "loan"
    BY <1>24, LoanFits
  <1>25. CASE kind = "creditCard"
    BY <1>25, CreditCardFits
  <1>26. CASE kind = "borrowing"
    BY <1>26, BorrowingFits
  <1> QED
    BY <1>1, <1>2, <1>3, <1>4, <1>5, <1>6, <1>7, <1>8, <1>9, <1>10, <1>11, <1>12, <1>13,
       <1>14, <1>15, <1>16, <1>17, <1>18, <1>19, <1>20, <1>21, <1>22, <1>23, <1>24, <1>25,
       <1>26

(* NumbersAreKept: a number that is stored, shown, typed or fetched is read back as it is,  *)
(* however many places it has, and every form asks for what its kind stores.                *)
THEOREM NumbersAreKeptAlways == MCSpec => []NumbersAreKept
  <1>1. FormsFitSchemas
    BY FormsFit DEF FormsFitSchemas, FormFits, FitsIn
  <1>2. NumbersInv => NumbersAreKept
    BY <1>1, TextDoesRoundTrip, PriceDoesRound DEF NumbersAreKept
  <1> QED
    BY <1>2, NumbersInvariant, PTL

(* The price lists but one, and what is then found.                               *)
Lacking(lists, s) == [t \in DOMAIN lists \ {s} |-> lists[t]]

LEMMA QuotesWithout ==
    ASSUME NEW lists, NEW s, NEW instrument
    PROVE  /\ s = instrument.source => Worth!Lookup(Lacking(lists, s), instrument) = Null
           /\ s # instrument.source =>
                 Worth!Lookup(Lacking(lists, s), instrument) = Worth!Lookup(lists, instrument)
  <1> DEFINE less == Lacking(lists, s)
  <1>1. DOMAIN less = DOMAIN lists \ {s} /\ \A t \in DOMAIN less : less[t] = lists[t]
    BY DEF Lacking
  <1> HIDE DEF less
  <1>2. CASE s = instrument.source
    BY <1>1, <1>2 DEF Worth!Lookup, less
  <1>3. CASE s # instrument.source
    <2>1. CASE instrument.source \in DOMAIN lists
      <3>1. instrument.source \in DOMAIN less /\ less[instrument.source] = lists[instrument.source]
        BY <1>1, <1>3, <2>1
      <3> QED
        BY <1>3, <2>1, <3>1 DEF Worth!Lookup, less
    <2>2. CASE instrument.source \notin DOMAIN lists
      BY <1>1, <1>3, <2>2 DEF Worth!Lookup, less
    <2> QED
      BY <2>1, <2>2
  <1> QED
    BY <1>2, <1>3 DEF less

LEMMA RatesWithout ==
    ASSUME NEW lists, NEW s, NEW currency
    PROVE  /\ s = "fx" /\ currency # "INR" => Worth!FxRate(Lacking(lists, s), currency) = Null
           /\ s # "fx" \/ currency = "INR" =>
                 Worth!FxRate(Lacking(lists, s), currency) = Worth!FxRate(lists, currency)
  <1>1. /\ DOMAIN Lacking(lists, s) = DOMAIN lists \ {s}
        /\ \A t \in DOMAIN lists \ {s} : Lacking(lists, s)[t] = lists[t]
    BY DEF Lacking
  <1>2. CASE currency = "INR"
    BY <1>2 DEF Worth!FxRate
  <1>3. CASE currency # "INR" /\ s = "fx"
    BY <1>1, <1>3 DEF Worth!FxRate
  <1>4. CASE currency # "INR" /\ s # "fx" /\ "fx" \in DOMAIN lists
    <2>1. "fx" \in DOMAIN Lacking(lists, s) /\ Lacking(lists, s).fx = lists.fx
      BY <1>1, <1>4
    <2> QED
      BY <1>4, <2>1 DEF Worth!FxRate
  <1>5. CASE currency # "INR" /\ s # "fx" /\ "fx" \notin DOMAIN lists
    BY <1>1, <1>5 DEF Worth!FxRate
  <1> QED
    BY <1>2, <1>3, <1>4, <1>5

(* The lists a valuation is made from: without one of them it is not made, without *)
(* any other it is the same.                                                    *)
MadeFrom(a, lists, now, used) ==
    /\ used \subseteq DOMAIN lists
    /\ Worth!ValuationOf(a, lists, now).stale
          <=> \E s \in used : now - lists[s].fetchedAt > StaleAfter
    /\ \A s \in used : Worth!ValuationOf(a, Lacking(lists, s), now).source # "market"
    /\ \A s \in DOMAIN lists \ used :
          Worth!ValuationOf(a, Lacking(lists, s), now).source = "market"

LEMMA PricedIsMadeFrom ==
    ASSUME NEW a, SoundAsset(a), a.kind \in Worth!PricedKinds, NEW lists, NEW now,
           Worth!ValuationOf(a, lists, now).source = "market"
    PROVE  \E used : MadeFrom(a, lists, now, used)
  <1> DEFINE from  == a.instrument.source
             Quote(l) == Worth!Lookup(l, a.instrument)
             quote == Quote(lists)
             cur   == quote.currency
             fx    == Worth!FxRate(lists, cur)
             amount == Worth!MarketValue(a.quantity, quote.price, fx)
             Files(l) == {l[from]} \cup Worth!FxFile(l, cur)
             used  == {from} \cup (IF cur = "INR" THEN {} ELSE {"fx"})
             V(l)  == Worth!ValuationOf(a, l, now)
  <1>1. ASSUME NEW l
        PROVE  /\ Quote(l) = Null => V(l) = Worth!Manual(a, TRUE)
               /\ Quote(l) # Null /\ Worth!FxRate(l, Quote(l).currency) = Null =>
                     V(l) = Worth!Manual(a, TRUE)
               /\ Quote(l) = quote /\ Quote(l) # Null
                  /\ Worth!FxRate(l, cur) = fx /\ fx # Null =>
                     V(l) = Worth!Market(a, amount, quote.date, now, Files(l))
    <2>1. V(l) = Worth!Priced(a, l, now)
      BY DEF Worth!ValuationOf, Worth!PricedKinds
    <2>2. V(l) = IF Quote(l) = Null \/ Worth!FxRate(l, Quote(l).currency) = Null
                 THEN Worth!Manual(a, TRUE)
                 ELSE Worth!Market(a, Worth!MarketValue(a.quantity, Quote(l).price,
                                                        Worth!FxRate(l, Quote(l).currency)),
                                   Quote(l).date, now,
                                   {l[from]} \cup Worth!FxFile(l, Quote(l).currency))
      BY <2>1, Zenon DEF Worth!Priced
    <2> HIDE DEF V
    <2>3. CASE Quote(l) = quote /\ Quote(l) # Null /\ Worth!FxRate(l, cur) = fx /\ fx # Null
      BY <2>2, <2>3, Zenon
    <2> QED
      BY <2>2, <2>3
  <1>2. Worth!Manual(a, TRUE).source = "manual"
    BY ManualIs
  <1>3. quote # Null /\ fx # Null /\ V(lists) = Worth!Market(a, amount, quote.date, now, Files(lists))
    <2> HIDE DEF V, Quote, quote, cur, fx, amount, Files
    <2>1. V(lists).source = "market" /\ quote = Quote(lists) /\ cur = quote.currency
          /\ fx = Worth!FxRate(lists, cur)
      BY ZenonT(20) DEF V, Quote, quote, cur, fx
    <2> QED
      BY <1>1, <1>2, <2>1, ZenonT(20)
  <1>4. from \in DOMAIN lists /\ (cur # "INR" => "fx" \in DOMAIN lists)
    BY <1>3 DEF Worth!Lookup, Worth!FxRate
  <1>5. amount # Null
    <2> HIDE DEF V, Quote, quote, cur, fx, amount, Files
    <2>1. V(lists).source = "market"
      BY DEF V
    <2> QED
      BY <1>2, <1>3, <2>1 DEF Worth!Market
  <1>6. ASSUME NEW files
        PROVE  /\ Worth!Market(a, amount, quote.date, now, files).source = "market"
               /\ Worth!Market(a, amount, quote.date, now, files).stale = Worth!IsStale(now, files)
    <2> HIDE DEF amount, quote
    <2> QED
      BY <1>5 DEF Worth!Market
  <1>7. V(lists).stale <=> \E s \in used : now - lists[s].fetchedAt > StaleAfter
    <2>1. V(lists).stale = Worth!IsStale(now, Files(lists))
      <3> HIDE DEF V, amount, quote, Files
      <3> QED
        BY <1>3, <1>6
    <2>2. Files(lists) = {lists[s] : s \in used}
      <3> HIDE DEF quote, cur
      <3>1. CASE cur = "INR"
        BY <3>1 DEF Worth!FxFile
      <3>2. CASE cur # "INR"
        BY <3>2 DEF Worth!FxFile
      <3> QED
        BY <3>1, <3>2
    <2> HIDE DEF V, Files, used
    <2>3. Worth!IsStale(now, Files(lists)) <=> \E s \in used : now - lists[s].fetchedAt > StaleAfter
      BY <2>2 DEF Worth!IsStale
    <2> QED
      BY <2>1, <2>3
  <1>8. \A s \in used : V(Lacking(lists, s)).source # "market"
    <2> TAKE s \in used
    <2>1. CASE s = from
      <3>1. Quote(Lacking(lists, s)) = Null
        BY <2>1, QuotesWithout
      <3> HIDE DEF V, Quote
      <3> QED
        BY <1>1, <1>2, <3>1
    <2>2. CASE s # from
      <3>1. s = "fx" /\ cur # "INR"
        BY <2>2
      <3>2. Quote(Lacking(lists, s)) = quote
        BY <2>2, QuotesWithout
      <3>3. Worth!FxRate(Lacking(lists, s), cur) = Null
        <4> HIDE DEF cur
        <4> QED
          BY <3>1, RatesWithout
      <3>4. Quote(Lacking(lists, s)).currency = cur
        <4> HIDE DEF Quote, quote
        <4> QED
          BY <3>2
      <3> HIDE DEF V, Quote, quote, cur
      <3> QED
        BY <1>1, <1>2, <1>3, <3>2, <3>3, <3>4
    <2> QED
      BY <2>1, <2>2
  <1>9. \A s \in DOMAIN lists \ used : V(Lacking(lists, s)).source = "market"
    <2> TAKE s \in DOMAIN lists \ used
    <2>1. s # from /\ (s # "fx" \/ cur = "INR")
      OBVIOUS
    <2>2. Quote(Lacking(lists, s)) = quote
      BY <2>1, QuotesWithout
    <2>3. Worth!FxRate(Lacking(lists, s), cur) = fx
      <3> HIDE DEF cur
      <3> QED
        BY <2>1, RatesWithout
    <2> HIDE DEF V, Quote, quote, cur, fx, amount, Files
    <2> QED
      BY <1>1, <1>3, <1>6, <2>2, <2>3
  <1>10. used \subseteq DOMAIN lists
    BY <1>4
  <1> HIDE DEF used
  <1> QED
    BY <1>7, <1>8, <1>9, <1>10 DEF MadeFrom
LEMMA ForeignIsMadeFrom ==
    ASSUME NEW a, SoundAsset(a), a.kind = "foreignBank", NEW lists, NEW now,
           Worth!ValuationOf(a, lists, now).source = "market"
    PROVE  \E used : MadeFrom(a, lists, now, used)
  <1> DEFINE cur   == a.currency
             fx    == Worth!FxRate(lists, cur)
             amount(r) == Worth!MarketValue((a.balanceMinor * UnitScale) \div 100, r, Worth!INR)
             V(l)  == Worth!ValuationOf(a, l, now)
  <1>1. ASSUME NEW l
        PROVE  V(l) = IF Worth!FxRate(l, cur) = Null \/ cur = "INR" THEN Worth!Manual(a, TRUE)
                      ELSE Worth!Market(a, amount(Worth!FxRate(l, cur)), l.fx.date, now, {l.fx})
    <2>1. V(l) = Worth!ForeignBank(a, l, now)
      BY DEF Worth!ValuationOf, Worth!PricedKinds
    <2> QED
      BY <2>1, Zenon DEF Worth!ForeignBank
  <1>2. Worth!Manual(a, TRUE).source = "manual"
    BY ManualIs
  <1> HIDE DEF V, amount
  <1>3. /\ fx # Null /\ cur # "INR"
        /\ V(lists) = Worth!Market(a, amount(fx), lists.fx.date, now, {lists.fx})
    <2>1. V(lists).source = "market"
      BY DEF V
    <2> HIDE DEF fx, cur
    <2>2. V(lists) = IF fx = Null \/ cur = "INR" THEN Worth!Manual(a, TRUE)
                     ELSE Worth!Market(a, amount(fx), lists.fx.date, now, {lists.fx})
      BY <1>1 DEF fx
    <2> QED
      BY <1>2, <2>1, <2>2
  <1>4. "fx" \in DOMAIN lists
    BY <1>3 DEF Worth!FxRate
  <1> HIDE DEF fx, cur
  <1>5. amount(fx) # Null
    <2>1. V(lists).source = "market"
      BY DEF V
    <2> QED
      BY <1>2, <1>3, <2>1 DEF Worth!Market
  <1>6. ASSUME NEW date, NEW files
        PROVE  /\ Worth!Market(a, amount(fx), date, now, files).source = "market"
               /\ Worth!Market(a, amount(fx), date, now, files).stale = Worth!IsStale(now, files)
    BY <1>5 DEF Worth!Market
  <1>7. V(lists).stale <=> \E s \in {"fx"} : now - lists[s].fetchedAt > StaleAfter
    <2>1. V(lists).stale = Worth!IsStale(now, {lists.fx})
      BY <1>3, <1>6
    <2> QED
      BY <2>1 DEF Worth!IsStale
  <1>8. \A s \in {"fx"} : V(Lacking(lists, s)).source # "market"
    <2> TAKE s \in {"fx"}
    <2>1. Worth!FxRate(Lacking(lists, s), cur) = Null
      BY <1>3, RatesWithout
    <2> QED
      BY <1>1, <1>2, <2>1
  <1>9. \A s \in DOMAIN lists \ {"fx"} : V(Lacking(lists, s)).source = "market"
    <2> TAKE s \in DOMAIN lists \ {"fx"}
    <2>1. Worth!FxRate(Lacking(lists, s), cur) = fx
      BY RatesWithout DEF fx
    <2> QED
      BY <1>1, <1>3, <1>6, <2>1
  <1> QED
    BY <1>4, <1>7, <1>8, <1>9 DEF MadeFrom, V

LEMMA MetalIsMadeFrom ==
    ASSUME NEW a, SoundAsset(a), a.kind = "preciousMetal", NEW lists, NEW now,
           Worth!ValuationOf(a, lists, now).source = "market"
    PROVE  \E used : MadeFrom(a, lists, now, used)
  <1> DEFINE code  == IF a.metal = "gold" THEN "gold999" ELSE "silver999"
             karat == IF a.metal = "gold" /\ a.karat # Null THEN a.karat ELSE 24
             none(l) == \/ a.weightMg = Null \/ "metal" \notin DOMAIN l
                        \/ code \notin DOMAIN l.metal.prices
             amount(file) == Worth!MetalValue(a.weightMg, karat, file.prices[code])
             V(l)  == Worth!ValuationOf(a, l, now)
  <1>1. ASSUME NEW l
        PROVE  V(l) = IF none(l) THEN Worth!Manual(a, TRUE)
                      ELSE Worth!Market(a, amount(l.metal), Worth!DateOf(l.metal, code), now, {l.metal})
    <2>1. V(l) = Worth!Metal(a, l, now)
      BY DEF Worth!ValuationOf, Worth!PricedKinds
    <2> QED
      BY <2>1, Zenon DEF Worth!Metal
  <1>2. Worth!Manual(a, TRUE).source = "manual"
    BY ManualIs
  <1>a. \A l : "metal" \notin DOMAIN l => none(l)
    OBVIOUS
  <1>b. \A l : l.metal = lists.metal /\ "metal" \in DOMAIN l /\ ~none(lists) => ~none(l)
    OBVIOUS
  <1>3. ~none(lists) /\ "metal" \in DOMAIN lists
    <2>1. V(lists).source = "market"
      OBVIOUS
    <2> HIDE DEF V, none, amount, code
    <2> QED
      BY <1>1, <1>2, <1>a, <2>1
  <1> HIDE DEF V, amount, none, code
  <1>4. V(lists) = Worth!Market(a, amount(lists.metal), Worth!DateOf(lists.metal, code), now, {lists.metal})
    BY <1>1, <1>3
  <1>5. amount(lists.metal) # Null
    <2>1. V(lists).source = "market"
      BY DEF V
    <2> QED
      BY <1>2, <1>4, <2>1 DEF Worth!Market
  <1>6. ASSUME NEW date, NEW files
        PROVE  /\ Worth!Market(a, amount(lists.metal), date, now, files).source = "market"
               /\ Worth!Market(a, amount(lists.metal), date, now, files).stale
                     = Worth!IsStale(now, files)
    BY <1>5 DEF Worth!Market
  <1>7. V(lists).stale <=> \E s \in {"metal"} : now - lists[s].fetchedAt > StaleAfter
    <2>1. V(lists).stale = Worth!IsStale(now, {lists.metal})
      BY <1>4, <1>6
    <2> QED
      BY <2>1 DEF Worth!IsStale
  <1>8. \A s \in {"metal"} : V(Lacking(lists, s)).source # "market"
    <2> TAKE s \in {"metal"}
    <2>1. none(Lacking(lists, s))
      BY <1>a DEF Lacking
    <2> QED
      BY <1>1, <1>2, <2>1
  <1>9. \A s \in DOMAIN lists \ {"metal"} : V(Lacking(lists, s)).source = "market"
    <2> TAKE s \in DOMAIN lists \ {"metal"}
    <2>1. Lacking(lists, s).metal = lists.metal /\ "metal" \in DOMAIN Lacking(lists, s)
      BY <1>3 DEF Lacking
    <2>2. ~none(Lacking(lists, s))
      BY <1>3, <1>b, <2>1
    <2>3. V(Lacking(lists, s)) = Worth!Market(a, amount(lists.metal), Worth!DateOf(lists.metal, code),
                                              now, {lists.metal})
      BY <1>1, <2>1, <2>2
    <2> QED
      BY <1>6, <2>3
  <1> QED
    BY <1>3, <1>7, <1>8, <1>9 DEF MadeFrom, V

(* A value is stale exactly when a list it was made from is.                        *)
LEMMA StaleShows == ValuesInv => StaleIffInfluenced
  <1> SUFFICES ASSUME ValuesInv, side = "values", NEW i \in DOMAIN input.assets,
                      Worth!ValuationOf(input.assets[i], input.universes, Now).source = "market"
               PROVE  Worth!ValuationOf(input.assets[i], input.universes, Now).stale <=>
                         \E s \in DOMAIN input.universes :
                             /\ Worth!ValuationOf(input.assets[i],
                                    [t \in DOMAIN input.universes \ {s} |-> input.universes[t]], Now).source # "market"
                             /\ Now - input.universes[s].fetchedAt > StaleAfter
    BY DEF StaleIffInfluenced
  <1>1. PICK a, lists : a = input.assets[i] /\ lists = input.universes
    OBVIOUS
  <1>2. SoundAsset(a)
    <2>1. input.assets \in Seq(Assets)
      BY DEF ValuesInv
    <2>2. input.assets[i] \in Assets
      BY <2>1
    <2> QED
      BY <1>1, <2>2, ValuesAssumption
  <1>3. Worth!ValuationOf(a, lists, Now).source = "market"
    BY <1>1
  <1>4. \E used : MadeFrom(a, lists, Now, used)
    <2>1. CASE a.kind \in Worth!PricedKinds
      BY <1>2, <1>3, <2>1, PricedIsMadeFrom
    <2>2. CASE a.kind = "foreignBank"
      BY <1>2, <1>3, <2>2, ForeignIsMadeFrom
    <2>3. CASE a.kind = "preciousMetal"
      BY <1>2, <1>3, <2>3, MetalIsMadeFrom
    <2>4. CASE ~(a.kind \in Worth!PricedKinds \/ a.kind = "foreignBank" \/ a.kind = "preciousMetal")
      <3>1. Worth!ValuationOf(a, lists, Now) = Worth!Manual(a, FALSE)
        BY <2>4 DEF Worth!ValuationOf
      <3> QED
        BY <1>2, <1>3, <3>1, ManualIs
    <2> QED
      BY <2>1, <2>2, <2>3, <2>4
  <1>5. PICK used : MadeFrom(a, lists, Now, used)
    BY <1>4
  <1>6. Worth!ValuationOf(a, lists, Now).stale <=>
           \E s \in DOMAIN lists : /\ Worth!ValuationOf(a, Lacking(lists, s), Now).source # "market"
                                   /\ Now - lists[s].fetchedAt > StaleAfter
    BY <1>5 DEF MadeFrom
  <1> QED
    BY <1>1, <1>6 DEF Lacking

------------------------------------------------------------------------------
(* The form of a record.                                                       *)

(* A field the schema of a kind always sets is one it requires.                  *)
LEMMA BaseIsRequired == \A kind : DOMAIN Form!KindBase(kind) \subseteq DOMAIN Form!Required(kind)
  <1> TAKE kind
  <1>1. CASE kind = "realEstate"
    BY <1>1 DEF Form!KindBase, Form!Required
  <1>2. CASE kind # "realEstate"
    BY <1>2, NoBase
  <1> QED
    BY <1>1, <1>2

(* So is whatever is chosen rather than typed.                                   *)
LEMMA ChosenIsRequired ==
    \A kind : \A k \in DOMAIN Form!FormFields(kind) :
        Form!FormFields(kind)[k] \in Form!Chosen => k \in DOMAIN Form!Required(kind)
  <1> TAKE kind
  <1>1. SUFFICES \A k \in DOMAIN Form!FormOf(kind) :
                     Form!FormOf(kind)[k] \in Form!Chosen => k \in DOMAIN Form!Required(kind)
    BY DEF Form!FormFields, Form!++, Form!LotsToo, Form!Nothing, Form!Map, Form!Chosen
  <1> USE DEF Form!++, Form!Map, Form!Chosen, Form!Nothing, Form!FormOf, Form!Required
  <1>2. CASE kind \in {"bankAccount", "nps", "epf", "smallSavings"}
    BY <1>2
  <1>3. CASE kind = "fixedDeposit"
    BY <1>3
  <1>4. CASE kind \in {"employerBenefit", "bond", "mutualFund"}
    BY <1>4
  <1>5. CASE kind = "rsu"
    BY <1>5
  <1>6. CASE kind \in {"preciousMetal", "insurance", "loan"}
    BY <1>6
  <1>7. CASE kind \in {"foreignBank", "recurringDeposit", "stock", "crypto", "usStock", "unlisted"}
    BY <1>7
  <1>8. CASE kind \in {"ppf", "sukanyaSamriddhi", "realEstate", "vehicle", "moneyLent"}
    BY <1>8
  <1>9. CASE kind \in {"securityDeposit", "reimbursement", "chitFund", "creditCard", "borrowing"}
    BY <1>9
  <1>10. CASE kind \notin {"bankAccount", "nps", "epf", "smallSavings", "fixedDeposit",
                           "employerBenefit", "bond", "mutualFund", "rsu", "preciousMetal",
                           "insurance", "loan", "foreignBank", "recurringDeposit", "stock",
                           "crypto", "usStock", "unlisted", "ppf", "sukanyaSamriddhi",
                           "realEstate", "vehicle", "moneyLent", "securityDeposit",
                           "reimbursement", "chitFund", "creditCard", "borrowing"}
    BY <1>10
  <1> QED
    BY <1>2, <1>3, <1>4, <1>5, <1>6, <1>7, <1>8, <1>9, <1>10, ZenonT(30)

(* What a form makes of its inputs and the record it edits, if any.               *)
FilledIn(inputs) == {k \in DOMAIN inputs : inputs[k] # Form!Blank}

LeftOut(kind, inputs, stored_) == (DOMAIN stored_ \cup DOMAIN Form!KindBase(kind)) \ DOMAIN inputs

ReadsAs(f, kind, inputs, stored_) ==
    /\ DOMAIN f = FilledIn(inputs) \cup LeftOut(kind, inputs, stored_)
    /\ f = [k \in DOMAIN f |-> f[k]]
    /\ \A k \in FilledIn(inputs) : f[k] = inputs[k]
    /\ \A k \in LeftOut(kind, inputs, stored_) :
          f[k] = IF k \in DOMAIN stored_ THEN stored_[k] ELSE 1

LEMMA ReadFieldsAre ==
    ASSUME NEW kind, NEW inputs, NEW stored_
    PROVE  ReadsAs(Form!ReadFields(kind, inputs, stored_), kind, inputs, stored_)
  <1>1. \A k \in LeftOut(kind, inputs, stored_) : k \notin FilledIn(inputs)
    BY DEF LeftOut, FilledIn
  <1> QED
    BY <1>1 DEF Form!ReadFields, Form!++, ReadsAs, FilledIn, LeftOut

LEMMA ShownIsKept ==
    ASSUME FormInv, form # Null, Form!Valid(Form!FormData)
    PROVE  SoundData(Form!FormData) /\ Form!FormData.kind \in Kinds
  <1> DEFINE stored_ == IF form.editing THEN live ELSE Form!Empty(form.kind)
             f      == Form!ReadFields(form.kind, form.inputs, stored_.fields)
             data   == Form!FormData
  <1>1. /\ data = [kind |-> data.kind, fields |-> data.fields, value |-> data.value,
                   fixed |-> data.fixed, percent |-> data.percent]
        /\ data.kind = form.kind /\ data.fields = f
    BY DEF Form!FormData
  <1>2. form.kind \in Kinds
    BY DEF FormInv
  <1>3. \A k \in DOMAIN stored_.fields : stored_.fields[k] # Form!Blank
    <2>1. CASE form.editing
      BY <2>1 DEF FormInv, SoundData
    <2>2. CASE ~form.editing
      BY <2>2 DEF Form!Empty, Form!None
    <2> QED
      BY <2>1, <2>2
  <1>4. ReadsAs(f, form.kind, form.inputs, stored_.fields)
    BY ReadFieldsAre
  <1>5. f = [k \in DOMAIN f |-> f[k]]
    BY <1>4, Zenon DEF ReadsAs
  <1>6. \A k \in DOMAIN f : f[k] # Form!Blank
    <2>1. \A k \in FilledIn(form.inputs) : form.inputs[k] # Form!Blank
      BY DEF FilledIn
    <2>2. 1 # Form!Blank
      BY DEF Form!Blank
    <2> HIDE DEF f
    <2> QED
      BY <1>3, <1>4, <2>1, <2>2 DEF ReadsAs
  <1> HIDE DEF f, data
  <1> QED
    BY <1>1, <1>2, <1>5, <1>6 DEF SoundData, data

LEMMA FormStarts == MCInit => FormInv
  <1> SUFFICES ASSUME MCInit PROVE FormInv
    OBVIOUS
  <1>1. live \in {Null} \cup AllVersions /\ form = Null /\ pending = Null
    BY DEF MCInit, FormInit
  <1>2. Form!Readable => SoundData(live) /\ live.kind \in Kinds
    <2> SUFFICES ASSUME Form!Readable PROVE SoundData(live) /\ live.kind \in Kinds
      OBVIOUS
    <2>1. live \in AllVersions
      BY <1>1 DEF Form!Readable
    <2>2. PICK kind \in Kinds : live \in Versions(kind)
      BY <2>1 DEF AllVersions
    <2> QED
      BY <2>2, FormAssumption
  <1> QED
    BY <1>1, <1>2 DEF FormInv

(* What opens, whether new or stored.                                             *)
LEMMA FormsAre ==
    ASSUME NEW data, NEW editing
    PROVE  LET new == Form!FormFor(data, editing)
           IN  /\ new = [editing |-> editing, kind |-> data.kind, value |-> data.value,
                         inputs |-> new.inputs, tags |-> data.percent]
               /\ new.inputs = [k \in DOMAIN Form!FormFields(data.kind) |-> new.inputs[k]]
               /\ new.inputs = Form!FieldInputs(data.kind, data.fields)
  BY DEF Form!FormFor, Form!FieldInputs

LEMMA OpeningKeeps ==
    ASSUME FormInv, Form!OpenNew \/ Form!OpenEdit
    PROVE  FormInv'
  <1>1. PICK data, editing : /\ form' = Form!FormFor(data, editing) /\ editing \in BOOLEAN
                             /\ data.kind \in Kinds
                             /\ editing => Form!Readable /\ data = live
    <2>1. CASE Form!OpenNew
      <3>1. PICK kind \in Kinds : form' = Form!FormFor(Form!Empty(kind), FALSE)
        BY <2>1 DEF Form!OpenNew
      <3>2. Form!Empty(kind).kind = kind
        BY DEF Form!Empty
      <3> QED
        BY <3>1, <3>2
    <2>2. CASE Form!OpenEdit
      <3>1. form' = Form!FormFor(live, TRUE) /\ Form!Readable
        BY <2>2 DEF Form!OpenEdit
      <3>2. live.kind \in Kinds
        BY <3>1 DEF FormInv
      <3> QED
        BY <3>1, <3>2
    <2> QED
      BY <2>1, <2>2
  <1>2. UNCHANGED <<live, pending>>
    BY DEF Form!OpenNew, Form!OpenEdit
  <1>3. PICK new : new = Form!FormFor(data, editing)
    OBVIOUS
  <1>4. /\ new = [editing |-> editing, kind |-> data.kind, value |-> data.value,
                  inputs |-> new.inputs, tags |-> data.percent]
        /\ new.inputs = [k \in DOMAIN Form!FormFields(data.kind) |-> new.inputs[k]]
    BY <1>3, FormsAre
  <1>5. /\ new = [editing |-> new.editing, kind |-> new.kind, value |-> new.value,
                  inputs |-> new.inputs, tags |-> new.tags]
        /\ new.kind = data.kind /\ new.editing = editing
    BY <1>4
  <1>6. form' = new
    BY <1>1, <1>3
  <1>7. Form!Readable' <=> Form!Readable
    BY <1>2 DEF Form!Readable
  <1> QED
    BY <1>1, <1>2, <1>4, <1>5, <1>6, <1>7 DEF FormInv

LEMMA TypingKeeps ==
    ASSUME FormInv, Form!Type
    PROVE  FormInv'
  <1>1. form # Null /\ UNCHANGED <<live, goals, pending>>
    BY DEF Form!Type
  <1>2. /\ form = [editing |-> form.editing, kind |-> form.kind, value |-> form.value,
                   inputs |-> form.inputs, tags |-> form.tags]
        /\ form.kind \in Kinds
        /\ form.inputs = [k \in DOMAIN Form!FormFields(form.kind) |-> form.inputs[k]]
        /\ form.editing => Form!Readable /\ live.kind = form.kind
    BY <1>1 DEF FormInv
  <1>3. PICK value, inputs, tags :
           /\ form' = [editing |-> form.editing, kind |-> form.kind, value |-> value,
                       inputs |-> inputs, tags |-> tags]
           /\ inputs = [k \in DOMAIN Form!FormFields(form.kind) |-> inputs[k]]
    <2>1. \/ \E v : form' = [form EXCEPT !.value = v]
          \/ \E k, c : form' = [form EXCEPT !.inputs[k] = c]
          \/ \E t : form' = [form EXCEPT !.tags = t]
      BY DEF Form!Type
    <2>2. ASSUME NEW v, form' = [form EXCEPT !.value = v]
          PROVE  form' = [editing |-> form.editing, kind |-> form.kind, value |-> v,
                          inputs |-> form.inputs, tags |-> form.tags]
      BY <1>2, <2>2
    <2>3. ASSUME NEW t, form' = [form EXCEPT !.tags = t]
          PROVE  form' = [editing |-> form.editing, kind |-> form.kind, value |-> form.value,
                          inputs |-> form.inputs, tags |-> t]
      BY <1>2, <2>3
    <2>4. ASSUME NEW k, NEW c, form' = [form EXCEPT !.inputs[k] = c]
          PROVE  \E i : /\ form' = [editing |-> form.editing, kind |-> form.kind,
                                    value |-> form.value, inputs |-> i, tags |-> form.tags]
                        /\ i = [l \in DOMAIN Form!FormFields(form.kind) |-> i[l]]
      <3>1. PICK i : i = [form.inputs EXCEPT ![k] = c]
        OBVIOUS
      <3>2. form' = [form EXCEPT !.inputs = i]
        BY <2>4, <3>1
      <3>3. i = [l \in DOMAIN Form!FormFields(form.kind) |-> i[l]]
        BY <1>2, <3>1
      <3> QED
        BY <1>2, <3>2, <3>3
    <2> QED
      BY <1>2, <2>1, <2>2, <2>3, <2>4
  <1>4. PICK new : new = form'
    OBVIOUS
  <1>5. /\ new = [editing |-> new.editing, kind |-> new.kind, value |-> new.value,
                  inputs |-> new.inputs, tags |-> new.tags]
        /\ new.kind = form.kind /\ new.editing = form.editing /\ new.inputs = inputs
    BY <1>3, <1>4
  <1>6. Form!Readable' <=> Form!Readable
    BY <1>1 DEF Form!Readable
  <1> QED
    BY <1>1, <1>2, <1>3, <1>4, <1>5, <1>6 DEF FormInv

LEMMA SubmittingKeeps ==
    ASSUME FormInv, Form!Submit
    PROVE  FormInv'
  <1>1. /\ form # Null /\ Form!Valid(Form!FormData) /\ pending' = Form!FormData
        /\ UNCHANGED <<live, goals, form>>
    BY DEF Form!Submit, Form!CanSave
  <1>2. SoundData(Form!FormData) /\ Form!FormData.kind \in Kinds
    BY <1>1, ShownIsKept
  <1>3. SoundData(pending') /\ pending'.kind \in Kinds
    BY <1>1, <1>2
  <1>4. Form!Readable' <=> Form!Readable
    BY <1>1 DEF Form!Readable
  <1> QED
    BY <1>1, <1>3, <1>4 DEF FormInv

LEMMA PullingKeeps ==
    ASSUME FormInv, PullAny
    PROVE  FormInv'
  <1>1. PICK next \in {Null, Unreadable} \cup
                      IF Form!Readable THEN Versions(live.kind) ELSE AllVersions :
            Form!Pull(next)
    BY DEF PullAny
  <1>2. /\ live' = next /\ UNCHANGED pending
        /\ form' = IF form # Null /\ form.editing /\ next \in {Null, Unreadable}
                   THEN Null ELSE form
    BY <1>1 DEF Form!Pull
  <1>3. Form!Readable' <=> next \notin {Null, Unreadable}
    BY <1>2 DEF Form!Readable
  <1>4. next \in {Null, Unreadable} \/ (SoundData(next) /\ next.kind \in Kinds)
    <2>1. CASE Form!Readable
      BY <1>1, <2>1, FormAssumption DEF FormInv
    <2>2. CASE ~Form!Readable
      <3> SUFFICES ASSUME next \in AllVersions PROVE SoundData(next) /\ next.kind \in Kinds
        BY <1>1, <2>2
      <3>1. PICK kind \in Kinds : next \in Versions(kind)
        BY DEF AllVersions
      <3> QED
        BY <3>1, FormAssumption
    <2> QED
      BY <2>1, <2>2
  <1>5. Form!Readable /\ next \notin {Null, Unreadable} => next.kind = live.kind
    BY <1>1, FormAssumption DEF FormInv
  <1>6. CASE form' = Null
    BY <1>2, <1>3, <1>4, <1>6 DEF FormInv
  <1>7. CASE form' # Null
    <2>1. /\ form' = form /\ form # Null
          /\ form.editing => next \notin {Null, Unreadable}
      BY <1>2, <1>7
    <2>2. form.editing => Form!Readable' /\ next.kind = form.kind
      BY <1>3, <1>5, <2>1 DEF FormInv
    <2> QED
      BY <1>2, <1>3, <1>4, <2>1, <2>2 DEF FormInv
  <1> QED
    BY <1>6, <1>7

LEMMA FormStep ==
    ASSUME FormInv, FormNext
    PROVE  FormInv'
  <1>1. ASSUME Form!Close \/ Form!SaveFails \/ Form!Delete \/ Form!Saved PROVE FormInv'
    <2>1. /\ live' \in {live, Null} \/ (live' = pending /\ pending # Null)
          /\ pending' \in {pending, Null}
          /\ \/ form' = Null
             \/ form' = form /\ live' = live
      BY <1>1 DEF Form!Close, Form!SaveFails, Form!Delete, Form!Saved
    <2>2. Form!Readable' <=> live' \notin {Null, Unreadable}
      BY DEF Form!Readable
    <2>3. Form!Readable <=> live \notin {Null, Unreadable}
      BY DEF Form!Readable
    <2>4. Form!Readable' => SoundData(live') /\ live'.kind \in Kinds
      BY <2>1, <2>2, <2>3 DEF FormInv
    <2>5. pending' # Null => SoundData(pending') /\ pending'.kind \in Kinds
      BY <2>1 DEF FormInv
    <2>6. CASE form' = Null
      BY <2>4, <2>5, <2>6 DEF FormInv
    <2>7. CASE form' = form /\ live' = live
      BY <2>2, <2>3, <2>4, <2>5, <2>7 DEF FormInv
    <2> QED
      BY <2>1, <2>6, <2>7
  <1>2. ASSUME Form!GoalsMove PROVE FormInv'
    <2>1. UNCHANGED <<live, form, pending>>
      BY <1>2 DEF Form!GoalsMove
    <2> QED
      BY <2>1 DEF FormInv, Form!Readable
  <1> QED
    BY <1>1, <1>2, OpeningKeeps, TypingKeeps, SubmittingKeeps, PullingKeeps DEF FormNext

LEMMA FormIsAside ==
    ASSUME [MCNext]_mcVars
    PROVE  FormNext \/ UNCHANGED formVars
  BY DEF MCNext, mcVars

LEMMA FormInvariant == MCSpec => []FormInv
  <1>1. FormInv /\ [MCNext]_mcVars => FormInv'
    <2> SUFFICES ASSUME FormInv, [MCNext]_mcVars PROVE FormInv'
      OBVIOUS
    <2>1. CASE FormNext
      BY <2>1, FormStep
    <2>2. CASE UNCHANGED formVars
      <3>1. UNCHANGED <<live, goals, form, pending, edits>>
        BY <2>2 DEF formVars
      <3> QED
        BY <3>1 DEF FormInv, Form!Readable
    <2> QED
      BY <2>1, <2>2, FormIsAside
  <1> QED
    BY <1>1, FormStarts, PTL DEF MCSpec

(* Only a submit puts something into flight.                                      *)
LEMMA OnlySubmits ==
    ASSUME [MCNext]_mcVars, Form!Submits
    PROVE  Form!Submit
  <1>1. pending = Null /\ pending' # Null
    BY DEF Form!Submits
  <1>2. CASE UNCHANGED formVars
    BY <1>1, <1>2 DEF formVars
  <1>3. CASE FormNext
    <2>1. ~(Form!OpenNew \/ Form!OpenEdit \/ Form!Close \/ Form!Type)
      BY <1>1 DEF Form!OpenNew, Form!OpenEdit, Form!Close, Form!Type
    <2>2. ~(Form!Saved \/ Form!SaveFails \/ Form!Delete \/ Form!GoalsMove)
      BY <1>1 DEF Form!Saved, Form!SaveFails, Form!Delete, Form!GoalsMove
    <2>3. ~PullAny
      BY <1>1 DEF PullAny, Form!Pull
    <2> QED
      BY <1>3, <2>1, <2>2, <2>3 DEF FormNext
  <1> QED
    BY <1>2, <1>3, FormIsAside

LEMMA RestIsKept ==
    ASSUME FormInv, [MCNext]_mcVars
    PROVE  Form!KeepsTheRest
  <1> SUFFICES ASSUME Form!Submits, form.editing
               PROVE  /\ \A k \in DOMAIN Form!Schema(live.kind) \ DOMAIN Form!FormFields(live.kind) :
                            /\ k \in DOMAIN pending'.fields <=> k \in DOMAIN live.fields
                            /\ k \in DOMAIN live.fields => pending'.fields[k] = live.fields[k]
                      /\ \A g \in DOMAIN live.fixed \cap goals :
                            g \in DOMAIN pending'.fixed /\ pending'.fixed[g] = live.fixed[g]
    BY DEF Form!KeepsTheRest
  <1>1. form # Null /\ pending' = Form!FormData
    BY OnlySubmits DEF Form!Submit
  <1>2. /\ Form!Readable /\ live.kind = form.kind
        /\ form.inputs = [k \in DOMAIN Form!FormFields(form.kind) |-> form.inputs[k]]
    BY <1>1 DEF FormInv
  <1>3. SoundData(live)
    BY <1>2 DEF FormInv
  <1> DEFINE f == Form!ReadFields(form.kind, form.inputs, live.fields)
  <1>4. pending'.fields = f /\ pending'.fixed = [g \in DOMAIN live.fixed \cap goals |-> live.fixed[g]]
    BY <1>1 DEF Form!FormData
  <1>5. ReadsAs(f, form.kind, form.inputs, live.fields)
    BY ReadFieldsAre
  <1>6. DOMAIN Form!KindBase(form.kind) \subseteq DOMAIN live.fields
    BY <1>2, <1>3, BaseIsRequired DEF SoundData, Form!Valid
  <1>7. DOMAIN form.inputs = DOMAIN Form!FormFields(live.kind)
    BY <1>2
  <1> HIDE DEF f
  <1>8. \A k : k \notin DOMAIN Form!FormFields(live.kind) =>
            /\ k \in DOMAIN f <=> k \in DOMAIN live.fields
            /\ k \in DOMAIN live.fields => f[k] = live.fields[k]
    BY <1>5, <1>6, <1>7 DEF ReadsAs, FilledIn, LeftOut
  <1> QED
    BY <1>4, <1>8

LEMMA SameIsSaved ==
    ASSUME FormInv, [MCNext]_mcVars
    PROVE  Form!SavesTheSame
  <1> DEFINE kept == [live EXCEPT !.fixed = [g \in DOMAIN @ \cap goals |-> @[g]]]
  <1> SUFFICES ASSUME Form!Submits, form.editing, form = Form!FormFor(live, TRUE)
               PROVE  pending' = kept
    BY DEF Form!SavesTheSame
  <1>1. form # Null /\ pending' = Form!FormData
    BY OnlySubmits DEF Form!Submit
  <1>2. /\ Form!Readable /\ live.kind = form.kind
        /\ form.inputs = [k \in DOMAIN Form!FormFields(form.kind) |-> form.inputs[k]]
    BY <1>1 DEF FormInv
  <1>3. SoundData(live)
    BY <1>2 DEF FormInv
  <1>4. /\ form.inputs = Form!FieldInputs(live.kind, live.fields)
        /\ form.value = live.value /\ form.tags = live.percent
    BY DEF Form!FormFor
  <1> DEFINE f == Form!ReadFields(form.kind, form.inputs, live.fields)
             fields == live.fields
             shown  == DOMAIN Form!FormFields(live.kind)
  <1>5. pending' = [kind |-> live.kind, fields |-> f, value |-> live.value,
                    fixed |-> [g \in DOMAIN live.fixed \cap goals |-> live.fixed[g]],
                    percent |-> live.percent]
    BY <1>1, <1>2, <1>4 DEF Form!FormData
  <1>6. ReadsAs(f, live.kind, form.inputs, fields)
    BY <1>2, ReadFieldsAre
  <1>7. /\ DOMAIN Form!Required(live.kind) \subseteq DOMAIN fields
        /\ fields = [k \in DOMAIN fields |-> fields[k]]
        /\ \A k \in DOMAIN fields : fields[k] # Form!Blank
    BY <1>3 DEF SoundData, Form!Valid
  <1>8. DOMAIN Form!KindBase(live.kind) \subseteq DOMAIN fields
    BY <1>7, BaseIsRequired
  <1>9. /\ DOMAIN form.inputs = shown
        /\ \A k \in shown : form.inputs[k] = IF k \in DOMAIN fields THEN fields[k] ELSE Form!Blank
    <2>1. DOMAIN form.inputs = shown
      BY <1>2
    <2>2. \A k \in shown \ DOMAIN fields : Form!FormFields(live.kind)[k] \notin Form!Chosen
      BY <1>7, ChosenIsRequired
    <2> QED
      BY <1>4, <2>1, <2>2 DEF Form!FieldInputs
  <1>10. f = fields
    <2> HIDE DEF f, shown, fields
    <2>1. FilledIn(form.inputs) = shown \cap DOMAIN fields
      BY <1>7, <1>9 DEF FilledIn
    <2>2. LeftOut(live.kind, form.inputs, fields) = DOMAIN fields \ shown
      BY <1>8, <1>9 DEF LeftOut
    <2>3. DOMAIN f = DOMAIN fields
      BY <1>6, <2>1, <2>2 DEF ReadsAs
    <2>4. \A k \in DOMAIN fields : f[k] = fields[k]
      BY <1>6, <1>9, <2>1, <2>2 DEF ReadsAs
    <2>5. f = [k \in DOMAIN f |-> f[k]]
      BY <1>6 DEF ReadsAs
    <2> QED
      BY <1>7, <2>3, <2>4, <2>5
  <1>11. kept = [kind |-> live.kind, fields |-> live.fields, value |-> live.value,
                 fixed |-> [g \in DOMAIN live.fixed \cap goals |-> live.fixed[g]],
                 percent |-> live.percent]
    <2>1. live = [kind |-> live.kind, fields |-> live.fields, value |-> live.value,
                  fixed |-> live.fixed, percent |-> live.percent]
      BY <1>3 DEF SoundData
    <2> QED
      BY <2>1
  <1> QED
    BY <1>5, <1>10, <1>11

------------------------------------------------------------------------------
(* The form of a goal.                                                         *)

(* The steps of picking some of a list.                                          *)
PickOne(list, m, picked) == IF m \in picked THEN Append(list, m) ELSE list

LEMMA PickSteps ==
    ASSUME NEW s \in Seq(Nat), NEW picked
    PROVE  \E r \in [0 .. Len(s) -> Seq(Nat)] :
              /\ r[0] = <<>> /\ Goal!Pick(s, picked) = r[Len(s)]
              /\ \A i \in 1 .. Len(s) : r[i] = PickOne(r[i - 1], s[i], picked)
  <1> DEFINE n == Len(s)
             step == [p \in Seq(Nat) \X Nat |-> PickOne(p[1], p[2], picked)]
             Once(it, t) == IF t = {} THEN <<>> ELSE PickOne(it[t \ {Max(t)}], s[Max(t)], picked)
             fold == CHOOSE it : it = [t \in SUBSET (1 .. n) |-> Once(it, t)]
  <1>1. /\ n \in Nat /\ DOMAIN s = 1 .. n /\ (\A i \in 1 .. n : s[i] \in Nat)
        /\ <<>> \in Seq(Nat)
    OBVIOUS
  <1>2. \A list \in Seq(Nat) : \A m \in Nat :
           step[<<list, m>>] = PickOne(list, m, picked) /\ PickOne(list, m, picked) \in Seq(Nat)
    BY DEF PickOne
  <1>3. step \in [Seq(Nat) \X Nat -> Seq(Nat)]
    <2>1. \A p \in Seq(Nat) \X Nat : PickOne(p[1], p[2], picked) \in Seq(Nat)
      BY DEF PickOne
    <2> QED
      BY <2>1
  <1>3a. Folding(n, Seq(Nat), <<>>, Nat, s, step)
    BY <1>1, <1>3 DEF Folding
  <1>4. Goal!Pick(s, picked) = fold[1 .. n]
    BY <1>1 DEF Goal!Pick, Goal!FoldLeft, Goal!MapThenFoldSet, MapThenFoldSet, Goal!Max, Max,
                PickOne
  <1> HIDE DEF step, n
  <1>5. PICK it \in [SUBSET (1 .. n) -> Seq(Nat)] : Unfolds(it, n, <<>>, s, step)
    BY <1>3a, FoldExists
  <1>6. it = [t \in SUBSET (1 .. n) |-> Once(it, t)]
    <2>1. \A t \in SUBSET (1 .. n) : it[t] = Once(it, t)
      <3> TAKE t \in SUBSET (1 .. n)
      <3>1. CASE t = {}
        BY <1>5, <3>1 DEF Unfolds
      <3>2. CASE t # {}
        <4>1. Max(t) \in 1 .. n
          BY <1>1, <3>2, MaxIsIn
        <4>2. s[Max(t)] \in Nat /\ it[t \ {Max(t)}] \in Seq(Nat)
          BY <1>1, <4>1
        <4> QED
          BY <1>2, <1>5, <3>2, <4>2 DEF Unfolds
      <3> QED
        BY <3>1, <3>2
    <2> HIDE DEF Once
    <2> QED
      BY <2>1
  <1>7. fold = [t \in SUBSET (1 .. n) |-> Once(fold, t)]
    <2> HIDE DEF Once
    <2> QED
      BY <1>6
  <1> HIDE DEF fold
  <1>8. fold[{}] = <<>>
    BY <1>7
  <1>9. \A t \in SUBSET (1 .. n) : t # {} /\ fold[t \ {Max(t)}] \in Seq(Nat) =>
           fold[t] = step[<<fold[t \ {Max(t)}], s[Max(t)]>>]
    <2> SUFFICES ASSUME NEW t \in SUBSET (1 .. n), t # {}, fold[t \ {Max(t)}] \in Seq(Nat)
                 PROVE  fold[t] = step[<<fold[t \ {Max(t)}], s[Max(t)]>>]
      OBVIOUS
    <2>1. Max(t) \in 1 .. n
      BY <1>1, MaxIsIn
    <2>2. fold[t] = PickOne(fold[t \ {Max(t)}], s[Max(t)], picked)
      BY <1>7
    <2> QED
      BY <1>1, <1>2, <2>1, <2>2
  <1>10. PICK r \in [0 .. n -> Seq(Nat)] : /\ r[0] = <<>> /\ fold[1 .. n] = r[n]
                                        /\ \A i \in 1 .. n : r[i] = step[<<r[i - 1], s[i]>>]
    <2>1. FoldedBy(fold, n, Seq(Nat), <<>>, s, step)
      BY <1>8, <1>9 DEF FoldedBy
    <2> QED
      BY <1>3a, <2>1, FoldSteps
  <1>11. \A i \in 1 .. n : r[i] = PickOne(r[i - 1], s[i], picked)
    <2> TAKE i \in 1 .. n
    <2>1. i - 1 \in 0 .. n
      BY <1>1
    <2> QED
      BY <1>1, <1>2, <1>10, <2>1
  <1> QED
    BY <1>4, <1>10, <1>11 DEF n

(* What is picked of a list: of those at its first i places, each once.            *)
PicksOf(list, s, i, picked) ==
    /\ list \in Seq(Nat) /\ Len(list) <= i
    /\ \A j \in 1 .. Len(list) : \E l \in 1 .. i : list[j] = s[l] /\ s[l] \in picked
    /\ \A l \in 1 .. i : s[l] \in picked => \E j \in 1 .. Len(list) : list[j] = s[l]
    /\ \A j, l \in 1 .. Len(list) : list[j] = list[l] => j = l

LEMMA PicksMore ==
    ASSUME NEW s \in Seq(Nat), Apart(s), NEW picked, NEW i \in Nat, i + 1 <= Len(s),
           NEW list, PicksOf(list, s, i, picked)
    PROVE  PicksOf(PickOne(list, s[i + 1], picked), s, i + 1, picked)
  <1> DEFINE x == s[i + 1]
             next == PickOne(list, x, picked)
  <1>1. i + 1 \in 1 .. Len(s) /\ DOMAIN s = 1 .. Len(s) /\ x \in Nat
    OBVIOUS
  <1>2. /\ list \in Seq(Nat) /\ Len(list) \in Nat /\ Len(list) <= i
        /\ \A j \in 1 .. Len(list) : \E l \in 1 .. i : list[j] = s[l] /\ s[l] \in picked
        /\ \A l \in 1 .. i : s[l] \in picked => \E j \in 1 .. Len(list) : list[j] = s[l]
        /\ \A j, l \in 1 .. Len(list) : list[j] = list[l] => j = l
    BY DEF PicksOf
  <1>3. \A l \in 1 .. i + 1 : l \in 1 .. i \/ l = i + 1
    OBVIOUS
  <1>4. CASE x \notin picked
    <2>1. next = list
      BY <1>4 DEF PickOne
    <2>2. \A l \in 1 .. i : l \in 1 .. i + 1
      OBVIOUS
    <2>3. list \in Seq(Nat) /\ Len(list) <= i + 1
      BY <1>2
    <2>4. \A j \in 1 .. Len(list) : \E l \in 1 .. i + 1 : list[j] = s[l] /\ s[l] \in picked
      BY <1>2, <2>2
    <2>5. \A l \in 1 .. i + 1 : s[l] \in picked => \E j \in 1 .. Len(list) : list[j] = s[l]
      BY <1>2, <1>3, <1>4
    <2>6. PicksOf(list, s, i + 1, picked)
      BY <1>2, <2>3, <2>4, <2>5 DEF PicksOf
    <2> QED
      BY <2>1, <2>6
  <1>5. CASE x \in picked
    <2>1. next = Append(list, x)
      BY <1>5 DEF PickOne
    <2>2. \A j \in 1 .. Len(list) : list[j] # x
      <3> TAKE j \in 1 .. Len(list)
      <3>1. PICK l \in 1 .. i : list[j] = s[l]
        BY <1>2
      <3>2. l # i + 1 /\ l \in 1 .. Len(s)
        OBVIOUS
      <3> QED
        BY <1>1, <3>1, <3>2 DEF Apart
    <2>3. /\ next \in Seq(Nat) /\ Len(next) = Len(list) + 1
          /\ next[Len(list) + 1] = x
          /\ \A j \in 1 .. Len(list) : next[j] = list[j]
      BY <1>1, <1>2, <2>1
    <2>4. \A j \in 1 .. Len(next) : j \in 1 .. Len(list) \/ j = Len(list) + 1
      BY <1>2, <2>3
    <2>5. /\ \A j \in 1 .. Len(list) : j \in 1 .. Len(next)
          /\ Len(list) + 1 \in 1 .. Len(next)
          /\ \A l \in 1 .. i : l \in 1 .. i + 1
          /\ i + 1 \in 1 .. i + 1
      BY <1>2, <2>3
    <2> HIDE DEF next, x
    <2>6. \A j \in 1 .. Len(next) : \E l \in 1 .. i + 1 : next[j] = s[l] /\ s[l] \in picked
      <3> TAKE j \in 1 .. Len(next)
      <3>1. CASE j \in 1 .. Len(list)
        <4>1. PICK l \in 1 .. i : list[j] = s[l] /\ s[l] \in picked
          BY <1>2, <3>1
        <4>2. l \in 1 .. i + 1 /\ next[j] = list[j]
          BY <2>3, <2>5, <3>1
        <4> QED
          BY <4>1, <4>2
      <3>2. CASE j = Len(list) + 1
        <4>1. next[j] = s[i + 1] /\ s[i + 1] \in picked
          BY <1>5, <2>3, <3>2 DEF x
        <4> QED
          BY <2>5, <4>1
      <3> QED
        BY <2>4, <3>1, <3>2
    <2>7. \A l \in 1 .. i + 1 : s[l] \in picked => \E j \in 1 .. Len(next) : next[j] = s[l]
      <3> SUFFICES ASSUME NEW l \in 1 .. i + 1, s[l] \in picked
                   PROVE  \E j \in 1 .. Len(next) : next[j] = s[l]
        OBVIOUS
      <3>1. CASE l \in 1 .. i
        <4>1. PICK j \in 1 .. Len(list) : list[j] = s[l]
          BY <1>2, <3>1
        <4>2. j \in 1 .. Len(next) /\ next[j] = list[j]
          BY <2>3, <2>5
        <4> QED
          BY <4>1, <4>2
      <3>2. CASE l = i + 1
        BY <2>3, <2>5, <3>2 DEF x
      <3> QED
        BY <1>3, <3>1, <3>2
    <2>8. \A j, l \in 1 .. Len(next) : next[j] = next[l] => j = l
      <3> SUFFICES ASSUME NEW j \in 1 .. Len(next), NEW l \in 1 .. Len(next), next[j] = next[l]
                   PROVE  j = l
        OBVIOUS
      <3>1. CASE j \in 1 .. Len(list) /\ l \in 1 .. Len(list)
        BY <1>2, <2>3, <3>1
      <3>2. CASE j = Len(list) + 1 /\ l \in 1 .. Len(list)
        BY <2>2, <2>3, <3>2
      <3>3. CASE j \in 1 .. Len(list) /\ l = Len(list) + 1
        BY <2>2, <2>3, <3>3
      <3> QED
        BY <2>4, <3>1, <3>2, <3>3
    <2>9. Len(next) <= i + 1
      BY <1>2, <2>3
    <2>10. PicksOf(next, s, i + 1, picked)
      BY <2>3, <2>6, <2>7, <2>8, <2>9 DEF PicksOf
    <2> QED
      BY <2>10 DEF next, x
  <1> QED
    BY <1>4, <1>5

LEMMA PickIs ==
    ASSUME NEW s \in Seq(Nat), Apart(s), NEW picked
    PROVE  PicksOf(Goal!Pick(s, picked), s, Len(s), picked)
  <1>1. PICK r \in [0 .. Len(s) -> Seq(Nat)] :
           /\ r[0] = <<>> /\ Goal!Pick(s, picked) = r[Len(s)]
           /\ \A i \in 1 .. Len(s) : r[i] = PickOne(r[i - 1], s[i], picked)
    BY PickSteps
  <1> DEFINE U == {i \in Nat : i <= Len(s) => PicksOf(r[i], s, i, picked)}
  <1>2. 0 \in U
    BY <1>1 DEF PicksOf
  <1>3. ASSUME NEW i \in U PROVE i + 1 \in U
    <2> SUFFICES ASSUME i + 1 <= Len(s) PROVE PicksOf(r[i + 1], s, i + 1, picked)
      OBVIOUS
    <2>1. i \in Nat /\ Len(s) \in Nat
      OBVIOUS
    <2>2. PicksOf(r[i], s, i, picked)
      BY <2>1
    <2>3. i + 1 \in 1 .. Len(s) /\ (i + 1) - 1 = i
      BY <2>1
    <2>4. r[i + 1] = PickOne(r[i], s[i + 1], picked)
      BY <1>1, <2>3
    <2>5. PicksOf(PickOne(r[i], s[i + 1], picked), s, i + 1, picked)
      BY <2>1, <2>2, PicksMore
    <2> QED
      BY <2>4, <2>5
  <1>4. U = Nat
    <2>1. U \in SUBSET Nat
      OBVIOUS
    <2> HIDE DEF U
    <2> QED
      BY <1>2, <1>3, <2>1, CountUp
  <1> QED
    BY <1>1, <1>4

(* An even split: everybody on the list has a share, they make up the whole, and     *)
(* no two are more than a basis point apart.                                     *)
EvenSplit(shares, members) ==
    /\ shares = [i \in 1 .. Len(members) |-> shares[i]]
    /\ \A i \in 1 .. Len(members) :
          /\ shares[i] = [member |-> shares[i].member, bps |-> shares[i].bps]
          /\ shares[i].member = members[i] /\ shares[i].bps \in Nat \ {0}
    /\ Goal!Remainder(shares) = 0
    /\ \A i, j \in 1 .. Len(members) : shares[i].bps - shares[j].bps \in -1 .. 1

LEMMA EvenBase ==
    ASSUME NEW a \in Nat \ {0}, NEW n \in 1 .. a
    PROVE  a \div n \in Nat \ {0} /\ a - (a \div n) * n \in 0 .. n - 1
  <1>1. a \div n \in Nat /\ a % n \in 0 .. n - 1 /\ a = n * (a \div n) + (a % n)
    <2>1. n \in Nat \ {0}
      OBVIOUS
    <2>2. a % n \in 0 .. n - 1
      OBVIOUS
    <2>3. a \in Nat
      OBVIOUS
    <2>4. a \div n \in Nat /\ a = n * (a \div n) + (a % n)
      BY <2>1, <2>3, Division
    <2> QED
      BY <2>2, <2>4, Zenon
  <1>2. PICK q \in Nat, r \in 0 .. n - 1 : q = a \div n /\ r = a % n
    BY <1>1
  <1>3. PICK p \in Nat : p = n * q /\ p = q * n /\ (q = 0 => p = 0)
    <2>1. n * q \in Nat /\ n * q = q * n /\ (q = 0 => n * q = 0)
      OBVIOUS
    <2> QED
      BY <2>1
  <1>4. a = p + r
    BY <1>1, <1>2, <1>3
  <1> QED
    BY <1>2, <1>3, <1>4

(* What is left to assign, where every share is one.                              *)
LEMMA RemainderIs ==
    ASSUME NEW shares, NEW bps, bps = [i \in DOMAIN shares |-> shares[i].bps],
           \A i \in DOMAIN bps : bps[i] \notin {Null, 0}
    PROVE  Goal!Remainder(shares) = GoalBps - SumOn(bps, DOMAIN bps)
  <1>1. ~(\E i \in DOMAIN bps : bps[i] \in {Null, 0})
    OBVIOUS
  <1> QED
    BY <1>1 DEF Goal!Remainder, Goal!MapThenSumSet, Goal!MapThenFoldSet, SumOn, MapThenSumSet,
                MapThenFoldSet

LEMMA EvenlySplit ==
    ASSUME NEW members \in Seq(Nat), Len(members) \in 1 .. GoalBps
    PROVE  EvenSplit(Goal!EvenShares(members), members)
  <1> DEFINE n      == Len(members)
             D      == 1 .. n
             base   == GoalBps \div n
             left   == GoalBps - base * n
             one    == [i \in D |-> 1]
             flat   == [i \in D |-> base * 1]
             more   == [i \in D |-> IF i <= left THEN 1 ELSE 0]
             bps    == [i \in D |-> base + more[i]]
             shares == [i \in D |-> [member |-> members[i], bps |-> bps[i]]]
  <1>1. /\ n \in Nat \ {0} /\ GoalBps \in Nat \ {0} /\ n <= GoalBps /\ DOMAIN members = D
        /\ Null \notin Nat
    BY GoalAssumption
  <1>2. Goal!EvenShares(members) = shares
    BY <1>1 DEF Goal!EvenShares
  <1>2a. n \in 1 .. GoalBps
    OBVIOUS
  <1>3. base \in Nat \ {0} /\ left \in 0 .. n - 1
    <2> HIDE DEF n
    <2> QED
      BY <1>1, <1>2a, EvenBase
  <1> HIDE DEF n, base, left
  <1>4. \A i \in D : more[i] \in {0, 1} /\ bps[i] = base + more[i] /\ bps[i] \in Nat \ {0}
    BY <1>3
  <1>5. IsFiniteSet(D)
    BY <1>1, FS_Interval
  <1>6. SumOn(flat, D) = base * n
    <2>1. \A i \in D : one[i] = 1 /\ one[i] \in Int /\ flat[i] = base * one[i]
      OBVIOUS
    <2>2. Cardinality(D) = n
      <3>1. 1 \in Int /\ n \in Int /\ ~(1 > n) /\ n - 1 + 1 = n
        BY <1>1
      <3> QED
        BY <3>1, FS_Interval
    <2> HIDE DEF one, flat, D
    <2>3. SumOn(one, D) = n
      BY <1>5, <2>1, <2>2, SumCounts
    <2>4. SumOn(flat, D) = base * SumOn(one, D)
      <3>1. base \in Int
        BY <1>3
      <3> QED
        BY <1>5, <2>1, <3>1, SumScale
    <2> QED
      BY <2>3, <2>4
  <1>7. SumOn(more, D) = left
    <2> DEFINE R == 1 .. left
               ones == [i \in R |-> 1]
    <2>1. R \in SUBSET D /\ IsFiniteSet(R) /\ Cardinality(R) = left
      <3>1. R \in SUBSET D
        BY <1>1, <1>3
      <3>2. 1 \in Int /\ left \in Int /\ left - 1 + 1 = left /\ (1 > left => left = 0)
        BY <1>3
      <3> QED
        BY <3>1, <3>2, FS_Interval
    <2>2. /\ \A i \in R : more[i] = ones[i] /\ ones[i] \in Int /\ ones[i] = 1
          /\ \A i \in D \ R : more[i] = 0
      BY <1>1, <1>3
    <2> HIDE DEF more, R, ones, D
    <2>3. SumOn(more, D) = SumOn(ones, R)
      BY <1>5, <2>1, <2>2, SumWhere
    <2>4. SumOn(ones, R) = Cardinality(R)
      BY <2>1, <2>2, SumCounts
    <2> QED
      BY <2>1, <2>3, <2>4
  <1>8. SumOn(bps, D) = GoalBps
    <2>1. \A i \in D : flat[i] = base
      BY <1>3
    <2>2. \A i \in D : flat[i] \in Int /\ more[i] \in Int /\ bps[i] = flat[i] + more[i]
      BY <1>3, <1>4, <2>1
    <2> HIDE DEF bps, flat, more, D
    <2>3. SumOn(bps, D) = SumOn(flat, D) + SumOn(more, D)
      BY <1>5, <2>2, SumAdd
    <2>4. PICK p \in Int : p = base * n
      BY <1>1, <1>3
    <2>5. GoalBps = p + left
      BY <1>1, <1>3, <2>4 DEF left
    <2> QED
      BY <1>6, <1>7, <2>3, <2>4, <2>5
  <1>9. Goal!Remainder(shares) = 0
    <2>1. [i \in DOMAIN shares |-> shares[i].bps] = bps /\ DOMAIN bps = D
      OBVIOUS
    <2>2. ~(\E i \in DOMAIN bps : bps[i] \in {Null, 0})
      BY <1>1, <1>4, <2>1
    <2> HIDE DEF bps, shares
    <2>4. Goal!Remainder(shares) = GoalBps - SumOn(bps, D)
      BY <2>1, <2>2, RemainderIs
    <2> QED
      BY <1>1, <1>8, <2>4
  <1>10. \A i, j \in D : bps[i] - bps[j] \in -1 .. 1
    BY <1>3, <1>4
  <1>11. /\ shares = [i \in D |-> shares[i]]
         /\ \A i \in D : /\ shares[i] = [member |-> shares[i].member, bps |-> shares[i].bps]
                         /\ shares[i].member = members[i] /\ shares[i].bps = bps[i]
    OBVIOUS
  <1> HIDE DEF shares, bps
  <1>12. EvenSplit(shares, members)
    BY <1>4, <1>9, <1>10, <1>11, ZenonT(40) DEF EvenSplit, n
  <1> QED
    BY <1>2, <1>12

(* So it is what a goal may have as its owners.                                  *)
LEMMA EvenIsSound ==
    ASSUME NEW members \in Seq(Nat), Len(members) \in 1 .. GoalBps, Apart(members),
           NEW shares, EvenSplit(shares, members)
    PROVE  SoundOwners(shares)
  <1> DEFINE list == [i \in DOMAIN shares |-> shares[i].member]
  <1>1. DOMAIN shares = 1 .. Len(members) /\ DOMAIN members = 1 .. Len(members)
    BY DEF EvenSplit
  <1>2. \A i \in DOMAIN members : list[i] = members[i]
    BY <1>1 DEF EvenSplit
  <1>3. members = [i \in DOMAIN members |-> members[i]]
    OBVIOUS
  <1>4. list = members
    BY <1>1, <1>2, <1>3
  <1>5. \A i \in DOMAIN shares : shares[i] = [member |-> shares[i].member, bps |-> shares[i].bps]
    BY <1>1 DEF EvenSplit
  <1> QED
    BY <1>4, <1>5, Zenon DEF SoundOwners

(* The shares after somebody is ticked or unticked.                               *)
ToggledShares(shares, m) ==
    IF m \in Goal!Owners(shares) THEN Goal!Unticked(shares, m) ELSE Goal!Ticked(shares, m)

LEMMA ToggledAreEven ==
    ASSUME NEW shares, SoundOwners(shares), NEW n \in DOMAIN Everyone, NEW m, m = Everyone[n],
           m \in Goal!Owners(shares) => Len(shares) > 1
    PROVE  \E members \in Seq(Nat) :
              /\ Len(members) \in 1 .. GoalBps /\ Apart(members)
              /\ EvenSplit(ToggledShares(shares, m), members)
  <1> DEFINE list == [i \in DOMAIN shares |-> shares[i].member]
  <1>1. list \in Seq(Nat) /\ Apart(list) /\ Len(list) \in 1 .. GoalBps
    BY DEF SoundOwners
  <1>2. /\ Everyone \in Seq(Nat) /\ Apart(Everyone) /\ Len(Everyone) \in 1 .. GoalBps
        /\ GoalBps \in Nat
    BY GoalAssumption
  <1>3. CASE m \in Goal!Owners(shares)
    <2> DEFINE picked  == Goal!Owners(shares) \ {m}
               members == Goal!Pick(list, picked)
    <2>1. ToggledShares(shares, m) = Goal!EvenShares(members)
      BY <1>3 DEF ToggledShares, Goal!Unticked
    <2>2. Len(list) > 1
      <3>1. DOMAIN list = DOMAIN shares /\ DOMAIN list = 1 .. Len(list) /\ Len(list) \in Nat
        BY <1>1
      <3>2. Len(shares) = Len(list)
        BY <3>1
      <3> QED
        BY <1>3, <3>2
    <2>3. \E j \in 1 .. Len(list) : list[j] \in picked
      <3>1. DOMAIN list = 1 .. Len(list) /\ Len(list) \in Nat /\ DOMAIN list = DOMAIN shares
        BY <1>1
      <3>2. 1 \in DOMAIN list /\ 2 \in DOMAIN list
        BY <2>2, <3>1
      <3>3. list[1] # list[2]
        BY <1>1, <3>2 DEF Apart
      <3>4. list[1] \in Goal!Owners(shares) /\ list[2] \in Goal!Owners(shares)
        BY <3>1, <3>2 DEF Goal!Owners
      <3> QED
        BY <3>1, <3>2, <3>3, <3>4
    <2> HIDE DEF list, picked, members
    <2>4. PicksOf(members, list, Len(list), picked)
      BY <1>1, PickIs DEF members
    <2>5. members \in Seq(Nat) /\ Len(members) <= Len(list) /\ Apart(members) /\ Len(members) # 0
      <3>1. PICK j \in 1 .. Len(list) : list[j] \in picked
        BY <2>3
      <3>2. \E l \in 1 .. Len(members) : members[l] = list[j]
        BY <2>4, <3>1 DEF PicksOf
      <3>3. members \in Seq(Nat) /\ Len(members) <= Len(list)
        BY <2>4 DEF PicksOf
      <3>4. Apart(members)
        BY <2>4, <3>3 DEF PicksOf, Apart
      <3>5. Len(members) # 0
        BY <3>2, <3>3
      <3> QED
        BY <3>3, <3>4, <3>5
    <2>6. Len(members) \in 1 .. GoalBps
      BY <1>1, <1>2, <2>5
    <2> QED
      BY <2>1, <2>5, <2>6, EvenlySplit
  <1>4. CASE m \notin Goal!Owners(shares)
    <2> DEFINE picked  == Goal!Owners(shares) \cup {m}
               members == Goal!Pick(Everyone, picked)
    <2>1. ToggledShares(shares, m) = Goal!EvenShares(members)
      BY <1>4 DEF ToggledShares, Goal!Ticked
    <2>2. n \in 1 .. Len(Everyone) /\ Everyone[n] \in picked
      BY <1>2
    <2> HIDE DEF picked, members
    <2>4. PicksOf(members, Everyone, Len(Everyone), picked)
      BY <1>2, PickIs DEF members
    <2>5. /\ members \in Seq(Nat) /\ Len(members) <= Len(Everyone) /\ Apart(members)
          /\ Len(members) # 0
      <3>1. \E j \in 1 .. Len(members) : members[j] = Everyone[n]
        BY <2>2, <2>4 DEF PicksOf
      <3> QED
        BY <2>4, <3>1 DEF PicksOf, Apart
    <2>6. Len(members) \in 1 .. GoalBps
      BY <1>2, <2>5
    <2> QED
      BY <2>1, <2>5, <2>6, EvenlySplit
  <1> QED
    BY <1>3, <1>4

LEMMA ToggledAreSound ==
    ASSUME NEW shares, SoundOwners(shares), NEW n \in DOMAIN Everyone, NEW m, m = Everyone[n],
           m \in Goal!Owners(shares) => Len(shares) > 1
    PROVE  SoundOwners(ToggledShares(shares, m))
  BY ToggledAreEven, EvenIsSound

(* A share that is typed moves no owner.                                          *)
Typed1(shares, m, bps) ==
    [i \in DOMAIN shares |-> IF shares[i].member = m THEN [shares[i] EXCEPT !.bps = bps] ELSE shares[i]]

LEMMA TypedAreSound ==
    ASSUME NEW shares, SoundOwners(shares), NEW m, NEW bps
    PROVE  /\ SoundOwners(Typed1(shares, m, bps))
           /\ Goal!Owners(Typed1(shares, m, bps)) = Goal!Owners(shares)
  <1> DEFINE new == Typed1(shares, m, bps)
  <1>1. \A i \in DOMAIN shares : shares[i] = [member |-> shares[i].member, bps |-> shares[i].bps]
    BY DEF SoundOwners
  <1>2. DOMAIN new = DOMAIN shares
    BY DEF Typed1
  <1>3. \A i \in DOMAIN new : /\ new[i].member = shares[i].member
                              /\ new[i] = [member |-> new[i].member, bps |-> new[i].bps]
    <2> TAKE i \in DOMAIN new
    <2>1. PICK s : s = shares[i] /\ s = [member |-> s.member, bps |-> s.bps]
      BY <1>1, <1>2
    <2>2. new[i] = IF s.member = m THEN [s EXCEPT !.bps = bps] ELSE s
      BY <1>2, <2>1 DEF Typed1
    <2>3. [s EXCEPT !.bps = bps] = [member |-> s.member, bps |-> bps]
      BY <2>1
    <2> QED
      BY <2>1, <2>2, <2>3
  <1> HIDE DEF new
  <1>4. [i \in DOMAIN new |-> new[i].member] = [i \in DOMAIN shares |-> shares[i].member]
    BY <1>2, <1>3
  <1>5. SoundOwners(new)
    BY <1>3, <1>4, Zenon DEF SoundOwners
  <1>6. Goal!Owners(new) = Goal!Owners(shares)
    BY <1>2, <1>3 DEF Goal!Owners
  <1> QED
    BY <1>5, <1>6 DEF new

(* What typing in the form of a goal makes of it.                                *)
Sheets ==
    /\ sheet = [editing |-> sheet.editing, kind |-> sheet.kind, inflation |-> sheet.inflation,
                touched |-> sheet.touched, shares |-> sheet.shares]
    /\ SoundOwners(sheet.shares)
    /\ typed = IF sheet.touched THEN {sheet.inflation} ELSE {}
    /\ sheet.touched \/ sheet.inflation = Default[sheet.kind]

LEMMA SheetsAre == GoalInv => (sheet # Null => Sheets)
  BY DEF GoalInv, Sheets

LEMMA TogglingIs ==
    ASSUME Sheets, NEW m, Goal!Toggle(m)
    PROVE  /\ sheet'.shares = ToggledShares(sheet.shares, m)
           /\ sheet' = [editing |-> sheet.editing, kind |-> sheet.kind,
                        inflation |-> sheet.inflation, touched |-> sheet.touched,
                        shares |-> sheet'.shares]
           /\ typed' = typed
           /\ m \in Goal!Owners(sheet.shares) => Len(sheet.shares) > 1
  <1>1. PICK new : new = ToggledShares(sheet.shares, m)
    OBVIOUS
  <1>2. sheet' = [sheet EXCEPT !.shares = new]
    BY <1>1 DEF Goal!Toggle, ToggledShares
  <1>3. sheet' = [editing |-> sheet.editing, kind |-> sheet.kind,
                  inflation |-> sheet.inflation, touched |-> sheet.touched, shares |-> new]
    BY <1>2 DEF Sheets
  <1>4. sheet'.shares = new
    BY <1>3
  <1>5. typed' = typed /\ (m \in Goal!Owners(sheet.shares) => Len(sheet.shares) > 1)
    BY DEF Goal!Toggle
  <1> QED
    BY <1>1, <1>3, <1>4, <1>5

LEMMA SharingIs ==
    ASSUME Sheets, NEW m, NEW bps, Goal!SetShare(m, bps)
    PROVE  /\ sheet'.shares = Typed1(sheet.shares, m, bps)
           /\ sheet' = [editing |-> sheet.editing, kind |-> sheet.kind,
                        inflation |-> sheet.inflation, touched |-> sheet.touched,
                        shares |-> sheet'.shares]
           /\ typed' = typed
  <1>1. PICK new : new = Typed1(sheet.shares, m, bps)
    OBVIOUS
  <1>2. sheet' = [sheet EXCEPT !.shares = new]
    BY <1>1 DEF Goal!SetShare, Typed1
  <1>3. sheet' = [editing |-> sheet.editing, kind |-> sheet.kind,
                  inflation |-> sheet.inflation, touched |-> sheet.touched, shares |-> new]
    BY <1>2 DEF Sheets
  <1>4. sheet'.shares = new
    BY <1>3
  <1>5. typed' = typed
    BY DEF Goal!SetShare
  <1> QED
    BY <1>1, <1>3, <1>4, <1>5

LEMMA KindsAre ==
    ASSUME Sheets, NEW k, Goal!PickKind(k)
    PROVE  /\ sheet' = [editing |-> sheet.editing, kind |-> k,
                        inflation |-> IF sheet.touched THEN sheet.inflation ELSE Default[k],
                        touched |-> sheet.touched, shares |-> sheet.shares]
           /\ typed' = typed
  BY DEF Goal!PickKind, Sheets

LEMMA InflationIs ==
    ASSUME Sheets, NEW rate, Goal!TypeInflation(rate)
    PROVE  /\ sheet' = [editing |-> sheet.editing, kind |-> sheet.kind, inflation |-> rate,
                        touched |-> TRUE, shares |-> sheet.shares]
           /\ typed' = {rate}
  <1>1. sheet' = [sheet EXCEPT !.inflation = rate, !.touched = TRUE] /\ typed' = {rate}
    BY DEF Goal!TypeInflation
  <1>2. sheet = [editing |-> sheet.editing, kind |-> sheet.kind, inflation |-> sheet.inflation,
                 touched |-> sheet.touched, shares |-> sheet.shares]
    BY DEF Sheets
  <1> QED
    BY <1>1, <1>2

(* Typing keeps a form sound, and moves owners only evenly.                        *)
LEMMA TypingIsSound ==
    ASSUME Sheets, Goal!TypeGoal
    PROVE  /\ Sheets'
           /\ Goal!Owners(sheet'.shares) # Goal!Owners(sheet.shares) =>
                 \E members \in Seq(Nat) : EvenSplit(sheet'.shares, members)
  <1>1. CASE \E k \in GoalKinds : Goal!PickKind(k)
    <2>1. PICK k : Goal!PickKind(k)
      BY <1>1
    <2>2. /\ sheet' = [editing |-> sheet.editing, kind |-> k,
                       inflation |-> IF sheet.touched THEN sheet.inflation ELSE Default[k],
                       touched |-> sheet.touched, shares |-> sheet.shares]
          /\ typed' = typed
      BY <2>1, KindsAre
    <2>3. /\ sheet'.shares = sheet.shares /\ sheet'.kind = k /\ sheet'.touched = sheet.touched
          /\ sheet'.inflation = IF sheet.touched THEN sheet.inflation ELSE Default[k]
          /\ sheet'.editing = sheet.editing
      BY <2>2
    <2>4. /\ SoundOwners(sheet'.shares)
          /\ typed' = IF sheet'.touched THEN {sheet'.inflation} ELSE {}
          /\ sheet'.touched \/ sheet'.inflation = Default[sheet'.kind]
      BY <2>2, <2>3 DEF Sheets
    <2> QED
      BY <2>2, <2>3, <2>4 DEF Sheets
  <1>2. CASE \E rate \in GoalRates : Goal!TypeInflation(rate)
    <2>1. PICK rate : Goal!TypeInflation(rate)
      BY <1>2
    <2>2. /\ sheet' = [editing |-> sheet.editing, kind |-> sheet.kind, inflation |-> rate,
                       touched |-> TRUE, shares |-> sheet.shares]
          /\ typed' = {rate}
      BY <2>1, InflationIs
    <2> QED
      BY <2>2 DEF Sheets
  <1>3. CASE \E i \in DOMAIN Everyone : Goal!Toggle(Everyone[i])
    <2>1. PICK i \in DOMAIN Everyone : Goal!Toggle(Everyone[i])
      BY <1>3
    <2>2. PICK m : m = Everyone[i]
      OBVIOUS
    <2>3. /\ sheet'.shares = ToggledShares(sheet.shares, m)
          /\ sheet' = [editing |-> sheet.editing, kind |-> sheet.kind,
                       inflation |-> sheet.inflation, touched |-> sheet.touched,
                       shares |-> sheet'.shares]
          /\ typed' = typed
          /\ m \in Goal!Owners(sheet.shares) => Len(sheet.shares) > 1
      BY <2>1, <2>2, TogglingIs
    <2>4. SoundOwners(sheet.shares)
      BY DEF Sheets
    <2>5. SoundOwners(ToggledShares(sheet.shares, m))
      BY <2>2, <2>3, <2>4, ToggledAreSound
    <2>6. \E members \in Seq(Nat) : EvenSplit(ToggledShares(sheet.shares, m), members)
      BY <2>2, <2>3, <2>4, ToggledAreEven
    <2>7. /\ sheet'.kind = sheet.kind /\ sheet'.inflation = sheet.inflation
          /\ sheet'.touched = sheet.touched /\ sheet'.editing = sheet.editing
      BY <2>3
    <2>8. Sheets'
      BY <2>3, <2>5, <2>7 DEF Sheets
    <2> QED
      BY <2>3, <2>6, <2>8
  <1>4. CASE \E i \in DOMAIN Everyone, bps \in Parts : Goal!SetShare(Everyone[i], bps)
    <2>1. PICK m, bps : Goal!SetShare(m, bps)
      BY <1>4
    <2>2. /\ sheet'.shares = Typed1(sheet.shares, m, bps)
          /\ sheet' = [editing |-> sheet.editing, kind |-> sheet.kind,
                       inflation |-> sheet.inflation, touched |-> sheet.touched,
                       shares |-> sheet'.shares]
          /\ typed' = typed
      BY <2>1, SharingIs
    <2>3. /\ SoundOwners(Typed1(sheet.shares, m, bps))
          /\ Goal!Owners(Typed1(sheet.shares, m, bps)) = Goal!Owners(sheet.shares)
      BY TypedAreSound DEF Sheets
    <2>4. /\ sheet'.kind = sheet.kind /\ sheet'.inflation = sheet.inflation
          /\ sheet'.touched = sheet.touched /\ sheet'.editing = sheet.editing
      BY <2>2
    <2> QED
      BY <2>2, <2>3, <2>4 DEF Sheets
  <1> QED
    BY <1>1, <1>2, <1>3, <1>4 DEF Goal!TypeGoal

LEMMA GoalStarts == MCInit => GoalInv
  BY GoalAssumption DEF MCInit, GoalInit, GoalInv

LEMMA GoalStep ==
    ASSUME GoalInv, GoalNext
    PROVE  GoalInv'
  <1> USE DEF GoalInv
  <1>1. ASSUME Goal!NewGoal PROVE GoalInv'
    <2> DEFINE shares == <<[member |-> Head(Everyone), bps |-> GoalBps]>>
    <2>1. /\ sheet' = [editing |-> FALSE, kind |-> Custom, inflation |-> Default[Custom],
                       touched |-> FALSE, shares |-> shares]
          /\ typed' = {} /\ UNCHANGED <<goal, sent>>
      BY <1>1 DEF Goal!NewGoal
    <2>2. SoundOwners(shares)
      <3>1. Head(Everyone) \in Nat /\ 1 \in 1 .. GoalBps
        BY GoalAssumption
      <3>2. PICK list : list = [i \in DOMAIN shares |-> shares[i].member]
        OBVIOUS
      <3>3. list = <<Head(Everyone)>>
        BY <3>2
      <3>4. list \in Seq(Nat) /\ Len(list) \in 1 .. GoalBps /\ Apart(list)
        BY <3>1, <3>3 DEF Apart
      <3>5. \A i \in DOMAIN shares :
               shares[i] = [member |-> shares[i].member, bps |-> shares[i].bps]
        OBVIOUS
      <3> HIDE DEF shares
      <3> QED
        BY <3>2, <3>4, <3>5, Zenon DEF SoundOwners
    <2> HIDE DEF shares
    <2> QED
      BY <2>1, <2>2
  <1>2. ASSUME Goal!EditGoal PROVE GoalInv'
    BY <1>2 DEF Goal!EditGoal
  <1>3. ASSUME Goal!CloseGoal PROVE GoalInv'
    BY <1>3 DEF Goal!CloseGoal
  <1>4. ASSUME Goal!TypeGoal PROVE GoalInv'
    <2>1. sheet # Null /\ UNCHANGED <<goal, sent>>
      BY <1>4 DEF Goal!TypeGoal
    <2>2. Sheets'
      BY <1>4, <2>1, SheetsAre, TypingIsSound
    <2> QED
      BY <2>1, <2>2 DEF Sheets
  <1>5. ASSUME Goal!SubmitGoal PROVE GoalInv'
    <2>1. sheet # Null /\ sent' = Goal!GoalData /\ UNCHANGED <<goal, sheet, typed>>
      BY <1>5 DEF Goal!SubmitGoal
    <2>2. sent'.owners = sheet.shares
      BY <2>1 DEF Goal!GoalData
    <2> QED
      BY <2>1, <2>2
  <1>6. ASSUME Goal!GoalSaved PROVE GoalInv'
    BY <1>6 DEF Goal!GoalSaved
  <1>7. ASSUME Goal!GoalSaveFails PROVE GoalInv'
    BY <1>7 DEF Goal!GoalSaveFails
  <1>8. ASSUME Goal!DeleteGoal PROVE GoalInv'
    BY <1>8 DEF Goal!DeleteGoal
  <1>9. ASSUME NEW next \in SharedGoals \cup {Null}, Goal!PullGoal(next) PROVE GoalInv'
    BY <1>9, GoalAssumption DEF Goal!PullGoal
  <1> QED
    BY <1>1, <1>2, <1>3, <1>4, <1>5, <1>6, <1>7, <1>8, <1>9 DEF GoalNext

LEMMA GoalIsAside ==
    ASSUME [MCNext]_mcVars
    PROVE  GoalNext \/ UNCHANGED goalVars
  BY DEF MCNext, mcVars

LEMMA GoalInvariant == MCSpec => []GoalInv
  <1>1. GoalInv /\ [MCNext]_mcVars => GoalInv'
    <2> SUFFICES ASSUME GoalInv, [MCNext]_mcVars PROVE GoalInv'
      OBVIOUS
    <2>1. CASE GoalNext
      BY <2>1, GoalStep
    <2>2. CASE UNCHANGED goalVars
      BY <2>2 DEF goalVars, GoalInv
    <2> QED
      BY <2>1, <2>2, GoalIsAside
  <1> QED
    BY <1>1, GoalStarts, PTL DEF MCSpec

LEMMA TypedIsSaved ==
    ASSUME GoalInv, [MCNext]_mcVars
    PROVE  Goal!SavesWhatWasTyped
  <1> SUFFICES ASSUME sent = Null, sent' # Null
               PROVE  /\ sent'.inflation \in IF typed = {} THEN {Default[sent'.kind]} ELSE typed
                      /\ sheet.editing => sent'.colour = goal.colour
    BY DEF Goal!SavesWhatWasTyped
  <1>1. Goal!SubmitGoal
    <2>1. GoalNext
      BY GoalIsAside DEF goalVars
    <2> QED
      BY <2>1 DEF GoalNext, Goal!NewGoal, Goal!EditGoal, Goal!CloseGoal, Goal!TypeGoal,
                  Goal!GoalSaved, Goal!GoalSaveFails, Goal!DeleteGoal, Goal!PullGoal
  <1>2. sheet # Null /\ sent' = Goal!GoalData
    BY <1>1 DEF Goal!SubmitGoal
  <1> QED
    BY <1>2 DEF Goal!GoalData, GoalInv

LEMMA SplitIsEven ==
    ASSUME GoalInv, [MCNext]_mcVars
    PROVE  Goal!SplitsEvenly
  <1> SUFFICES ASSUME sheet # Null, sheet' # Null,
                      Goal!Owners(sheet.shares) # Goal!Owners(sheet'.shares)
               PROVE  /\ Goal!Remainder(sheet'.shares) = 0
                      /\ \A i, j \in DOMAIN sheet'.shares :
                            sheet'.shares[i].bps - sheet'.shares[j].bps \in -1 .. 1
    BY DEF Goal!SplitsEvenly
  <1>1. sheet' # sheet
    OBVIOUS
  <1>2. Goal!TypeGoal
    <2>1. GoalNext
      BY <1>1, GoalIsAside DEF goalVars
    <2> QED
      BY <1>1, <2>1 DEF GoalNext, Goal!NewGoal, Goal!EditGoal, Goal!CloseGoal, Goal!SubmitGoal,
                        Goal!GoalSaved, Goal!GoalSaveFails, Goal!DeleteGoal, Goal!PullGoal
  <1>3. PICK members \in Seq(Nat) : EvenSplit(sheet'.shares, members)
    BY <1>2, SheetsAre, TypingIsSound
  <1>4. DOMAIN sheet'.shares = 1 .. Len(members)
    BY <1>3 DEF EvenSplit
  <1> QED
    BY <1>3, <1>4 DEF EvenSplit

(* A form saves what it shows and nothing else: what an edit does not show stays as *)
(* the live record has it, an untouched record is saved as it was, a goal has the   *)
(* inflation last typed, and the split among its owners is even to a basis point    *)
(* (record-form.tsx:131, goal-form.tsx:120, owned-by.tsx:20).                       *)
THEOREM FormsSaveWhatIsShownHolds == MCSpec => FormsSaveWhatIsShown
  <1>1. FormInv /\ [MCNext]_mcVars => [Form!KeepsTheRest]_mcVars /\ [Form!SavesTheSame]_mcVars
    BY RestIsKept, SameIsSaved
  <1>2. GoalInv /\ [MCNext]_mcVars => [Goal!SavesWhatWasTyped]_mcVars /\ [Goal!SplitsEvenly]_mcVars
    BY TypedIsSaved, SplitIsEven
  <1> QED
    BY <1>1, <1>2, FormInvariant, GoalInvariant, PTL
       DEF MCSpec, FormsSaveWhatIsShown, EditKeepsTheRest, UntouchedSavesTheSame,
           GoalSavesWhatWasTyped, SplitsEvenly

------------------------------------------------------------------------------
(* Feeds: the rows of an answer, and the price list they become.                *)

LEMMA FeedsInvariant == MCSpec => []FeedsInv
  <1>1. MCInit => FeedsInv
    <2> SUFFICES ASSUME MCInit, side = "feeds" PROVE FeedsInv
      BY DEF FeedsInv
    <2>1. input = <<>>
      BY DEF MCInit, Inputs
    <2> QED
      BY <2>1 DEF FeedsInv
  <1>2. FeedsInv /\ [MCNext]_mcVars => FeedsInv'
    <2> SUFFICES ASSUME FeedsInv, [MCNext]_mcVars, side' = "feeds" PROVE FeedsInv'
      BY DEF FeedsInv
    <2>1. side = "feeds" /\ input \in Seq(Rows)
      BY DEF MCNext, mcVars, FeedsInv
    <2>2. CASE AddRow
      <3>1. PICK row \in Rows : input' = Append(input, row)
        BY <2>2 DEF AddRow
      <3> QED
        BY <2>1, <3>1 DEF FeedsInv
    <2>3. CASE UNCHANGED input
      BY <2>1, <2>3 DEF FeedsInv
    <2> QED
      BY <2>1, <2>2, <2>3 DEF MCNext, mcVars, Ask, AddHolding, MoveGoal, AddKey, Buy, Sell,
                              AddAsset, Fetch, AddSnapshot, AddLeg
  <1> QED
    BY <1>1, <1>2, PTL DEF MCSpec

(* What maps codes.                                                              *)
LEMMA ByCodeIs ==
    ASSUME NEW S, NEW f
    PROVE  f \in ByCode(S) <=> /\ f = [c \in DOMAIN f |-> f[c]] /\ DOMAIN f \subseteq FeedCodes
                               /\ \A c \in DOMAIN f : f[c] \in S
  BY DEF ByCode

LEMMA PutIs ==
    ASSUME NEW S, NEW f \in ByCode(S), NEW key \in FeedCodes, NEW value \in S
    PROVE  LET g == Worth!Put(f, key, value)
           IN  /\ g \in ByCode(S)
               /\ DOMAIN g = DOMAIN f \cup {key}
               /\ \A c \in DOMAIN g : g[c] = IF c = key THEN value ELSE f[c]
  <1> DEFINE g == Worth!Put(f, key, value)
  <1>1. /\ DOMAIN g = DOMAIN f \cup {key} /\ g = [c \in DOMAIN g |-> g[c]]
        /\ \A c \in DOMAIN g : g[c] = IF c = key THEN value ELSE f[c]
    BY DEF Worth!Put
  <1>2. DOMAIN f \subseteq FeedCodes /\ \A c \in DOMAIN f : f[c] \in S
    BY ByCodeIs
  <1> HIDE DEF g
  <1>3. DOMAIN g \subseteq FeedCodes /\ \A c \in DOMAIN g : g[c] \in S
    BY <1>1, <1>2
  <1>4. g \in ByCode(S)
    BY <1>1, <1>3, ByCodeIs
  <1> QED
    BY <1>1, <1>4 DEF g

(* The dates and the codes that rows have.                                        *)
LEMMA DaysAreInt == FeedDates \subseteq Int /\ Null \notin FeedDates
  <1>1. ASSUME NEW row \in Rows, NEW offset \in {0, ExchangeOffset, IstOffset}
        PROVE  (row.at + offset) \div DayLength \in Int
    <2>1. PICK n \in Int : n = row.at + offset
      BY FeedsAssumption DEF SoundRow
    <2>2. n \div DayLength \in Int
      BY FeedsAssumption
    <2> QED
      BY <2>1, <2>2
  <1> QED
    BY <1>1, ValuesAssumption DEF FeedDates

LEMMA RowsAre ==
    ASSUME NEW row \in Rows
    PROVE  /\ row.price \in Nat \cup {Null} /\ row.at \in Int /\ row.flag \in BOOLEAN
           /\ row.code \in FeedCodes /\ Worth!NormaliseCode(row.code) \in FeedCodes
           /\ row.code # Null
           /\ \A offset \in {0, ExchangeOffset, IstOffset} : OnDay(row, offset) \in FeedDates
  BY FeedsAssumption DEF SoundRow, FeedCodes, FeedDates, OnDay

(* Something is greatest of what is finite.                                       *)
LEMMA ImageIsFinite ==
    ASSUME NEW S, IsFiniteSet(S), NEW k
    PROVE  IsFiniteSet({k[x] : x \in S})
  <1> DEFINE Image(T) == {k[x] : x \in T}
             U == {T \in SUBSET S : IsFiniteSet(Image(T))}
  <1>1. {} \in U
    <2>1. Image({}) = {}
      OBVIOUS
    <2> QED
      BY <2>1, FS_EmptySet
  <1>2. ASSUME NEW T \in U, NEW x \in S PROVE T \cup {x} \in U
    <2>1. Image(T \cup {x}) = Image(T) \cup {k[x]} /\ IsFiniteSet(Image(T))
      OBVIOUS
    <2> HIDE DEF Image
    <2>2. IsFiniteSet(Image(T) \cup {k[x]})
      BY <2>1, FS_AddElement
    <2>3. IsFiniteSet(Image(T \cup {x}))
      BY <2>1, <2>2, Zenon
    <2> QED
      BY <2>3
  <1> HIDE DEF U
  <1>3. S \in U
    BY <1>1, <1>2, BuildUp
  <1> QED
    BY <1>3 DEF U

LEMMA GreatestIs ==
    ASSUME NEW S, IsFiniteSet(S), S # {}, NEW d, \A x \in S : d[x] \in Int
    PROVE  \E x \in S : \A y \in S : d[y] <= d[x]
  <1> DEFINE e == [x \in S |-> -d[x]]
  <1>1. \A x \in S : e[x] = -d[x] /\ e[x] \in Int
    OBVIOUS
  <1> HIDE DEF e
  <1>2. PICK x \in S : \A y \in S : e[x] <= e[y]
    BY <1>1, OldestIs
  <1> QED
    BY <1>1, <1>2

LEMMA LatestIsIn ==
    ASSUME NEW S, IsFiniteSet(S), S # {}, S \subseteq Int
    PROVE  Worth!Max(S) \in S
  <1> DEFINE d == [x \in S |-> x]
  <1>1. \A x \in S : d[x] = x /\ d[x] \in Int
    OBVIOUS
  <1> HIDE DEF d
  <1>2. PICK x \in S : \A y \in S : d[y] <= d[x]
    BY <1>1, GreatestIs
  <1>3. \A y \in S : x >= y
    BY <1>1, <1>2
  <1> QED
    BY <1>3 DEF Worth!Max

(* The latest of the commonest days is one of them.                              *)
LEMMA CommonestIsIn ==
    ASSUME NEW days, IsFiniteSet(days), days # {}, days \subseteq Int,
           NEW count, \A d \in days : count[d] \in Nat
    PROVE  Worth!Max({d \in days : \A e \in days : count[e] <= count[d]}) \in days
  <1> DEFINE most == {d \in days : \A e \in days : count[e] <= count[d]}
  <1>1. PICK d \in days : \A e \in days : count[e] <= count[d]
    <2>1. \A x \in days : count[x] \in Int
      OBVIOUS
    <2> QED
      BY <2>1, GreatestIs
  <1>2. d \in most /\ most \subseteq days
    BY <1>1
  <1> HIDE DEF most
  <1>3. IsFiniteSet(most) /\ most # {} /\ most \subseteq Int
    BY <1>2, FS_Subset
  <1>4. Worth!Max(most) \in most
    BY <1>3, LatestIsIn
  <1> QED
    BY <1>2, <1>4 DEF most

(* The rows a feed may have, and what is read of them.                            *)
SchemeRows == [code : FeedCodes \cup {Null}, price : Nat \cup {Null}, date : FeedDates]
TradeRows  == [code : {row.code : row \in Rows}, price : Nat \cup {Null}, date : FeedDates,
               kept : BOOLEAN]
QuoteRows  == [code : {row.code : row \in Rows}, price : Nat \cup {Null},
               at : {row.at : row \in Rows}, offset : {ExchangeOffset}]
MetalRows  == [gold : Nat \cup {Null}, silver : Nat \cup {Null}, date : FeedDates,
               session : {"AM", "PM"}]

Readings == [prices : ByCode(Nat), on : ByCode(FeedDates), skipped : Nat]
Files    == [date : FeedDates \cup {Null}, dates : ByCode(FeedDates), prices : ByCode(Nat),
             currency : {"INR"}, skipped : Nat]
Bests    == {Null} \cup [gold : Nat, silver : Nat, date : FeedDates, session : {"AM", "PM"}]

NoneRead == [date |-> Null, dates |-> [c \in {} |-> 0], prices |-> [c \in {} |-> 0],
             currency |-> "INR", skipped |-> 0]

(* One row more: what it is read as, and what becomes of the rest.                 *)
Gains(reading, old, key, price, day) ==
    /\ reading.prices = Worth!Put(old.prices, key, price)
    /\ reading.on = Worth!Put(old.on, key, day)
    /\ reading.skipped = old.skipped

LEMMA EmptyIsByCode == \A S : [c \in {} |-> 0] \in ByCode(S)
  <1> TAKE S
  <1>1. {} \in SUBSET FeedCodes /\ [c \in {} |-> 0] \in [{} -> S]
    OBVIOUS
  <1> QED
    BY <1>1 DEF ByCode

LEMMA SkippedIs ==
    ASSUME NEW reading \in Readings
    PROVE  /\ Worth!Skipped(reading) \in Readings
           /\ Worth!Skipped(reading).prices = reading.prices
           /\ Worth!Skipped(reading).on = reading.on
           /\ Worth!Skipped(reading).skipped = reading.skipped + 1
  <1>1. /\ reading = [prices |-> reading.prices, on |-> reading.on, skipped |-> reading.skipped]
        /\ reading.prices \in ByCode(Nat) /\ reading.on \in ByCode(FeedDates)
        /\ reading.skipped \in Nat
    BY DEF Readings
  <1>2. Worth!Skipped(reading) = [prices |-> reading.prices, on |-> reading.on,
                                  skipped |-> reading.skipped + 1]
    BY <1>1 DEF Worth!Skipped
  <1>3. reading.skipped + 1 \in Nat
    BY <1>1
  <1> QED
    BY <1>1, <1>2, <1>3 DEF Readings

LEMMA SchemeIsRead ==
    ASSUME NEW reading \in Readings, NEW line \in SchemeRows
    PROVE  LET new == Worth!ReadScheme(reading, line)
           IN  /\ new \in Readings
               /\ Null \in {line.code, line.price} =>
                     new.prices = reading.prices /\ new.on = reading.on
               /\ Null \notin {line.code, line.price} =>
                     Gains(new, reading, line.code, line.price, line.date)
  <1> DEFINE new == Worth!ReadScheme(reading, line)
  <1>0. line.date # Null
    BY DaysAreInt DEF SchemeRows
  <1>1. CASE Null \in {line.code, line.price}
    <2>1. new = Worth!Skipped(reading)
      BY <1>1 DEF Worth!ReadScheme
    <2> QED
      BY <1>1, <2>1, SkippedIs
  <1>2. CASE Null \notin {line.code, line.price}
    <2>1. line.code \in FeedCodes /\ line.price \in Nat /\ line.date \in FeedDates
      BY <1>2 DEF SchemeRows
    <2>2. PICK p, d : p = Worth!Put(reading.prices, line.code, line.price)
                      /\ d = Worth!Put(reading.on, line.code, line.date)
      OBVIOUS
    <2>3. p \in ByCode(Nat) /\ d \in ByCode(FeedDates)
      BY <2>1, <2>2, PutIs DEF Readings
    <2>4. new = [reading EXCEPT !.prices = p, !.on = d]
      BY <1>0, <1>2, <2>2 DEF Worth!ReadScheme
    <2>5. new = [prices |-> p, on |-> d, skipped |-> reading.skipped] /\ reading.skipped \in Nat
      BY <2>4 DEF Readings
    <2> HIDE DEF new
    <2>6. new.prices = p /\ new.on = d /\ new.skipped = reading.skipped
      BY <2>5
    <2>7. new \in Readings
      BY <2>3, <2>5 DEF Readings
    <2>8. Gains(new, reading, line.code, line.price, line.date)
      BY <2>2, <2>6 DEF Gains
    <2> QED
      BY <1>2, <2>7, <2>8 DEF new
  <1> QED
    BY <1>1, <1>2

LEMMA QuoteIsRead ==
    ASSUME NEW reading \in Readings, NEW quote \in QuoteRows,
           NEW offset \in {ExchangeOffset, IstOffset}
    PROVE  LET new == Worth!ReadQuote(reading, quote, offset)
               key == Worth!NormaliseCode(quote.code)
           IN  /\ new \in Readings
               /\ quote.price = Null \/ key \in DOMAIN reading.prices =>
                     /\ new.prices = reading.prices /\ new.on = reading.on
                     /\ new.skipped = reading.skipped + 1
               /\ ~(quote.price = Null \/ key \in DOMAIN reading.prices) =>
                     Gains(new, reading, key, quote.price, (quote.at + offset) \div DayLength)
  <1> DEFINE new == Worth!ReadQuote(reading, quote, offset)
             key == Worth!NormaliseCode(quote.code)
             day == (quote.at + offset) \div DayLength
  <1>0. PICK row \in Rows : quote.code = row.code
    BY DEF QuoteRows
  <1>0a. PICK other \in Rows : quote.at = other.at
    BY DEF QuoteRows
  <1>1. quote.code # Null /\ key \in FeedCodes /\ day \in FeedDates
    BY <1>0, <1>0a, RowsAre DEF OnDay
  <1>2. CASE quote.price = Null \/ key \in DOMAIN reading.prices
    <2>1. new = Worth!Skipped(reading)
      BY <1>2 DEF Worth!ReadQuote
    <2> QED
      BY <1>2, <2>1, SkippedIs
  <1>3. CASE ~(quote.price = Null \/ key \in DOMAIN reading.prices)
    <2>1. quote.price \in Nat
      BY <1>3 DEF QuoteRows
    <2>2. PICK p, d : p = Worth!Put(reading.prices, key, quote.price)
                      /\ d = Worth!Put(reading.on, key, day)
      OBVIOUS
    <2>3. p \in ByCode(Nat) /\ d \in ByCode(FeedDates)
      BY <1>1, <2>1, <2>2, PutIs DEF Readings
    <2>4. new = [reading EXCEPT !.prices = p, !.on = d]
      BY <1>1, <1>3, <2>2 DEF Worth!ReadQuote, SameDay
    <2>5. new = [prices |-> p, on |-> d, skipped |-> reading.skipped] /\ reading.skipped \in Nat
      BY <2>4 DEF Readings
    <2> HIDE DEF new, key, day
    <2>6. Gains(new, reading, key, quote.price, day) /\ new \in Readings
      BY <2>2, <2>3, <2>5 DEF Readings, Gains
    <2> QED
      BY <1>3, <2>6 DEF new, key, day
  <1> QED
    BY <1>2, <1>3

LEMMA TradeIsRead ==
    ASSUME NEW file \in Files, NEW row \in TradeRows
    PROVE  LET new == Worth!ReadTrade(file, row)
               key == Worth!NormaliseCode(row.code)
               reads == /\ row.kept /\ row.price # Null /\ file.date \in {Null, row.date}
                        /\ key \notin DOMAIN file.prices
           IN  /\ new \in Files
               /\ new.dates = file.dates
               /\ ~reads => new.prices = file.prices /\ new.date = file.date
               /\ reads => new.prices = Worth!Put(file.prices, key, row.price) /\ new.date = row.date
  <1> DEFINE new == Worth!ReadTrade(file, row)
             key == Worth!NormaliseCode(row.code)
             reads == /\ row.kept /\ row.price # Null /\ file.date \in {Null, row.date}
                      /\ key \notin DOMAIN file.prices
  <1>0. PICK of \in Rows : row.code = of.code
    BY DEF TradeRows
  <1>1. row.code # Null /\ key \in FeedCodes /\ row.date \in FeedDates /\ row.date # Null
    BY <1>0, RowsAre, DaysAreInt DEF TradeRows
  <1>2. CASE ~reads
    <2>1. new = file \/ new = [file EXCEPT !.skipped = @ + 1]
      BY <1>1, <1>2 DEF Worth!ReadTrade, Worth!Skipped
    <2> QED
      BY <1>2, <2>1 DEF Files
  <1>3. CASE reads
    <2>1. row.price \in Nat /\ row.kept
      BY <1>3 DEF TradeRows
    <2>2. PICK p : p = Worth!Put(file.prices, key, row.price)
      OBVIOUS
    <2>3. p \in ByCode(Nat)
      BY <1>1, <2>1, <2>2, PutIs DEF Files
    <2>4. new = [file EXCEPT !.date = row.date, !.prices = p]
      BY <1>1, <1>3, <2>1, <2>2 DEF Worth!ReadTrade
    <2>5. new = [date |-> row.date, dates |-> file.dates, prices |-> p, currency |-> "INR",
                 skipped |-> file.skipped] /\ file.skipped \in Nat /\ file.dates \in ByCode(FeedDates)
      BY <2>4 DEF Files
    <2> HIDE DEF new, key
    <2>6. new \in Files /\ new.dates = file.dates /\ new.prices = p /\ new.date = row.date
      BY <1>1, <2>3, <2>5 DEF Files
    <2> QED
      BY <1>3, <2>2, <2>6 DEF new, key
  <1> QED
    BY <1>2, <1>3

LEMMA MetalIsRead ==
    ASSUME NEW best \in Bests, NEW row \in MetalRows
    PROVE  Worth!Pick(best, row) \in Bests
  BY DEF Worth!Pick, Bests, MetalRows

(* The walk over the lines of a file.                                            *)
LEMMA SchemeSteps ==
    ASSUME NEW rows \in Seq(SchemeRows)
    PROVE  \E r \in [0 .. Len(rows) -> Readings] :
              /\ r[0] = Worth!Reading /\ Worth!FoldLeft(Worth!ReadScheme, Worth!Reading, rows) = r[Len(rows)]
              /\ \A i \in 1 .. Len(rows) : r[i] = Worth!ReadScheme(r[i - 1], rows[i])
  <1> DEFINE n == Len(rows)
             step == [p \in Readings \X SchemeRows |-> Worth!ReadScheme(p[1], p[2])]
             Once(it, t) == IF t = {} THEN Worth!Reading
                            ELSE Worth!ReadScheme(it[t \ {Max(t)}], rows[Max(t)])
             fold == CHOOSE it : it = [t \in SUBSET (1 .. n) |-> Once(it, t)]
  <1>1. n \in Nat /\ DOMAIN rows = 1 .. n /\ (\A i \in 1 .. n : rows[i] \in SchemeRows)
    OBVIOUS
  <1>0. Worth!Reading \in Readings /\ \A a \in Readings : \A b \in SchemeRows : Worth!ReadScheme(a, b) \in Readings
    BY SchemeIsRead, EmptyIsByCode DEF Worth!Reading, Readings
  <1>2. \A a \in Readings : \A b \in SchemeRows : step[<<a, b>>] = Worth!ReadScheme(a, b)
    OBVIOUS
  <1>3. step \in [Readings \X SchemeRows -> Readings]
    BY <1>0
  <1>4. Folding(n, Readings, Worth!Reading, SchemeRows, rows, step)
    BY <1>0, <1>1, <1>3 DEF Folding
  <1>5. Worth!FoldLeft(Worth!ReadScheme, Worth!Reading, rows) = fold[1 .. n]
    BY <1>1 DEF Worth!FoldLeft, Worth!MapThenFoldSet, MapThenFoldSet, Worth!Max, Max
  <1> HIDE DEF step, n
  <1>6. PICK it \in [SUBSET (1 .. n) -> Readings] : Unfolds(it, n, Worth!Reading, rows, step)
    BY <1>4, FoldExists
  <1>7. it = [t \in SUBSET (1 .. n) |-> Once(it, t)]
    <2>1. \A t \in SUBSET (1 .. n) : it[t] = Once(it, t)
      <3> TAKE t \in SUBSET (1 .. n)
      <3>1. CASE t = {}
        BY <1>6, <3>1 DEF Unfolds
      <3>2. CASE t # {}
        <4>1. Max(t) \in 1 .. n
          BY <1>1, <3>2, MaxIsIn
        <4>2. rows[Max(t)] \in SchemeRows /\ it[t \ {Max(t)}] \in Readings
          BY <1>1, <4>1
        <4> QED
          BY <1>2, <1>6, <3>2, <4>2 DEF Unfolds
      <3> QED
        BY <3>1, <3>2
    <2> HIDE DEF Once
    <2> QED
      BY <2>1
  <1>8. fold = [t \in SUBSET (1 .. n) |-> Once(fold, t)]
    <2> HIDE DEF Once
    <2> QED
      BY <1>7
  <1> HIDE DEF fold
  <1>9. FoldedBy(fold, n, Readings, Worth!Reading, rows, step)
    <2>1. fold[{}] = Worth!Reading
      BY <1>8
    <2>2. ASSUME NEW t \in SUBSET (1 .. n), t # {}, fold[t \ {Max(t)}] \in Readings
          PROVE  fold[t] = step[<<fold[t \ {Max(t)}], rows[Max(t)]>>]
      <3>1. Max(t) \in 1 .. n
        BY <1>1, <2>2, MaxIsIn
      <3>2. fold[t] = Worth!ReadScheme(fold[t \ {Max(t)}], rows[Max(t)])
        BY <1>8, <2>2
      <3> QED
        BY <1>1, <1>2, <2>2, <3>1, <3>2
    <2> QED
      BY <2>1, <2>2 DEF FoldedBy
  <1>10. PICK r \in [0 .. n -> Readings] : /\ r[0] = Worth!Reading /\ fold[1 .. n] = r[n]
                                      /\ \A i \in 1 .. n : r[i] = step[<<r[i - 1], rows[i]>>]
    BY <1>4, <1>9, FoldSteps
  <1>11. \A i \in 1 .. n : r[i] = Worth!ReadScheme(r[i - 1], rows[i])
    <2> TAKE i \in 1 .. n
    <2>1. i - 1 \in 0 .. n /\ rows[i] \in SchemeRows
      BY <1>1
    <2> QED
      BY <1>2, <1>10, <2>1
  <1> QED
    BY <1>5, <1>10, <1>11 DEF n

(* The walk over quotes, each with its exchange's offset ...                       *)
LEMMA SparkSteps ==
    ASSUME NEW rows \in Seq(QuoteRows)
    PROVE  \E r \in [0 .. Len(rows) -> Readings] :
              /\ r[0] = Worth!Reading /\ Worth!ParseSpark(rows) = Worth!Settled(r[Len(rows)], "USD")
              /\ \A i \in 1 .. Len(rows) : r[i] = Worth!ReadQuote(r[i - 1], rows[i], rows[i].offset)
  <1> DEFINE n == Len(rows)
             step == [p \in Readings \X QuoteRows |-> Worth!ReadQuote(p[1], p[2], p[2].offset)]
             Once(it, t) == IF t = {} THEN Worth!Reading
                            ELSE Worth!ReadQuote(it[t \ {Max(t)}], rows[Max(t)], rows[Max(t)].offset)
             fold == CHOOSE it : it = [t \in SUBSET (1 .. n) |-> Once(it, t)]
  <1>1. n \in Nat /\ DOMAIN rows = 1 .. n /\ (\A i \in 1 .. n : rows[i] \in QuoteRows)
    OBVIOUS
  <1>0. Worth!Reading \in Readings /\ \A a \in Readings : \A b \in QuoteRows : Worth!ReadQuote(a, b, b.offset) \in Readings
    BY QuoteIsRead, EmptyIsByCode DEF Worth!Reading, Readings, QuoteRows
  <1>2. \A a \in Readings : \A b \in QuoteRows : step[<<a, b>>] = Worth!ReadQuote(a, b, b.offset)
    OBVIOUS
  <1>3. step \in [Readings \X QuoteRows -> Readings]
    BY <1>0
  <1>4. Folding(n, Readings, Worth!Reading, QuoteRows, rows, step)
    BY <1>0, <1>1, <1>3 DEF Folding
  <1>5. Worth!ParseSpark(rows) = Worth!Settled(fold[1 .. n], "USD")
    BY <1>1 DEF Worth!ParseSpark, Worth!FoldLeft, Worth!MapThenFoldSet, MapThenFoldSet, Worth!Max, Max
  <1> HIDE DEF step, n
  <1>6. PICK it \in [SUBSET (1 .. n) -> Readings] : Unfolds(it, n, Worth!Reading, rows, step)
    BY <1>4, FoldExists
  <1>7. it = [t \in SUBSET (1 .. n) |-> Once(it, t)]
    <2>1. \A t \in SUBSET (1 .. n) : it[t] = Once(it, t)
      <3> TAKE t \in SUBSET (1 .. n)
      <3>1. CASE t = {}
        BY <1>6, <3>1 DEF Unfolds
      <3>2. CASE t # {}
        <4>1. Max(t) \in 1 .. n
          BY <1>1, <3>2, MaxIsIn
        <4>2. rows[Max(t)] \in QuoteRows /\ it[t \ {Max(t)}] \in Readings
          BY <1>1, <4>1
        <4> QED
          BY <1>2, <1>6, <3>2, <4>2 DEF Unfolds
      <3> QED
        BY <3>1, <3>2
    <2> HIDE DEF Once
    <2> QED
      BY <2>1
  <1>8. fold = [t \in SUBSET (1 .. n) |-> Once(fold, t)]
    <2> HIDE DEF Once
    <2> QED
      BY <1>7
  <1> HIDE DEF fold
  <1>9. FoldedBy(fold, n, Readings, Worth!Reading, rows, step)
    <2>1. fold[{}] = Worth!Reading
      BY <1>8
    <2>2. ASSUME NEW t \in SUBSET (1 .. n), t # {}, fold[t \ {Max(t)}] \in Readings
          PROVE  fold[t] = step[<<fold[t \ {Max(t)}], rows[Max(t)]>>]
      <3>1. Max(t) \in 1 .. n
        BY <1>1, <2>2, MaxIsIn
      <3>2. fold[t] = Worth!ReadQuote(fold[t \ {Max(t)}], rows[Max(t)], rows[Max(t)].offset)
        BY <1>8, <2>2
      <3> QED
        BY <1>1, <1>2, <2>2, <3>1, <3>2
    <2> QED
      BY <2>1, <2>2 DEF FoldedBy
  <1>10. PICK r \in [0 .. n -> Readings] : /\ r[0] = Worth!Reading /\ fold[1 .. n] = r[n]
                                      /\ \A i \in 1 .. n : r[i] = step[<<r[i - 1], rows[i]>>]
    BY <1>4, <1>9, FoldSteps
  <1>11. \A i \in 1 .. n : r[i] = Worth!ReadQuote(r[i - 1], rows[i], rows[i].offset)
    <2> TAKE i \in 1 .. n
    <2>1. i - 1 \in 0 .. n /\ rows[i] \in QuoteRows
      BY <1>1
    <2> QED
      BY <1>2, <1>10, <2>1
  <1> QED
    BY <1>5, <1>10, <1>11 DEF n

(* ... or with India's.                                                           *)
LEMMA CoinSteps ==
    ASSUME NEW rows \in Seq(QuoteRows)
    PROVE  \E r \in [0 .. Len(rows) -> Readings] :
              /\ r[0] = Worth!Reading /\ Worth!ParseCoinGecko(rows) = Worth!Settled(r[Len(rows)], "USD")
              /\ \A i \in 1 .. Len(rows) : r[i] = Worth!ReadQuote(r[i - 1], rows[i], IstOffset)
  <1> DEFINE n == Len(rows)
             step == [p \in Readings \X QuoteRows |-> Worth!ReadQuote(p[1], p[2], IstOffset)]
             Once(it, t) == IF t = {} THEN Worth!Reading
                            ELSE Worth!ReadQuote(it[t \ {Max(t)}], rows[Max(t)], IstOffset)
             fold == CHOOSE it : it = [t \in SUBSET (1 .. n) |-> Once(it, t)]
  <1>1. n \in Nat /\ DOMAIN rows = 1 .. n /\ (\A i \in 1 .. n : rows[i] \in QuoteRows)
    OBVIOUS
  <1>0. Worth!Reading \in Readings /\ \A a \in Readings : \A b \in QuoteRows : Worth!ReadQuote(a, b, IstOffset) \in Readings
    BY QuoteIsRead, EmptyIsByCode DEF Worth!Reading, Readings
  <1>2. \A a \in Readings : \A b \in QuoteRows : step[<<a, b>>] = Worth!ReadQuote(a, b, IstOffset)
    OBVIOUS
  <1>3. step \in [Readings \X QuoteRows -> Readings]
    BY <1>0
  <1>4. Folding(n, Readings, Worth!Reading, QuoteRows, rows, step)
    BY <1>0, <1>1, <1>3 DEF Folding
  <1>5. Worth!ParseCoinGecko(rows) = Worth!Settled(fold[1 .. n], "USD")
    BY <1>1 DEF Worth!ParseCoinGecko, Worth!FoldLeft, Worth!MapThenFoldSet, MapThenFoldSet, Worth!Max, Max
  <1> HIDE DEF step, n
  <1>6. PICK it \in [SUBSET (1 .. n) -> Readings] : Unfolds(it, n, Worth!Reading, rows, step)
    BY <1>4, FoldExists
  <1>7. it = [t \in SUBSET (1 .. n) |-> Once(it, t)]
    <2>1. \A t \in SUBSET (1 .. n) : it[t] = Once(it, t)
      <3> TAKE t \in SUBSET (1 .. n)
      <3>1. CASE t = {}
        BY <1>6, <3>1 DEF Unfolds
      <3>2. CASE t # {}
        <4>1. Max(t) \in 1 .. n
          BY <1>1, <3>2, MaxIsIn
        <4>2. rows[Max(t)] \in QuoteRows /\ it[t \ {Max(t)}] \in Readings
          BY <1>1, <4>1
        <4> QED
          BY <1>2, <1>6, <3>2, <4>2 DEF Unfolds
      <3> QED
        BY <3>1, <3>2
    <2> HIDE DEF Once
    <2> QED
      BY <2>1
  <1>8. fold = [t \in SUBSET (1 .. n) |-> Once(fold, t)]
    <2> HIDE DEF Once
    <2> QED
      BY <1>7
  <1> HIDE DEF fold
  <1>9. FoldedBy(fold, n, Readings, Worth!Reading, rows, step)
    <2>1. fold[{}] = Worth!Reading
      BY <1>8
    <2>2. ASSUME NEW t \in SUBSET (1 .. n), t # {}, fold[t \ {Max(t)}] \in Readings
          PROVE  fold[t] = step[<<fold[t \ {Max(t)}], rows[Max(t)]>>]
      <3>1. Max(t) \in 1 .. n
        BY <1>1, <2>2, MaxIsIn
      <3>2. fold[t] = Worth!ReadQuote(fold[t \ {Max(t)}], rows[Max(t)], IstOffset)
        BY <1>8, <2>2
      <3> QED
        BY <1>1, <1>2, <2>2, <3>1, <3>2
    <2> QED
      BY <2>1, <2>2 DEF FoldedBy
  <1>10. PICK r \in [0 .. n -> Readings] : /\ r[0] = Worth!Reading /\ fold[1 .. n] = r[n]
                                      /\ \A i \in 1 .. n : r[i] = step[<<r[i - 1], rows[i]>>]
    BY <1>4, <1>9, FoldSteps
  <1>11. \A i \in 1 .. n : r[i] = Worth!ReadQuote(r[i - 1], rows[i], IstOffset)
    <2> TAKE i \in 1 .. n
    <2>1. i - 1 \in 0 .. n /\ rows[i] \in QuoteRows
      BY <1>1
    <2> QED
      BY <1>2, <1>10, <2>1
  <1> QED
    BY <1>5, <1>10, <1>11 DEF n

(* The walk over a bhavcopy.                                                      *)
LEMMA TradeSteps ==
    ASSUME NEW rows \in Seq(TradeRows)
    PROVE  \E r \in [0 .. Len(rows) -> Files] :
              /\ r[0] = NoneRead /\ Worth!FoldLeft(Worth!ReadTrade, NoneRead, rows) = r[Len(rows)]
              /\ \A i \in 1 .. Len(rows) : r[i] = Worth!ReadTrade(r[i - 1], rows[i])
  <1> DEFINE n == Len(rows)
             step == [p \in Files \X TradeRows |-> Worth!ReadTrade(p[1], p[2])]
             Once(it, t) == IF t = {} THEN NoneRead
                            ELSE Worth!ReadTrade(it[t \ {Max(t)}], rows[Max(t)])
             fold == CHOOSE it : it = [t \in SUBSET (1 .. n) |-> Once(it, t)]
  <1>1. n \in Nat /\ DOMAIN rows = 1 .. n /\ (\A i \in 1 .. n : rows[i] \in TradeRows)
    OBVIOUS
  <1>0. NoneRead \in Files /\ \A a \in Files : \A b \in TradeRows : Worth!ReadTrade(a, b) \in Files
    BY TradeIsRead, EmptyIsByCode DEF NoneRead, Files
  <1>2. \A a \in Files : \A b \in TradeRows : step[<<a, b>>] = Worth!ReadTrade(a, b)
    OBVIOUS
  <1>3. step \in [Files \X TradeRows -> Files]
    BY <1>0
  <1>4. Folding(n, Files, NoneRead, TradeRows, rows, step)
    BY <1>0, <1>1, <1>3 DEF Folding
  <1>5. Worth!FoldLeft(Worth!ReadTrade, NoneRead, rows) = fold[1 .. n]
    BY <1>1 DEF Worth!FoldLeft, Worth!MapThenFoldSet, MapThenFoldSet, Worth!Max, Max
  <1> HIDE DEF step, n
  <1>6. PICK it \in [SUBSET (1 .. n) -> Files] : Unfolds(it, n, NoneRead, rows, step)
    BY <1>4, FoldExists
  <1>7. it = [t \in SUBSET (1 .. n) |-> Once(it, t)]
    <2>1. \A t \in SUBSET (1 .. n) : it[t] = Once(it, t)
      <3> TAKE t \in SUBSET (1 .. n)
      <3>1. CASE t = {}
        BY <1>6, <3>1 DEF Unfolds
      <3>2. CASE t # {}
        <4>1. Max(t) \in 1 .. n
          BY <1>1, <3>2, MaxIsIn
        <4>2. rows[Max(t)] \in TradeRows /\ it[t \ {Max(t)}] \in Files
          BY <1>1, <4>1
        <4> QED
          BY <1>2, <1>6, <3>2, <4>2 DEF Unfolds
      <3> QED
        BY <3>1, <3>2
    <2> HIDE DEF Once
    <2> QED
      BY <2>1
  <1>8. fold = [t \in SUBSET (1 .. n) |-> Once(fold, t)]
    <2> HIDE DEF Once
    <2> QED
      BY <1>7
  <1> HIDE DEF fold
  <1>9. FoldedBy(fold, n, Files, NoneRead, rows, step)
    <2>1. fold[{}] = NoneRead
      BY <1>8
    <2>2. ASSUME NEW t \in SUBSET (1 .. n), t # {}, fold[t \ {Max(t)}] \in Files
          PROVE  fold[t] = step[<<fold[t \ {Max(t)}], rows[Max(t)]>>]
      <3>1. Max(t) \in 1 .. n
        BY <1>1, <2>2, MaxIsIn
      <3>2. fold[t] = Worth!ReadTrade(fold[t \ {Max(t)}], rows[Max(t)])
        BY <1>8, <2>2
      <3> QED
        BY <1>1, <1>2, <2>2, <3>1, <3>2
    <2> QED
      BY <2>1, <2>2 DEF FoldedBy
  <1>10. PICK r \in [0 .. n -> Files] : /\ r[0] = NoneRead /\ fold[1 .. n] = r[n]
                                      /\ \A i \in 1 .. n : r[i] = step[<<r[i - 1], rows[i]>>]
    BY <1>4, <1>9, FoldSteps
  <1>11. \A i \in 1 .. n : r[i] = Worth!ReadTrade(r[i - 1], rows[i])
    <2> TAKE i \in 1 .. n
    <2>1. i - 1 \in 0 .. n /\ rows[i] \in TradeRows
      BY <1>1
    <2> QED
      BY <1>2, <1>10, <2>1
  <1> QED
    BY <1>5, <1>10, <1>11 DEF n

(* The walk over a page of rates.                                                 *)
LEMMA MetalSteps ==
    ASSUME NEW rows \in Seq(MetalRows)
    PROVE  \E r \in [0 .. Len(rows) -> Bests] :
              /\ r[0] = Null /\ Worth!FoldLeft(Worth!Pick, Null, rows) = r[Len(rows)]
              /\ \A i \in 1 .. Len(rows) : r[i] = Worth!Pick(r[i - 1], rows[i])
  <1> DEFINE n == Len(rows)
             step == [p \in Bests \X MetalRows |-> Worth!Pick(p[1], p[2])]
             Once(it, t) == IF t = {} THEN Null
                            ELSE Worth!Pick(it[t \ {Max(t)}], rows[Max(t)])
             fold == CHOOSE it : it = [t \in SUBSET (1 .. n) |-> Once(it, t)]
  <1>1. n \in Nat /\ DOMAIN rows = 1 .. n /\ (\A i \in 1 .. n : rows[i] \in MetalRows)
    OBVIOUS
  <1>0. Null \in Bests /\ \A a \in Bests : \A b \in MetalRows : Worth!Pick(a, b) \in Bests
    BY MetalIsRead DEF Bests
  <1>2. \A a \in Bests : \A b \in MetalRows : step[<<a, b>>] = Worth!Pick(a, b)
    OBVIOUS
  <1>3. step \in [Bests \X MetalRows -> Bests]
    BY <1>0
  <1>4. Folding(n, Bests, Null, MetalRows, rows, step)
    BY <1>0, <1>1, <1>3 DEF Folding
  <1>5. Worth!FoldLeft(Worth!Pick, Null, rows) = fold[1 .. n]
    BY <1>1 DEF Worth!FoldLeft, Worth!MapThenFoldSet, MapThenFoldSet, Worth!Max, Max
  <1> HIDE DEF step, n
  <1>6. PICK it \in [SUBSET (1 .. n) -> Bests] : Unfolds(it, n, Null, rows, step)
    BY <1>4, FoldExists
  <1>7. it = [t \in SUBSET (1 .. n) |-> Once(it, t)]
    <2>1. \A t \in SUBSET (1 .. n) : it[t] = Once(it, t)
      <3> TAKE t \in SUBSET (1 .. n)
      <3>1. CASE t = {}
        BY <1>6, <3>1 DEF Unfolds
      <3>2. CASE t # {}
        <4>1. Max(t) \in 1 .. n
          BY <1>1, <3>2, MaxIsIn
        <4>2. rows[Max(t)] \in MetalRows /\ it[t \ {Max(t)}] \in Bests
          BY <1>1, <4>1
        <4> QED
          BY <1>2, <1>6, <3>2, <4>2 DEF Unfolds
      <3> QED
        BY <3>1, <3>2
    <2> HIDE DEF Once
    <2> QED
      BY <2>1
  <1>8. fold = [t \in SUBSET (1 .. n) |-> Once(fold, t)]
    <2> HIDE DEF Once
    <2> QED
      BY <1>7
  <1> HIDE DEF fold
  <1>9. FoldedBy(fold, n, Bests, Null, rows, step)
    <2>1. fold[{}] = Null
      BY <1>8
    <2>2. ASSUME NEW t \in SUBSET (1 .. n), t # {}, fold[t \ {Max(t)}] \in Bests
          PROVE  fold[t] = step[<<fold[t \ {Max(t)}], rows[Max(t)]>>]
      <3>1. Max(t) \in 1 .. n
        BY <1>1, <2>2, MaxIsIn
      <3>2. fold[t] = Worth!Pick(fold[t \ {Max(t)}], rows[Max(t)])
        BY <1>8, <2>2
      <3> QED
        BY <1>1, <1>2, <2>2, <3>1, <3>2
    <2> QED
      BY <2>1, <2>2 DEF FoldedBy
  <1>10. PICK r \in [0 .. n -> Bests] : /\ r[0] = Null /\ fold[1 .. n] = r[n]
                                      /\ \A i \in 1 .. n : r[i] = step[<<r[i - 1], rows[i]>>]
    BY <1>4, <1>9, FoldSteps
  <1>11. \A i \in 1 .. n : r[i] = Worth!Pick(r[i - 1], rows[i])
    <2> TAKE i \in 1 .. n
    <2>1. i - 1 \in 0 .. n /\ rows[i] \in MetalRows
      BY <1>1
    <2> QED
      BY <1>2, <1>10, <2>1
  <1> QED
    BY <1>5, <1>10, <1>11 DEF n

(* A walk over rows, of which some read, with what each says; and where it leads.     *)
WalkOf(r, n, key, price, day, reads) ==
    /\ n \in Nat /\ r \in [0 .. n -> Readings] /\ r[0] = Worth!Reading
    /\ \A i \in 1 .. n :
          \/ /\ i \notin reads \/ key[i] \in DOMAIN r[i - 1].prices
             /\ r[i].prices = r[i - 1].prices /\ r[i].on = r[i - 1].on
          \/ /\ i \in reads /\ key[i] \in FeedCodes /\ price[i] \in Nat /\ day[i] \in FeedDates
             /\ Gains(r[i], r[i - 1], key[i], price[i], day[i])

FromRows(reading, i, key, price, day, reads) ==
    /\ DOMAIN reading.on = DOMAIN reading.prices
    /\ \A c \in DOMAIN reading.prices : \E l \in 1 .. i :
          l \in reads /\ key[l] = c /\ price[l] = reading.prices[c] /\ day[l] = reading.on[c]
    /\ \A l \in 1 .. i : l \in reads => key[l] \in DOMAIN reading.prices

LEMMA PutHolds ==
    ASSUME NEW f, NEW key, NEW value, NEW g, g = Worth!Put(f, key, value)
    PROVE  /\ DOMAIN g = DOMAIN f \cup {key}
           /\ \A c \in DOMAIN g : g[c] = IF c = key THEN value ELSE f[c]
  BY DEF Worth!Put

LEMMA WalkGoesOn ==
    ASSUME NEW r, NEW n, NEW key, NEW price, NEW day, NEW reads,
           WalkOf(r, n, key, price, day, reads),
           NEW i \in Nat, i + 1 <= n, FromRows(r[i], i, key, price, day, reads)
    PROVE  FromRows(r[i + 1], i + 1, key, price, day, reads)
  <1> DEFINE old == r[i]
             new == r[i + 1]
             x   == i + 1
  <1>1. /\ DOMAIN old.on = DOMAIN old.prices
        /\ \A c \in DOMAIN old.prices : \E l \in 1 .. i :
              l \in reads /\ key[l] = c /\ price[l] = old.prices[c] /\ day[l] = old.on[c]
        /\ \A l \in 1 .. i : l \in reads => key[l] \in DOMAIN old.prices
    BY DEF FromRows
  <1>2. /\ x \in 1 .. n /\ x - 1 = i /\ i \in 0 .. n /\ x \in 1 .. x
        /\ \A l \in 1 .. x : l \in 1 .. i \/ l = x
        /\ \A l \in 1 .. i : l \in 1 .. x
    BY DEF WalkOf
  <1>3. old \in Readings
    BY <1>2 DEF WalkOf
  <1> HIDE DEF x
  <1>4. \/ /\ x \notin reads \/ key[x] \in DOMAIN old.prices
           /\ r[x].prices = old.prices /\ r[x].on = old.on
        \/ /\ x \in reads /\ key[x] \in FeedCodes /\ price[x] \in Nat /\ day[x] \in FeedDates
           /\ Gains(r[x], old, key[x], price[x], day[x])
    BY <1>2 DEF WalkOf
  <1>5. new = r[x]
    BY DEF x
  <1> HIDE DEF old, new
  <1>6. CASE /\ x \notin reads \/ key[x] \in DOMAIN old.prices
             /\ r[x].prices = old.prices /\ r[x].on = old.on
    <2>1. FromRows(new, x, key, price, day, reads)
      BY <1>1, <1>2, <1>5, <1>6 DEF FromRows
    <2> QED
      BY <2>1 DEF new, x
  <1>7. CASE /\ x \in reads /\ key[x] \in FeedCodes /\ price[x] \in Nat /\ day[x] \in FeedDates
             /\ Gains(r[x], old, key[x], price[x], day[x])
    <2>1. old.prices \in ByCode(Nat) /\ old.on \in ByCode(FeedDates)
      BY <1>3 DEF Readings
    <2>2. /\ DOMAIN new.prices = DOMAIN old.prices \cup {key[x]}
          /\ \A c \in DOMAIN new.prices : new.prices[c] = IF c = key[x] THEN price[x] ELSE old.prices[c]
      <3>1. new.prices = Worth!Put(old.prices, key[x], price[x])
        BY <1>5, <1>7 DEF Gains
      <3>2. PICK f, g, k, v : f = old.prices /\ g = new.prices /\ k = key[x] /\ v = price[x]
        OBVIOUS
      <3>3. g = Worth!Put(f, k, v)
        BY <3>1, <3>2, Zenon
      <3>4. DOMAIN g = DOMAIN f \cup {k} /\ \A c \in DOMAIN g : g[c] = IF c = k THEN v ELSE f[c]
        BY <3>3, PutHolds
      <3> QED
        BY <3>2, <3>4
    <2>3. /\ DOMAIN new.on = DOMAIN old.on \cup {key[x]}
          /\ \A c \in DOMAIN new.on : new.on[c] = IF c = key[x] THEN day[x] ELSE old.on[c]
      <3>1. new.on = Worth!Put(old.on, key[x], day[x])
        BY <1>5, <1>7 DEF Gains
      <3>2. PICK f, g, k, v : f = old.on /\ g = new.on /\ k = key[x] /\ v = day[x]
        OBVIOUS
      <3>3. g = Worth!Put(f, k, v)
        BY <3>1, <3>2, Zenon
      <3>4. DOMAIN g = DOMAIN f \cup {k} /\ \A c \in DOMAIN g : g[c] = IF c = k THEN v ELSE f[c]
        BY <3>3, PutHolds
      <3> QED
        BY <3>2, <3>4
    <2>4. \A c \in DOMAIN new.prices : \E l \in 1 .. x :
              l \in reads /\ key[l] = c /\ price[l] = new.prices[c] /\ day[l] = new.on[c]
      <3> TAKE c \in DOMAIN new.prices
      <3>1. CASE c = key[x]
        <4>1. price[x] = new.prices[c] /\ day[x] = new.on[c]
          BY <1>1, <2>2, <2>3, <3>1
        <4> QED
          BY <1>2, <1>7, <3>1, <4>1
      <3>2. CASE c # key[x]
        <4>1. c \in DOMAIN old.prices /\ new.prices[c] = old.prices[c] /\ new.on[c] = old.on[c]
          BY <1>1, <2>2, <2>3, <3>2
        <4> QED
          BY <1>1, <1>2, <4>1
      <3> QED
        BY <3>1, <3>2
    <2>5. \A l \in 1 .. x : l \in reads => key[l] \in DOMAIN new.prices
      BY <1>1, <1>2, <2>2
    <2>6. FromRows(new, x, key, price, day, reads)
      BY <1>1, <2>2, <2>3, <2>4, <2>5 DEF FromRows
    <2> QED
      BY <2>6 DEF new, x
  <1> QED
    BY <1>4, <1>6, <1>7

LEMMA WalkEnds ==
    ASSUME NEW r, NEW n, NEW key, NEW price, NEW day, NEW reads,
           WalkOf(r, n, key, price, day, reads)
    PROVE  /\ FromRows(r[n], n, key, price, day, reads)
           /\ r[n] \in Readings
           /\ IsFiniteSet(DOMAIN r[n].prices)
  <1> DEFINE U == {i \in Nat : i <= n => FromRows(r[i], i, key, price, day, reads)}
  <1>1. 0 \in U
    <2>1. r[0].prices = [c \in {} |-> 0] /\ r[0].on = [c \in {} |-> 0]
      BY DEF WalkOf, Worth!Reading
    <2>2. DOMAIN r[0].prices = {} /\ DOMAIN r[0].on = {}
      BY <2>1
    <2> QED
      BY <2>2 DEF FromRows
  <1>2. ASSUME NEW i \in U PROVE i + 1 \in U
    <2> SUFFICES ASSUME i + 1 <= n PROVE FromRows(r[i + 1], i + 1, key, price, day, reads)
      OBVIOUS
    <2>1. i \in Nat /\ n \in Nat
      BY DEF WalkOf
    <2>2. FromRows(r[i], i, key, price, day, reads)
      BY <2>1
    <2> QED
      BY <2>1, <2>2, WalkGoesOn
  <1>3. U = Nat
    <2>1. U \in SUBSET Nat
      OBVIOUS
    <2> HIDE DEF U
    <2> QED
      BY <1>1, <1>2, <2>1, CountUp
  <1>4. FromRows(r[n], n, key, price, day, reads) /\ n \in Nat /\ r[n] \in Readings
    BY <1>3 DEF WalkOf
  <1>5. IsFiniteSet(DOMAIN r[n].prices)
    <2>1. DOMAIN r[n].prices \subseteq {key[l] : l \in 1 .. n}
      BY <1>4 DEF FromRows
    <2>2. IsFiniteSet(1 .. n)
      BY <1>4, FS_Interval
    <2>3. IsFiniteSet({key[l] : l \in 1 .. n})
      BY <2>2, ImageIsFinite
    <2> QED
      BY <2>1, <2>3, FS_Subset
  <1> QED
    BY <1>4, <1>5

(* A list with the prices of a reading tells the day of each, whatever its own day is. *)
KeepsDays(file, reading) ==
    /\ file # Refused
    /\ file.prices = reading.prices /\ file.currency \in {"INR", "USD"}
    /\ \A c \in DOMAIN reading.on : Worth!DateOf(file, c) = reading.on[c]

LEMMA DatedOff ==
    ASSUME NEW reading \in Readings, NEW date \in FeedDates, NEW currency \in {"INR", "USD"},
           NEW file, file = [date |-> date,
                             dates |-> [c \in {k \in DOMAIN reading.on : reading.on[k] # date} |-> reading.on[c]],
                             prices |-> reading.prices, currency |-> currency,
                             skipped |-> reading.skipped]
    PROVE  KeepsDays(file, reading)
  <1> DEFINE off == {k \in DOMAIN reading.on : reading.on[k] # date}
             dates == [c \in off |-> reading.on[c]]
  <1>1. dates \in ByCode(FeedDates)
    <2>1. DOMAIN reading.on \subseteq FeedCodes /\ \A c \in DOMAIN reading.on : reading.on[c] \in FeedDates
      BY ByCodeIs DEF Readings
    <2>2. DOMAIN dates = off /\ dates = [c \in DOMAIN dates |-> dates[c]] /\ DOMAIN dates \subseteq FeedCodes
      BY <2>1
    <2>3. \A c \in DOMAIN dates : dates[c] \in FeedDates
      BY <2>1
    <2> HIDE DEF dates, off
    <2> QED
      BY <2>2, <2>3, ByCodeIs
  <1>2. /\ reading.prices \in ByCode(Nat) /\ reading.skipped \in Nat
    BY DEF Readings
  <1>3. file.dates = dates /\ file.date = date /\ file.prices = reading.prices /\ file.currency = currency
    OBVIOUS
  <1>4. \A c \in DOMAIN reading.on : Worth!DateOf(file, c) = reading.on[c]
    <2> TAKE c \in DOMAIN reading.on
    <2>1. CASE c \in off
      BY <1>3, <2>1 DEF Worth!DateOf
    <2>2. CASE c \notin off
      BY <1>3, <2>2 DEF Worth!DateOf
    <2> QED
      BY <2>1, <2>2
  <1>5. file # Refused
    <2> HIDE DEF dates
    <2>1. file \in [date : FeedDates, dates : ByCode(FeedDates), prices : ByCode(Nat),
                    currency : {"INR", "USD"}, skipped : Nat]
      BY <1>1, <1>2 DEF dates
    <2> QED
      BY <2>1, FeedsAssumption
  <1> QED
    BY <1>3, <1>4, <1>5 DEF KeepsDays

(* What a reading is settled to, and the answer if there is nothing in it.          *)
LEMMA SettledIs ==
    ASSUME NEW reading \in Readings, DOMAIN reading.on = DOMAIN reading.prices,
           IsFiniteSet(DOMAIN reading.prices), NEW currency \in {"INR", "USD"}
    PROVE  LET file == Worth!Settled(reading, currency)
           IN  /\ DOMAIN reading.prices = {} => file = Refused
               /\ DOMAIN reading.prices # {} => KeepsDays(file, reading)
  <1> DEFINE on    == reading.on
             D     == DOMAIN on
             days  == {on[c] : c \in D}
             count == [d \in days |-> Cardinality({c \in D : on[c] = d})]
             most  == {d \in days : \A e \in days : count[e] <= count[d]}
             date  == Worth!Max(most)
             off   == {c \in D : on[c] # date}
             dates == [c \in off |-> on[c]]
             file  == Worth!Settled(reading, currency)
  <1>1. on \in ByCode(FeedDates) /\ D \subseteq FeedCodes /\ days \subseteq FeedDates
    BY ByCodeIs DEF Readings
  <1>2. IsFiniteSet(days)
    BY ImageIsFinite
  <1>3. CASE D = {}
    <2>1. days = {}
      BY <1>3
    <2>2. Worth!SettleDates(on) = Null
      BY <2>1 DEF Worth!SettleDates
    <2> QED
      BY <1>3, <2>2 DEF Worth!Settled
  <1>4. CASE D # {}
    <2>1. days # {} /\ days \subseteq Int
      BY <1>1, <1>4, DaysAreInt
    <2>2. \A d \in days : count[d] \in Nat
      <3> TAKE d \in days
      <3>1. {c \in D : on[c] = d} \subseteq DOMAIN reading.prices
        OBVIOUS
      <3>2. IsFiniteSet({c \in D : on[c] = d})
        BY <3>1, FS_Subset
      <3> QED
        BY <3>2, FS_CardinalityType
    <2>3. date \in FeedDates
      <3> HIDE DEF count, days
      <3>1. date \in days
        BY <1>2, <2>1, <2>2, CommonestIsIn
      <3> QED
        BY <1>1, <3>1
    <2>4. Worth!SettleDates(on) = [date |-> date, dates |-> dates]
      <3> DEFINE often(d) == Worth!Cardinality({c \in D : on[c] = d})
                 latest == Worth!Max({d \in days : \A e \in days : often(e) <= often(d)})
      <3>1. \A d \in days : often(d) = count[d]
        BY DEF Worth!Cardinality, Cardinality
      <3>2. Worth!SettleDates(on) =
               [date |-> latest, dates |-> [c \in {k \in D : on[k] # latest} |-> on[c]]]
        BY <2>1 DEF Worth!SettleDates
      <3> HIDE DEF often, count, days
      <3>3. {d \in days : \A e \in days : often(e) <= often(d)} = most
        BY <3>1
      <3>4. latest = date
        BY <3>3
      <3> HIDE DEF latest, date
      <3> QED
        BY <3>2, <3>4
    <2> HIDE DEF date
    <2>5. dates \in ByCode(FeedDates)
      <3>1. DOMAIN dates = off /\ dates = [c \in DOMAIN dates |-> dates[c]] /\ DOMAIN dates \subseteq FeedCodes
        BY <1>1
      <3>2. \A c \in DOMAIN dates : dates[c] \in FeedDates
        BY <1>1
      <3> HIDE DEF dates, off, on
      <3> QED
        BY <3>1, <3>2, ByCodeIs
    <2>6. Worth!SettleDates(on) # Null
      <3> HIDE DEF dates
      <3>1. [date |-> date, dates |-> dates] \in [date : FeedDates, dates : ByCode(FeedDates)]
        BY <2>3, <2>5
      <3> QED
        BY <2>4, <3>1, FeedsAssumption
    <2>7. file = [date |-> date, dates |-> dates, prices |-> reading.prices,
                  currency |-> currency, skipped |-> reading.skipped]
      BY <2>4, <2>6 DEF Worth!Settled
    <2> HIDE DEF file
    <2>8. KeepsDays(file, reading)
      BY <2>3, <2>7, DatedOff
    <2> QED
      BY <1>4, <2>8 DEF file
  <1> QED
    BY <1>3, <1>4

(* The lists made of rows hold what a feed's rows may.                               *)
LEMMA SchemeListIs ==
    ASSUME NEW rows \in Seq(Rows)
    PROVE  Schemes(rows) \in Seq(SchemeRows) /\ Len(Schemes(rows)) = Len(rows)
  <1>1. \A i \in DOMAIN rows : Schemes(rows)[i] \in SchemeRows
    <2> TAKE i \in DOMAIN rows
    <2>1. rows[i] \in Rows
      OBVIOUS
    <2>2. /\ rows[i].price \in Nat \cup {Null} /\ rows[i].code \in FeedCodes
          /\ OnDay(rows[i], 0) \in FeedDates
      BY <2>1, RowsAre
    <2> QED
      BY <2>2 DEF Schemes, SchemeRows
  <1>2. Len(rows) \in Nat /\ DOMAIN rows = 1 .. Len(rows) /\ DOMAIN Schemes(rows) = DOMAIN rows
        /\ Schemes(rows) = [i \in DOMAIN rows |-> Schemes(rows)[i]]
    BY DEF Schemes
  <1>3. PICK list : list = Schemes(rows)
    OBVIOUS
  <1>4. list \in [1 .. Len(rows) -> SchemeRows]
    BY <1>1, <1>2, <1>3
  <1>5. list \in Seq(SchemeRows) /\ Len(list) = Len(rows)
    BY <1>2, <1>4
  <1> QED
    BY <1>3, <1>5, Zenon

LEMMA TradeListIs ==
    ASSUME NEW rows \in Seq(Rows)
    PROVE  Trades(rows) \in Seq(TradeRows) /\ Len(Trades(rows)) = Len(rows)
  <1>1. \A i \in DOMAIN rows : Trades(rows)[i] \in TradeRows
    <2> TAKE i \in DOMAIN rows
    <2>1. rows[i] \in Rows
      OBVIOUS
    <2>2. /\ rows[i].price \in Nat \cup {Null} /\ rows[i].flag \in BOOLEAN
          /\ OnDay(rows[i], 0) \in FeedDates
      BY <2>1, RowsAre
    <2> QED
      BY <2>1, <2>2 DEF Trades, TradeRows
  <1>2. Len(rows) \in Nat /\ DOMAIN rows = 1 .. Len(rows) /\ DOMAIN Trades(rows) = DOMAIN rows
        /\ Trades(rows) = [i \in DOMAIN rows |-> Trades(rows)[i]]
    BY DEF Trades
  <1>3. PICK list : list = Trades(rows)
    OBVIOUS
  <1>4. list \in [1 .. Len(rows) -> TradeRows]
    BY <1>1, <1>2, <1>3
  <1>5. list \in Seq(TradeRows) /\ Len(list) = Len(rows)
    BY <1>2, <1>4
  <1> QED
    BY <1>3, <1>5, Zenon

LEMMA QuoteListIs ==
    ASSUME NEW rows \in Seq(Rows)
    PROVE  Quotes(rows) \in Seq(QuoteRows) /\ Len(Quotes(rows)) = Len(rows)
  <1>1. \A i \in DOMAIN rows : Quotes(rows)[i] \in QuoteRows
    <2> TAKE i \in DOMAIN rows
    <2>1. rows[i] \in Rows
      OBVIOUS
    <2>2. rows[i].price \in Nat \cup {Null}
      BY <2>1, RowsAre
    <2> QED
      BY <2>1, <2>2 DEF Quotes, QuoteRows
  <1>2. Len(rows) \in Nat /\ DOMAIN rows = 1 .. Len(rows) /\ DOMAIN Quotes(rows) = DOMAIN rows
        /\ Quotes(rows) = [i \in DOMAIN rows |-> Quotes(rows)[i]]
    BY DEF Quotes
  <1>3. PICK list : list = Quotes(rows)
    OBVIOUS
  <1>4. list \in [1 .. Len(rows) -> QuoteRows]
    BY <1>1, <1>2, <1>3
  <1>5. list \in Seq(QuoteRows) /\ Len(list) = Len(rows)
    BY <1>2, <1>4
  <1> QED
    BY <1>3, <1>5, Zenon

LEMMA MetalListIs ==
    ASSUME NEW rows \in Seq(Rows)
    PROVE  Metals(rows) \in Seq(MetalRows) /\ Len(Metals(rows)) = Len(rows)
  <1>1. \A i \in DOMAIN rows : Metals(rows)[i] \in MetalRows
    <2> TAKE i \in DOMAIN rows
    <2>1. rows[i] \in Rows
      OBVIOUS
    <2>2. rows[i].price \in Nat \cup {Null} /\ OnDay(rows[i], 0) \in FeedDates
      BY <2>1, RowsAre
    <2> QED
      BY <2>2 DEF Metals, MetalRows
  <1>2. Len(rows) \in Nat /\ DOMAIN rows = 1 .. Len(rows) /\ DOMAIN Metals(rows) = DOMAIN rows
        /\ Metals(rows) = [i \in DOMAIN rows |-> Metals(rows)[i]]
    BY DEF Metals
  <1>3. PICK list : list = Metals(rows)
    OBVIOUS
  <1>4. list \in [1 .. Len(rows) -> MetalRows]
    BY <1>1, <1>2, <1>3
  <1>5. list \in Seq(MetalRows) /\ Len(list) = Len(rows)
    BY <1>2, <1>4
  <1> QED
    BY <1>3, <1>5, Zenon
------------------------------------------------------------------------------
(* What a list says of a code, and that it says it of the code's own row.             *)
QuoteOf(feed, file, c) ==
    IF file = Refused THEN Null
    ELSE Worth!Lookup([s \in {feed} |-> file], [source |-> feed, code |-> c])

DayKept(feed, file, offset, rows, readers, c) ==
    LET quote == QuoteOf(feed, file, c)
        read  == {i \in readers : Same(rows[i].code, c)}
    IN  IF quote # Null
        THEN \E i \in read : rows[i].price = quote.price /\ OnDay(rows[i], offset) = quote.date
        ELSE \A i \in read : feed = "nse" /\ OnDay(rows[i], 0) # file.date

LEMMA LookedUp ==
    ASSUME NEW feed, NEW file, file # Refused, NEW c, NEW code, code = Worth!NormaliseCode(c)
    PROVE  /\ code \notin DOMAIN file.prices => QuoteOf(feed, file, c) = Null
           /\ code \in DOMAIN file.prices =>
                 QuoteOf(feed, file, c) = [price |-> file.prices[code], currency |-> file.currency,
                                           date |-> Worth!DateOf(file, code)]
  <1>1. /\ [s \in {feed} |-> file][feed] = file /\ DOMAIN [s \in {feed} |-> file] = {feed}
        /\ [source |-> feed, code |-> c].source = feed /\ [source |-> feed, code |-> c].code = c
    OBVIOUS
  <1> QED
    BY <1>1 DEF QuoteOf, Worth!Lookup

(* What a walk says of rows is what they say; what a reading makes.                  *)
TellsOf(rows, offset, readers, key, price, day) ==
    \A i \in readers : /\ key[i] = Worth!NormaliseCode(rows[i].code)
                       /\ price[i] = rows[i].price /\ day[i] = OnDay(rows[i], offset)

MakesOf(file, reading) == IF DOMAIN reading.prices = {} THEN file = Refused
                          ELSE KeepsDays(file, reading)

(* What was read from rows, and kept with its days, is found as its rows tell it.       *)
LEMMA ReadIsKept ==
    ASSUME NEW feed, NEW file, NEW offset, NEW rows, NEW readers, NEW c, NEW n, NEW reading,
           NEW key, NEW price, NEW day,
           readers \subseteq 1 .. n, FromRows(reading, n, key, price, day, readers),
           reading \in Readings,
           TellsOf(rows, offset, readers, key, price, day), MakesOf(file, reading)
    PROVE  DayKept(feed, file, offset, rows, readers, c)
  <1> DEFINE read == {i \in readers : Same(rows[i].code, c)}
  <1>1. PICK code, quote : code = Worth!NormaliseCode(c) /\ quote = QuoteOf(feed, file, c)
    OBVIOUS
  <1>2. \A i \in read : i \in 1 .. n /\ i \in readers /\ key[i] = code
    BY <1>1 DEF Same, TellsOf
  <1>3. \A i \in readers : key[i] = code => i \in read
    BY <1>1 DEF Same, TellsOf
  <1> HIDE DEF read
  <1>4. \A i \in read : code \in DOMAIN reading.prices
    BY <1>2 DEF FromRows
  <1>5. CASE DOMAIN reading.prices = {}
    <2>1. quote = Null
      BY <1>1, <1>5 DEF QuoteOf, MakesOf
    <2> QED
      BY <1>1, <1>4, <1>5, <2>1 DEF DayKept, read
  <1>6. CASE DOMAIN reading.prices # {} /\ code \notin DOMAIN reading.prices
    <2>1. file # Refused /\ file.prices = reading.prices
      BY <1>6 DEF KeepsDays, MakesOf
    <2>2. quote = Null
      BY <1>1, <1>6, <2>1, LookedUp
    <2> QED
      BY <1>1, <1>4, <1>6, <2>2 DEF DayKept, read
  <1>7. CASE code \in DOMAIN reading.prices
    <2>1. /\ file # Refused /\ file.prices = reading.prices /\ file.currency \in {"INR", "USD"}
          /\ Worth!DateOf(file, code) = reading.on[code] /\ code \in DOMAIN reading.on
      BY <1>7 DEF KeepsDays, FromRows, MakesOf
    <2>2. PICK p, d, u : p = reading.prices[code] /\ d = reading.on[code] /\ u = file.currency
      OBVIOUS
    <2>3. quote = [price |-> p, currency |-> u, date |-> d]
      <3>1. code \in DOMAIN file.prices /\ p = file.prices[code] /\ d = Worth!DateOf(file, code)
        BY <1>7, <2>1, <2>2
      <3> QED
        BY <1>1, <2>1, <2>2, <3>1, LookedUp
    <2>4. p \in Nat /\ d \in FeedDates /\ u \in {"INR", "USD"}
      <3>1. reading.prices \in ByCode(Nat) /\ reading.on \in ByCode(FeedDates)
        BY DEF Readings
      <3> QED
        BY <1>7, <2>1, <2>2, <3>1, ByCodeIs
    <2>5. quote # Null
      BY <2>3, <2>4, FeedsAssumption
    <2>6. PICK l \in 1 .. n : l \in readers /\ key[l] = code /\ price[l] = p /\ day[l] = d
      BY <1>7, <2>2 DEF FromRows
    <2>7. l \in read /\ rows[l].price = quote.price /\ OnDay(rows[l], offset) = quote.date
      BY <1>3, <2>3, <2>6 DEF TellsOf
    <2> QED
      BY <1>1, <2>5, <2>7 DEF DayKept, read
  <1> QED
    BY <1>5, <1>6, <1>7

(* Of the rows walked over, each has given its code a price or is skipped.             *)
Counting(r, n) ==
    /\ n \in Nat /\ r \in [0 .. n -> Readings] /\ r[0] = Worth!Reading
    /\ \A i \in 1 .. n :
          \/ /\ r[i].prices = r[i - 1].prices
             /\ r[i].skipped = r[i - 1].skipped + 1
          \/ /\ \E c : c \notin DOMAIN r[i - 1].prices
                       /\ DOMAIN r[i].prices = DOMAIN r[i - 1].prices \cup {c}
             /\ r[i].skipped = r[i - 1].skipped

LEMMA CountsAll ==
    ASSUME NEW r, NEW n, Counting(r, n)
    PROVE  r[n].skipped + Cardinality(DOMAIN r[n].prices) = n
  <1> DEFINE Tallied(reading, i) == /\ IsFiniteSet(DOMAIN reading.prices)
                                    /\ reading.skipped + Cardinality(DOMAIN reading.prices) = i
             U == {i \in Nat : i <= n => Tallied(r[i], i)}
  <1>1. 0 \in U
    <2>1. DOMAIN r[0].prices = {} /\ r[0].skipped = 0
      BY DEF Counting, Worth!Reading
    <2> QED
      BY <2>1, FS_EmptySet
  <1>2. ASSUME NEW i \in U PROVE i + 1 \in U
    <2> SUFFICES ASSUME i + 1 <= n PROVE Tallied(r[i + 1], i + 1)
      OBVIOUS
    <2>1. /\ i \in Nat /\ n \in Nat /\ i + 1 \in 1 .. n /\ i + 1 - 1 = i /\ i \in 0 .. n
          /\ Tallied(r[i], i)
      BY DEF Counting
    <2>2. PICK old, new : old = r[i] /\ new = r[i + 1]
      OBVIOUS
    <2>3. \/ new.prices = old.prices /\ new.skipped = old.skipped + 1
          \/ /\ \E c : c \notin DOMAIN old.prices /\ DOMAIN new.prices = DOMAIN old.prices \cup {c}
             /\ new.skipped = old.skipped
      BY <2>1, <2>2 DEF Counting
    <2>4. old.skipped \in Nat
      BY <2>1, <2>2 DEF Counting, Readings
    <2>5. IsFiniteSet(DOMAIN old.prices) /\ old.skipped + Cardinality(DOMAIN old.prices) = i
      BY <2>1, <2>2
    <2> HIDE DEF U
    <2>6. Tallied(new, i + 1)
      <3>1. CASE new.prices = old.prices /\ new.skipped = old.skipped + 1
        <4>1. Cardinality(DOMAIN old.prices) \in Nat
          BY <2>5, FS_CardinalityType
        <4> QED
          BY <2>1, <2>4, <2>5, <3>1, <4>1
      <3>2. CASE /\ \E c : c \notin DOMAIN old.prices /\ DOMAIN new.prices = DOMAIN old.prices \cup {c}
                 /\ new.skipped = old.skipped
        <4>1. PICK c : c \notin DOMAIN old.prices /\ DOMAIN new.prices = DOMAIN old.prices \cup {c}
          BY <3>2
        <4>2. PICK S, T : S = DOMAIN old.prices /\ T = DOMAIN new.prices
          OBVIOUS
        <4>3. IsFiniteSet(S) /\ c \notin S /\ T = S \cup {c}
          BY <2>5, <4>1, <4>2
        <4>4. IsFiniteSet(T) /\ Cardinality(T) = Cardinality(S) + 1 /\ Cardinality(S) \in Nat
          BY <4>3, FS_AddElement, FS_CardinalityType
        <4>5. PICK k, m : k = Cardinality(S) /\ m = Cardinality(T) /\ k \in Nat
          BY <4>4
        <4>6. m = k + 1 /\ old.skipped + k = i /\ new.skipped = old.skipped
          BY <2>5, <3>2, <4>2, <4>4, <4>5
        <4>7. new.skipped + m = i + 1
          BY <2>1, <2>4, <4>5, <4>6
        <4>8. IsFiniteSet(DOMAIN new.prices) /\ Cardinality(DOMAIN new.prices) = m
          BY <4>2, <4>4, <4>5, Zenon
        <4> QED
          BY <4>7, <4>8
      <3> QED
        BY <2>3, <3>1, <3>2
    <2> QED
      BY <2>2, <2>6
  <1>3. U = Nat
    <2>1. U \in SUBSET Nat
      OBVIOUS
    <2> HIDE DEF U
    <2> QED
      BY <1>1, <1>2, <2>1, CountUp
  <1> QED
    BY <1>3 DEF Counting

(* What a feed's quotes are read as: the first that reads of a code counts.            *)
ReadsOf(file, rows, offset, reading, key, price, day) ==
    LET readers == {i \in DOMAIN rows : rows[i].price # Null}
    IN  /\ file = Worth!Settled(reading, "USD")
        /\ FromRows(reading, Len(rows), key, price, day, readers)
        /\ TellsOf(rows, offset, readers, key, price, day)
        /\ IsFiniteSet(DOMAIN reading.prices)
        /\ reading.skipped + Cardinality(DOMAIN reading.prices) = Len(rows)

(* Quotes, each with its exchange's offset.                                             *)
LEMMA SparkReads ==
    ASSUME NEW rows \in Seq(Rows)
    PROVE  \E reading \in Readings : \E key, price, day :
              ReadsOf(Worth!ParseSpark(Quotes(rows)), rows, ExchangeOffset, reading, key, price, day)
  <1> DEFINE list    == Quotes(rows)
             readers == {i \in DOMAIN rows : rows[i].price # Null}
             n       == Len(rows)
             key     == [i \in 1 .. n |-> Worth!NormaliseCode(rows[i].code)]
             price   == [i \in 1 .. n |-> rows[i].price]
             day     == [i \in 1 .. n |-> OnDay(rows[i], ExchangeOffset)]
             file    == Worth!ParseSpark(list)
  <1>1. n \in Nat /\ DOMAIN rows = 1 .. n /\ (\A i \in 1 .. n : rows[i] \in Rows)
    OBVIOUS
  <1>2. /\ list \in Seq(QuoteRows) /\ Len(list) = n
        /\ \A i \in 1 .. n : /\ list[i] \in QuoteRows /\ list[i].code = rows[i].code
                             /\ list[i].price = rows[i].price /\ list[i].at = rows[i].at
                             /\ list[i].offset = ExchangeOffset
    <2>1. list \in Seq(QuoteRows) /\ Len(list) = n
      BY QuoteListIs
    <2>2. \A i \in 1 .. n : /\ list[i].code = rows[i].code
                            /\ list[i].price = rows[i].price /\ list[i].at = rows[i].at
                            /\ list[i].offset = ExchangeOffset
      BY <1>1 DEF Quotes
    <2> HIDE DEF list
    <2>3. \A i \in 1 .. n : list[i] \in QuoteRows
      BY <2>1
    <2> QED
      BY <2>1, <2>2, <2>3
  <1>3. \A i \in 1 .. n : /\ key[i] = Worth!NormaliseCode(rows[i].code) /\ key[i] \in FeedCodes
                          /\ price[i] = rows[i].price /\ price[i] \in Nat \cup {Null}
                          /\ day[i] = OnDay(rows[i], ExchangeOffset) /\ day[i] \in FeedDates
    BY <1>1, RowsAre
  <1>4. \A i \in 1 .. n : i \in readers <=> price[i] # Null
    BY <1>1, <1>3
  <1>5. readers \subseteq 1 .. n
    BY <1>1
  <1> HIDE DEF key, price, day, n, readers
  <1>6. PICK r \in [0 .. n -> Readings] :
           /\ r[0] = Worth!Reading
           /\ file = Worth!Settled(r[n], "USD")
           /\ \A i \in 1 .. n : r[i] = Worth!ReadQuote(r[i - 1], list[i], list[i].offset)
    <2> HIDE DEF list
    <2> QED
      BY <1>2, SparkSteps
  <1> HIDE DEF file, list
  <1>7. ASSUME NEW i \in 1 .. n
        PROVE  LET old == r[i - 1]
                   new == r[i]
               IN  /\ price[i] = Null \/ key[i] \in DOMAIN old.prices =>
                         /\ new.prices = old.prices /\ new.on = old.on
                         /\ new.skipped = old.skipped + 1
                   /\ ~(price[i] = Null \/ key[i] \in DOMAIN old.prices) =>
                         Gains(new, old, key[i], price[i], day[i])
    <2>1. i - 1 \in 0 .. n
      BY <1>1
    <2>2. PICK old, quote, new : old = r[i - 1] /\ quote = list[i] /\ new = r[i]
      OBVIOUS
    <2>3. old \in Readings /\ quote \in QuoteRows /\ new = Worth!ReadQuote(old, quote, ExchangeOffset)
      BY <1>2, <1>6, <2>1, <2>2
    <2>4. /\ key[i] = Worth!NormaliseCode(quote.code) /\ price[i] = quote.price
          /\ day[i] = (quote.at + ExchangeOffset) \div DayLength
      BY <1>2, <1>3, <2>2 DEF OnDay
    <2>5. /\ price[i] = Null \/ key[i] \in DOMAIN old.prices =>
                new.prices = old.prices /\ new.on = old.on /\ new.skipped = old.skipped + 1
          /\ ~(price[i] = Null \/ key[i] \in DOMAIN old.prices) =>
                Gains(new, old, key[i], price[i], day[i])
      BY <2>3, <2>4, QuoteIsRead
    <2> QED
      BY <2>2, <2>5
  <1>8. WalkOf(r, n, key, price, day, readers)
    <2>1. ASSUME NEW i \in 1 .. n
          PROVE  \/ /\ i \notin readers \/ key[i] \in DOMAIN r[i - 1].prices
                    /\ r[i].prices = r[i - 1].prices /\ r[i].on = r[i - 1].on
                 \/ /\ i \in readers /\ key[i] \in FeedCodes /\ price[i] \in Nat
                    /\ day[i] \in FeedDates /\ Gains(r[i], r[i - 1], key[i], price[i], day[i])
      BY <1>3, <1>4, <1>7
    <2> QED
      BY <1>1, <1>6, <2>1 DEF WalkOf
  <1>9. Counting(r, n)
    <2>1. ASSUME NEW i \in 1 .. n
          PROVE  \/ /\ r[i].prices = r[i - 1].prices
                    /\ r[i].skipped = r[i - 1].skipped + 1
                 \/ /\ \E c : c \notin DOMAIN r[i - 1].prices
                              /\ DOMAIN r[i].prices = DOMAIN r[i - 1].prices \cup {c}
                    /\ r[i].skipped = r[i - 1].skipped
      <3>1. PICK old, new, k : old = r[i - 1] /\ new = r[i] /\ k = key[i]
        OBVIOUS
      <3>2. CASE price[i] = Null \/ k \in DOMAIN old.prices
        BY <1>7, <3>1, <3>2
      <3>3. CASE ~(price[i] = Null \/ k \in DOMAIN old.prices)
        <4>1. new.prices = Worth!Put(old.prices, k, price[i]) /\ new.skipped = old.skipped
          BY <1>7, <3>1, <3>3 DEF Gains
        <4>2. DOMAIN new.prices = DOMAIN old.prices \cup {k}
          BY <4>1 DEF Worth!Put
        <4> QED
          BY <3>1, <3>3, <4>1, <4>2
      <3> QED
        BY <3>2, <3>3
    <2> QED
      BY <1>1, <1>6, <2>1 DEF Counting
  <1>10. PICK reading \in Readings : reading = r[n]
    BY <1>1, <1>6
  <1>11. /\ FromRows(reading, n, key, price, day, readers) /\ IsFiniteSet(DOMAIN reading.prices)
         /\ reading.skipped + Cardinality(DOMAIN reading.prices) = n
    BY <1>8, <1>9, <1>10, WalkEnds, CountsAll
  <1>12. TellsOf(rows, ExchangeOffset, readers, key, price, day)
    BY <1>3, <1>5 DEF TellsOf
  <1>13. PICK key_, price_, day_ : key_ = key /\ price_ = price /\ day_ = day
    OBVIOUS
  <1>14. ReadsOf(file, rows, ExchangeOffset, reading, key_, price_, day_)
    BY <1>6, <1>10, <1>11, <1>12, <1>13 DEF ReadsOf, readers, n
  <1> QED
    BY <1>14 DEF file, list

(* They keep their days.                                                                *)
LEMMA SparkKeepsDays ==
    ASSUME NEW rows \in Seq(Rows), NEW c
    PROVE  DayKept("us", Worth!ParseSpark(Quotes(rows)), ExchangeOffset, rows,
                   {i \in DOMAIN rows : rows[i].price # Null}, c)
  <1> DEFINE readers == {i \in DOMAIN rows : rows[i].price # Null}
             n       == Len(rows)
  <1>1. PICK file : file = Worth!ParseSpark(Quotes(rows))
    OBVIOUS
  <1>2. PICK reading \in Readings : \E key, price, day :
              ReadsOf(file, rows, ExchangeOffset, reading, key, price, day)
    BY <1>1, SparkReads
  <1>3. PICK key, price, day : ReadsOf(file, rows, ExchangeOffset, reading, key, price, day)
    BY <1>2
  <1>4. /\ file = Worth!Settled(reading, "USD") /\ FromRows(reading, n, key, price, day, readers)
        /\ TellsOf(rows, ExchangeOffset, readers, key, price, day) /\ IsFiniteSet(DOMAIN reading.prices)
    BY <1>3 DEF ReadsOf
  <1>5. readers \subseteq 1 .. n
    OBVIOUS
  <1> HIDE DEF readers, n
  <1>6. MakesOf(file, reading)
    <2>1. DOMAIN reading.on = DOMAIN reading.prices
      BY <1>4 DEF FromRows
    <2> QED
      BY <1>4, <2>1, SettledIs DEF MakesOf
  <1>7. DayKept("us", file, ExchangeOffset, rows, readers, c)
    BY <1>4, <1>5, <1>6, ReadIsKept
  <1> QED
    BY <1>1, <1>7 DEF readers

(* Quotes, with India's.                                                                *)
LEMMA CoinsRead ==
    ASSUME NEW rows \in Seq(Rows)
    PROVE  \E reading \in Readings : \E key, price, day :
              ReadsOf(Worth!ParseCoinGecko(Quotes(rows)), rows, IstOffset, reading, key, price, day)
  <1> DEFINE list    == Quotes(rows)
             readers == {i \in DOMAIN rows : rows[i].price # Null}
             n       == Len(rows)
             key     == [i \in 1 .. n |-> Worth!NormaliseCode(rows[i].code)]
             price   == [i \in 1 .. n |-> rows[i].price]
             day     == [i \in 1 .. n |-> OnDay(rows[i], IstOffset)]
             file    == Worth!ParseCoinGecko(list)
  <1>1. n \in Nat /\ DOMAIN rows = 1 .. n /\ (\A i \in 1 .. n : rows[i] \in Rows)
    OBVIOUS
  <1>2. /\ list \in Seq(QuoteRows) /\ Len(list) = n
        /\ \A i \in 1 .. n : /\ list[i] \in QuoteRows /\ list[i].code = rows[i].code
                             /\ list[i].price = rows[i].price /\ list[i].at = rows[i].at
                             /\ list[i].offset = ExchangeOffset
    <2>1. list \in Seq(QuoteRows) /\ Len(list) = n
      BY QuoteListIs
    <2>2. \A i \in 1 .. n : /\ list[i].code = rows[i].code
                            /\ list[i].price = rows[i].price /\ list[i].at = rows[i].at
                            /\ list[i].offset = ExchangeOffset
      BY <1>1 DEF Quotes
    <2> HIDE DEF list
    <2>3. \A i \in 1 .. n : list[i] \in QuoteRows
      BY <2>1
    <2> QED
      BY <2>1, <2>2, <2>3
  <1>3. \A i \in 1 .. n : /\ key[i] = Worth!NormaliseCode(rows[i].code) /\ key[i] \in FeedCodes
                          /\ price[i] = rows[i].price /\ price[i] \in Nat \cup {Null}
                          /\ day[i] = OnDay(rows[i], IstOffset) /\ day[i] \in FeedDates
    BY <1>1, RowsAre
  <1>4. \A i \in 1 .. n : i \in readers <=> price[i] # Null
    BY <1>1, <1>3
  <1>5. readers \subseteq 1 .. n
    BY <1>1
  <1> HIDE DEF key, price, day, n, readers
  <1>6. PICK r \in [0 .. n -> Readings] :
           /\ r[0] = Worth!Reading
           /\ file = Worth!Settled(r[n], "USD")
           /\ \A i \in 1 .. n : r[i] = Worth!ReadQuote(r[i - 1], list[i], IstOffset)
    <2> HIDE DEF list
    <2> QED
      BY <1>2, CoinSteps
  <1> HIDE DEF file, list
  <1>7. ASSUME NEW i \in 1 .. n
        PROVE  LET old == r[i - 1]
                   new == r[i]
               IN  /\ price[i] = Null \/ key[i] \in DOMAIN old.prices =>
                         /\ new.prices = old.prices /\ new.on = old.on
                         /\ new.skipped = old.skipped + 1
                   /\ ~(price[i] = Null \/ key[i] \in DOMAIN old.prices) =>
                         Gains(new, old, key[i], price[i], day[i])
    <2>1. i - 1 \in 0 .. n
      BY <1>1
    <2>2. PICK old, quote, new : old = r[i - 1] /\ quote = list[i] /\ new = r[i]
      OBVIOUS
    <2>3. old \in Readings /\ quote \in QuoteRows /\ new = Worth!ReadQuote(old, quote, IstOffset)
      BY <1>2, <1>6, <2>1, <2>2
    <2>4. /\ key[i] = Worth!NormaliseCode(quote.code) /\ price[i] = quote.price
          /\ day[i] = (quote.at + IstOffset) \div DayLength
      BY <1>2, <1>3, <2>2 DEF OnDay
    <2>5. /\ price[i] = Null \/ key[i] \in DOMAIN old.prices =>
                new.prices = old.prices /\ new.on = old.on /\ new.skipped = old.skipped + 1
          /\ ~(price[i] = Null \/ key[i] \in DOMAIN old.prices) =>
                Gains(new, old, key[i], price[i], day[i])
      BY <2>3, <2>4, QuoteIsRead
    <2> QED
      BY <2>2, <2>5
  <1>8. WalkOf(r, n, key, price, day, readers)
    <2>1. ASSUME NEW i \in 1 .. n
          PROVE  \/ /\ i \notin readers \/ key[i] \in DOMAIN r[i - 1].prices
                    /\ r[i].prices = r[i - 1].prices /\ r[i].on = r[i - 1].on
                 \/ /\ i \in readers /\ key[i] \in FeedCodes /\ price[i] \in Nat
                    /\ day[i] \in FeedDates /\ Gains(r[i], r[i - 1], key[i], price[i], day[i])
      BY <1>3, <1>4, <1>7
    <2> QED
      BY <1>1, <1>6, <2>1 DEF WalkOf
  <1>9. Counting(r, n)
    <2>1. ASSUME NEW i \in 1 .. n
          PROVE  \/ /\ r[i].prices = r[i - 1].prices
                    /\ r[i].skipped = r[i - 1].skipped + 1
                 \/ /\ \E c : c \notin DOMAIN r[i - 1].prices
                              /\ DOMAIN r[i].prices = DOMAIN r[i - 1].prices \cup {c}
                    /\ r[i].skipped = r[i - 1].skipped
      <3>1. PICK old, new, k : old = r[i - 1] /\ new = r[i] /\ k = key[i]
        OBVIOUS
      <3>2. CASE price[i] = Null \/ k \in DOMAIN old.prices
        BY <1>7, <3>1, <3>2
      <3>3. CASE ~(price[i] = Null \/ k \in DOMAIN old.prices)
        <4>1. new.prices = Worth!Put(old.prices, k, price[i]) /\ new.skipped = old.skipped
          BY <1>7, <3>1, <3>3 DEF Gains
        <4>2. DOMAIN new.prices = DOMAIN old.prices \cup {k}
          BY <4>1 DEF Worth!Put
        <4> QED
          BY <3>1, <3>3, <4>1, <4>2
      <3> QED
        BY <3>2, <3>3
    <2> QED
      BY <1>1, <1>6, <2>1 DEF Counting
  <1>10. PICK reading \in Readings : reading = r[n]
    BY <1>1, <1>6
  <1>11. /\ FromRows(reading, n, key, price, day, readers) /\ IsFiniteSet(DOMAIN reading.prices)
         /\ reading.skipped + Cardinality(DOMAIN reading.prices) = n
    BY <1>8, <1>9, <1>10, WalkEnds, CountsAll
  <1>12. TellsOf(rows, IstOffset, readers, key, price, day)
    BY <1>3, <1>5 DEF TellsOf
  <1>13. PICK key_, price_, day_ : key_ = key /\ price_ = price /\ day_ = day
    OBVIOUS
  <1>14. ReadsOf(file, rows, IstOffset, reading, key_, price_, day_)
    BY <1>6, <1>10, <1>11, <1>12, <1>13 DEF ReadsOf, readers, n
  <1> QED
    BY <1>14 DEF file, list

(* They keep theirs.                                                                    *)
LEMMA CoinsKeepDays ==
    ASSUME NEW rows \in Seq(Rows), NEW c
    PROVE  DayKept("crypto", Worth!ParseCoinGecko(Quotes(rows)), IstOffset, rows,
                   {i \in DOMAIN rows : rows[i].price # Null}, c)
  <1> DEFINE readers == {i \in DOMAIN rows : rows[i].price # Null}
             n       == Len(rows)
  <1>1. PICK file : file = Worth!ParseCoinGecko(Quotes(rows))
    OBVIOUS
  <1>2. PICK reading \in Readings : \E key, price, day :
              ReadsOf(file, rows, IstOffset, reading, key, price, day)
    BY <1>1, CoinsRead
  <1>3. PICK key, price, day : ReadsOf(file, rows, IstOffset, reading, key, price, day)
    BY <1>2
  <1>4. /\ file = Worth!Settled(reading, "USD") /\ FromRows(reading, n, key, price, day, readers)
        /\ TellsOf(rows, IstOffset, readers, key, price, day) /\ IsFiniteSet(DOMAIN reading.prices)
    BY <1>3 DEF ReadsOf
  <1>5. readers \subseteq 1 .. n
    OBVIOUS
  <1> HIDE DEF readers, n
  <1>6. MakesOf(file, reading)
    <2>1. DOMAIN reading.on = DOMAIN reading.prices
      BY <1>4 DEF FromRows
    <2> QED
      BY <1>4, <2>1, SettledIs DEF MakesOf
  <1>7. DayKept("crypto", file, IstOffset, rows, readers, c)
    BY <1>4, <1>5, <1>6, ReadIsKept
  <1> QED
    BY <1>1, <1>7 DEF readers

(* The schemes of a file: the last that reads of a code counts, and the file's own date    *)
(* is that of a line that reads.                                                      *)
LEMMA AmfiIs ==
    ASSUME NEW lines \in Seq(SchemeRows), NEW reading \in Readings,
           reading = Worth!FoldLeft(Worth!ReadScheme, Worth!Reading, lines)
    PROVE  LET read == {i \in DOMAIN lines : Null \notin {lines[i].code, lines[i].price, lines[i].date}}
               file == Worth!ParseAmfi(lines)
           IN  /\ read = {} => file = Refused
               /\ read # {} => KeepsDays(file, reading)
  <1> DEFINE read == {i \in DOMAIN lines : Null \notin {lines[i].code, lines[i].price, lines[i].date}}
             file == Worth!ParseAmfi(lines)
             on   == [i \in read |-> lines[i].date]
             days == {on[i] : i \in read}
             count == [d \in days |-> Cardinality({i \in read : on[i] = d})]
             most  == {d \in days : \A e \in days : count[e] <= count[d]}
             date  == Worth!Max(most)
             often(d) == Worth!Cardinality({i \in read : lines[i].date = d})
             said  == {lines[i].date : i \in read}
             latest == Worth!Max({d \in said : \A e \in said : often(e) <= often(d)})
  <1>1. Len(lines) \in Nat /\ DOMAIN lines = 1 .. Len(lines)
    OBVIOUS
  <1>2. CASE read = {}
    BY <1>2 DEF Worth!ParseAmfi
  <1>3. CASE read # {}
    <2>1. IsFiniteSet(read)
      <3>1. IsFiniteSet(1 .. Len(lines))
        BY <1>1, FS_Interval
      <3>2. read \subseteq 1 .. Len(lines)
        BY <1>1
      <3> HIDE DEF read
      <3> QED
        BY <3>1, <3>2, FS_Subset
    <2>2. \A i \in read : on[i] = lines[i].date /\ on[i] \in FeedDates
      <3>1. \A i \in read : i \in DOMAIN lines /\ lines[i] \in SchemeRows
        BY <1>1
      <3> HIDE DEF read
      <3> QED
        BY <3>1 DEF SchemeRows
    <2>3. file = [date |-> latest,
                  dates |-> [c \in {k \in DOMAIN reading.on : reading.on[k] # latest} |-> reading.on[c]],
                  prices |-> reading.prices, currency |-> "INR", skipped |-> reading.skipped]
      BY <1>3 DEF Worth!ParseAmfi
    <2> HIDE DEF read, on, file
    <2>4. said = days
      BY <2>2
    <2>5. \A d \in days : often(d) = count[d]
      <3> TAKE d \in days
      <3>1. {i \in read : lines[i].date = d} = {i \in read : on[i] = d}
        BY <2>2
      <3> QED
        <4>1. count[d] = Cardinality({i \in read : on[i] = d})
          OBVIOUS
        <4>2. often(d) = Worth!Cardinality({i \in read : on[i] = d})
          BY <3>1
        <4> HIDE DEF often, count
        <4> QED
          BY <4>1, <4>2 DEF Worth!Cardinality, Cardinality
    <2>6. \A d \in days : count[d] \in Nat
      <3> TAKE d \in days
      <3>1. IsFiniteSet({i \in read : on[i] = d})
        BY <2>1, FS_Subset
      <3> QED
        BY <3>1, FS_CardinalityType
    <2>7. IsFiniteSet(days) /\ days # {} /\ days \subseteq FeedDates
      BY <1>3, <2>1, <2>2, ImageIsFinite
    <2>8. days \subseteq Int
      BY <2>7, DaysAreInt
    <2> HIDE DEF count, days, said, often
    <2>9. date \in FeedDates
      BY <2>6, <2>7, <2>8, CommonestIsIn
    <2>10. {d \in said : \A e \in said : often(e) <= often(d)} = most
      BY <2>4, <2>5
    <2>11. latest = date
      BY <2>10
    <2> HIDE DEF latest, date, most
    <2>12. latest \in FeedDates
      BY <2>9, <2>11
    <2>13. PICK d : d = latest
      OBVIOUS
    <2>14. d \in FeedDates /\
           file = [date |-> d,
                   dates |-> [c \in {k \in DOMAIN reading.on : reading.on[k] # d} |-> reading.on[c]],
                   prices |-> reading.prices, currency |-> "INR", skipped |-> reading.skipped]
      BY <2>3, <2>12, <2>13
    <2>15. KeepsDays(file, reading)
      BY <2>14, DatedOff
    <2> QED
      BY <1>3, <2>15 DEF read, file
  <1> QED
    BY <1>2, <1>3

LEMMA SchemesKeepDays ==
    ASSUME NEW rows \in Seq(Rows), NEW c
    PROVE  DayKept("amfi", Worth!ParseAmfi(Schemes(rows)), 0, rows,
                   {i \in DOMAIN rows : rows[i].price # Null /\ rows[i].code \notin DOMAIN Upper}, c)
  <1> DEFINE list    == Schemes(rows)
             readers == {i \in DOMAIN rows : rows[i].price # Null /\ rows[i].code \notin DOMAIN Upper}
             n       == Len(rows)
             key     == [i \in 1 .. n |-> list[i].code]
             price   == [i \in 1 .. n |-> rows[i].price]
             day     == [i \in 1 .. n |-> OnDay(rows[i], 0)]
             file    == Worth!ParseAmfi(list)
             read    == {i \in DOMAIN list : Null \notin {list[i].code, list[i].price, list[i].date}}
  <1>1. n \in Nat /\ DOMAIN rows = 1 .. n /\ (\A i \in 1 .. n : rows[i] \in Rows)
    OBVIOUS
  <1>2. /\ list \in Seq(SchemeRows) /\ Len(list) = n /\ DOMAIN list = 1 .. n
        /\ \A i \in 1 .. n : /\ list[i] \in SchemeRows
                             /\ list[i].code = IF rows[i].code \in DOMAIN Upper THEN Null ELSE rows[i].code
                             /\ list[i].price = rows[i].price /\ list[i].date = OnDay(rows[i], 0)
    <2>1. list \in Seq(SchemeRows) /\ Len(list) = n
      BY SchemeListIs
    <2>2. \A i \in 1 .. n : /\ list[i].code = IF rows[i].code \in DOMAIN Upper THEN Null ELSE rows[i].code
                            /\ list[i].price = rows[i].price /\ list[i].date = OnDay(rows[i], 0)
      BY <1>1 DEF Schemes
    <2> HIDE DEF list
    <2>3. DOMAIN list = 1 .. n /\ \A i \in 1 .. n : list[i] \in SchemeRows
      BY <2>1
    <2> QED
      BY <2>1, <2>2, <2>3
  <1> HIDE DEF list
  <1>3. \A i \in 1 .. n : /\ key[i] = list[i].code
                          /\ price[i] = rows[i].price /\ price[i] \in Nat \cup {Null}
                          /\ day[i] = OnDay(rows[i], 0) /\ day[i] \in FeedDates
                          /\ day[i] # Null /\ rows[i].code # Null /\ rows[i].code \in FeedCodes
    BY <1>1, RowsAre, DaysAreInt
  <1>4. \A i \in 1 .. n : /\ i \in readers <=> key[i] # Null /\ price[i] # Null
                          /\ i \in readers => key[i] = Worth!NormaliseCode(rows[i].code) /\ key[i] \in FeedCodes
    <2> TAKE i \in 1 .. n
    <2>1. key[i] = IF rows[i].code \in DOMAIN Upper THEN Null ELSE rows[i].code
      BY <1>2, <1>3
    <2>2. i \in readers <=> rows[i].price # Null /\ rows[i].code \notin DOMAIN Upper
      BY <1>1
    <2>3. rows[i].code \notin DOMAIN Upper => Worth!NormaliseCode(rows[i].code) = rows[i].code
      BY DEF Worth!NormaliseCode
    <2> HIDE DEF key, price, readers
    <2> QED
      BY <1>3, <2>1, <2>2, <2>3
  <1>5. readers \subseteq 1 .. n
    BY <1>1
  <1>6. read = readers
    <2>1. \A i \in 1 .. n : i \in read <=> key[i] # Null /\ price[i] # Null
      BY <1>2, <1>3
    <2>2. read \subseteq 1 .. n
      BY <1>2
    <2> HIDE DEF read, readers, key, price
    <2> QED
      BY <1>4, <1>5, <2>1, <2>2
  <1> HIDE DEF key, price, day, n, readers
  <1>7. PICK r \in [0 .. n -> Readings] :
           /\ r[0] = Worth!Reading /\ Worth!FoldLeft(Worth!ReadScheme, Worth!Reading, list) = r[n]
           /\ \A i \in 1 .. n : r[i] = Worth!ReadScheme(r[i - 1], list[i])
    BY <1>2, SchemeSteps
  <1> HIDE DEF file
  <1>8. WalkOf(r, n, key, price, day, readers)
    <2>1. ASSUME NEW i \in 1 .. n
          PROVE  \/ /\ i \notin readers \/ key[i] \in DOMAIN r[i - 1].prices
                    /\ r[i].prices = r[i - 1].prices /\ r[i].on = r[i - 1].on
                 \/ /\ i \in readers /\ key[i] \in FeedCodes /\ price[i] \in Nat
                    /\ day[i] \in FeedDates /\ Gains(r[i], r[i - 1], key[i], price[i], day[i])
      <3>1. i - 1 \in 0 .. n
        BY <1>1
      <3>2. PICK old, line, new : old = r[i - 1] /\ line = list[i] /\ new = r[i]
        OBVIOUS
      <3>3. old \in Readings /\ line \in SchemeRows /\ new = Worth!ReadScheme(old, line)
        BY <1>2, <1>7, <3>1, <3>2
      <3>4. key[i] = line.code /\ price[i] = line.price /\ day[i] = line.date
        BY <1>2, <1>3, <3>2
      <3>5. /\ Null \in {key[i], price[i]} => new.prices = old.prices /\ new.on = old.on
            /\ Null \notin {key[i], price[i]} => Gains(new, old, key[i], price[i], day[i])
        BY <3>3, <3>4, SchemeIsRead
      <3> QED
        BY <1>3, <1>4, <3>2, <3>5
    <2> QED
      BY <1>1, <1>7, <2>1 DEF WalkOf
  <1>9. PICK reading \in Readings : reading = r[n]
    BY <1>1, <1>7
  <1>10. FromRows(reading, n, key, price, day, readers)
    BY <1>8, <1>9, WalkEnds
  <1>11. MakesOf(file, reading)
    <2>1. /\ read = {} => file = Refused
          /\ read # {} => KeepsDays(file, reading)
      <3>1. reading = Worth!FoldLeft(Worth!ReadScheme, Worth!Reading, list)
        BY <1>7, <1>9
      <3> QED
        BY <1>2, <3>1, AmfiIs DEF file
    <2>2. read = {} <=> DOMAIN reading.prices = {}
      BY <1>5, <1>6, <1>10 DEF FromRows
    <2> HIDE DEF read
    <2> QED
      BY <2>1, <2>2 DEF MakesOf
  <1>12. TellsOf(rows, 0, readers, key, price, day)
    BY <1>3, <1>4, <1>5 DEF TellsOf
  <1>13. DayKept("amfi", file, 0, rows, readers, c)
    BY <1>5, <1>10, <1>11, <1>12, ReadIsKept
  <1> QED
    BY <1>13 DEF file, list, readers

(* A bhavcopy as far as row i: its prices are those of rows that are kept and read, of its *)
(* day, which is that of the first.                                                   *)
BhavcopyTo(file, rows, readers, i) ==
    /\ DOMAIN file.dates = {}
    /\ \A c \in DOMAIN file.prices : \E l \in readers :
          /\ l <= i /\ Worth!NormaliseCode(rows[l].code) = c
          /\ rows[l].price = file.prices[c] /\ OnDay(rows[l], 0) = file.date
    /\ \A l \in readers : l <= i => /\ file.date # Null
                                    /\ OnDay(rows[l], 0) = file.date =>
                                          Worth!NormaliseCode(rows[l].code) \in DOMAIN file.prices

LEMMA BhavcopyGoesOn ==
    ASSUME NEW rows \in Seq(Rows), NEW readers,
           readers = {i \in DOMAIN rows : rows[i].price # Null /\ rows[i].flag},
           NEW i \in Nat, i + 1 \in DOMAIN rows, NEW old \in Files,
           BhavcopyTo(old, rows, readers, i), NEW trade \in TradeRows,
           trade = Trades(rows)[i + 1], NEW new, new = Worth!ReadTrade(old, trade)
    PROVE  BhavcopyTo(new, rows, readers, i + 1)
  <1>1. PICK x, key, day, price : /\ x = i + 1 /\ key = Worth!NormaliseCode(rows[x].code)
                                  /\ day = OnDay(rows[x], 0) /\ price = rows[x].price
    OBVIOUS
  <1>2. /\ rows[x] \in Rows /\ x \in DOMAIN rows /\ x \in Nat /\ i < x
        /\ \A l \in readers : l \in Nat /\ (l <= x <=> l <= i \/ l = x)
    BY <1>1
  <1>3. /\ trade.code = rows[x].code /\ trade.price = price /\ trade.date = day
        /\ trade.kept = rows[x].flag
    BY <1>1, <1>2 DEF Trades
  <1>4. day \in FeedDates /\ key \in FeedCodes /\ day # Null /\ price \in Nat \cup {Null}
        /\ rows[x].flag \in BOOLEAN
    BY <1>1, <1>2, RowsAre, DaysAreInt
  <1>5. x \in readers <=> rows[x].flag /\ price # Null
    BY <1>1, <1>2
  <1> DEFINE reads == x \in readers /\ old.date \in {Null, day} /\ key \notin DOMAIN old.prices
  <1>6. /\ new \in Files /\ new.dates = old.dates
        /\ ~reads => new.prices = old.prices /\ new.date = old.date
        /\ reads => new.prices = Worth!Put(old.prices, key, price) /\ new.date = day
    BY <1>1, <1>3, <1>4, <1>5, TradeIsRead
  <1>7. /\ DOMAIN old.dates = {}
        /\ \A c \in DOMAIN old.prices : \E l \in readers :
              /\ l <= i /\ Worth!NormaliseCode(rows[l].code) = c
              /\ rows[l].price = old.prices[c] /\ OnDay(rows[l], 0) = old.date
        /\ \A l \in readers : l <= i => /\ old.date # Null
                                        /\ OnDay(rows[l], 0) = old.date =>
                                              Worth!NormaliseCode(rows[l].code) \in DOMAIN old.prices
    BY DEF BhavcopyTo
  <1>8. old.date = Null => DOMAIN old.prices = {}
    BY <1>7
  <1>9. CASE ~reads
    <2>1. new.prices = old.prices /\ new.date = old.date /\ new.dates = old.dates
      BY <1>6, <1>9
    <2>2. x \in readers => old.date # Null /\ (day = old.date => key \in DOMAIN old.prices)
      BY <1>8, <1>9
    <2>3. \A l \in readers : l <= x => /\ new.date # Null
                                       /\ OnDay(rows[l], 0) = new.date =>
                                             Worth!NormaliseCode(rows[l].code) \in DOMAIN new.prices
      BY <1>1, <1>2, <1>7, <2>1, <2>2
    <2>4. \A c \in DOMAIN new.prices : \E l \in readers :
              /\ l <= x /\ Worth!NormaliseCode(rows[l].code) = c
              /\ rows[l].price = new.prices[c] /\ OnDay(rows[l], 0) = new.date
      BY <1>2, <1>7, <2>1
    <2> QED
      BY <1>1, <1>7, <2>1, <2>3, <2>4 DEF BhavcopyTo
  <1>10. CASE reads
    <2>1. new.date = day /\ new.dates = old.dates /\ old.date \in {Null, day} /\ x \in readers
      BY <1>6, <1>10
    <2>2. PICK f, g : f = old.prices /\ g = new.prices
      OBVIOUS
    <2>3. g = Worth!Put(f, key, price)
      BY <1>6, <1>10, <2>2
    <2>4. DOMAIN g = DOMAIN f \cup {key} /\ \A c \in DOMAIN g : g[c] = IF c = key THEN price ELSE f[c]
      BY <2>3 DEF Worth!Put
    <2>5. \A c \in DOMAIN g : \E l \in readers :
              /\ l <= x /\ Worth!NormaliseCode(rows[l].code) = c
              /\ rows[l].price = g[c] /\ OnDay(rows[l], 0) = day
      <3> TAKE c \in DOMAIN g
      <3>1. CASE c = key
        BY <1>1, <1>2, <2>1, <2>4, <3>1
      <3>2. CASE c # key
        <4>1. c \in DOMAIN old.prices /\ g[c] = old.prices[c]
          BY <2>2, <2>4, <3>2
        <4>2. old.date = day
          BY <1>8, <2>1, <4>1
        <4>3. PICK l \in readers : /\ l <= i /\ Worth!NormaliseCode(rows[l].code) = c
                                   /\ rows[l].price = old.prices[c] /\ OnDay(rows[l], 0) = old.date
          BY <1>7, <4>1
        <4> QED
          BY <1>2, <4>1, <4>2, <4>3
      <3> QED
        BY <3>1, <3>2
    <2>6. \A l \in readers : l <= x => (OnDay(rows[l], 0) = day => Worth!NormaliseCode(rows[l].code) \in DOMAIN g)
      <3> TAKE l \in readers
      <3> SUFFICES ASSUME l <= x, OnDay(rows[l], 0) = day
                   PROVE  Worth!NormaliseCode(rows[l].code) \in DOMAIN g
        OBVIOUS
      <3>1. CASE l = x
        BY <1>1, <2>4, <3>1
      <3>2. CASE l # x
        <4>1. l <= i
          BY <1>2, <3>2
        <4>2. old.date = day
          BY <1>7, <2>1, <4>1
        <4> QED
          BY <1>7, <2>2, <2>4, <4>1, <4>2
      <3> QED
        BY <3>1, <3>2
    <2> QED
      BY <1>1, <1>4, <1>7, <2>1, <2>2, <2>5, <2>6 DEF BhavcopyTo
  <1> QED
    BY <1>9, <1>10

LEMMA TradesKeepDay ==
    ASSUME NEW rows \in Seq(Rows), NEW c
    PROVE  DayKept("nse", Worth!ParseBhavcopy(Trades(rows)), 0, rows,
                   {i \in DOMAIN rows : rows[i].price # Null /\ rows[i].flag}, c)
  <1> DEFINE list    == Trades(rows)
             readers == {i \in DOMAIN rows : rows[i].price # Null /\ rows[i].flag}
             read    == {i \in readers : Same(rows[i].code, c)}
             n       == Len(rows)
             file    == Worth!ParseBhavcopy(list)
  <1>1. n \in Nat /\ DOMAIN rows = 1 .. n /\ readers \subseteq 1 .. n
    OBVIOUS
  <1>2. list \in Seq(TradeRows) /\ Len(list) = n
    BY TradeListIs
  <1>3. PICK r \in [0 .. n -> Files] :
           /\ r[0] = NoneRead /\ Worth!FoldLeft(Worth!ReadTrade, NoneRead, list) = r[n]
           /\ \A i \in 1 .. n : r[i] = Worth!ReadTrade(r[i - 1], list[i])
    <2> HIDE DEF list
    <2>1. PICK k : k = n
      OBVIOUS
    <2> QED
      BY <1>2, TradeSteps, ZenonT(40)
  <1> DEFINE U == {i \in Nat : i <= n => BhavcopyTo(r[i], rows, readers, i)}
  <1>4. 0 \in U
    <2>1. r[0].date = Null /\ DOMAIN r[0].dates = {} /\ DOMAIN r[0].prices = {}
      BY <1>3 DEF NoneRead
    <2>2. \A l \in readers : ~(l <= 0)
      BY <1>1
    <2> HIDE DEF readers
    <2> QED
      BY <2>1, <2>2 DEF BhavcopyTo
  <1>5. ASSUME NEW i \in U PROVE i + 1 \in U
    <2> SUFFICES ASSUME i + 1 <= n PROVE BhavcopyTo(r[i + 1], rows, readers, i + 1)
      OBVIOUS
    <2>1. i \in Nat /\ i \in 0 .. n /\ i + 1 \in 1 .. n /\ i + 1 \in DOMAIN rows /\ i + 1 - 1 = i
      BY <1>1
    <2>2. BhavcopyTo(r[i], rows, readers, i)
      BY <2>1
    <2>3. PICK old, trade, new, set : old = r[i] /\ trade = list[i + 1] /\ new = r[i + 1] /\ set = readers
      OBVIOUS
    <2> HIDE DEF list, U
    <2>4. old \in Files /\ trade \in TradeRows /\ new = Worth!ReadTrade(old, trade)
      BY <1>2, <1>3, <2>1, <2>3
    <2>5. trade = Trades(rows)[i + 1]
      BY <2>3 DEF list
    <2>6. set = {l \in DOMAIN rows : rows[l].price # Null /\ rows[l].flag}
      BY <2>3
    <2> HIDE DEF readers
    <2>7. BhavcopyTo(new, rows, set, i + 1)
      BY <2>1, <2>2, <2>3, <2>4, <2>5, <2>6, BhavcopyGoesOn
    <2> QED
      BY <2>3, <2>7
  <1>6. U = Nat
    <2>1. U \in SUBSET Nat
      OBVIOUS
    <2> HIDE DEF U
    <2> QED
      BY <1>4, <1>5, <2>1, CountUp
  <1>7. PICK last \in Files : last = r[n]
    BY <1>1, <1>3
  <1>8. BhavcopyTo(last, rows, readers, n)
    BY <1>1, <1>6, <1>7
  <1> HIDE DEF U
  <1>9. file = IF last.date = Null THEN Refused ELSE last
    <2>1. file = LET f == Worth!FoldLeft(Worth!ReadTrade, NoneRead, list)
                 IN  IF f.date = Null THEN Refused ELSE f
      BY DEF Worth!ParseBhavcopy, NoneRead
    <2> HIDE DEF file, list
    <2> QED
      BY <1>3, <1>7, <2>1
  <1> HIDE DEF readers, list, n, file
  <1> SUFFICES DayKept("nse", file, 0, rows, readers, c)
    BY DEF file, list, readers
  <1>10. PICK code, quote : code = Worth!NormaliseCode(c) /\ quote = QuoteOf("nse", file, c)
    OBVIOUS
  <1>11. /\ \A l \in readers : l <= n
         /\ \A l : l \in read <=> l \in readers /\ Worth!NormaliseCode(rows[l].code) = code
    BY <1>1, <1>10 DEF Same
  <1> HIDE DEF read
  <1>12. /\ DOMAIN last.dates = {}
         /\ \A k \in DOMAIN last.prices : \E l \in readers :
               /\ Worth!NormaliseCode(rows[l].code) = k
               /\ rows[l].price = last.prices[k] /\ OnDay(rows[l], 0) = last.date
         /\ \A l \in readers : /\ last.date # Null
                               /\ OnDay(rows[l], 0) = last.date =>
                                     Worth!NormaliseCode(rows[l].code) \in DOMAIN last.prices
    BY <1>8, <1>11 DEF BhavcopyTo
  <1>13. CASE last.date = Null
    <2>1. quote = Null
      BY <1>9, <1>10, <1>13 DEF QuoteOf
    <2>2. \A l \in read : FALSE
      BY <1>11, <1>12, <1>13
    <2> QED
      BY <1>10, <2>1, <2>2 DEF DayKept, read
  <1>14. CASE last.date # Null
    <2>1. /\ file = last /\ last.date \in FeedDates /\ last.dates \in ByCode(FeedDates)
          /\ last.prices \in ByCode(Nat) /\ last.currency = "INR" /\ last.skipped \in Nat
          /\ last = [date |-> last.date, dates |-> last.dates, prices |-> last.prices,
                     currency |-> last.currency, skipped |-> last.skipped]
      BY <1>9, <1>14 DEF Files
    <2>2. file # Refused
      <3>1. file \in [date : FeedDates, dates : ByCode(FeedDates), prices : ByCode(Nat),
                      currency : {"INR", "USD"}, skipped : Nat]
        BY <2>1
      <3> QED
        BY <3>1, FeedsAssumption
    <2>3. CASE code \notin DOMAIN last.prices
      <3>1. quote = Null
        BY <1>10, <2>1, <2>2, <2>3, LookedUp
      <3>2. \A l \in read : OnDay(rows[l], 0) # file.date
        BY <1>11, <1>12, <2>1, <2>3
      <3> QED
        BY <1>10, <3>1, <3>2 DEF DayKept, read
    <2>4. CASE code \in DOMAIN last.prices
      <3>1. PICK p, d : p = last.prices[code] /\ d = last.date
        OBVIOUS
      <3>2. Worth!DateOf(file, code) = d
        BY <1>12, <2>1, <3>1 DEF Worth!DateOf
      <3>3. quote = [price |-> p, currency |-> "INR", date |-> d]
        BY <1>10, <2>1, <2>2, <2>4, <3>1, <3>2, LookedUp
      <3>4. p \in Nat /\ d \in FeedDates
        BY <2>1, <2>4, <3>1, ByCodeIs
      <3>5. quote # Null
        BY <3>3, <3>4, FeedsAssumption
      <3>6. PICK l \in readers : /\ Worth!NormaliseCode(rows[l].code) = code
                                 /\ rows[l].price = p /\ OnDay(rows[l], 0) = d
        BY <1>12, <2>4, <3>1
      <3>7. l \in read /\ rows[l].price = quote.price /\ OnDay(rows[l], 0) = quote.date
        BY <1>11, <3>3, <3>6
      <3> QED
        BY <1>10, <3>5, <3>7 DEF DayKept, read
    <2> QED
      BY <2>3, <2>4
  <1> QED
    BY <1>13, <1>14

(* What a lookup gives is a row's, on the row's day, whichever the feed is.               *)
LEMMA PricesDoKeepTheirDay == FeedsInv => PricesKeepTheirDay
  <1> SUFFICES ASSUME FeedsInv, side = "feeds" PROVE PricesKeepTheirDay
    BY DEF PricesKeepTheirDay
  <1>1. input \in Seq(Rows)
    BY DEF FeedsInv
  <1> DEFINE File(feed) == CASE feed = "amfi" -> Worth!ParseAmfi(Schemes(input))
                             [] feed = "nse"  -> Worth!ParseBhavcopy(Trades(input))
                             [] feed = "us"   -> Worth!ParseSpark(Quotes(input))
                             [] OTHER         -> Worth!ParseCoinGecko(Quotes(input))
             Offset(feed) == CASE feed = "us" -> ExchangeOffset [] feed = "crypto" -> IstOffset
                               [] OTHER -> 0
             Reads(feed, r) == /\ r.price # Null
                               /\ feed = "nse" => r.flag
                               /\ feed = "amfi" => r.code \notin DOMAIN Upper
             readers(feed) == {i \in DOMAIN input : Reads(feed, input[i])}
  <1>2. ASSUME NEW feed \in {"amfi", "nse", "us", "crypto"}, NEW c \in FeedCodes
        PROVE  DayKept(feed, File(feed), Offset(feed), input, readers(feed), c)
    <2>1. CASE feed = "amfi"
      <3>1. /\ File(feed) = Worth!ParseAmfi(Schemes(input)) /\ Offset(feed) = 0
            /\ readers(feed) = {i \in DOMAIN input : input[i].price # Null /\ input[i].code \notin DOMAIN Upper}
        BY <2>1
      <3> HIDE DEF File, Offset, readers
      <3> QED
        BY <1>1, <2>1, <3>1, SchemesKeepDays
    <2>2. CASE feed = "nse"
      <3>1. /\ File(feed) = Worth!ParseBhavcopy(Trades(input)) /\ Offset(feed) = 0
            /\ readers(feed) = {i \in DOMAIN input : input[i].price # Null /\ input[i].flag}
        BY <2>2
      <3> HIDE DEF File, Offset, readers
      <3> QED
        BY <1>1, <2>2, <3>1, TradesKeepDay
    <2>3. CASE feed = "us"
      <3>1. /\ File(feed) = Worth!ParseSpark(Quotes(input)) /\ Offset(feed) = ExchangeOffset
            /\ readers(feed) = {i \in DOMAIN input : input[i].price # Null}
        BY <2>3
      <3> HIDE DEF File, Offset, readers
      <3> QED
        BY <1>1, <2>3, <3>1, SparkKeepsDays
    <2>4. CASE feed = "crypto"
      <3>1. /\ File(feed) = Worth!ParseCoinGecko(Quotes(input)) /\ Offset(feed) = IstOffset
            /\ readers(feed) = {i \in DOMAIN input : input[i].price # Null}
        BY <2>4
      <3> HIDE DEF File, Offset, readers
      <3> QED
        BY <1>1, <2>4, <3>1, CoinsKeepDays
    <2> QED
      BY <2>1, <2>2, <2>3, <2>4
  <1>3. ASSUME NEW feed \in {"amfi", "nse", "us", "crypto"}, NEW c \in FeedCodes
        PROVE  LET quote == QuoteOf(feed, File(feed), c)
                   read  == {i \in DOMAIN input : Same(input[i].code, c) /\ Reads(feed, input[i])}
               IN  IF quote # Null
                   THEN \E i \in read : /\ input[i].price = quote.price
                                        /\ OnDay(input[i], Offset(feed)) = quote.date
                   ELSE \A i \in read : feed = "nse" /\ OnDay(input[i], 0) # File(feed).date
    <2>1. {i \in DOMAIN input : Same(input[i].code, c) /\ Reads(feed, input[i])}
             = {i \in readers(feed) : Same(input[i].code, c)}
      OBVIOUS
    <2> HIDE DEF File, Offset, readers, Reads
    <2> QED
      BY <1>2, <2>1 DEF DayKept
  <1> QED
    BY <1>3 DEF PricesKeepTheirDay, QuoteOf

(* A ratio, times what it is of, is what it is to, to half of a last place.              *)
LEMMA RatioIsNear ==
    ASSUME NEW a \in Nat, NEW b \in Nat \ {0}
    PROVE  Worth!Ratio(a, b) \in Nat /\ 2 * (Worth!Ratio(a, b) * b - a * PriceScale) \in -b .. b
  <1>1. PICK p \in Nat, d \in Nat \ {0}, n \in Nat : p = a * PriceScale /\ d = 2 * b /\ n = 2 * p + b
    <2>1. a * PriceScale \in Nat
      BY ValuesAssumption
    <2> QED
      BY <2>1
  <1>2. PICK q \in Nat, m \in Nat : q = n \div d /\ m <= d /\ n = d * q + m
    <2>1. n = d * (n \div d) + (n % d) /\ n % d \in Nat /\ n % d <= d /\ n \div d \in Nat
      BY <1>1, Division
    <2> QED
      BY <2>1
  <1>3. Worth!Ratio(a, b) = q
    BY <1>1, <1>2 DEF Worth!Ratio, Worth!RoundHalfUp
  <1>4. PICK t \in Nat : t = q * b
    OBVIOUS
  <1>5. d * q = 2 * t
    BY <1>1, <1>2, <1>4
  <1>6. 2 * (t - p) \in -b .. b
    BY <1>1, <1>2, <1>4, <1>5
  <1> QED
    BY <1>1, <1>2, <1>3, <1>4, <1>6

(* What a page of rates of one base currency becomes.                                    *)
LEMMA CrossIs ==
    ASSUME NEW rates, "INR" \in DOMAIN rates, rates["INR"] = Inr
    PROVE  LET file == Worth!ParseFrankfurter("EUR", 1, rates)
               read == {c \in DOMAIN rates \ {"INR"} : rates[c] \notin {Null, 0}}
           IN  /\ DOMAIN file.prices = read \cup {"EUR"}
               /\ \A c \in DOMAIN file.prices :
                     file.prices[c] = IF c \in read THEN Worth!Ratio(Inr, rates[c]) ELSE Inr
  <1> DEFINE read == {c \in DOMAIN rates \ {"INR"} : rates[c] \notin {Null, 0}}
             prices == [c \in read \cup {"EUR"} |-> IF c \in read THEN Worth!Ratio(Inr, rates[c]) ELSE Inr]
             file == Worth!ParseFrankfurter("EUR", 1, rates)
  <1>1. Inr \notin {Null, 0}
    BY FeedsAssumption, ValuesAssumption
  <1>2. PICK skips : file = [date |-> 1, dates |-> [c \in {} |-> 0], currency |-> "INR",
                             prices |-> prices, skipped |-> skips]
    BY <1>1 DEF Worth!ParseFrankfurter
  <1>3. file.prices = prices
    BY <1>2
  <1> HIDE DEF file
  <1>4. DOMAIN file.prices = read \cup {"EUR"}
        /\ \A c \in DOMAIN file.prices :
              file.prices[c] = IF c \in read THEN Worth!Ratio(Inr, rates[c]) ELSE Inr
    <2> HIDE DEF read
    <2> QED
      BY <1>3
  <1> QED
    BY <1>4 DEF file

(* Any two currencies are worth each other what the feed says.                            *)
LEMMA RatesDoCross == FeedsInv => RatesAreCross
  <1> SUFFICES ASSUME FeedsInv, side = "feeds" PROVE RatesAreCross
    BY DEF RatesAreCross
  <1> DEFINE quoted == {input[i].code : i \in DOMAIN input} \ {"INR", "EUR"}
             rate   == [c \in quoted |->
                          (CHOOSE r \in {input[i] : i \in DOMAIN input} : r.code = c).price]
             rates  == [c \in quoted \cup {"INR"} |-> IF c = "INR" THEN Inr ELSE rate[c]]
             read   == {c \in DOMAIN rates \ {"INR"} : rates[c] \notin {Null, 0}}
             file   == Worth!ParseFrankfurter("EUR", 1, rates)
             fx     == [fx |-> file]
  <1>1. input \in Seq(Rows)
    BY DEF FeedsInv
  <1>2. \A c \in quoted : rate[c] \in Nat \cup {Null}
    <2> TAKE c \in quoted
    <2>1. PICK row : row = CHOOSE r \in {input[i] : i \in DOMAIN input} : r.code = c
      OBVIOUS
    <2>2. \E i \in DOMAIN input : input[i].code = c
      OBVIOUS
    <2>3. row \in {input[i] : i \in DOMAIN input}
      <3>1. \E s \in {input[i] : i \in DOMAIN input} : s.code = c
        BY <2>2
      <3> QED
        BY <2>1, <3>1
    <2>4. row \in Rows
      BY <1>1, <2>3
    <2>5. rate[c] = row.price
      BY <2>1
    <2> QED
      BY <2>4, <2>5, RowsAre
  <1>3. /\ DOMAIN rates = quoted \cup {"INR"} /\ rates["INR"] = Inr
        /\ \A c \in quoted : rates[c] = rate[c]
    OBVIOUS
  <1>4. "INR" \notin quoted /\ "EUR" \notin quoted
    OBVIOUS
  <1> HIDE DEF quoted, rate, rates
  <1>5. \A c : c \in read <=> c \in quoted /\ rate[c] \notin {Null, 0}
    BY <1>3, <1>4
  <1>6. /\ DOMAIN file.prices = read \cup {"EUR"}
        /\ \A c \in DOMAIN file.prices :
              file.prices[c] = IF c \in read THEN Worth!Ratio(Inr, rates[c]) ELSE Inr
    <2>1. "INR" \in DOMAIN rates
      BY <1>3
    <2> QED
      BY <1>3, <2>1, CrossIs
  <1> HIDE DEF read, file
  <1>7. fx.fx = file /\ "fx" \in DOMAIN fx
    OBVIOUS
  <1>8. \A c : c # "INR" => Worth!FxRate(fx, c) = IF c \in DOMAIN file.prices THEN file.prices[c] ELSE Null
    BY <1>7 DEF Worth!FxRate
  <1> HIDE DEF fx
  <1>9. Worth!FxRate(fx, "EUR") = Inr
    BY <1>4, <1>5, <1>6, <1>8
  <1>10. ASSUME NEW c \in quoted
         PROVE  LET inr == Worth!FxRate(fx, c)
                IN  IF rate[c] \in {Null, 0} THEN inr = Null
                    ELSE 2 * (inr * rate[c] - Inr * PriceScale) \in -rate[c] .. rate[c]
    <2>1. c # "INR" /\ c # "EUR"
      BY <1>4
    <2>2. CASE rate[c] \in {Null, 0}
      <3>1. c \notin DOMAIN file.prices
        BY <1>5, <1>6, <2>1, <2>2
      <3> QED
        BY <1>8, <2>1, <2>2, <3>1
    <2>3. CASE rate[c] \notin {Null, 0}
      <3>1. c \in DOMAIN file.prices /\ c \in read
        BY <1>5, <1>6, <2>3
      <3>2. PICK b, inr : b = rate[c] /\ inr = Worth!FxRate(fx, c)
        OBVIOUS
      <3>3. b \in Nat \ {0}
        BY <1>2, <2>3, <3>2
      <3>4. inr = Worth!Ratio(Inr, b)
        BY <1>3, <1>6, <1>8, <2>1, <3>1, <3>2
      <3>5. 2 * (inr * b - Inr * PriceScale) \in -b .. b
        BY <3>3, <3>4, RatioIsNear, FeedsAssumption
      <3> QED
        BY <2>3, <3>2, <3>5
    <2> QED
      BY <2>2, <2>3
  <1> QED
    BY <1>9, <1>10 DEF RatesAreCross, quoted, rate, rates, file, fx

(* Rows in another order.                                                              *)
Reordered(other, rows, p) ==
    /\ p \in Orders(DOMAIN rows)
    /\ other \in Seq(Rows) /\ DOMAIN other = DOMAIN rows
    /\ \A i \in DOMAIN rows : other[i] = rows[p[i]]

LEMMA ReorderedIs ==
    ASSUME NEW rows \in Seq(Rows), NEW p \in Orders(DOMAIN rows)
    PROVE  Reordered([i \in DOMAIN rows |-> rows[p[i]]], rows, p)
  <1> DEFINE other == [i \in DOMAIN rows |-> rows[p[i]]]
             n == Len(rows)
  <1>1. n \in Nat /\ DOMAIN rows = 1 .. n /\ \A i \in 1 .. n : rows[i] \in Rows
    OBVIOUS
  <1>2. \A i \in DOMAIN rows : p[i] \in DOMAIN rows
    BY DEF Orders
  <1>3. \A i \in 1 .. n : rows[p[i]] \in Rows
    BY <1>1, <1>2
  <1>4. other = [i \in 1 .. n |-> rows[p[i]]]
    BY <1>1
  <1> HIDE DEF n
  <1>5. other \in [1 .. n -> Rows]
    BY <1>3, <1>4
  <1>6. DOMAIN other = DOMAIN rows /\ \A i \in DOMAIN rows : other[i] = rows[p[i]]
    OBVIOUS
  <1> HIDE DEF other
  <1>7. other \in Seq(Rows)
    BY <1>1, <1>5
  <1> QED
    BY <1>6, <1>7 DEF Reordered, other

(* What is read of a quote, or nothing, in terms of the rows.                           *)
Tells(reading, rows, offset) ==
    LET readers == {i \in DOMAIN rows : rows[i].price # Null}
    IN  /\ DOMAIN reading.on = DOMAIN reading.prices
        /\ \A c \in DOMAIN reading.prices : \E l \in readers :
              /\ Worth!NormaliseCode(rows[l].code) = c /\ rows[l].price = reading.prices[c]
              /\ OnDay(rows[l], offset) = reading.on[c]
        /\ \A l \in readers : Worth!NormaliseCode(rows[l].code) \in DOMAIN reading.prices

LEMMA ReadingTells ==
    ASSUME NEW file, NEW rows \in Seq(Rows), NEW offset, NEW reading, NEW key, NEW price, NEW day,
           ReadsOf(file, rows, offset, reading, key, price, day)
    PROVE  Tells(reading, rows, offset)
  <1> DEFINE readers == {i \in DOMAIN rows : rows[i].price # Null}
             n       == Len(rows)
  <1>1. FromRows(reading, n, key, price, day, readers) /\ TellsOf(rows, offset, readers, key, price, day)
    BY DEF ReadsOf
  <1>2. readers \subseteq 1 .. n
    OBVIOUS
  <1> HIDE DEF readers, n
  <1>3. /\ DOMAIN reading.on = DOMAIN reading.prices
        /\ \A c \in DOMAIN reading.prices : \E l \in readers :
              key[l] = c /\ price[l] = reading.prices[c] /\ day[l] = reading.on[c]
        /\ \A l \in readers : key[l] \in DOMAIN reading.prices
    BY <1>1, <1>2 DEF FromRows
  <1>4. \A l \in readers : /\ key[l] = Worth!NormaliseCode(rows[l].code)
                           /\ price[l] = rows[l].price /\ day[l] = OnDay(rows[l], offset)
    BY <1>1 DEF TellsOf
  <1> QED
    BY <1>3, <1>4 DEF Tells, readers

(* Of a code once among the rows, it is the same in any order.                           *)
LEMMA TellsTheSame ==
    ASSUME NEW rows \in Seq(Rows), NEW other, NEW p, Reordered(other, rows, p), NEW offset,
           \A i, j \in DOMAIN rows :
              i # j => Worth!NormaliseCode(rows[i].code) # Worth!NormaliseCode(rows[j].code),
           NEW a \in Readings, Tells(a, rows, offset), NEW b \in Readings, Tells(b, other, offset)
    PROVE  a.prices = b.prices /\ a.on = b.on
  <1>1. /\ \A i \in DOMAIN rows : p[i] \in DOMAIN rows /\ other[i] = rows[p[i]]
        /\ \A i \in DOMAIN rows : \E j \in DOMAIN rows : p[j] = i
        /\ DOMAIN other = DOMAIN rows
    BY DEF Reordered, Orders
  <1>2. ASSUME NEW c \in DOMAIN a.prices
        PROVE  c \in DOMAIN b.prices /\ a.prices[c] = b.prices[c] /\ a.on[c] = b.on[c]
    <2>1. PICK l \in DOMAIN rows : /\ rows[l].price # Null /\ Worth!NormaliseCode(rows[l].code) = c
                                   /\ rows[l].price = a.prices[c] /\ OnDay(rows[l], offset) = a.on[c]
      BY DEF Tells
    <2>2. PICK j \in DOMAIN rows : p[j] = l
      BY <1>1
    <2>3. j \in DOMAIN other /\ other[j] = rows[l]
      BY <1>1, <2>2
    <2>4. c \in DOMAIN b.prices
      BY <2>1, <2>3 DEF Tells
    <2>5. PICK m \in DOMAIN other : /\ Worth!NormaliseCode(other[m].code) = c
                                    /\ other[m].price = b.prices[c] /\ OnDay(other[m], offset) = b.on[c]
      BY <2>4 DEF Tells
    <2>6. m \in DOMAIN rows /\ p[m] \in DOMAIN rows /\ other[m] = rows[p[m]]
      BY <1>1, <2>5
    <2>7. p[m] = l
      BY <2>1, <2>5, <2>6
    <2> QED
      BY <2>1, <2>4, <2>5, <2>6, <2>7
  <1>3. ASSUME NEW c \in DOMAIN b.prices PROVE c \in DOMAIN a.prices
    <2>1. PICK m \in DOMAIN other : other[m].price # Null /\ Worth!NormaliseCode(other[m].code) = c
      BY DEF Tells
    <2>2. p[m] \in DOMAIN rows /\ rows[p[m]] = other[m]
      BY <1>1, <2>1
    <2> QED
      BY <2>1, <2>2 DEF Tells
  <1>4. DOMAIN a.prices = DOMAIN b.prices /\ DOMAIN a.on = DOMAIN a.prices /\ DOMAIN b.on = DOMAIN b.prices
    BY <1>2, <1>3 DEF Tells
  <1>5. /\ a.prices = [c \in DOMAIN a.prices |-> a.prices[c]] /\ b.prices = [c \in DOMAIN b.prices |-> b.prices[c]]
        /\ a.on = [c \in DOMAIN a.on |-> a.on[c]] /\ b.on = [c \in DOMAIN b.on |-> b.on[c]]
    BY ByCodeIs DEF Readings
  <1> QED
    BY <1>2, <1>4, <1>5

LEMMA SparkInAnyOrder ==
    ASSUME NEW rows \in Seq(Rows), NEW other, NEW p, Reordered(other, rows, p),
           \A i, j \in DOMAIN rows :
              i # j => Worth!NormaliseCode(rows[i].code) # Worth!NormaliseCode(rows[j].code)
    PROVE  Worth!ParseSpark(Quotes(other)) = Worth!ParseSpark(Quotes(rows))
  <1>1. other \in Seq(Rows) /\ DOMAIN other = DOMAIN rows
    BY DEF Reordered
  <1>2. Len(other) = Len(rows)
    BY <1>1
  <1>3. PICK one, two : one = Worth!ParseSpark(Quotes(rows)) /\ two = Worth!ParseSpark(Quotes(other))
    OBVIOUS
  <1>4. PICK a \in Readings : \E key, price, day : ReadsOf(one, rows, ExchangeOffset, a, key, price, day)
    BY <1>3, SparkReads
  <1>5. PICK b \in Readings : \E key, price, day : ReadsOf(two, other, ExchangeOffset, b, key, price, day)
    BY <1>1, <1>3, SparkReads
  <1>6. /\ one = Worth!Settled(a, "USD") /\ two = Worth!Settled(b, "USD")
        /\ a.skipped + Cardinality(DOMAIN a.prices) = Len(rows) /\ IsFiniteSet(DOMAIN a.prices)
        /\ b.skipped + Cardinality(DOMAIN b.prices) = Len(rows)
    BY <1>2, <1>4, <1>5 DEF ReadsOf
  <1>7. Tells(a, rows, ExchangeOffset) /\ Tells(b, other, ExchangeOffset)
    BY <1>1, <1>4, <1>5, ReadingTells
  <1>8. a.prices = b.prices /\ a.on = b.on
    BY <1>7, TellsTheSame
  <1>9. a.skipped = b.skipped
    <2>1. PICK k : k = Cardinality(DOMAIN a.prices)
      OBVIOUS
    <2>2. k \in Nat
      BY <1>6, <2>1, FS_CardinalityType
    <2>3. a.skipped + k = b.skipped + k
      BY <1>6, <1>8, <2>1
    <2>4. a.skipped \in Nat /\ b.skipped \in Nat
      BY DEF Readings
    <2> QED
      BY <2>2, <2>3, <2>4
  <1>10. a = b
    <2>1. /\ a = [prices |-> a.prices, on |-> a.on, skipped |-> a.skipped]
          /\ b = [prices |-> b.prices, on |-> b.on, skipped |-> b.skipped]
      BY DEF Readings
    <2> QED
      BY <1>8, <1>9, <2>1
  <1> QED
    BY <1>3, <1>6, <1>10
------------------------------------------------------------------------------
(* The best so far on a page of rates: none if no row reads; else a row that does, of the  *)
(* latest day and of its afternoon if there is one.                                    *)
After(row, than) ==
    \/ OnDay(than, 0) < OnDay(row, 0)
    \/ OnDay(than, 0) = OnDay(row, 0) /\ (row.flag \/ ~than.flag)

BestTo(best, rows, i) ==
    LET list    == Metals(rows)
        readers == {l \in DOMAIN rows : l <= i /\ rows[l].price # Null}
    IN  /\ best = Null => readers = {}
        /\ best # Null => \E l \in readers : /\ best = list[l]
                                             /\ \A m \in readers : After(rows[l], rows[m])

LEMMA BestGoesOn ==
    ASSUME NEW rows \in Seq(Rows), NEW i \in Nat, i + 1 \in DOMAIN rows, NEW best \in Bests,
           BestTo(best, rows, i), NEW new, new = Worth!Pick(best, Metals(rows)[i + 1])
    PROVE  BestTo(new, rows, i + 1)
  <1>1. PICK x, row, metal, list : /\ x = i + 1 /\ row = rows[x] /\ list = Metals(rows)
                                   /\ metal = list[x]
    OBVIOUS
  <1>2. /\ x \in DOMAIN rows /\ row \in Rows /\ x \in Nat
        /\ \A l \in DOMAIN rows : l \in Nat /\ rows[l] \in Rows /\ (l <= x <=> l <= i \/ l = x)
    BY <1>1
  <1>3. \A l \in DOMAIN rows : /\ list[l].gold = rows[l].price /\ list[l].silver = rows[l].price
                               /\ list[l].date = OnDay(rows[l], 0)
                               /\ list[l].session = IF rows[l].flag THEN "PM" ELSE "AM"
    BY <1>1 DEF Metals
  <1>4. \A l \in DOMAIN rows : OnDay(rows[l], 0) \in Int /\ rows[l].flag \in BOOLEAN
                               /\ rows[l].price \in Nat \cup {Null} /\ OnDay(rows[l], 0) \in FeedDates
    BY <1>2, RowsAre, DaysAreInt
  <1>5. \A l \in DOMAIN rows : rows[l].price # Null => list[l] # Null
    <2> TAKE l \in DOMAIN rows
    <2> SUFFICES ASSUME rows[l].price # Null PROVE list[l] # Null
      OBVIOUS
    <2>1. list[l] = [gold |-> rows[l].price, silver |-> rows[l].price, date |-> OnDay(rows[l], 0),
                     session |-> IF rows[l].flag THEN "PM" ELSE "AM"]
      BY <1>1 DEF Metals
    <2>2. PICK v \in Nat, d \in FeedDates, s \in {"AM", "PM"} :
             list[l] = [gold |-> v, silver |-> v, date |-> d, session |-> s]
      BY <1>4, <2>1
    <2> QED
      BY <2>2, FeedsAssumption
  <1> DEFINE readers(k) == {l \in DOMAIN rows : l <= k /\ rows[l].price # Null}
  <1>6. /\ best = Null => readers(i) = {}
        /\ best # Null => \E l \in readers(i) : /\ best = list[l]
                                                /\ \A m \in readers(i) : After(rows[l], rows[m])
    BY <1>1 DEF BestTo
  <1>7. new = Worth!Pick(best, metal)
    BY <1>1
  <1>8. /\ metal.gold = row.price /\ metal.silver = row.price /\ metal.date = OnDay(row, 0)
        /\ metal.session = IF row.flag THEN "PM" ELSE "AM"
    BY <1>1, <1>2, <1>3
  <1>9. /\ readers(x) \subseteq DOMAIN rows
        /\ \A l : l \in readers(x) <=> l \in readers(i) \/ (l = x /\ row.price # Null)
        /\ readers(i) \subseteq DOMAIN rows
    BY <1>1, <1>2
  <1> HIDE DEF readers
  <1> SUFFICES /\ new = Null => readers(x) = {}
               /\ new # Null => \E l \in readers(x) : /\ new = list[l]
                                                      /\ \A m \in readers(x) : After(rows[l], rows[m])
    BY <1>1 DEF BestTo, readers
  <1>10. CASE row.price = Null
    <2>1. new = best
      BY <1>7, <1>8, <1>10 DEF Worth!Pick
    <2>2. readers(x) = readers(i)
      BY <1>9, <1>10
    <2> QED
      BY <1>6, <2>1, <2>2
  <1>11. CASE row.price # Null /\ best = Null
    <2>1. new = metal
      BY <1>7, <1>8, <1>11 DEF Worth!Pick
    <2>2. x \in readers(x) /\ \A m \in readers(x) : m = x
      BY <1>6, <1>9, <1>11
    <2>3. After(rows[x], rows[x])
      BY <1>1, <1>2, <1>4 DEF After
    <2>4. new = list[x] /\ new # Null
      BY <1>1, <1>2, <1>5, <1>11, <2>1
    <2> QED
      BY <2>2, <2>3, <2>4
  <1>12. CASE row.price # Null /\ best # Null
    <2>1. PICK l \in readers(i) : best = list[l] /\ \A m \in readers(i) : After(rows[l], rows[m])
      BY <1>6, <1>12
    <2>2. /\ best.date = OnDay(rows[l], 0) /\ l \in DOMAIN rows /\ l \in readers(x)
          /\ x \in readers(x) /\ rows[x] = row
      BY <1>1, <1>3, <1>9, <1>12, <2>1
    <2>3. PICK d, e : d = OnDay(row, 0) /\ e = OnDay(rows[l], 0)
      OBVIOUS
    <2>4. d \in Int /\ e \in Int /\ row.flag \in BOOLEAN /\ rows[l].flag \in BOOLEAN
      BY <1>2, <1>4, <2>2, <2>3
    <2>5. CASE d > e \/ (d = e /\ row.flag)
      <3>1. new = metal
        BY <1>7, <1>8, <1>12, <2>2, <2>3, <2>4, <2>5 DEF Worth!Pick
      <3>2. \A m \in readers(x) : After(rows[x], rows[m])
        <4> TAKE m \in readers(x)
        <4>1. CASE m = x
          BY <1>1, <1>2, <1>4, <4>1 DEF After
        <4>2. CASE m # x
          <5>1. m \in readers(i) /\ m \in DOMAIN rows
            BY <1>9, <4>2
          <5>2. After(rows[l], rows[m]) /\ OnDay(rows[m], 0) \in Int /\ rows[m].flag \in BOOLEAN
            BY <1>4, <2>1, <5>1
          <5> QED
            BY <2>2, <2>3, <2>4, <2>5, <5>2 DEF After
        <4> QED
          BY <4>1, <4>2
      <3>3. new = list[x] /\ new # Null
        BY <1>1, <1>2, <1>5, <1>12, <3>1
      <3> QED
        BY <2>2, <3>2, <3>3
    <2>6. CASE d < e \/ (d = e /\ row.flag = FALSE)
      <3>0. metal.session = "PM" => row.flag
        BY <1>8
      <3>1. new = best
        <4>1. ~(metal.date > best.date) /\ ~(metal.date = best.date /\ metal.session = "PM")
          BY <1>8, <2>2, <2>3, <2>4, <2>6, <3>0
        <4>2. Null \notin {metal.gold, metal.silver}
          BY <1>8, <1>12
        <4> QED
          BY <1>7, <1>12, <4>1, <4>2 DEF Worth!Pick
      <3>2. After(rows[l], rows[x])
        BY <2>2, <2>3, <2>4, <2>6 DEF After
      <3>3. \A m \in readers(x) : After(rows[l], rows[m])
        BY <1>9, <2>1, <3>2
      <3> QED
        BY <1>12, <2>1, <2>2, <3>1, <3>3
    <2>7. (d > e \/ (d = e /\ row.flag)) \/ (d < e \/ (d = e /\ row.flag = FALSE))
      BY <2>4
    <2> QED
      BY <2>5, <2>6, <2>7
  <1> QED
    BY <1>10, <1>11, <1>12

LEMMA BestIs ==
    ASSUME NEW rows \in Seq(Rows)
    PROVE  BestTo(Worth!FoldLeft(Worth!Pick, Null, Metals(rows)), rows, Len(rows))
  <1> DEFINE n == Len(rows)
             list == Metals(rows)
  <1>1. n \in Nat /\ DOMAIN rows = 1 .. n /\ list \in Seq(MetalRows) /\ Len(list) = n
    BY MetalListIs
  <1> HIDE DEF list
  <1>2. PICK r \in [0 .. n -> Bests] :
           /\ r[0] = Null /\ Worth!FoldLeft(Worth!Pick, Null, list) = r[n]
           /\ \A i \in 1 .. n : r[i] = Worth!Pick(r[i - 1], list[i])
    BY <1>1, MetalSteps, ZenonT(40)
  <1> DEFINE U == {i \in Nat : i <= n => BestTo(r[i], rows, i)}
  <1>3. 0 \in U
    <2>1. \A l \in DOMAIN rows : ~(l <= 0)
      BY <1>1
    <2> QED
      BY <1>2, <2>1 DEF BestTo
  <1>4. ASSUME NEW i \in U PROVE i + 1 \in U
    <2> SUFFICES ASSUME i + 1 <= n PROVE BestTo(r[i + 1], rows, i + 1)
      OBVIOUS
    <2>1. i \in Nat /\ i \in 0 .. n /\ i + 1 \in 1 .. n /\ i + 1 \in DOMAIN rows /\ i + 1 - 1 = i
      BY <1>1
    <2>2. BestTo(r[i], rows, i)
      BY <2>1
    <2>3. PICK best, new : best = r[i] /\ new = r[i + 1]
      OBVIOUS
    <2> HIDE DEF U
    <2>4. best \in Bests /\ new = Worth!Pick(best, list[i + 1])
      BY <1>1, <1>2, <2>1, <2>3
    <2>5. new = Worth!Pick(best, Metals(rows)[i + 1])
      BY <2>4 DEF list
    <2>6. BestTo(new, rows, i + 1)
      BY <2>1, <2>2, <2>3, <2>4, <2>5, BestGoesOn
    <2> QED
      BY <2>3, <2>6
  <1>5. U = Nat
    <2>1. U \in SUBSET Nat
      OBVIOUS
    <2> HIDE DEF U
    <2> QED
      BY <1>3, <1>4, <2>1, CountUp
  <1>6. BestTo(r[n], rows, n)
    BY <1>1, <1>5
  <1> QED
    BY <1>2, <1>6 DEF list

LEMMA RatesInAnyOrder ==
    ASSUME NEW rows \in Seq(Rows), NEW other, NEW p, Reordered(other, rows, p),
           \A i, j \in DOMAIN rows :
              i # j => <<OnDay(rows[i], 0), rows[i].flag>> # <<OnDay(rows[j], 0), rows[j].flag>>
    PROVE  Worth!ParseIbja(Metals(other)) = Worth!ParseIbja(Metals(rows))
  <1>1. /\ \A i \in DOMAIN rows : p[i] \in DOMAIN rows /\ other[i] = rows[p[i]]
        /\ \A i \in DOMAIN rows : \E j \in DOMAIN rows : p[j] = i
        /\ DOMAIN other = DOMAIN rows /\ other \in Seq(Rows)
    BY DEF Reordered, Orders
  <1>2. PICK a, b : /\ a = Worth!FoldLeft(Worth!Pick, Null, Metals(rows))
                    /\ b = Worth!FoldLeft(Worth!Pick, Null, Metals(other))
    OBVIOUS
  <1>3. BestTo(a, rows, Len(rows)) /\ BestTo(b, other, Len(other))
    BY <1>1, <1>2, BestIs
  <1>4. /\ \A l \in DOMAIN rows : l <= Len(rows) /\ rows[l] \in Rows
        /\ \A l \in DOMAIN other : l <= Len(other)
    BY <1>1
  <1>5. /\ a = Null => \A l \in DOMAIN rows : rows[l].price = Null
        /\ a # Null => \E l \in DOMAIN rows :
              /\ rows[l].price # Null /\ a = Metals(rows)[l]
              /\ \A m \in DOMAIN rows : rows[m].price # Null => After(rows[l], rows[m])
        /\ b = Null => \A l \in DOMAIN other : other[l].price = Null
        /\ b # Null => \E l \in DOMAIN other :
              /\ other[l].price # Null /\ b = Metals(other)[l]
              /\ \A m \in DOMAIN other : other[m].price # Null => After(other[l], other[m])
    BY <1>3, <1>4 DEF BestTo
  <1>6. CASE a = Null
    <2>1. \A l \in DOMAIN other : other[l].price = Null
      <3> TAKE l \in DOMAIN other
      <3>1. p[l] \in DOMAIN rows /\ other[l] = rows[p[l]]
        BY <1>1
      <3>2. rows[p[l]].price = Null
        BY <1>5, <1>6, <3>1
      <3> QED
        BY <3>1, <3>2
    <2>2. b = Null
      BY <1>5, <2>1
    <2> QED
      BY <1>2, <1>6, <2>2 DEF Worth!ParseIbja
  <1>7. CASE a # Null
    <2>1. PICK l \in DOMAIN rows :
              /\ rows[l].price # Null /\ a = Metals(rows)[l]
              /\ \A m \in DOMAIN rows : rows[m].price # Null => After(rows[l], rows[m])
      BY <1>5, <1>7
    <2>2. PICK j \in DOMAIN rows : p[j] = l
      BY <1>1
    <2>3. j \in DOMAIN other /\ other[j] = rows[l] /\ other[j].price # Null
      BY <1>1, <2>1, <2>2
    <2>4. b # Null
      BY <1>5, <2>3
    <2>5. PICK k \in DOMAIN other :
              /\ other[k].price # Null /\ b = Metals(other)[k]
              /\ \A m \in DOMAIN other : other[m].price # Null => After(other[k], other[m])
      BY <1>5, <2>4
    <2>6. k \in DOMAIN rows /\ p[k] \in DOMAIN rows /\ other[k] = rows[p[k]]
      BY <1>1, <2>5
    <2>7. After(other[k], rows[l]) /\ After(rows[l], other[k])
      BY <2>1, <2>3, <2>5, <2>6
    <2>8. OnDay(rows[l], 0) = OnDay(other[k], 0) /\ rows[l].flag = other[k].flag
      <3>1. /\ OnDay(rows[l], 0) \in Int /\ OnDay(other[k], 0) \in Int
            /\ rows[l].flag \in BOOLEAN /\ other[k].flag \in BOOLEAN
        BY <1>4, <2>6, RowsAre, DaysAreInt
      <3> QED
        BY <2>7, <3>1 DEF After
    <2>9. p[k] = l
      BY <2>6, <2>8
    <2>10. Metals(other)[k] = Metals(rows)[l]
      BY <2>5, <2>6, <2>9 DEF Metals
    <2>11. a = b
      BY <2>1, <2>5, <2>10
    <2> QED
      BY <1>2, <2>11 DEF Worth!ParseIbja
  <1> QED
    BY <1>6, <1>7

LEMMA FeedsAreInAnyOrder == FeedsInv => FeedsInAnyOrder
  <1> SUFFICES ASSUME FeedsInv, side = "feeds", NEW p \in Orders(DOMAIN input)
               PROVE  LET other == [i \in DOMAIN input |-> input[p[i]]]
                          Once(key) == \A i, j \in DOMAIN input : i # j => key[i] # key[j]
                      IN  /\ Once([i \in DOMAIN input |-> Worth!NormaliseCode(input[i].code)]) =>
                                Worth!ParseSpark(Quotes(other)) = Worth!ParseSpark(Quotes(input))
                          /\ Once([i \in DOMAIN input |-> <<OnDay(input[i], 0), input[i].flag>>]) =>
                                Worth!ParseIbja(Metals(other)) = Worth!ParseIbja(Metals(input))
    BY DEF FeedsInAnyOrder
  <1>1. input \in Seq(Rows)
    BY DEF FeedsInv
  <1>2. PICK other : other = [i \in DOMAIN input |-> input[p[i]]]
    OBVIOUS
  <1>3. Reordered(other, input, p)
    BY <1>1, <1>2, ReorderedIs
  <1> DEFINE code == [i \in DOMAIN input |-> Worth!NormaliseCode(input[i].code)]
             rate == [i \in DOMAIN input |-> <<OnDay(input[i], 0), input[i].flag>>]
  <1>4. ASSUME \A i, j \in DOMAIN input : i # j => code[i] # code[j]
        PROVE  Worth!ParseSpark(Quotes(other)) = Worth!ParseSpark(Quotes(input))
    <2>1. \A i \in DOMAIN input : code[i] = Worth!NormaliseCode(input[i].code)
      OBVIOUS
    <2> HIDE DEF code
    <2>2. \A i, j \in DOMAIN input :
             i # j => Worth!NormaliseCode(input[i].code) # Worth!NormaliseCode(input[j].code)
      BY <1>4, <2>1
    <2> QED
      BY <1>1, <1>3, <2>2, SparkInAnyOrder
  <1>5. ASSUME \A i, j \in DOMAIN input : i # j => rate[i] # rate[j]
        PROVE  Worth!ParseIbja(Metals(other)) = Worth!ParseIbja(Metals(input))
    <2>1. \A i \in DOMAIN input : rate[i] = <<OnDay(input[i], 0), input[i].flag>>
      OBVIOUS
    <2> HIDE DEF rate
    <2>2. \A i, j \in DOMAIN input :
             i # j => <<OnDay(input[i], 0), input[i].flag>> # <<OnDay(input[j], 0), input[j].flag>>
      BY <1>5, <2>1
    <2> QED
      BY <1>1, <1>3, <2>2, RatesInAnyOrder
  <1> QED
    BY <1>2, <1>4, <1>5, Zenon

(* PricesAreTrue: from a feed to a value, a price keeps its row, its day and its ratio, in  *)
(* whatever order its rows came, and a value of what is old says so.                     *)
THEOREM PricesAreTrueHolds == MCSpec => []PricesAreTrue
  <1>1. FeedsInv /\ ValuesInv => PricesAreTrue
    BY StaleShows, PricesDoKeepTheirDay, FeedsAreInAnyOrder, RatesDoCross DEF PricesAreTrue
  <1> QED
    BY <1>1, FeedsInvariant, ValuesInvariant, PTL

------------------------------------------------------------------------------
(* Timeline: the series and its ranges.                                         *)

LEMMA PlansInvariant == MCSpec => []PlansInv
  <1>1. MCInit => PlansInv
    <2> SUFFICES ASSUME MCInit PROVE PlansInv
      OBVIOUS
    <2>1. /\ side = "series" => input = <<>>
          /\ side = "dates" => input \in Calendar
          /\ side = "plan" => input \in Plans
          /\ side = "advice" => input \in Advised
      BY DEF MCInit, Inputs
    <2>2. side = "series" => /\ input \in Seq(Snapshots)
                             /\ \A i, j \in DOMAIN input :
                                    i # j => input[i].modifiedAt # input[j].modifiedAt
      <3> SUFFICES ASSUME side = "series" PROVE input \in Seq(Snapshots) /\ DOMAIN input = {}
        OBVIOUS
      <3> QED
        BY <2>1
    <2> QED
      BY <2>1, <2>2 DEF PlansInv
  <1>2. PlansInv /\ [MCNext]_mcVars => PlansInv'
    <2> SUFFICES ASSUME PlansInv, [MCNext]_mcVars PROVE PlansInv'
      OBVIOUS
    <2>1. side' = side
      BY DEF MCNext, mcVars
    <2>2. CASE AddSnapshot
      <3>1. PICK s \in Snapshots : /\ \A i \in DOMAIN input : input[i].modifiedAt # s.modifiedAt
                                   /\ input' = Append(input, s)
        BY <2>2 DEF AddSnapshot
      <3>2. side = "series" /\ input \in Seq(Snapshots)
            /\ \A i, j \in DOMAIN input : i # j => input[i].modifiedAt # input[j].modifiedAt
        BY <2>2 DEF AddSnapshot, PlansInv
      <3>3. input' \in Seq(Snapshots)
        BY <3>1, <3>2
      <3>4. /\ DOMAIN input' = DOMAIN input \cup {Len(input) + 1}
            /\ input'[Len(input) + 1] = s /\ Len(input) + 1 \notin DOMAIN input
            /\ \A i \in DOMAIN input : input'[i] = input[i]
        BY <3>1, <3>2
      <3>5. \A i, j \in DOMAIN input' : i # j => input'[i].modifiedAt # input'[j].modifiedAt
        <4> SUFFICES ASSUME NEW i \in DOMAIN input', NEW j \in DOMAIN input', i # j
                     PROVE  input'[i].modifiedAt # input'[j].modifiedAt
          OBVIOUS
        <4>1. CASE i \in DOMAIN input /\ j \in DOMAIN input
          BY <3>2, <3>4, <4>1
        <4>2. CASE i = Len(input) + 1 /\ j \in DOMAIN input
          BY <3>1, <3>4, <4>2
        <4>3. CASE i \in DOMAIN input /\ j = Len(input) + 1
          BY <3>1, <3>4, <4>3
        <4> QED
          BY <3>4, <4>1, <4>2, <4>3
      <3> QED
        BY <2>1, <3>2, <3>3, <3>5 DEF PlansInv
    <2>3. CASE input' = input
      BY <2>1, <2>3 DEF PlansInv
    <2>4. CASE side \notin {"series", "dates", "plan", "advice"}
      BY <2>1, <2>4 DEF PlansInv
    <2> QED
      BY <2>1, <2>2, <2>3, <2>4 DEF MCNext, mcVars, Ask, AddHolding, MoveGoal, AddKey, Buy, Sell,
                                    AddAsset, Fetch, AddRow, AddLeg
  <1> QED
    BY <1>1, <1>2, PTL DEF MCSpec

(* Which snapshots a series keeps of those at some places.                         *)
KeptBy(snapshots, places) ==
    Past!FoldLeft(LAMBDA seen, i : Past!Kept(seen, i, snapshots), {}, places)

LEMMA KeptIsASet ==
    \A snapshots : \A a \in SUBSET Nat : \A b \in Nat : Past!Kept(a, b, snapshots) \in SUBSET Nat
  BY DEF Past!Kept

(* The steps that find which snapshots to keep.                                   *)
LEMMA KeptSteps ==
    ASSUME NEW snapshots, NEW rows \in Seq(Nat)
    PROVE  \E r \in [0 .. Len(rows) -> (SUBSET Nat)] :
              /\ r[0] = {} /\ KeptBy(snapshots, rows) = r[Len(rows)]
              /\ \A i \in 1 .. Len(rows) : r[i] = Past!Kept(r[i - 1], rows[i], snapshots)
  <1> DEFINE n == Len(rows)
             step == [p \in (SUBSET Nat) \X Nat |-> Past!Kept(p[1], p[2], snapshots)]
             Once(it, t) == IF t = {} THEN {}
                            ELSE Past!Kept(it[t \ {Max(t)}], rows[Max(t)], snapshots)
             fold == CHOOSE it : it = [t \in SUBSET (1 .. n) |-> Once(it, t)]
  <1>1. n \in Nat /\ DOMAIN rows = 1 .. n /\ (\A i \in 1 .. n : rows[i] \in Nat)
    OBVIOUS
  <1>0. {} \in (SUBSET Nat) /\ \A a \in (SUBSET Nat) : \A b \in Nat : Past!Kept(a, b, snapshots) \in (SUBSET Nat)
    BY KeptIsASet
  <1>2. \A a \in (SUBSET Nat) : \A b \in Nat : step[<<a, b>>] = Past!Kept(a, b, snapshots)
    OBVIOUS
  <1>3. step \in [(SUBSET Nat) \X Nat -> (SUBSET Nat)]
    BY <1>0
  <1>4. Folding(n, (SUBSET Nat), {}, Nat, rows, step)
    BY <1>0, <1>1, <1>3 DEF Folding
  <1>5. KeptBy(snapshots, rows) = fold[1 .. n]
    BY <1>1 DEF KeptBy, Past!FoldLeft, Past!MapThenFoldSet, MapThenFoldSet, Past!Max, Max
  <1> HIDE DEF step, n
  <1>6. PICK it \in [SUBSET (1 .. n) -> (SUBSET Nat)] : Unfolds(it, n, {}, rows, step)
    BY <1>4, FoldExists
  <1>7. it = [t \in SUBSET (1 .. n) |-> Once(it, t)]
    <2>1. \A t \in SUBSET (1 .. n) : it[t] = Once(it, t)
      <3> TAKE t \in SUBSET (1 .. n)
      <3>1. CASE t = {}
        BY <1>6, <3>1 DEF Unfolds
      <3>2. CASE t # {}
        <4>1. Max(t) \in 1 .. n
          BY <1>1, <3>2, MaxIsIn
        <4>2. rows[Max(t)] \in Nat /\ it[t \ {Max(t)}] \in (SUBSET Nat)
          BY <1>1, <4>1
        <4> QED
          BY <1>2, <1>6, <3>2, <4>2 DEF Unfolds
      <3> QED
        BY <3>1, <3>2
    <2> HIDE DEF Once
    <2> QED
      BY <2>1
  <1>8. fold = [t \in SUBSET (1 .. n) |-> Once(fold, t)]
    <2> HIDE DEF Once
    <2> QED
      BY <1>7
  <1> HIDE DEF fold
  <1>9. FoldedBy(fold, n, (SUBSET Nat), {}, rows, step)
    <2>1. fold[{}] = {}
      BY <1>8
    <2>2. ASSUME NEW t \in SUBSET (1 .. n), t # {}, fold[t \ {Max(t)}] \in (SUBSET Nat)
          PROVE  fold[t] = step[<<fold[t \ {Max(t)}], rows[Max(t)]>>]
      <3>1. Max(t) \in 1 .. n
        BY <1>1, <2>2, MaxIsIn
      <3>2. fold[t] = Past!Kept(fold[t \ {Max(t)}], rows[Max(t)], snapshots)
        BY <1>8, <2>2
      <3> QED
        BY <1>1, <1>2, <2>2, <3>1, <3>2
    <2> QED
      BY <2>1, <2>2 DEF FoldedBy
  <1>10. PICK r \in [0 .. n -> (SUBSET Nat)] : /\ r[0] = {} /\ fold[1 .. n] = r[n]
                                      /\ \A i \in 1 .. n : r[i] = step[<<r[i - 1], rows[i]>>]
    BY <1>4, <1>9, FoldSteps
  <1>11. \A i \in 1 .. n : r[i] = Past!Kept(r[i - 1], rows[i], snapshots)
    <2> TAKE i \in 1 .. n
    <2>1. i - 1 \in 0 .. n /\ rows[i] \in Nat
      BY <1>1
    <2> QED
      BY <1>2, <1>10, <2>1
  <1> QED
    BY <1>5, <1>10, <1>11 DEF n

(* A snapshot with the latest stamp of its date.                                   *)
IsLatest(snapshots, i, places) ==
    \A j \in places : snapshots[j].data.date = snapshots[i].data.date
                          => snapshots[j].modifiedAt <= snapshots[i].modifiedAt

(* What holds of the snapshots kept of the first k: one of each date, and none later.   *)
KeptOf(snapshots, kept, k) ==
    /\ kept \subseteq 1 .. k
    /\ \A j \in 1 .. k : \E i \in kept : /\ snapshots[i].data.date = snapshots[j].data.date
                                         /\ snapshots[j].modifiedAt <= snapshots[i].modifiedAt
    /\ \A i, j \in kept : snapshots[i].data.date = snapshots[j].data.date => i = j

OwnStamps(snapshots) ==
    /\ snapshots \in Seq(Snapshots)
    /\ \A i, j \in DOMAIN snapshots :
          i # j => snapshots[i].modifiedAt # snapshots[j].modifiedAt

LEMMA KeepingStep ==
    ASSUME NEW snapshots, OwnStamps(snapshots), NEW k \in 1 .. Len(snapshots), NEW kept,
           KeptOf(snapshots, kept, k - 1)
    PROVE  KeptOf(snapshots, Past!Kept(kept, k, snapshots), k)
  <1>1. /\ Len(snapshots) \in Nat /\ DOMAIN snapshots = 1 .. Len(snapshots)
        /\ \A i \in 1 .. Len(snapshots) : snapshots[i].modifiedAt \in Int
    BY TimelineAssumption DEF OwnStamps
  <1> DEFINE at(i) == snapshots[i].modifiedAt
             day(i) == snapshots[i].data.date
             old == {j \in kept : day(j) = day(k)}
             new == Past!Kept(kept, k, snapshots)
  <1>2. new = IF \A j \in old : at(k) > at(j) THEN (kept \ old) \cup {k} ELSE kept
    BY DEF Past!Kept
  <1>3. /\ kept \subseteq 1 .. (k - 1)
        /\ \A j \in 1 .. (k - 1) : \E i \in kept : day(i) = day(j) /\ at(j) <= at(i)
        /\ \A i, j \in kept : day(i) = day(j) => i = j
    BY DEF KeptOf
  <1>4. /\ \A i \in 1 .. k : at(i) \in Int /\ i \in 1 .. Len(snapshots)
        /\ kept \subseteq 1 .. k /\ k \in 1 .. k /\ k \notin kept
        /\ \A j \in 1 .. k : j = k \/ j \in 1 .. (k - 1)
    BY <1>1, <1>3
  <1> HIDE DEF at, day, new
  <1>5. CASE \A j \in old : at(k) > at(j)
    <2>1. new = (kept \ old) \cup {k} /\ k \in new
      BY <1>2, <1>5
    <2>2. ASSUME NEW j \in 1 .. k PROVE \E i \in new : day(i) = day(j) /\ at(j) <= at(i)
      <3>1. CASE j = k
        BY <1>4, <2>1, <3>1
      <3>2. CASE j # k
        <4>1. PICK i \in kept : day(i) = day(j) /\ at(j) <= at(i)
          BY <1>3, <1>4, <3>2
        <4>2. CASE i \in old
          <5>1. day(k) = day(j) /\ at(k) > at(i) /\ at(i) \in Int /\ at(j) \in Int /\ at(k) \in Int
            BY <1>4, <1>5, <4>1, <4>2
          <5> QED
            BY <2>1, <4>1, <5>1
        <4>3. CASE i \notin old
          BY <2>1, <4>1, <4>3
        <4> QED
          BY <4>2, <4>3
      <3> QED
        BY <3>1, <3>2
    <2>3. \A i, j \in new : day(i) = day(j) => i = j
      BY <1>3, <2>1
    <2>4. new \subseteq 1 .. k
      BY <1>4, <2>1
    <2> QED
      BY <2>2, <2>3, <2>4 DEF KeptOf, at, day, new
  <1>6. CASE ~ \A j \in old : at(k) > at(j)
    <2>1. new = kept
      BY <1>2, <1>6
    <2>2. PICK j1 \in kept : day(j1) = day(k) /\ ~(at(k) > at(j1))
      BY <1>6
    <2>3. at(k) <= at(j1)
      BY <1>4, <2>2
    <2>4. \A j \in 1 .. k : \E i \in new : day(i) = day(j) /\ at(j) <= at(i)
      BY <1>3, <1>4, <2>1, <2>2, <2>3
    <2> QED
      BY <1>3, <1>4, <2>1, <2>4 DEF KeptOf, at, day, new
  <1> QED
    BY <1>5, <1>6

(* A series keeps of each date the snapshot that was stamped last.                   *)
LEMMA KeptIsLatest ==
    ASSUME NEW snapshots, OwnStamps(snapshots)
    PROVE  KeptBy(snapshots, [i \in DOMAIN snapshots |-> i])
               = {i \in DOMAIN snapshots : IsLatest(snapshots, i, DOMAIN snapshots)}
  <1> DEFINE n == Len(snapshots)
             places == [i \in DOMAIN snapshots |-> i]
  <1>1. /\ n \in Nat /\ DOMAIN snapshots = 1 .. n
        /\ \A i \in 1 .. n : snapshots[i].modifiedAt \in Int
    BY TimelineAssumption DEF OwnStamps
  <1>2. places \in Seq(Nat) /\ Len(places) = n /\ \A i \in 1 .. n : places[i] = i
    BY <1>1
  <1> HIDE DEF places
  <1>3. PICK r \in [0 .. Len(places) -> SUBSET Nat] :
           /\ r[0] = {} /\ KeptBy(snapshots, places) = r[Len(places)]
           /\ \A i \in 1 .. Len(places) : r[i] = Past!Kept(r[i - 1], places[i], snapshots)
    BY <1>2, KeptSteps
  <1>4. \A i \in 1 .. n : r[i] = Past!Kept(r[i - 1], i, snapshots)
    BY <1>2, <1>3
  <1> DEFINE U == {k \in Nat : k <= n => KeptOf(snapshots, r[k], k)}
  <1>5. 0 \in U
    BY <1>3 DEF KeptOf
  <1>6. ASSUME NEW k \in U PROVE k + 1 \in U
    <2> SUFFICES ASSUME k + 1 <= n PROVE KeptOf(snapshots, r[k + 1], k + 1)
      OBVIOUS
    <2>1. k \in Nat /\ k <= n /\ k + 1 \in 1 .. n /\ (k + 1) - 1 = k
      BY <1>1
    <2>2. KeptOf(snapshots, r[k], k)
      BY <2>1
    <2>3. r[k + 1] = Past!Kept(r[k], k + 1, snapshots)
      BY <1>4, <2>1
    <2> QED
      BY <2>1, <2>2, <2>3, KeepingStep
  <1> HIDE DEF U
  <1>7. U = Nat
    BY <1>5, <1>6, CountUp DEF U
  <1>8. KeptOf(snapshots, KeptBy(snapshots, places), n)
    BY <1>1, <1>2, <1>3, <1>7 DEF U
  <1> DEFINE kept == KeptBy(snapshots, places)
  <1> HIDE DEF kept
  <1>9. \A i \in 1 .. n : i \in kept <=> IsLatest(snapshots, i, 1 .. n)
    <2> TAKE i \in 1 .. n
    <2> DEFINE at(j) == snapshots[j].modifiedAt
               day(j) == snapshots[j].data.date
    <2>1. PICK l \in kept : day(l) = day(i) /\ at(i) <= at(l)
      BY <1>8 DEF KeptOf, kept
    <2>2. l \in 1 .. n /\ at(i) \in Int /\ at(l) \in Int
      BY <1>1, <1>8 DEF KeptOf, kept
    <2>3. ASSUME i \in kept PROVE IsLatest(snapshots, i, 1 .. n)
      <3> SUFFICES ASSUME NEW j \in 1 .. n, day(j) = day(i) PROVE at(j) <= at(i)
        BY DEF IsLatest
      <3>1. PICK m \in kept : day(m) = day(j) /\ at(j) <= at(m)
        BY <1>8 DEF KeptOf, kept
      <3>2. m = i
        BY <1>8, <2>3, <3>1 DEF KeptOf, kept
      <3> QED
        BY <3>1, <3>2
    <2>4. ASSUME IsLatest(snapshots, i, 1 .. n) PROVE i \in kept
      <3>1. at(l) <= at(i)
        BY <2>1, <2>2, <2>4 DEF IsLatest
      <3>2. at(l) = at(i)
        BY <2>1, <2>2, <3>1
      <3>3. l = i
        BY <1>1, <2>2, <3>2 DEF OwnStamps
      <3> QED
        BY <2>1, <3>3
    <2> QED
      BY <2>3, <2>4
  <1>10. kept \subseteq 1 .. n
    BY <1>8 DEF KeptOf, kept
  <1> QED
    BY <1>1, <1>9, <1>10 DEF kept, places

Points(snapshots) == {snapshots[i].data : i \in {i \in DOMAIN snapshots :
                                                    IsLatest(snapshots, i, DOMAIN snapshots)}}

LEMMA SeriesAre ==
    ASSUME NEW s, OwnStamps(s), NEW t, OwnStamps(t), Points(s) = Points(t), NEW live_
    PROVE  Past!TimelineSeries(s, live_) = Past!TimelineSeries(t, live_)
  <1> DEFINE points(z) == {z[i].data : i \in KeptBy(z, [j \in DOMAIN z |-> j])}
  <1>1. points(s) = points(t)
    BY KeptIsLatest DEF Points
  <1> QED
    BY <1>1, Zenon DEF Past!TimelineSeries, KeptBy, Past!FoldLeftDomain

LEMMA OrderNeverMatters == PlansInv => OrderIsIrrelevant
  <1> SUFFICES ASSUME PlansInv, side = "series", NEW p \in Orders(DOMAIN input)
               PROVE  \A live_ : Past!TimelineSeries([i \in DOMAIN input |-> input[p[i]]], live_)
                                   = Past!TimelineSeries(input, live_)
    BY DEF OrderIsIrrelevant
  <1> DEFINE n == Len(input)
  <1>1. OwnStamps(input) /\ n \in Nat /\ DOMAIN input = 1 .. n
        /\ \A i \in 1 .. n : input[i] \in Snapshots
    BY DEF PlansInv, OwnStamps
  <1>2. PICK other : other = [i \in DOMAIN input |-> input[p[i]]]
    OBVIOUS
  <1>3. /\ \A i \in 1 .. n : p[i] \in 1 .. n
        /\ \A i \in 1 .. n : \E j \in 1 .. n : p[j] = i
    BY <1>1 DEF Orders
  <1>4. \A i, j \in 1 .. n : p[i] = p[j] => i = j
    <2> DEFINE S == 1 .. n
    <2>1. IsFiniteSet(S)
      BY <1>1, FS_Interval
    <2>2. p \in Surjection(S, S)
      BY <1>1, <1>3 DEF Orders, Surjection
    <2> HIDE DEF S
    <2>3. p \in Injection(S, S)
      BY <2>1, <2>2, FS_SurjSameCardinalityImpliesInj
    <2> QED
      BY <2>3 DEF S, Injection, IsInjective
  <1>5. other \in Seq(Snapshots) /\ DOMAIN other = 1 .. n /\ \A i \in 1 .. n : other[i] = input[p[i]]
    <2>1. other \in [1 .. n -> Snapshots]
      BY <1>1, <1>2, <1>3
    <2> QED
      BY <1>1, <1>2, <2>1
  <1> HIDE DEF n
  <1>6. OwnStamps(other)
    <2>1. ASSUME NEW i \in 1 .. n, NEW j \in 1 .. n, i # j
          PROVE  other[i].modifiedAt # other[j].modifiedAt
      <3>1. p[i] # p[j] /\ p[i] \in 1 .. n /\ p[j] \in 1 .. n
        BY <1>3, <1>4, <2>1
      <3>2. input[p[i]].modifiedAt # input[p[j]].modifiedAt
        BY <1>1, <3>1 DEF OwnStamps
      <3> QED
        BY <1>5, <3>2
    <2> QED
      BY <1>5, <2>1 DEF OwnStamps
  <1>7. \A i \in 1 .. n : IsLatest(other, i, 1 .. n) <=> IsLatest(input, p[i], 1 .. n)
    <2> TAKE i \in 1 .. n
    <2>1. ASSUME IsLatest(other, i, 1 .. n) PROVE IsLatest(input, p[i], 1 .. n)
      <3> SUFFICES ASSUME NEW l \in 1 .. n, input[l].data.date = input[p[i]].data.date
                   PROVE  input[l].modifiedAt <= input[p[i]].modifiedAt
        BY DEF IsLatest
      <3>1. PICK j \in 1 .. n : p[j] = l
        BY <1>3
      <3> QED
        BY <1>5, <2>1, <3>1 DEF IsLatest
    <2>2. ASSUME IsLatest(input, p[i], 1 .. n) PROVE IsLatest(other, i, 1 .. n)
      <3> SUFFICES ASSUME NEW j \in 1 .. n, other[j].data.date = other[i].data.date
                   PROVE  other[j].modifiedAt <= other[i].modifiedAt
        BY DEF IsLatest
      <3>1. p[j] \in 1 .. n /\ other[j] = input[p[j]] /\ other[i] = input[p[i]]
        BY <1>3, <1>5
      <3>2. input[p[j]].data.date = input[p[i]].data.date
        BY <3>1
      <3>3. input[p[j]].modifiedAt <= input[p[i]].modifiedAt
        BY <2>2, <3>1, <3>2 DEF IsLatest
      <3> QED
        BY <3>1, <3>3
    <2> QED
      BY <2>1, <2>2
  <1>8. Points(other) = Points(input)
    <2>1. ASSUME NEW x \in Points(other) PROVE x \in Points(input)
      <3>1. PICK i \in 1 .. n : x = other[i].data /\ IsLatest(other, i, 1 .. n)
        BY <1>5, <2>1 DEF Points
      <3> QED
        BY <1>1, <1>3, <1>5, <1>7, <3>1 DEF Points
    <2>2. ASSUME NEW x \in Points(input) PROVE x \in Points(other)
      <3>1. PICK l \in 1 .. n : x = input[l].data /\ IsLatest(input, l, 1 .. n)
        BY <1>1, <2>2 DEF Points
      <3>2. PICK i \in 1 .. n : p[i] = l
        BY <1>3
      <3> QED
        BY <1>5, <1>7, <3>1, <3>2 DEF Points
    <2> QED
      BY <2>1, <2>2
  <1>9. \A live_ : Past!TimelineSeries(other, live_) = Past!TimelineSeries(input, live_)
    BY <1>1, <1>6, <1>8, SeriesAre
  <1> QED
    BY <1>2, <1>9, Zenon

(* The year, the month and the day that a date spells.                              *)
Spells(date, y, m, d) ==
    /\ y \in Int /\ m \in 0 .. 99 /\ d \in 0 .. 99
    /\ date = y * 10000 + m * 100 + d

LEMMA DateParts ==
    ASSUME NEW y, NEW m, NEW d, NEW date, Spells(date, y, m, d)
    PROVE  /\ date \in Int
           /\ Past!Year(date) = y /\ Past!Month(date) = m /\ Past!DayOf(date) = d
  <1>0. y \in Int /\ m \in 0 .. 99 /\ d \in 0 .. 99 /\ date = y * 10000 + m * 100 + d
    BY DEF Spells
  <1>1. date \in Int /\ date \div 10000 = y
    BY <1>0
  <1>2. date \div 100 = y * 100 + m /\ date % 100 = d
    BY <1>0
  <1>3. (y * 100 + m) % 100 = m
    BY <1>0
  <1> QED
    BY <1>1, <1>2, <1>3 DEF Past!Year, Past!Month, Past!DayOf

LEMMA MonthsHaveDays ==
    \A y \in Int, m \in Int : Past!LastDay(y, m) \in 28 .. 31
  <1> TAKE y \in Int, m \in Int
  <1>1. CASE m = 2
    BY <1>1 DEF Past!LastDay
  <1>2. CASE m # 2
    BY <1>2 DEF Past!LastDay
  <1> QED
    BY <1>1, <1>2

LEMMA EarlierOf ==
    \A a \in Int, b \in Int : Past!Min({a, b}) = IF a <= b THEN a ELSE b
  <1> TAKE a \in Int, b \in Int
  <1> DEFINE S == {a, b}
             least == IF a <= b THEN a ELSE b
  <1>1. least \in S /\ \A x \in S : least <= x
    OBVIOUS
  <1>2. Past!Min(S) = CHOOSE x \in S : \A y \in S : x <= y
    BY DEF Past!Min
  <1>3. \A x \in S : x \in Int
    OBVIOUS
  <1> HIDE DEF S, least
  <1>4. Past!Min(S) \in S /\ \A y \in S : Past!Min(S) <= y
    BY <1>1, <1>2
  <1>5. Past!Min(S) <= least /\ least <= Past!Min(S)
    BY <1>1, <1>4
  <1> QED
    BY <1>1, <1>3, <1>4, <1>5 DEF S, least

LEMMA RangesStart ==
    ASSUME NEW today \in Int, Past!IsDate(today), NEW range \in DOMAIN Past!RangeMonths
    PROVE  LET start == Past!RangeStart(range, today)
               Months(d) == Past!Year(d) * 12 + Past!Month(d)
           IN  /\ Past!IsDate(start)
               /\ Months(today) - Months(start) = Past!RangeMonths[range]
               /\ \/ Past!DayOf(start) = Past!DayOf(today)
                  \/ Past!DayOf(start) < Past!DayOf(today) /\ ~Past!IsDate(start + 1)
  <1> DEFINE months == Past!RangeMonths[range]
             back   == Past!Year(today) * 12 + (Past!Month(today) - 1) - months
             year   == back \div 12
             month  == (back % 12) + 1
             last   == Past!LastDay(year, month)
             day    == Past!Min({Past!DayOf(today), last})
             start  == Past!RangeStart(range, today)
  <1>1. months \in Nat /\ range # "All"
    BY DEF Past!RangeMonths
  <1>2. /\ Past!Year(today) \in Int /\ Past!Month(today) \in 1 .. 12
        /\ Past!DayOf(today) \in 1 .. 31
    <2>1. Past!Year(today) \in Int /\ Past!Month(today) \in 1 .. 12
      BY DEF Past!Year, Past!IsDate
    <2>2. Past!DayOf(today) \in 1 .. Past!LastDay(Past!Year(today), Past!Month(today))
      BY DEF Past!IsDate
    <2> QED
      BY <2>1, <2>2, MonthsHaveDays
  <1>3. start = year * 10000 + month * 100 + day
    BY <1>1 DEF Past!RangeStart
  <1> HIDE DEF months, start
  <1>4. back \in Int
    BY <1>1, <1>2
  <1> HIDE DEF back
  <1>5. year \in Int /\ month \in 1 .. 12 /\ year * 12 + month = back + 1
    BY <1>4
  <1> HIDE DEF year, month
  <1>6. last \in 28 .. 31
    BY <1>5, MonthsHaveDays
  <1> HIDE DEF last
  <1>7. day = IF Past!DayOf(today) <= last THEN Past!DayOf(today) ELSE last
    BY <1>2, <1>6, EarlierOf
  <1> HIDE DEF day
  <1>8. day \in 1 .. last /\ day <= 31 /\ day + 1 \in 0 .. 99 /\ day \in 0 .. 99 /\ month \in 0 .. 99
    BY <1>2, <1>5, <1>6, <1>7
  <1>9. start \in Int /\ Past!Year(start) = year /\ Past!Month(start) = month /\ Past!DayOf(start) = day
    <2>1. Spells(start, year, month, day)
      BY <1>3, <1>5, <1>8 DEF Spells
    <2> QED
      BY <2>1, DateParts
  <1>10. Past!IsDate(start)
    BY <1>5, <1>8, <1>9 DEF Past!IsDate, last
  <1>11. (Past!Year(today) * 12 + Past!Month(today)) - (year * 12 + month) = months
    BY <1>1, <1>2, <1>5 DEF back
  <1>12. CASE Past!DayOf(today) > last
    <2>1. day = last /\ day < Past!DayOf(today)
      BY <1>2, <1>6, <1>7, <1>12
    <2>2. start + 1 = year * 10000 + month * 100 + (day + 1)
      BY <1>3, <1>5, <1>8
    <2>3. Past!Year(start + 1) = year /\ Past!Month(start + 1) = month /\ Past!DayOf(start + 1) = day + 1
      <3>1. Spells(start + 1, year, month, day + 1)
        BY <1>5, <1>8, <2>2 DEF Spells
      <3> QED
        BY <3>1, DateParts
    <2>4. ~Past!IsDate(start + 1)
      BY <1>6, <2>1, <2>3 DEF Past!IsDate, last
    <2> QED
      BY <1>9, <1>10, <1>11, <2>1, <2>4 DEF months, start
  <1>13. CASE Past!DayOf(today) <= last
    BY <1>7, <1>9, <1>10, <1>11, <1>13 DEF months, start
  <1> QED
    BY <1>2, <1>6, <1>12, <1>13

LEMMA RangesAreWholeMonths == PlansInv => RangeIsWholeMonths
  <1> SUFFICES ASSUME PlansInv, side = "dates" PROVE RangeIsWholeMonths
    BY DEF RangeIsWholeMonths
  <1>1. input \in Int /\ Past!IsDate(input)
    BY TimelineAssumption DEF PlansInv
  <1> QED
    BY <1>1, RangesStart DEF RangeIsWholeMonths

(* The months until a date do not grow as it comes nearer.                            *)
LEMMA MonthsMonotone ==
    ASSUME NEW today \in Int, Past!IsDate(today), NEW sooner \in Int, Past!IsDate(sooner),
           NEW later \in Int, Past!IsDate(later), sooner < later
    PROVE  Plan!MonthsUntil(today, sooner) <= Plan!MonthsUntil(today, later)
           /\ Plan!MonthsUntil(today, sooner) \in Nat /\ Plan!MonthsUntil(today, later) \in Nat
  <1> DEFINE Y(d) == d \div 10000
             M(d) == (d \div 100) % 100
             D(d) == d % 100
             Left(d) == (Y(d) - Y(today)) * 12 + M(d) - M(today) - IF D(d) < D(today) THEN 1 ELSE 0
  <1>1. \A d \in Int : Past!IsDate(d) =>
           /\ Y(d) \in Int /\ M(d) \in 1 .. 12 /\ D(d) \in 1 .. 31
           /\ d = Y(d) * 10000 + M(d) * 100 + D(d)
    <2> SUFFICES ASSUME NEW d \in Int, Past!IsDate(d)
                 PROVE  /\ Y(d) \in Int /\ M(d) \in 1 .. 12 /\ D(d) \in 1 .. 31
                        /\ d = Y(d) * 10000 + M(d) * 100 + D(d)
      OBVIOUS
    <2>1. Y(d) \in Int /\ M(d) \in 1 .. 12
      BY DEF Past!IsDate, Past!Month
    <2>2. D(d) \in 1 .. Past!LastDay(Y(d), M(d))
      BY DEF Past!IsDate, Past!Month, Past!DayOf, Past!Year
    <2>3. D(d) \in 1 .. 31
      BY <2>1, <2>2, MonthsHaveDays
    <2>4. d = Y(d) * 10000 + M(d) * 100 + D(d)
      OBVIOUS
    <2> QED
      BY <2>1, <2>3, <2>4
  <1>2. \A d : Plan!MonthsUntil(today, d) = IF Left(d) < 0 THEN 0 ELSE Left(d)
    BY DEF Plan!MonthsUntil, Plan!AtLeast0, Plan!Year, Plan!Month, Plan!DayOf
  <1> HIDE DEF Y, M, D
  <1>3. Left(sooner) \in Int /\ Left(later) \in Int /\ Left(sooner) <= Left(later)
    <2>1. /\ Y(sooner) \in Int /\ M(sooner) \in 1 .. 12 /\ D(sooner) \in 1 .. 31
          /\ Y(later) \in Int /\ M(later) \in 1 .. 12 /\ D(later) \in 1 .. 31
          /\ Y(today) \in Int /\ M(today) \in 1 .. 12 /\ D(today) \in 1 .. 31
          /\ sooner = Y(sooner) * 10000 + M(sooner) * 100 + D(sooner)
          /\ later = Y(later) * 10000 + M(later) * 100 + D(later)
      BY <1>1
    <2>2. \/ Y(sooner) < Y(later)
          \/ Y(sooner) = Y(later) /\ M(sooner) < M(later)
          \/ Y(sooner) = Y(later) /\ M(sooner) = M(later) /\ D(sooner) < D(later)
      BY <2>1, SMTT(30)
    <2> QED
      BY <2>1, <2>2
  <1> HIDE DEF Left
  <1> QED
    BY <1>2, <1>3

LEMMA FartherSuitsBetter == PlansInv => LaterSuitsBetter
  <1> SUFFICES ASSUME PlansInv, side = "advice", NEW sooner \in Targets, NEW later \in Targets,
                      sooner < later
               PROVE  Plan!Suitability([kind |-> input.goal, targetDate |-> later], input, Today)
                       \subseteq Plan!Suitability([kind |-> input.goal, targetDate |-> sooner], input, Today)
    BY DEF LaterSuitsBetter
  <1>1. Plan!MonthsUntil(Today, sooner) < Plan!VolatileMinMonths
           \/ ~ Plan!MonthsUntil(Today, later) < Plan!VolatileMinMonths
    BY PlansAssumption, MonthsMonotone DEF Plan!VolatileMinMonths
  <1>2. input.lockedUntil # Null /\ input.lockedUntil > later => input.lockedUntil > sooner
    BY PlansAssumption DEF PlansInv
  <1> QED
    BY <1>1, <1>2 DEF Plan!Suitability

------------------------------------------------------------------------------
(* Goals: what to pay, and what it comes to.                                      *)
ProductOf(rows) == Plan!FoldLeft(LAMBDA product, x : product * x, 1, rows)

(* The steps of a product.                                                          *)
LEMMA ProductSteps ==
    ASSUME NEW rows \in Seq(Nat)
    PROVE  \E r \in [0 .. Len(rows) -> Nat] :
              /\ r[0] = 1 /\ ProductOf(rows) = r[Len(rows)]
              /\ \A i \in 1 .. Len(rows) : r[i] = (r[i - 1] * rows[i])
  <1> DEFINE n == Len(rows)
             step == [p \in Nat \X Nat |-> (p[1] * p[2])]
             Once(it, t) == IF t = {} THEN 1
                            ELSE (it[t \ {Max(t)}] * rows[Max(t)])
             fold == CHOOSE it : it = [t \in SUBSET (1 .. n) |-> Once(it, t)]
  <1>1. n \in Nat /\ DOMAIN rows = 1 .. n /\ (\A i \in 1 .. n : rows[i] \in Nat)
    OBVIOUS
  <1>0. 1 \in Nat /\ \A a \in Nat : \A b \in Nat : (a * b) \in Nat
    BY TimesIsNat
  <1>2. \A a \in Nat : \A b \in Nat : step[<<a, b>>] = (a * b)
    OBVIOUS
  <1>3. step \in [Nat \X Nat -> Nat]
    BY <1>0
  <1>4. Folding(n, Nat, 1, Nat, rows, step)
    BY <1>0, <1>1, <1>3 DEF Folding
  <1>5. ProductOf(rows) = fold[1 .. n]
    BY <1>1 DEF ProductOf, Plan!FoldLeft, Plan!MapThenFoldSet, MapThenFoldSet, Plan!Max, Max
  <1> HIDE DEF step, n
  <1>6. PICK it \in [SUBSET (1 .. n) -> Nat] : Unfolds(it, n, 1, rows, step)
    BY <1>4, FoldExists
  <1>7. it = [t \in SUBSET (1 .. n) |-> Once(it, t)]
    <2>1. \A t \in SUBSET (1 .. n) : it[t] = Once(it, t)
      <3> TAKE t \in SUBSET (1 .. n)
      <3>1. CASE t = {}
        BY <1>6, <3>1 DEF Unfolds
      <3>2. CASE t # {}
        <4>1. Max(t) \in 1 .. n
          BY <1>1, <3>2, MaxIsIn
        <4>2. rows[Max(t)] \in Nat /\ it[t \ {Max(t)}] \in Nat
          BY <1>1, <4>1
        <4> QED
          BY <1>2, <1>6, <3>2, <4>2 DEF Unfolds
      <3> QED
        BY <3>1, <3>2
    <2> HIDE DEF Once
    <2> QED
      BY <2>1
  <1>8. fold = [t \in SUBSET (1 .. n) |-> Once(fold, t)]
    <2> HIDE DEF Once
    <2> QED
      BY <1>7
  <1> HIDE DEF fold
  <1>9. FoldedBy(fold, n, Nat, 1, rows, step)
    <2>1. fold[{}] = 1
      BY <1>8
    <2>2. ASSUME NEW t \in SUBSET (1 .. n), t # {}, fold[t \ {Max(t)}] \in Nat
          PROVE  fold[t] = step[<<fold[t \ {Max(t)}], rows[Max(t)]>>]
      <3>1. Max(t) \in 1 .. n
        BY <1>1, <2>2, MaxIsIn
      <3>2. fold[t] = (fold[t \ {Max(t)}] * rows[Max(t)])
        BY <1>8, <2>2
      <3> QED
        BY <1>1, <1>2, <2>2, <3>1, <3>2
    <2> QED
      BY <2>1, <2>2 DEF FoldedBy
  <1>10. PICK r \in [0 .. n -> Nat] : /\ r[0] = 1 /\ fold[1 .. n] = r[n]
                                      /\ \A i \in 1 .. n : r[i] = step[<<r[i - 1], rows[i]>>]
    BY <1>4, <1>9, FoldSteps
  <1>11. \A i \in 1 .. n : r[i] = (r[i - 1] * rows[i])
    <2> TAKE i \in 1 .. n
    <2>1. i - 1 \in 0 .. n /\ rows[i] \in Nat
      BY <1>1
    <2> QED
      BY <1>2, <1>10, <2>1
  <1> QED
    BY <1>5, <1>10, <1>11 DEF n

(* A power is the one before times its base.                                         *)
LEMMA PowersAre ==
    ASSUME NEW b \in Nat
    PROVE  /\ Plan!Power(b, 0) = 1
           /\ \A n \in Nat : Plan!Power(b, n) \in Nat /\ Plan!Power(b, n + 1) = Plan!Power(b, n) * b
  <1> DEFINE Row(n) == [i \in 1 .. n |-> b]
  <1>1. ASSUME NEW n \in Nat
        PROVE  \E r \in [0 .. n -> Nat] :
                  /\ r[0] = 1 /\ Plan!Power(b, n) = r[n]
                  /\ \A i \in 1 .. n : r[i] = r[i - 1] * b
    <2>1. PICK rows : rows = Row(n)
      OBVIOUS
    <2>2. rows \in Seq(Nat) /\ Len(rows) = n /\ \A i \in 1 .. n : rows[i] = b
      BY <2>1
    <2>3. Plan!Power(b, n) = ProductOf(rows)
      BY <2>1 DEF Plan!Power, ProductOf
    <2>4. PICK r \in [0 .. Len(rows) -> Nat] :
             /\ r[0] = 1 /\ ProductOf(rows) = r[Len(rows)]
             /\ \A i \in 1 .. Len(rows) : r[i] = (r[i - 1] * rows[i])
      BY <2>2, ProductSteps
    <2>5. \A i \in 1 .. n : r[i] = r[i - 1] * b
      BY <2>2, <2>4
    <2> QED
      BY <2>2, <2>3, <2>4, <2>5
  <1>2. Plan!Power(b, 0) = 1
    <2>1. 0 \in Nat
      OBVIOUS
    <2> QED
      BY <1>1, <2>1
  <1>3. ASSUME NEW n \in Nat
        PROVE  Plan!Power(b, n) \in Nat /\ Plan!Power(b, n + 1) = Plan!Power(b, n) * b
    <2>1. PICK q \in [0 .. n -> Nat] :
             /\ q[0] = 1 /\ Plan!Power(b, n) = q[n] /\ \A i \in 1 .. n : q[i] = q[i - 1] * b
      BY <1>1
    <2>0. n + 1 \in Nat
      OBVIOUS
    <2>2. PICK r \in [0 .. n + 1 -> Nat] :
             /\ r[0] = 1 /\ Plan!Power(b, n + 1) = r[n + 1]
             /\ \A i \in 1 .. n + 1 : r[i] = r[i - 1] * b
      BY <1>1, <2>0
    <2> DEFINE U == {j \in Nat : j <= n => r[j] = q[j]}
    <2>3. 0 \in U
      BY <2>1, <2>2
    <2>4. ASSUME NEW j \in U PROVE j + 1 \in U
      <3> SUFFICES ASSUME j + 1 <= n PROVE r[j + 1] = q[j + 1]
        OBVIOUS
      <3>1. j \in Nat /\ r[j] = q[j] /\ j + 1 \in 1 .. n /\ j + 1 \in 1 .. n + 1 /\ (j + 1) - 1 = j
        OBVIOUS
      <3>2. r[j + 1] = r[j] * b /\ q[j + 1] = q[j] * b
        BY <2>1, <2>2, <3>1
      <3> QED
        BY <3>1, <3>2
    <2> HIDE DEF U
    <2>5. U = Nat
      BY <2>3, <2>4, CountUp DEF U
    <2>6. r[n] = q[n]
      BY <2>5, SMTT(20) DEF U
    <2>7. n + 1 \in 1 .. n + 1 /\ (n + 1) - 1 = n /\ n \in 0 .. n
      OBVIOUS
    <2>8. r[n + 1] = r[n] * b /\ q[n] \in Nat
      BY <2>1, <2>2, <2>7
    <2> QED
      BY <2>1, <2>2, <2>6, <2>8
  <1> QED
    BY <1>2, <1>3

(* A base of at least 1 has no power below 1, and what is on top of it is never less   *)
(* in a power of at least one.                                                      *)
LEMMA PowersGrow ==
    ASSUME NEW of \in Nat \ {0}, NEW up \in Nat
    PROVE  \A m \in Nat : /\ Plan!Power(of, m) \in Nat \ {0} /\ Plan!Power(of + up, m) \in Nat \ {0}
                          /\ m # 0 => Plan!Power(of + up, m) >= Plan!Power(of, m) + up
  <1>1. of \in Nat /\ of + up \in Nat
    OBVIOUS
  <1> DEFINE D(m) == Plan!Power(of, m)
             G(m) == Plan!Power(of + up, m)
             Grown_(m) == /\ D(m) \in Nat \ {0} /\ G(m) \in Nat \ {0}
                          /\ m # 0 => G(m) >= D(m) + up
             U == {m \in Nat : Grown_(m)}
  <1>2. D(0) = 1 /\ G(0) = 1
    BY <1>1, PowersAre
  <1>3. \A m \in Nat : /\ D(m) \in Nat /\ D(m + 1) = D(m) * of
                       /\ G(m) \in Nat /\ G(m + 1) = G(m) * (of + up)
    BY <1>1, PowersAre
  <1> HIDE DEF D, G
  <1>4. 0 \in U
    BY <1>2
  <1>5. ASSUME NEW m \in U PROVE m + 1 \in U
    <2>1. PICK d \in Nat \ {0}, g \in Nat \ {0} : d = D(m) /\ g = G(m)
      OBVIOUS
    <2>2. g >= d
      <3>1. CASE m = 0
        BY <1>2, <2>1, <3>1
      <3>2. CASE m # 0
        BY <2>1, <3>2
      <3> QED
        BY <3>1, <3>2
    <2>3. D(m + 1) = d * of /\ G(m + 1) = g * of + g * up
      <3>1. m \in Nat
        OBVIOUS
      <3>2. D(m + 1) = d * of /\ G(m + 1) = g * (of + up)
        BY <1>3, <2>1, <3>1
      <3>3. g * (of + up) = g * of + g * up
        OBVIOUS
      <3> QED
        BY <3>2, <3>3
    <2>4. d * of \in Nat \ {0} /\ g * of \in Nat \ {0} /\ g * up \in Nat
      BY <2>1
    <2>5. g * of >= d * of
      <3>1. PICK e \in Nat : g = d + e
        <4>1. g - d \in Nat /\ g = d + (g - d)
          BY <2>2
        <4> QED
          BY <4>1
      <3>2. g * of = d * of + e * of /\ e * of \in Nat
        BY <3>1
      <3> QED
        BY <2>4, <3>2
    <2>6. g * up >= up
      <3>1. PICK e \in Nat : g = 1 + e
        <4>1. g - 1 \in Nat /\ g = 1 + (g - 1)
          OBVIOUS
        <4> QED
          BY <4>1
      <3>2. g * up = up + e * up /\ e * up \in Nat
        BY <3>1
      <3> QED
        BY <2>4, <3>2
    <2>7. d * of + up <= g * of + g * up /\ g * of + g * up \in Nat \ {0}
      BY <2>4, <2>5, <2>6
    <2> QED
      BY <2>3, <2>4, <2>7
  <1> HIDE DEF U, Grown_
  <1>6. U = Nat
    BY <1>4, <1>5, CountUp DEF U
  <1> QED
    BY <1>6 DEF U, Grown_, D, G

(* Rounding to the nearest does not fall below a whole number the fraction is not below,  *)
(* and rounding up not below the fraction.                                            *)
LEMMA QuotientIs ==
    ASSUME NEW n \in Int, NEW d \in Nat \ {0}
    PROVE  \E r \in Nat : n \div d \in Int /\ n = d * (n \div d) + r /\ r < d
  <1>1. n = d * (n \div d) + (n % d) /\ n % d \in Nat /\ n % d < d /\ n \div d \in Int
    OBVIOUS
  <1> QED
    BY <1>1

LEMMA NotBelow ==
    ASSUME NEW n \in Int, NEW d \in Nat \ {0}, NEW t \in Int, n >= d * t
    PROVE  n \div d \in Int /\ n \div d >= t
  <1>1. PICK r \in Nat : n \div d \in Int /\ n = d * (n \div d) + r /\ r < d
    BY QuotientIs
  <1>2. PICK q \in Int : q = n \div d
    BY <1>1
  <1>3. d * t \in Int /\ d * q \in Int /\ d * (q + 1) = d * q + d
    OBVIOUS
  <1>4. d * (q + 1) > d * t
    BY <1>1, <1>2, <1>3
  <1>5. ~(q + 1 <= t)
    <2> SUFFICES ASSUME q + 1 <= t PROVE FALSE
      OBVIOUS
    <2>1. PICK e \in Nat : t = (q + 1) + e
      <3>1. t - (q + 1) \in Nat /\ t = (q + 1) + (t - (q + 1))
        OBVIOUS
      <3> QED
        BY <3>1
    <2>2. d * t = d * (q + 1) + d * e /\ d * e \in Nat /\ d * (q + 1) \in Int
      BY <2>1
    <2> QED
      BY <1>3, <1>4, <2>2
  <1> QED
    BY <1>2, <1>5

LEMMA RoundNotBelow ==
    ASSUME NEW n \in Int, NEW d \in Nat \ {0}, NEW t \in Int, n >= d * t
    PROVE  Plan!Round(n, d) \in Int /\ Plan!Round(n, d) >= t
  <1>1. PICK m \in Int, e \in Nat \ {0} : m = 2 * n + d /\ e = 2 * d
    OBVIOUS
  <1>2. m >= e * t
    <2>1. d * t \in Int /\ e * t = 2 * (d * t)
      BY <1>1
    <2> QED
      BY <1>1, <2>1
  <1>3. m \div e \in Int /\ m \div e >= t
    BY <1>2, NotBelow
  <1> QED
    BY <1>1, <1>3 DEF Plan!Round

LEMMA CeilingIsEnough ==
    ASSUME NEW n \in Int, NEW d \in Nat \ {0}
    PROVE  Plan!Ceiling(n, d) \in Int /\ d * Plan!Ceiling(n, d) >= n
  <1>1. PICK m \in Int : m = -n
    OBVIOUS
  <1>2. PICK r \in Nat : m \div d \in Int /\ m = d * (m \div d) + r /\ r < d
    BY QuotientIs
  <1>3. PICK q \in Int : q = m \div d
    BY <1>2
  <1>4. Plan!Ceiling(n, d) = -q
    BY <1>1, <1>3 DEF Plan!Ceiling
  <1>5. d * (-q) = -(d * q) /\ d * q \in Int
    OBVIOUS
  <1> QED
    BY <1>1, <1>2, <1>3, <1>4, <1>5

(* A rupee grows to no less than a rupee, and a rupee a month to some.                  *)
LEMMA RatesGrow ==
    ASSUME NEW rate, SoundRate(rate), NEW months \in Nat \ {0}
    PROVE  /\ Plan!Growth(rate, months).n \in Nat \ {0} /\ Plan!Growth(rate, months).d \in Nat \ {0}
           /\ Plan!Annuity(rate, months).n \in Nat \ {0} /\ Plan!Annuity(rate, months).d \in Nat \ {0}
  <1>1. PICK of \in Nat \ {0}, up \in Nat : of = rate.of /\ up = rate.up
    BY DEF SoundRate
  <1>2. \A m \in Nat : /\ Plan!Power(of, m) \in Nat \ {0} /\ Plan!Power(of + up, m) \in Nat \ {0}
                       /\ m # 0 => Plan!Power(of + up, m) >= Plan!Power(of, m) + up
    BY PowersGrow
  <1>3. months - 1 \in Nat /\ months \in Nat
    OBVIOUS
  <1>4. PICK g \in Nat \ {0}, d \in Nat \ {0}, e \in Nat \ {0} :
           /\ g = Plan!Power(of + up, months) /\ d = Plan!Power(of, months)
           /\ e = Plan!Power(of, months - 1) /\ g >= d + up
    BY <1>2, <1>3
  <1>5. Plan!Growth(rate, months) = [n |-> g, d |-> d]
    BY <1>1, <1>4 DEF Plan!Growth
  <1>6. CASE up = 0
    BY <1>1, <1>3, <1>5, <1>6 DEF Plan!Annuity
  <1>7. CASE up # 0
    <2>1. g - d \in Int /\ g - d >= up * 1 /\ up \in Nat \ {0}
      BY <1>4, <1>7
    <2>2. (g - d) \div up \in Int /\ (g - d) \div up >= 1
      BY <2>1, NotBelow
    <2>3. Plan!Annuity(rate, months) = [n |-> (g - d) \div up, d |-> e]
      BY <1>1, <1>4, <1>5, <1>7 DEF Plan!Annuity
    <2> QED
      BY <1>5, <2>2, <2>3
  <1> QED
    BY <1>6, <1>7

(* What is needed a month is enough: with it the corpus comes to the target.             *)
LEMMA NeededIsEnough ==
    ASSUME NEW target \in Int, NEW present \in Nat, NEW rate, SoundRate(rate),
           NEW months \in Nat \ {0}
    PROVE  LET sip == Plan!RequiredMonthlySip(target, present, rate, months)
           IN  Plan!ProjectedCorpus(present, sip, rate, months) >= target
  <1> DEFINE sip == Plan!RequiredMonthlySip(target, present, rate, months)
  <1>1. PICK gn \in Nat \ {0}, gd \in Nat \ {0}, an \in Nat \ {0}, ad \in Nat \ {0} :
           /\ gn = Plan!Growth(rate, months).n /\ gd = Plan!Growth(rate, months).d
           /\ an = Plan!Annuity(rate, months).n /\ ad = Plan!Annuity(rate, months).d
    BY RatesGrow
  <1>2. PICK tg \in Int, pg \in Nat, gap \in Int, ga \in Nat \ {0}, da \in Nat \ {0} :
           /\ tg = target * gd /\ pg = present * gn /\ gap = tg - pg
           /\ ga = gd * an /\ da = gd * ad
    <2>1. /\ target * gd \in Int /\ present * gn \in Nat /\ target * gd - present * gn \in Int
          /\ gd * an \in Nat \ {0} /\ gd * ad \in Nat \ {0}
      OBVIOUS
    <2> QED
      BY <2>1
  <1>3. sip = IF gap <= 0 THEN 0 ELSE Plan!Ceiling(gap * ad, ga)
    BY <1>1, <1>2 DEF Plan!RequiredMonthlySip
  <1> HIDE DEF sip
  <1>4. sip \in Int /\ ga * sip >= gap * ad /\ gap * ad \in Int
    <2>0. gap * ad \in Int
      OBVIOUS
    <2>1. CASE gap <= 0
      <3>1. PICK e \in Nat : gap = -e
        <4>1. -gap \in Nat /\ gap = -(-gap)
          BY <2>1
        <4> QED
          BY <4>1
      <3>2. gap * ad = -(e * ad) /\ e * ad \in Nat
        BY <3>1
      <3> QED
        BY <1>3, <2>0, <2>1, <3>2
    <2>2. CASE ~(gap <= 0)
      BY <1>3, <2>0, <2>2, CeilingIsEnough
    <2> QED
      BY <2>1, <2>2
  <1>5. PICK all \in Int : all = pg * ad + ga * sip
    BY <1>4
  <1>6. Plan!ProjectedCorpus(present, sip, rate, months) = Plan!Round(all, da)
    <2>1. sip * an * gd = ga * sip
      BY <1>2, <1>4
    <2>2. present * gn * ad = pg * ad
      BY <1>2
    <2>3. Plan!ProjectedCorpus(present, sip, rate, months)
             = Plan!Round(present * gn * ad + sip * an * gd, gd * ad)
      BY <1>1 DEF Plan!ProjectedCorpus
    <2> QED
      BY <1>2, <1>5, <2>1, <2>2, <2>3
  <1>7. all >= da * target
    <2>1. pg * ad + gap * ad = tg * ad /\ pg * ad \in Int /\ gap * ad \in Int
      BY <1>2
    <2>2. tg * ad = da * target
      BY <1>2
    <2> QED
      BY <1>4, <1>5, <2>1, <2>2
  <1>8. Plan!Round(all, da) >= target
    BY <1>7, RoundNotBelow
  <1> QED
    BY <1>6, <1>8 DEF sip

LEMMA SipIsAlwaysEnough == PlansInv => SipIsEnough
  <1> SUFFICES ASSUME PlansInv, side = "plan", Plan!MonthsUntil(Today, input.by) > 0
               PROVE  SipIsEnough
    BY DEF SipIsEnough
  <1> DEFINE months == Plan!MonthsUntil(Today, input.by)
             Goal_(monthly) ==
                 [targetDate |-> input.by, targetAmount |-> input.target,
                  inflation |-> input.inflation, return |-> input.rate,
                  earmarked |-> input.present, monthlyContribution |-> monthly]
             target    == Plan!InflatedTarget(input.target, input.inflation, months)
             present   == Plan!AtLeast0(input.present)
             needed    == Plan!RequiredMonthlySip(target, present, input.rate, months)
             Corpus(monthly) == Plan!ProjectedCorpus(present, monthly, input.rate, months)
  <1>1. /\ input.target \in Nat /\ input.present \in Int /\ input.by \in Int
        /\ SoundRate(input.rate) /\ SoundRate(input.inflation)
    BY PlansAssumption DEF PlansInv
  <1>2. months \in Nat \ {0}
    <2>1. Today \in Int
      BY PlansAssumption
    <2>2. months \in Int
      BY <1>1, <2>1 DEF Plan!MonthsUntil, Plan!AtLeast0, Plan!Year, Plan!Month, Plan!DayOf
    <2> QED
      BY <2>2
  <1>3. \A monthly : ~(months <= 0) /\ Plan!ProjectGoal(Goal_(monthly), Today).requiredMonthlySip = needed
                     /\ Plan!ProjectGoal(Goal_(monthly), Today).status
                            = Plan!GoalStatus(Corpus(monthly), target)
    <2> TAKE monthly
    <2>1. ~(months <= 0)
      BY <1>2
    <2> QED
      BY <2>1 DEF Plan!ProjectGoal
  <1>4. target \in Int
    <2>1. PICK gn \in Nat \ {0}, gd \in Nat \ {0} :
             gn = Plan!Growth(input.inflation, months).n /\ gd = Plan!Growth(input.inflation, months).d
      BY <1>1, <1>2, RatesGrow
    <2>2. PICK n \in Nat : n = input.target * gn
      BY <1>1
    <2>3. n >= gd * 0
      OBVIOUS
    <2>4. Plan!Round(n, gd) \in Int
      BY <2>3, RoundNotBelow
    <2> QED
      BY <2>1, <2>2, <2>4 DEF Plan!InflatedTarget
  <1>5. present \in Nat
    BY <1>1 DEF Plan!AtLeast0
  <1> HIDE DEF months, target, present
  <1>6. Corpus(needed) >= target
    BY <1>1, <1>2, <1>4, <1>5, NeededIsEnough
  <1>7. Plan!GoalStatus(Corpus(needed), target) = "onTrack"
    BY <1>6 DEF Plan!GoalStatus
  <1> HIDE DEF needed, Corpus
  <1>8. Plan!ProjectGoal(Goal_(Plan!ProjectGoal(Goal_(0), Today).requiredMonthlySip), Today).status = "onTrack"
    BY <1>3, <1>7
  <1> QED
    BY <1>8 DEF SipIsEnough

(* The timeline does not depend on the order of what is synced, a range starts a whole     *)
(* number of months back, what a goal is said to need is enough, and a later target never   *)
(* suits a source worse (timeline.ts:32, projection.ts:72, suitability.ts:55).             *)
THEOREM PlansHoldAlways == MCSpec => []PlansHold
  BY PlansInvariant, OrderNeverMatters, RangesAreWholeMonths, SipIsAlwaysEnough,
     FartherSuitsBetter, PTL DEF PlansHold
==============================================================================
