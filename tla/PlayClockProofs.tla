--------------------------- MODULE PlayClockProofs ---------------------------
(***************************************************************************)
(* The clock of a ticket, for every package that may be stored, any number *)
(* of comparable ones and a stay of any length.                            *)
(*                                                                         *)
(* A package that is billed in units, blocks or hours, is reduced to one   *)
(* form: what the whole units cost, and the extra minutes at the rate of   *)
(* the next unit (Raw).  All that is shown of it is shown of that form.    *)
(***************************************************************************)
EXTENDS ReceiptLines, SumTheorems, SequenceTheorems

-----------------------------------------------------------------------------
(* Arithmetic.                                                              *)

\* Quotient and remainder of naturals.
LEMMA DivisionIs ==
    ASSUME NEW a \in Nat, NEW b \in Nat, b > 0
    PROVE  /\ a \div b \in Nat /\ a % b \in Nat /\ a % b < b
           /\ a = b * (a \div b) + (a % b)
<1>1. PICK q \in Int : q = a \div b /\ b * q <= a /\ a < b * q + b
  BY Z3
<1>2. PICK r \in Int : r = a % b /\ r = a - b * q
  BY <1>1
<1>3. CASE q <= 0 - 1
  <2>1. b * q <= b * (0 - 1)
    BY <1>3
  <2> QED
    BY <1>1, <2>1
<1>4. q \in Nat /\ r \in Nat /\ r < b /\ a = b * q + r
  BY <1>1, <1>2, <1>3
<1>5. a \div b = q /\ a % b = r
  BY <1>1, <1>2
<1> QED
  BY <1>4, <1>5, Zenon

\* Minutes are whole units and a rest.
LEMMA UnitsAndRest ==
    ASSUME NEW a \in Nat, NEW b \in Nat, b > 0
    PROVE  \E q \in Nat, r \in Nat : r < b /\ a = b * q + r
<1>1. PICK q \in Nat : q = a \div b /\ a = b * q + (a % b)
  BY DivisionIs
<1>2. PICK r \in Nat : r = a % b /\ r < b
  BY DivisionIs
<1> QED
  BY <1>1, <1>2

\* The quotient is known by its bounds.
LEMMA QuotientIs ==
    ASSUME NEW a \in Nat, NEW b \in Nat, b > 0, NEW q \in Int, b * q <= a, a < b * q + b
    PROVE  a \div b = q
OBVIOUS

\* A larger dividend never has a smaller quotient.
LEMMA QuotientGrows ==
    ASSUME NEW a \in Nat, NEW c \in Nat, a <= c, NEW b \in Nat, b > 0
    PROVE  a \div b \in Nat /\ c \div b \in Nat /\ a \div b <= c \div b
<1>1. PICK p \in Nat, r \in Nat : p = a \div b /\ a = b * p + r
  BY DivisionIs
<1>2. PICK q \in Nat, s \in Nat : q = c \div b /\ s < b /\ c = b * q + s
  BY DivisionIs
<1>3. CASE p >= q + 1
  <2>1. b * p >= b * (q + 1)
    BY <1>3
  <2> QED
    BY <1>1, <1>2, <2>1
<1> QED
  BY <1>1, <1>2, <1>3

\* Math.round is within half of the exact quotient.
LEMMA RoundIs ==
    ASSUME NEW a \in Nat, NEW b \in Nat, b > 0
    PROVE  /\ RoundDiv(a, b) \in Nat
           /\ 2 * b * RoundDiv(a, b) <= 2 * a + b
           /\ 2 * a + b < 2 * b * RoundDiv(a, b) + 2 * b
<1>1. PICK n \in Nat, d \in Nat : n = 2 * a + b /\ d = 2 * b /\ d > 0
  OBVIOUS
<1>2. /\ n \div d \in Nat /\ d * (n \div d) <= n /\ n < d * (n \div d) + d
  <2>1. /\ n \div d \in Nat /\ n % d \in Nat /\ n % d < d
        /\ n = d * (n \div d) + (n % d)
    BY <1>1, DivisionIs
  <2> QED
    BY <1>1, <2>1
<1>3. RoundDiv(a, b) = n \div d
  BY <1>1 DEF RoundDiv
<1> QED
  BY <1>1, <1>2, <1>3

\* Math.round never decreases.
LEMMA RoundGrows ==
    ASSUME NEW a \in Nat, NEW c \in Nat, a <= c, NEW b \in Nat, b > 0
    PROVE  RoundDiv(a, b) <= RoundDiv(c, b)
<1>1. PICK p \in Nat : p = RoundDiv(a, b) /\ 2 * b * p <= 2 * a + b
  BY RoundIs
<1>2. PICK q \in Nat : q = RoundDiv(c, b) /\ 2 * c + b < 2 * b * q + 2 * b
  BY RoundIs
<1>3. 2 * b * p < 2 * b * q + 2 * b
  BY <1>1, <1>2
<1>4. CASE p >= q + 1
  <2>1. 2 * b * p >= 2 * b * (q + 1)
    BY <1>4
  <2> QED
    BY <1>3, <2>1
<1> QED
  BY <1>1, <1>2, <1>4

\* A whole number of units is not rounded.
LEMMA RoundOfUnits ==
    ASSUME NEW n \in Nat, NEW b \in Nat, b > 0, NEW a \in Nat
    PROVE  RoundDiv(b * n + a, b) = n + RoundDiv(a, b)
<1>1. PICK q \in Nat : q = RoundDiv(a, b) /\ 2 * b * q <= 2 * a + b /\ 2 * a + b < 2 * b * q + 2 * b
  BY RoundIs
<1>2. PICK top \in Nat, d \in Nat : top = 2 * (b * n + a) + b /\ d = 2 * b /\ d > 0
  OBVIOUS
<1>3. d * (n + q) <= top /\ top < d * (n + q) + d
  BY <1>1, <1>2
<1>4. top \div d = n + q
  BY <1>2, <1>3, QuotientIs
<1> QED
  BY <1>1, <1>2, <1>4 DEF RoundDiv

\* What is at most n units is at most n when rounded.
LEMMA RoundWithin ==
    ASSUME NEW n \in Nat, NEW b \in Nat, b > 0, NEW a \in Nat, a <= b * n
    PROVE  RoundDiv(a, b) <= n
<1>1. PICK q \in Nat : q = RoundDiv(a, b) /\ 2 * b * q <= 2 * a + b
  BY RoundIs
<1>2. 2 * b * q <= 2 * (b * n) + b
  BY <1>1
<1>3. CASE q >= n + 1
  <2>1. 2 * b * q >= 2 * b * (n + 1)
    BY <1>3
  <2> QED
    BY <1>2, <2>1
<1> QED
  BY <1>1, <1>3

\* Math.ceil is the least number of units that is enough.
LEMMA CeilIs ==
    ASSUME NEW a \in Nat, NEW b \in Nat, b > 0
    PROVE  /\ CeilDiv(a, b) \in Nat /\ a <= b * CeilDiv(a, b)
           /\ \A n \in Nat : a <= b * n => CeilDiv(a, b) <= n
<1>1. PICK top \in Nat : top = a + b - 1
  OBVIOUS
<1>2. PICK q \in Nat : q = CeilDiv(a, b) /\ b * q <= top /\ top < b * q + b
  <2>1. /\ top \div b \in Nat /\ top % b \in Nat /\ top % b < b
        /\ top = b * (top \div b) + (top % b)
    BY DivisionIs
  <2> QED
    BY <1>1, <2>1 DEF CeilDiv
<1>3. ASSUME NEW n \in Nat, a <= b * n, q >= n + 1 PROVE FALSE
  <2>1. b * q >= b * (n + 1)
    BY <1>3
  <2> QED
    BY <1>1, <1>2, <1>3, <2>1
<1> QED
  BY <1>1, <1>2, <1>3

\* Math.ceil never decreases.
LEMMA CeilGrows ==
    ASSUME NEW a \in Nat, NEW c \in Nat, a <= c, NEW b \in Nat, b > 0
    PROVE  CeilDiv(a, b) <= CeilDiv(c, b)
<1>1. PICK q \in Nat : q = CeilDiv(c, b) /\ c <= b * q
  BY CeilIs
<1>2. a <= b * q
  BY <1>1
<1> QED
  BY <1>1, <1>2, CeilIs

\* The two bounds, as the provers need them.
LEMMA TheLeast ==
    ASSUME NEW a \in Int, NEW b \in Int
    PROVE  /\ AtLeast(a, b) = IF a > b THEN a ELSE b
           /\ AtMost(a, b) = IF a < b THEN a ELSE b
BY DEF AtLeast, AtMost

-----------------------------------------------------------------------------
(* The packages, as they are frozen on a ticket.                            *)

Rate == {rate \in StoredPackage :
            /\ rate.pricingMode = "TIERED_HOURLY" <=> rate.tieredPricing # NoTiers
            /\ rate.pricingMode = "TIERED_HOURLY" => rate.tieredPricing \in TierTable
            /\ rate.pricingMode = "PRORATA" => rate.graceMinutes = 0}
UnitRate == {rate \in Rate : rate.pricingMode # "PRORATA"}

\* Whatever package is stored, what is frozen on a ticket can be priced (resolveSessionRate).
LEMMA ResolvedIsARate ==
    ASSUME NEW stored \in StoredPackage
    PROVE  ResolveSessionRate(stored) \in Rate
<1> DEFINE tiered == stored.pricingMode = "TIERED_HOURLY" /\ stored.tieredPricing # NoTiers
           resolved == ResolveSessionRate(stored)
<1>1. PICK mode \in {"PRORATA", "BLOCK_WITH_GRACE", "TIERED_HOURLY"} :
        /\ mode = IF stored.pricingMode = "BLOCK_WITH_GRACE" \/ tiered
                  THEN stored.pricingMode ELSE "PRORATA"
        /\ mode = "TIERED_HOURLY" => tiered
  BY DEF StoredPackage
<1>2. PICK grace \in Nat : grace = IF mode = "PRORATA" THEN 0 ELSE stored.graceMinutes
  BY DEF StoredPackage
<1>3. PICK tiers \in TierTable \cup {NoTiers} :
        /\ tiers = IF tiered THEN stored.tieredPricing ELSE NoTiers
        /\ tiered => tiers \in TierTable /\ tiers # NoTiers
  BY DEF StoredPackage
<1>4. resolved = [stored EXCEPT !.pricingMode = mode, !.graceMinutes = grace, !.tieredPricing = tiers]
  BY <1>1, <1>2, <1>3, Zenon DEF ResolveSessionRate
<1> HIDE DEF tiered, resolved
<1>5. /\ resolved \in StoredPackage
      /\ resolved.pricingMode = mode /\ resolved.graceMinutes = grace
      /\ resolved.tieredPricing = tiers
  BY <1>1, <1>2, <1>3, <1>4 DEF StoredPackage
<1>6. /\ resolved.pricingMode = "TIERED_HOURLY" <=> resolved.tieredPricing # NoTiers
      /\ resolved.pricingMode = "TIERED_HOURLY" => resolved.tieredPricing \in TierTable
      /\ resolved.pricingMode = "PRORATA" => resolved.graceMinutes = 0
  <2>1. tiered => mode = "TIERED_HOURLY"
    BY <1>1 DEF tiered
  <2>2. ~ tiered => tiers = NoTiers
    BY <1>3
  <2> QED
    BY <1>1, <1>2, <1>3, <1>5, <2>1, <2>2
<1> QED
  BY <1>5, <1>6 DEF Rate, resolved

\* A rate read back from a stored line is the rate that was stored.
LEMMA ResolvedIsKept ==
    ASSUME NEW rate \in Rate
    PROVE  ResolveSessionRate(rate) = rate
<1>1. PICK mode \in {"PRORATA", "BLOCK_WITH_GRACE", "TIERED_HOURLY"}, grace \in Nat,
           tiers \in TierTable \cup {NoTiers} :
        mode = rate.pricingMode /\ grace = rate.graceMinutes /\ tiers = rate.tieredPricing
  BY DEF Rate, StoredPackage
<1>2. /\ mode = "TIERED_HOURLY" <=> tiers # NoTiers
      /\ mode = "PRORATA" => grace = 0
  BY <1>1 DEF Rate
<1> DEFINE tiered == rate.pricingMode = "TIERED_HOURLY" /\ rate.tieredPricing # NoTiers
           kept == IF rate.pricingMode = "BLOCK_WITH_GRACE" \/ tiered
                   THEN rate.pricingMode ELSE "PRORATA"
<1>3. kept = mode
  BY <1>1, <1>2
<1>4. /\ (IF kept = "PRORATA" THEN 0 ELSE rate.graceMinutes) = grace
      /\ (IF tiered THEN rate.tieredPricing ELSE NoTiers) = tiers
  BY <1>1, <1>2, <1>3
<1>5. ResolveSessionRate(rate)
        = [rate EXCEPT !.pricingMode = mode, !.graceMinutes = grace, !.tieredPricing = tiers]
  BY <1>3, <1>4, Zenon DEF ResolveSessionRate
<1> QED
  BY <1>1, <1>5 DEF Rate, StoredPackage

\* What the unit n of a package costs, and the first n of them.
UnitPrice(rate, n) ==
    IF rate.pricingMode = "TIERED_HOURLY" THEN TierRate(rate.tieredPricing.hourlyRates, n)
    ELSE rate.unitPrice

Cost(rate, n) == SumFunctionOnSet([h \in Nat |-> UnitPrice(rate, h)], 1 .. n)

\* Every unit has a price, hours past the table too.
LEMMA UnitPriceIs ==
    ASSUME NEW rate \in UnitRate, NEW n \in Nat, n > 0
    PROVE  UnitPrice(rate, n) \in Nat
<1>1. CASE rate.pricingMode = "TIERED_HOURLY"
  <2>1. PICK prices \in Seq(Nat) : prices = rate.tieredPricing.hourlyRates /\ Len(prices) = 4
    BY <1>1 DEF UnitRate, Rate, TierTable, TierCount
  <2>2. AtMost(n, Len(prices)) \in 1 .. 4
    BY <2>1 DEF AtMost
  <2>3. TierRate(prices, n) \in Nat
    BY <2>1, <2>2 DEF TierRate
  <2> QED
    BY <1>1, <2>1, <2>3 DEF UnitPrice
<1>2. CASE rate.pricingMode # "TIERED_HOURLY"
  BY <1>2 DEF UnitPrice, UnitRate, Rate, StoredPackage
<1> QED
  BY <1>1, <1>2

\* Units are bought one after another.
LEMMA CostIs ==
    ASSUME NEW rate \in UnitRate, NEW n \in Nat
    PROVE  /\ Cost(rate, n) \in Nat
           /\ Cost(rate, n + 1) = Cost(rate, n) + UnitPrice(rate, n + 1)
           /\ Cost(rate, 0) = 0
<1> DEFINE v == [h \in Nat |-> UnitPrice(rate, h)]
<1>1. \A h \in 1 .. n + 1 : v[h] \in Nat /\ v[h] = UnitPrice(rate, h)
  BY UnitPriceIs
<1>2. v[n + 1] = UnitPrice(rate, n + 1)
  OBVIOUS
<1>3. /\ Cost(rate, n) = SumFunctionOnSet(v, 1 .. n)
      /\ Cost(rate, n + 1) = SumFunctionOnSet(v, 1 .. n + 1)
      /\ Cost(rate, 0) = SumFunctionOnSet(v, 1 .. 0)
  BY DEF Cost
<1> HIDE DEF v
<1>4. /\ SumFunctionOnSet(v, 1 .. n + 1) = SumFunctionOnSet(v, 1 .. n) + v[n + 1]
      /\ SumFunctionOnSet(v, 1 .. 0) = 0
  <2>1. \A h \in 1 .. n + 1 : v[h] \in Int
    BY <1>1
  <2> QED
    BY <2>1, SumOfOneMore
<1>5. SumFunctionOnSet(v, 1 .. n) \in Nat
  <2>1. IsFiniteSet(1 .. n) /\ \A h \in 1 .. n : v[h] \in Nat
    BY <1>1, FS_Interval
  <2> QED
    BY <2>1, SumIsNatural
<1> QED
  BY <1>2, <1>3, <1>4, <1>5

\* More units never cost less.
LEMMA CostGrows ==
    ASSUME NEW rate \in UnitRate, NEW n \in Nat, NEW k \in Nat, n <= k
    PROVE  Cost(rate, n) <= Cost(rate, k)
<1> DEFINE Good == {j \in Nat : Cost(rate, n) <= Cost(rate, n + j)}
<1>1. 0 \in Good
  BY CostIs
<1>2. ASSUME NEW j \in Good PROVE j + 1 \in Good
  <2>1. PICK l \in Nat : l = n + j /\ n + (j + 1) = l + 1 /\ Cost(rate, n) <= Cost(rate, l)
    OBVIOUS
  <2>2. /\ Cost(rate, n) \in Nat /\ Cost(rate, l) \in Nat
        /\ Cost(rate, l + 1) = Cost(rate, l) + UnitPrice(rate, l + 1)
        /\ UnitPrice(rate, l + 1) \in Nat
    BY CostIs, UnitPriceIs
  <2>3. Cost(rate, n) <= Cost(rate, l + 1)
    BY <2>1, <2>2
  <2> QED
    BY <2>1, <2>3
<1>3. Good \in SUBSET Nat
  OBVIOUS
<1> HIDE DEF Good
<1>4. Good = Nat
  BY <1>1, <1>2, <1>3, SetInduction
<1>5. PICK j \in Nat : k = n + j
  <2>1. k - n \in Nat /\ k = n + (k - n)
    OBVIOUS
  <2> QED
    BY <2>1
<1> QED
  BY <1>4, <1>5 DEF Good

\* A block costs the same every time.
LEMMA CostOfBlocks ==
    ASSUME NEW rate \in UnitRate, rate.pricingMode # "TIERED_HOURLY", NEW n \in Nat
    PROVE  Cost(rate, n) = n * rate.unitPrice
<1> DEFINE v == [h \in Nat |-> UnitPrice(rate, h)]
<1>1. PICK c \in Int : c = rate.unitPrice
  BY DEF UnitRate, Rate, StoredPackage
<1>2. \A h \in 1 .. n : v[h] = c
  BY <1>1 DEF UnitPrice
<1>3. Cost(rate, n) = SumFunctionOnSet(v, 1 .. n)
  BY DEF Cost
<1> HIDE DEF v
<1>4. SumFunctionOnSet(v, 1 .. n) = n * c
  BY <1>2, SumOfAlike
<1> QED
  BY <1>1, <1>3, <1>4

-----------------------------------------------------------------------------
(* The price in units, before it is rounded: u whole ones and r minutes.    *)

Paid(rate, r) ==
    IF rate.pricingMode = "TIERED_HOURLY" THEN ChargedMinutes(rate.tieredPricing, r) ELSE r

Extra(rate, u, r) ==
    IF Chargeable(u, r, rate.graceMinutes)
    THEN RoundDiv(UnitPrice(rate, u + 1) * Paid(rate, r), UnitLength(rate)) ELSE 0

Raw(rate, u, r) == Cost(rate, AtLeast(u, 1)) + Extra(rate, u, r)

\* Minutes of extra time are paid for at least, never more than a unit of them, and the
\* more the longer; blocks that are paid for may be used up.
LEMMA PaidIs ==
    ASSUME NEW rate \in UnitRate, NEW r \in Nat, NEW s \in Nat, r <= s, s <= UnitLength(rate)
    PROVE  /\ Paid(rate, r) \in Nat /\ Paid(rate, s) \in Nat
           /\ r <= Paid(rate, r) /\ Paid(rate, r) <= UnitLength(rate)
           /\ Paid(rate, r) <= Paid(rate, s)
           /\ Paid(rate, r) > r /\ s <= Paid(rate, r) => Paid(rate, s) = Paid(rate, r)
<1>1. CASE rate.pricingMode # "TIERED_HOURLY"
  <2>1. UnitLength(rate) \in Nat
    BY <1>1 DEF UnitLength, UnitRate, Rate, StoredPackage
  <2> QED
    BY <1>1, <2>1 DEF Paid
<1>2. CASE rate.pricingMode = "TIERED_HOURLY" /\ rate.tieredPricing.overtimeMode # "BLOCK"
  BY <1>2 DEF Paid, ChargedMinutes, UnitLength, TierMinutes
<1>3. CASE rate.pricingMode = "TIERED_HOURLY" /\ rate.tieredPricing.overtimeMode = "BLOCK"
  <2>1. PICK block \in Nat : block = rate.tieredPricing.overtimeBlockMinutes /\ block > 0
    BY <1>3 DEF UnitRate, Rate, TierTable
  <2>2. PICK i \in Nat : /\ i = CeilDiv(r, block) /\ r <= block * i
                         /\ \A n \in Nat : r <= block * n => i <= n
    BY <2>1, CeilIs
  <2>3. PICK j \in Nat : /\ j = CeilDiv(s, block) /\ s <= block * j
                         /\ \A n \in Nat : s <= block * n => j <= n
    BY <2>1, CeilIs
  <2>4. i <= j
    BY <2>2, <2>3
  <2>5. PICK p \in Nat, q \in Nat : p = i * block /\ q = j * block
    OBVIOUS
  <2>6. p <= q /\ r <= p /\ s <= q
    BY <2>2, <2>3, <2>4, <2>5
  <2>7. s <= p => q = p
    <3>1. s <= p => j <= i
      BY <2>2, <2>3, <2>5
    <3> QED
      BY <2>4, <2>5, <3>1
  <2>8. /\ Paid(rate, r) = IF p < 60 THEN p ELSE 60
        /\ Paid(rate, s) = IF q < 60 THEN q ELSE 60
    BY <1>3, <2>1, <2>2, <2>3, <2>5 DEF Paid, ChargedMinutes, AtMost, TierMinutes
  <2>9. UnitLength(rate) = 60
    BY <1>3 DEF UnitLength, TierMinutes
  <2> QED
    BY <2>6, <2>7, <2>8, <2>9
<1> QED
  BY <1>1, <1>2, <1>3

\* A unit has minutes.
LEMMA UnitLengthIs ==
    ASSUME NEW rate \in UnitRate
    PROVE  UnitLength(rate) \in Nat /\ UnitLength(rate) > 0
BY DEF UnitLength, UnitRate, Rate, StoredPackage, TierMinutes

\* The extra time costs a unit at the most, and the more the longer it is.
LEMMA ExtraIs ==
    ASSUME NEW rate \in UnitRate, NEW u \in Nat, NEW r \in Nat, NEW s \in Nat,
           r <= s, s < UnitLength(rate)
    PROVE  /\ Extra(rate, u, r) \in Nat /\ Extra(rate, u, s) \in Nat
           /\ Extra(rate, u, r) <= Extra(rate, u, s)
           /\ Extra(rate, u, r) <= UnitPrice(rate, u + 1)
           /\ u = 0 => Extra(rate, u, r) = 0
<1>1. PICK unit \in Nat : unit = UnitLength(rate) /\ unit > 0
  BY UnitLengthIs
<1>2. PICK price \in Nat : price = UnitPrice(rate, u + 1)
  <2>1. u + 1 \in Nat /\ u + 1 > 0
    OBVIOUS
  <2> QED
    BY <2>1, UnitPriceIs
<1>3. PICK x \in Nat, y \in Nat :
        x = Paid(rate, r) /\ y = Paid(rate, s) /\ x <= y /\ x <= unit /\ y <= unit
  <2>1. r <= s /\ s <= UnitLength(rate) /\ s <= s
    BY <1>1
  <2> QED
    BY <1>1, <2>1, PaidIs
<1>4. PICK a \in Nat, b \in Nat : a = price * x /\ b = price * y
  OBVIOUS
<1>5. a <= b /\ a <= unit * price
  <2>1. price * x <= price * y /\ price * x <= price * unit
    BY <1>3
  <2> QED
    BY <1>4, <2>1
<1>6. PICK c \in Nat, d \in Nat : c = RoundDiv(a, unit) /\ d = RoundDiv(b, unit)
  BY <1>1, RoundIs
<1>7. c <= d /\ c <= price
  BY <1>1, <1>5, <1>6, RoundGrows, RoundWithin
<1>8. PICK grace \in Nat : grace = rate.graceMinutes
  BY DEF UnitRate, Rate, StoredPackage
<1>9. /\ Extra(rate, u, r) = IF u >= 1 /\ r > grace THEN c ELSE 0
      /\ Extra(rate, u, s) = IF u >= 1 /\ s > grace THEN d ELSE 0
  BY <1>1, <1>2, <1>3, <1>4, <1>6, <1>8 DEF Extra, Chargeable
<1> QED
  BY <1>2, <1>7, <1>9

\* ExtraIs, of one number of minutes.
LEMMA ExtraOf ==
    ASSUME NEW rate \in UnitRate, NEW u \in Nat, NEW r \in Nat, r < UnitLength(rate)
    PROVE  /\ Extra(rate, u, r) \in Nat /\ Extra(rate, u, r) <= UnitPrice(rate, u + 1)
           /\ u = 0 => Extra(rate, u, r) = 0
<1>1. \A s \in Nat : r <= s /\ s < UnitLength(rate) =>
        /\ Extra(rate, u, r) \in Nat /\ Extra(rate, u, r) <= UnitPrice(rate, u + 1)
        /\ u = 0 => Extra(rate, u, r) = 0
  BY ExtraIs
<1> QED
  BY <1>1

\* A unit more, or a minute more of the same one, never costs less.
LEMMA RawGrows ==
    ASSUME NEW rate \in UnitRate, NEW u \in Nat, NEW v \in Nat, NEW r \in Nat, NEW s \in Nat,
           r < UnitLength(rate), s < UnitLength(rate), u < v \/ (u = v /\ r <= s)
    PROVE  /\ Raw(rate, u, r) \in Nat /\ Raw(rate, v, s) \in Nat
           /\ Raw(rate, u, r) <= Raw(rate, v, s)
<1>1. PICK e \in Nat : e = Extra(rate, u, r) /\ e <= UnitPrice(rate, u + 1) /\ (u = 0 => e = 0)
  <2>1. /\ Extra(rate, u, r) \in Nat /\ Extra(rate, u, r) <= UnitPrice(rate, u + 1)
        /\ u = 0 => Extra(rate, u, r) = 0
    BY ExtraOf
  <2> QED
    BY <2>1
<1>2. PICK f \in Nat : f = Extra(rate, v, s)
  <2>1. Extra(rate, v, s) \in Nat
    BY ExtraOf
  <2> QED
    BY <2>1
<1>3. PICK a \in Nat, b \in Nat : a = AtLeast(u, 1) /\ b = AtLeast(v, 1)
  BY DEF AtLeast
<1>4. PICK x \in Nat, y \in Nat : x = Cost(rate, a) /\ y = Cost(rate, b)
  BY CostIs
<1>5. Raw(rate, u, r) = x + e /\ Raw(rate, v, s) = y + f
  BY <1>1, <1>2, <1>3, <1>4 DEF Raw
<1>6. CASE u = v /\ r <= s
  <2>1. e <= f
    BY <1>1, <1>2, <1>6, ExtraIs
  <2>2. x = y
    BY <1>3, <1>4, <1>6
  <2> QED
    BY <1>5, <2>1, <2>2
<1>7. CASE u < v /\ u = 0
  <2>1. a <= b /\ e = 0
    BY <1>1, <1>3, <1>7 DEF AtLeast
  <2>2. x <= y
    BY <1>4, <2>1, CostGrows
  <2> QED
    BY <1>5, <2>1, <2>2
<1>8. CASE u < v /\ u # 0
  <2>1. a = u /\ u + 1 \in Nat /\ u + 1 <= b
    BY <1>3, <1>8 DEF AtLeast
  <2>2. PICK z \in Nat : z = Cost(rate, u + 1) /\ z = x + UnitPrice(rate, u + 1)
    BY <1>4, <2>1, CostIs
  <2>3. z <= y
    BY <1>4, <2>1, <2>2, CostGrows
  <2>4. UnitPrice(rate, u + 1) \in Nat
    BY <2>1, UnitPriceIs
  <2> QED
    BY <1>1, <1>5, <2>2, <2>3, <2>4
<1> QED
  BY <1>6, <1>7, <1>8

-----------------------------------------------------------------------------
(* The breakdown of priceSession, in that form.                             *)

Rounded(rate, amount) ==
    IF rate.pricingMode = "TIERED_HOURLY"
    THEN ApplyRounding(amount, rate.tieredPricing.roundingStep, rate.tieredPricing.roundingMode)
    ELSE amount

Countdown(rate, u, r, m) ==
    IF Chargeable(u, r, rate.graceMinutes)
    THEN IF rate.pricingMode = "TIERED_HOURLY"
         THEN ExtraTimeCountdown(rate.tieredPricing, u, Paid(rate, r), rate.graceMinutes, m)
         ELSE 0
    ELSE AtLeast(NextChargeAtMinute(AtLeast(u, 1), UnitLength(rate), rate.graceMinutes) - m, 0)

IsPriced(rate, m, u, r) ==
    /\ m = UnitLength(rate) * u + r /\ r < UnitLength(rate)
    /\ u = m \div UnitLength(rate)
    /\ PriceSession(rate, m).rawTotal = Raw(rate, u, r)
    /\ PriceSession(rate, m).lineTotal = Rounded(rate, Raw(rate, u, r))
    /\ PriceSession(rate, m).minutesUntilNextCharge = Countdown(rate, u, r, m)

\* The hours of a line come to what they cost.
LEMMA HoursAddUp ==
    ASSUME NEW rate \in UnitRate, NEW u \in Nat
    PROVE  SumFunction([h \in 1 .. AtLeast(u, 1) |-> UnitPrice(rate, h)]) = Cost(rate, AtLeast(u, 1))
<1> DEFINE hours == AtLeast(u, 1)
           lines == [h \in 1 .. hours |-> UnitPrice(rate, h)]
           v == [h \in Nat |-> UnitPrice(rate, h)]
<1>1. hours \in Nat /\ \A h \in 1 .. hours : h \in Nat /\ h > 0
  BY DEF AtLeast
<1>2. \A h \in 1 .. hours : lines[h] = v[h] /\ v[h] \in Int
  BY <1>1, UnitPriceIs
<1>3. SumFunction(lines) = SumFunctionOnSet(lines, 1 .. hours)
  BY DEF SumFunction
<1>4. Cost(rate, hours) = SumFunctionOnSet(v, 1 .. hours)
  BY DEF Cost
<1>5. IsFiniteSet(1 .. hours)
  BY <1>1, FS_Interval
<1> HIDE DEF lines, v, hours
<1>6. SumFunctionOnSet(v, 1 .. hours) = SumFunctionOnSet(lines, 1 .. hours)
  BY <1>2, <1>5, SumSame
<1> QED
  BY <1>3, <1>4, <1>6 DEF lines, hours

\* The overtime of a tiered breakdown is the extra time.
LEMMA TieredExtra ==
    ASSUME NEW rate \in UnitRate, rate.pricingMode = "TIERED_HOURLY", NEW u \in Nat, NEW r \in Nat
    PROVE  Extra(rate, u, r) =
              RoundDiv(TierRate(rate.tieredPricing.hourlyRates, u + 1)
                        * (IF Chargeable(u, r, rate.graceMinutes)
                           THEN ChargedMinutes(rate.tieredPricing, r) ELSE 0), TierMinutes)
<1>1. CASE Chargeable(u, r, rate.graceMinutes)
  BY <1>1 DEF Extra, Paid, UnitPrice, UnitLength
<1>2. CASE ~ Chargeable(u, r, rate.graceMinutes)
  <2>1. PICK price \in Nat : price = TierRate(rate.tieredPricing.hourlyRates, u + 1)
    <3>1. u + 1 \in Nat /\ u + 1 > 0
      OBVIOUS
    <3> QED
      BY <3>1, UnitPriceIs DEF UnitPrice
  <2>2. RoundDiv(price * 0, TierMinutes) = 0
    BY DEF RoundDiv, TierMinutes
  <2> QED
    BY <1>2, <2>1, <2>2 DEF Extra
<1> QED
  BY <1>1, <1>2

\* Blocks and tiered hours are priced in that form.
LEMMA UnitsArePriced ==
    ASSUME NEW rate \in UnitRate, NEW m \in Nat
    PROVE  \E u \in Nat, r \in Nat : IsPriced(rate, m, u, r)
<1>1. PICK unit \in Nat : unit = UnitLength(rate) /\ unit > 0
  BY UnitLengthIs
<1>2. PICK u \in Nat, r \in Nat :
        u = m \div unit /\ r = m % unit /\ r < unit /\ m = unit * u + r
  BY <1>1, DivisionIs
<1>3. CASE rate.pricingMode = "TIERED_HOURLY"
  <2>1. PriceSession(rate, m) = PriceTieredSession(rate, m)
    BY <1>3, Zenon DEF PriceSession
  <2>2. unit = TierMinutes
    BY <1>1, <1>3 DEF UnitLength
  <2> DEFINE hours == AtLeast(u, 1)
             lines == [h \in 1 .. hours |-> TierRate(rate.tieredPricing.hourlyRates, h)]
  <2>3. lines = [h \in 1 .. hours |-> UnitPrice(rate, h)]
    BY <1>3 DEF UnitPrice
  <2>4. SumFunction(lines) = Cost(rate, hours)
    BY <2>3, HoursAddUp
  <2>5. Extra(rate, u, r) =
          RoundDiv(TierRate(rate.tieredPricing.hourlyRates, u + 1)
                    * (IF Chargeable(u, r, rate.graceMinutes)
                       THEN ChargedMinutes(rate.tieredPricing, r) ELSE 0), TierMinutes)
    BY <1>3, TieredExtra
  <2>6. PriceTieredSession(rate, m).rawTotal = Raw(rate, u, r)
    BY <1>2, <2>2, <2>4, <2>5 DEF PriceTieredSession, Raw
  <2>7. PriceTieredSession(rate, m).lineTotal = Rounded(rate, PriceTieredSession(rate, m).rawTotal)
    BY <1>3 DEF PriceTieredSession, Rounded
  <2>8. PriceTieredSession(rate, m).minutesUntilNextCharge = Countdown(rate, u, r, m)
    BY <1>1, <1>2, <1>3, <2>2 DEF PriceTieredSession, Countdown, Paid
  <2> QED
    BY <1>1, <1>2, <2>1, <2>6, <2>7, <2>8 DEF IsPriced
<1>4. CASE rate.pricingMode # "TIERED_HOURLY"
  <2>1. PriceSession(rate, m) = PriceBlockSession(rate, m)
    <3>1. rate.pricingMode = "BLOCK_WITH_GRACE"
      BY <1>4 DEF UnitRate, Rate, StoredPackage
    <3> QED
      BY <3>1, Zenon DEF PriceSession
  <2>2. unit = rate.rateDurationMinutes
    BY <1>1, <1>4 DEF UnitLength
  <2>3. Cost(rate, AtLeast(u, 1)) = AtLeast(u, 1) * rate.unitPrice
    <3>1. AtLeast(u, 1) \in Nat
      BY DEF AtLeast
    <3> QED
      BY <1>4, <3>1, CostOfBlocks
  <2>4. Extra(rate, u, r) = IF Chargeable(u, r, rate.graceMinutes)
                            THEN RoundDiv(rate.unitPrice * r, unit) ELSE 0
    BY <1>1, <1>4 DEF Extra, Paid, UnitPrice
  <2>5. /\ PriceBlockSession(rate, m).rawTotal = Raw(rate, u, r)
        /\ PriceBlockSession(rate, m).lineTotal = Raw(rate, u, r)
    BY <1>2, <2>2, <2>3, <2>4 DEF PriceBlockSession, Raw, Untiered
  <2>6. PriceBlockSession(rate, m).minutesUntilNextCharge = Countdown(rate, u, r, m)
    BY <1>1, <1>2, <1>4, <2>2 DEF PriceBlockSession, Countdown, Untiered
  <2> QED
    BY <1>1, <1>2, <1>4, <2>1, <2>5, <2>6 DEF IsPriced, Rounded
<1> QED
  BY <1>3, <1>4

\* Nor does rounding the total ever turn that round.
LEMMA RoundingGrows ==
    ASSUME NEW rate \in UnitRate, NEW a \in Nat, NEW b \in Nat, a <= b
    PROVE  /\ Rounded(rate, a) \in Nat /\ Rounded(rate, b) \in Nat
           /\ Rounded(rate, a) <= Rounded(rate, b)
<1>1. CASE rate.pricingMode # "TIERED_HOURLY"
  BY <1>1 DEF Rounded
<1>2. CASE rate.pricingMode = "TIERED_HOURLY"
  <2>1. PICK step \in Nat, mode \in {"UP", "DOWN", "NEAREST"} :
          step = rate.tieredPricing.roundingStep /\ mode = rate.tieredPricing.roundingMode
    BY <1>2 DEF UnitRate, Rate, TierTable
  <2>2. /\ Rounded(rate, a) = ApplyRounding(a, step, mode)
        /\ Rounded(rate, b) = ApplyRounding(b, step, mode)
    BY <1>2, <2>1 DEF Rounded
  <2>3. CASE step = 0
    <3>1. ApplyRounding(a, step, mode) = a /\ ApplyRounding(b, step, mode) = b
      BY <2>3, Zenon DEF ApplyRounding
    <3> QED
      BY <2>2, <3>1
  <2>4. CASE step # 0
    <3>1. PICK p \in Nat, q \in Nat :
            /\ p <= q
            /\ ApplyRounding(a, step, mode) = p * step
            /\ ApplyRounding(b, step, mode) = q * step
      <4>1. CASE mode = "UP"
        <5>1. /\ ApplyRounding(a, step, mode) = CeilDiv(a, step) * step
              /\ ApplyRounding(b, step, mode) = CeilDiv(b, step) * step
          BY <2>4, <4>1, Zenon DEF ApplyRounding
        <5>2. step > 0
          BY <2>4
        <5>3. CeilDiv(a, step) \in Nat /\ CeilDiv(b, step) \in Nat
              /\ CeilDiv(a, step) <= CeilDiv(b, step)
          BY <5>2, CeilIs, CeilGrows
        <5> QED
          BY <5>1, <5>3
      <4>2. CASE mode = "DOWN"
        <5>1. /\ ApplyRounding(a, step, mode) = (a \div step) * step
              /\ ApplyRounding(b, step, mode) = (b \div step) * step
          <6>1. mode # "UP" /\ mode # "NEAREST"
            BY <4>2
          <6> QED
            BY <2>4, <4>2, <6>1, Zenon DEF ApplyRounding
        <5>2. step > 0
          BY <2>4
        <5>3. a \div step \in Nat /\ b \div step \in Nat /\ a \div step <= b \div step
          BY <5>2, QuotientGrows
        <5> QED
          BY <5>1, <5>3
      <4>3. CASE mode = "NEAREST"
        <5>1. /\ ApplyRounding(a, step, mode) = RoundDiv(a, step) * step
              /\ ApplyRounding(b, step, mode) = RoundDiv(b, step) * step
          <6>1. mode # "UP" /\ mode # "DOWN"
            BY <4>3
          <6> QED
            BY <2>4, <4>3, <6>1, Zenon DEF ApplyRounding
        <5>2. step > 0
          BY <2>4
        <5>3. RoundDiv(a, step) \in Nat /\ RoundDiv(b, step) \in Nat
              /\ RoundDiv(a, step) <= RoundDiv(b, step)
          BY <5>2, RoundIs, RoundGrows
        <5> QED
          BY <5>1, <5>3
      <4> QED
        BY <4>1, <4>2, <4>3
    <3>2. p * step \in Nat /\ q * step \in Nat /\ p * step <= q * step
      BY <3>1
    <3> QED
      BY <2>2, <3>1, <3>2
  <2> QED
    BY <2>3, <2>4
<1> QED
  BY <1>1, <1>2

-----------------------------------------------------------------------------
(* One package: its price grows, and stays as it is until the countdown.    *)

\* No package gets cheaper by the minute.
LEMMA PriceGrows ==
    ASSUME NEW rate \in Rate, NEW m \in Nat, NEW k \in Nat, m <= k
    PROVE  /\ PriceSession(rate, m).lineTotal \in Nat
           /\ PriceSession(rate, m).lineTotal <= PriceSession(rate, k).lineTotal
<1>1. CASE rate.pricingMode = "PRORATA"
  <2>1. PICK price \in Nat, unit \in Nat :
          price = rate.unitPrice /\ unit = rate.rateDurationMinutes /\ unit > 0
    BY DEF Rate, StoredPackage
  <2>2. /\ PriceSession(rate, m) = PriceProRata(rate, m)
        /\ PriceSession(rate, k) = PriceProRata(rate, k)
    BY <1>1, Zenon DEF PriceSession
  <2>3. PICK a \in Nat, b \in Nat : a = price * m /\ b = price * k /\ a <= b
    OBVIOUS
  <2>4. /\ PriceSession(rate, m).lineTotal = RoundDiv(a, unit)
        /\ PriceSession(rate, k).lineTotal = RoundDiv(b, unit)
    BY <2>1, <2>2, <2>3 DEF PriceProRata, Untiered, CalculateSessionLineTotal
  <2> QED
    BY <2>1, <2>3, <2>4, RoundIs, RoundGrows
<1>2. CASE rate.pricingMode # "PRORATA"
  <2>1. rate \in UnitRate
    BY <1>2 DEF UnitRate
  <2>2. PICK u \in Nat, r \in Nat : IsPriced(rate, m, u, r)
    BY <2>1, UnitsArePriced
  <2>3. PICK v \in Nat, s \in Nat : IsPriced(rate, k, v, s)
    BY <2>1, UnitsArePriced
  <2>4. PICK unit \in Nat : unit = UnitLength(rate) /\ unit > 0
    BY <2>1, UnitLengthIs
  <2>5. m = unit * u + r /\ r < unit /\ k = unit * v + s /\ s < unit
    BY <2>2, <2>3, <2>4 DEF IsPriced
  <2>6. u < v \/ (u = v /\ r <= s)
    <3>1. CASE u >= v + 1
      <4>1. unit * u >= unit * (v + 1)
        BY <3>1
      <4> QED
        BY <2>5, <4>1
    <3>2. u = v => r <= s
      BY <2>5
    <3> QED
      BY <3>1, <3>2
  <2>7. PICK x \in Nat, y \in Nat : x = Raw(rate, u, r) /\ y = Raw(rate, v, s) /\ x <= y
    BY <2>1, <2>4, <2>5, <2>6, RawGrows
  <2>8. /\ PriceSession(rate, m).lineTotal = Rounded(rate, x)
        /\ PriceSession(rate, k).lineTotal = Rounded(rate, y)
    BY <2>2, <2>3, <2>7 DEF IsPriced
  <2> QED
    BY <2>1, <2>7, <2>8, RoundingGrows
<1> QED
  BY <1>1, <1>2

\* The minutes of the same unit are told apart by their remainder.
LEMMA SameUnit ==
    ASSUME NEW unit \in Nat, unit > 0, NEW u \in Nat, NEW r \in Nat, r < unit,
           NEW v \in Nat, NEW s \in Nat, s < unit
    PROVE  /\ unit * u + r <= unit * v + s => u <= v
           /\ unit * v + s < unit * (u + 1) => v <= u
<1>1. CASE u >= v + 1
  <2>1. unit * u >= unit * (v + 1)
    BY <1>1
  <2> QED
    BY <1>1, <2>1
<1>2. CASE v >= u + 1
  <2>1. unit * v >= unit * (u + 1)
    BY <1>2
  <2> QED
    BY <1>2, <2>1
<1> QED
  BY <1>1, <1>2

\* While nothing extra is charged the price is that of the whole units, until the first
\* minute past the grace or, where the grace is as long as a unit, the next unit.
LEMMA FreeUntil ==
    ASSUME NEW rate \in UnitRate, NEW u \in Nat, NEW r \in Nat, NEW v \in Nat, NEW s \in Nat,
           r < UnitLength(rate), s < UnitLength(rate),
           ~ Chargeable(u, r, rate.graceMinutes),
           UnitLength(rate) * u + r <= UnitLength(rate) * v + s,
           UnitLength(rate) * v + s
             < NextChargeAtMinute(AtLeast(u, 1), UnitLength(rate), rate.graceMinutes)
    PROVE  Raw(rate, v, s) = Raw(rate, u, r)
<1>1. PICK unit \in Nat : unit = UnitLength(rate) /\ unit > 0
  BY UnitLengthIs
<1>2. PICK grace \in Nat : grace = rate.graceMinutes
  BY DEF UnitRate, Rate, StoredPackage
<1>3. PICK c \in Nat : c = AtLeast(u, 1) /\ c = IF u > 1 THEN u ELSE 1
  BY DEF AtLeast
<1>4. /\ unit * u + r <= unit * v + s
      /\ unit * v + s < c * unit + grace + 1
      /\ unit * v + s < (c + 1) * unit
  BY <1>1, <1>2, <1>3 DEF NextChargeAtMinute, AtMost
<1>5. u <= v /\ v <= c
  <2>1. unit * v + s < unit * (c + 1)
    BY <1>4
  <2>2. 0 \in Nat /\ 0 < unit
    BY <1>1
  <2> QED
    BY <1>1, <1>4, <2>1, <2>2, SameUnit
<1>6. v = c => s <= grace
  <2>1. v = c => unit * v = c * unit
    OBVIOUS
  <2> QED
    BY <1>4, <2>1
<1>7. ~ Chargeable(v, s, grace)
  BY <1>3, <1>5, <1>6 DEF Chargeable
<1>8. Extra(rate, u, r) = 0 /\ Extra(rate, v, s) = 0
  BY <1>2, <1>7 DEF Extra
<1>9. AtLeast(v, 1) = AtLeast(u, 1)
  BY <1>3, <1>5 DEF AtLeast
<1> QED
  BY <1>8, <1>9 DEF Raw

\* In extra time paid in blocks nothing more is charged until the blocks are used up; once
\* they make up a unit, the next unit and its grace are paid for.
LEMMA PaidUntil ==
    ASSUME NEW rate \in UnitRate, rate.pricingMode = "TIERED_HOURLY",
           NEW u \in Nat, NEW r \in Nat, NEW v \in Nat, NEW s \in Nat, NEW m \in Nat,
           m = UnitLength(rate) * u + r, r < UnitLength(rate), s < UnitLength(rate),
           Chargeable(u, r, rate.graceMinutes),
           m <= UnitLength(rate) * v + s,
           UnitLength(rate) * v + s
             < m + ExtraTimeCountdown(rate.tieredPricing, u, Paid(rate, r), rate.graceMinutes, m)
    PROVE  Raw(rate, v, s) = Raw(rate, u, r)
<1>1. UnitLength(rate) = 60
  BY DEF UnitLength, TierMinutes
<1>2. PICK grace \in Nat : grace = rate.graceMinutes
  BY DEF UnitRate, Rate, StoredPackage
<1>3. PICK paid \in Nat : paid = Paid(rate, r) /\ r <= paid /\ paid <= 60
  <2>1. r <= r /\ r <= UnitLength(rate)
    BY <1>1
  <2> QED
    BY <1>1, <2>1, PaidIs
<1>4. u >= 1 /\ r > grace
  BY <1>2 DEF Chargeable
<1>5. u <= v /\ (v = u => r <= s)
  BY <1>1
<1>6. rate.tieredPricing.overtimeMode = "BLOCK" /\ rate.tieredPricing.overtimeMode # "PER_MINUTE"
  <2>1. CASE rate.tieredPricing.overtimeMode # "BLOCK"
    <3>1. ExtraTimeCountdown(rate.tieredPricing, u, Paid(rate, r), rate.graceMinutes, m) = 0
      BY <2>1, Zenon DEF ExtraTimeCountdown
    <3> QED
      BY <1>1, <3>1
  <2> QED
    BY <2>1
<1>7. AtLeast(u, 1) = u /\ AtLeast(v, 1) = v
  BY <1>4, <1>5 DEF AtLeast
<1>8. CASE paid < 60
  <2>1. paid < TierMinutes /\ ~ (paid >= TierMinutes)
    BY <1>8 DEF TierMinutes
  <2>2. ExtraTimeCountdown(rate.tieredPricing, u, paid, grace, m) = u * TierMinutes + paid + 1 - m
    BY <1>6, <2>1, Zenon DEF ExtraTimeCountdown
  <2>3. v = u /\ s <= paid
    BY <1>1, <1>2, <1>3, <1>5, <1>8, <2>2 DEF TierMinutes
  <2>4. Paid(rate, s) = Paid(rate, r)
    <3>1. r = s \/ Paid(rate, r) > r
      BY <1>3, <1>5, <2>3
    <3>2. r <= s /\ s <= UnitLength(rate) /\ s <= Paid(rate, r)
      BY <1>1, <1>3, <1>5, <2>3
    <3>3. Paid(rate, r) > r => Paid(rate, s) = Paid(rate, r)
      BY <3>2, PaidIs
    <3> QED
      BY <3>1, <3>3
  <2>5. Chargeable(v, s, grace) /\ Chargeable(u, r, grace)
    BY <1>2, <1>4, <1>5, <2>3 DEF Chargeable
  <2>6. Extra(rate, v, s) = Extra(rate, u, r)
    BY <1>2, <2>3, <2>4, <2>5 DEF Extra
  <2> QED
    BY <1>7, <2>3, <2>6 DEF Raw
<1>9. CASE paid >= 60
  <2>1. paid = 60 /\ paid >= TierMinutes /\ ~ (paid < TierMinutes)
    BY <1>3, <1>9 DEF TierMinutes
  <2>2. ExtraTimeCountdown(rate.tieredPricing, u, paid, grace, m)
          = (u + 1) * TierMinutes + grace + 1 - m
    BY <1>6, <2>1, Zenon DEF ExtraTimeCountdown
  <2>3. 60 * v + s <= (u + 1) * 60 + grace /\ grace < 60
    BY <1>1, <1>2, <1>3, <1>4, <2>2 DEF TierMinutes
  <2>4. v = u \/ (v = u + 1 /\ s <= grace)
    BY <1>1, <1>5, <2>3
  <2>5. PICK price \in Nat : price = UnitPrice(rate, u + 1)
    <3>1. u + 1 \in Nat /\ u + 1 > 0
      OBVIOUS
    <3> QED
      BY <3>1, UnitPriceIs
  <2>6. RoundDiv(price * 60, 60) = price
    BY DEF RoundDiv
  <2>7. Extra(rate, u, r) = price
    BY <1>1, <1>2, <1>3, <1>4, <2>1, <2>5, <2>6 DEF Extra, Chargeable
  <2>8. CASE v = u
    <3>1. Paid(rate, s) = 60
      <4>1. r <= s /\ s <= UnitLength(rate)
        BY <1>1, <1>5, <2>8
      <4>2. Paid(rate, r) <= Paid(rate, s) /\ Paid(rate, s) \in Nat
        BY <4>1, PaidIs
      <4>3. s <= s
        OBVIOUS
      <4>4. Paid(rate, s) <= UnitLength(rate)
        BY <4>1, <4>3, PaidIs
      <4> QED
        BY <1>1, <1>3, <2>1, <4>2, <4>4
    <3>2. Extra(rate, v, s) = price
      BY <1>1, <1>2, <1>4, <1>5, <2>5, <2>6, <2>8, <3>1 DEF Extra, Chargeable
    <3> QED
      BY <1>7, <2>7, <2>8, <3>2 DEF Raw
  <2>9. CASE v = u + 1 /\ s <= grace
    <3>1. Extra(rate, v, s) = 0
      BY <1>2, <2>9 DEF Extra, Chargeable
    <3>2. Cost(rate, u + 1) = Cost(rate, u) + price /\ Cost(rate, u) \in Nat /\ Cost(rate, u + 1) \in Nat
      <4>1. u + 1 \in Nat
        OBVIOUS
      <4> QED
        BY <2>5, <4>1, CostIs
    <3> QED
      BY <1>7, <2>7, <2>9, <3>1, <3>2 DEF Raw
  <2> QED
    BY <2>4, <2>8, <2>9
<1> QED
  BY <1>3, <1>8, <1>9

\* The countdown of one package: its price stays as it is until then.
LEMMA UnchangedUntil ==
    ASSUME NEW rate \in UnitRate, NEW m \in Nat, NEW k \in Nat, m <= k,
           k < m + PriceSession(rate, m).minutesUntilNextCharge
    PROVE  PriceSession(rate, k).lineTotal = PriceSession(rate, m).lineTotal
<1>1. PICK u \in Nat, r \in Nat : IsPriced(rate, m, u, r)
  BY UnitsArePriced
<1>2. PICK v \in Nat, s \in Nat : IsPriced(rate, k, v, s)
  BY UnitsArePriced
<1>3. PICK unit \in Nat : unit = UnitLength(rate) /\ unit > 0
  BY UnitLengthIs
<1>4. /\ m = unit * u + r /\ r < unit /\ k = unit * v + s /\ s < unit
      /\ unit * u + r <= unit * v + s
      /\ unit * v + s < m + Countdown(rate, u, r, m)
  BY <1>1, <1>2, <1>3 DEF IsPriced
<1>5. Raw(rate, v, s) = Raw(rate, u, r)
  <2>1. CASE ~ Chargeable(u, r, rate.graceMinutes)
    <3>1. PICK rise \in Int :
            rise = NextChargeAtMinute(AtLeast(u, 1), UnitLength(rate), rate.graceMinutes)
      <4>1. rate.graceMinutes \in Nat
        BY DEF UnitRate, Rate, StoredPackage
      <4> QED
        BY <1>3, <4>1 DEF NextChargeAtMinute, AtMost, AtLeast
    <3>2. Countdown(rate, u, r, m) = IF rise - m > 0 THEN rise - m ELSE 0
      BY <2>1, <3>1 DEF Countdown, AtLeast
    <3>3. unit * v + s < rise
      BY <1>4, <3>2
    <3> QED
      BY <1>3, <1>4, <2>1, <3>1, <3>3, FreeUntil
  <2>2. CASE Chargeable(u, r, rate.graceMinutes) /\ rate.pricingMode = "TIERED_HOURLY"
    <3>1. unit * v + s
            < m + ExtraTimeCountdown(rate.tieredPricing, u, Paid(rate, r), rate.graceMinutes, m)
      BY <1>4, <2>2 DEF Countdown
    <3>2. /\ m = UnitLength(rate) * u + r /\ r < UnitLength(rate) /\ s < UnitLength(rate)
          /\ m <= UnitLength(rate) * v + s
          /\ UnitLength(rate) * v + s
               < m + ExtraTimeCountdown(rate.tieredPricing, u, Paid(rate, r), rate.graceMinutes, m)
      BY <1>3, <1>4, <3>1
    <3> QED
      BY <2>2, <3>2, PaidUntil
  <2>3. CASE Chargeable(u, r, rate.graceMinutes) /\ rate.pricingMode # "TIERED_HOURLY"
    <3>1. Countdown(rate, u, r, m) = 0
      BY <2>3 DEF Countdown
    <3> QED
      BY <1>4, <3>1
  <2> QED
    BY <2>1, <2>2, <2>3
<1> QED
  BY <1>1, <1>2, <1>5 DEF IsPriced

\* Only what is priced in units counts down.
LEMMA CountdownIs ==
    ASSUME NEW rate \in Rate, NEW m \in Nat
    PROVE  /\ rate.pricingMode = "PRORATA" =>
                PriceSession(rate, m).minutesUntilNextCharge = NoCountdown
           /\ rate.pricingMode # "PRORATA" =>
                PriceSession(rate, m).minutesUntilNextCharge \in Int
<1>1. CASE rate.pricingMode = "PRORATA"
  <2>1. PriceSession(rate, m) = PriceProRata(rate, m)
    BY <1>1, Zenon DEF PriceSession
  <2> QED
    BY <1>1, <2>1 DEF PriceProRata, Untiered
<1>2. CASE rate.pricingMode # "PRORATA"
  <2>1. rate \in UnitRate
    BY <1>2 DEF UnitRate
  <2>2. PICK u \in Nat, r \in Nat : IsPriced(rate, m, u, r)
    BY <2>1, UnitsArePriced
  <2>3. PICK unit \in Nat : unit = UnitLength(rate) /\ r < unit /\ unit > 0
    BY <2>1, <2>2, UnitLengthIs DEF IsPriced
  <2>4. PICK grace \in Nat : grace = rate.graceMinutes
    BY DEF Rate, StoredPackage
  <2>5. PICK paid \in Nat : paid = Paid(rate, r)
    <3>1. r <= r /\ r <= UnitLength(rate)
      BY <2>3
    <3>2. Paid(rate, r) \in Nat
      BY <2>1, <3>1, PaidIs
    <3> QED
      BY <3>2
  <2>6. CASE ~ Chargeable(u, r, grace)
    <3>1. NextChargeAtMinute(AtLeast(u, 1), unit, grace) - m \in Int
      BY <2>3, <2>4 DEF NextChargeAtMinute, AtLeast, AtMost
    <3>2. Countdown(rate, u, r, m) \in Int
      BY <2>3, <2>4, <2>6, <3>1 DEF Countdown, AtLeast
    <3> QED
      BY <1>2, <2>2, <3>2 DEF IsPriced
  <2>7. CASE Chargeable(u, r, grace)
    <3>1. ExtraTimeCountdown(rate.tieredPricing, u, paid, grace, m) \in Int
      <4>1. CASE rate.tieredPricing.overtimeMode # "BLOCK"
        <5>1. ExtraTimeCountdown(rate.tieredPricing, u, paid, grace, m) = 0
          BY <4>1, Zenon DEF ExtraTimeCountdown
        <5> QED
          BY <5>1
      <4>2. CASE rate.tieredPricing.overtimeMode = "BLOCK" /\ paid < TierMinutes
        <5>1. rate.tieredPricing.overtimeMode = "BLOCK" /\ ~ (paid >= TierMinutes)
          BY <4>2 DEF TierMinutes
        <5>2. ExtraTimeCountdown(rate.tieredPricing, u, paid, grace, m) = u * TierMinutes + paid + 1 - m
          BY <4>2, <5>1, Zenon DEF ExtraTimeCountdown
        <5> QED
          BY <5>2 DEF TierMinutes
      <4>3. CASE rate.tieredPricing.overtimeMode = "BLOCK" /\ ~ (paid < TierMinutes)
        <5>1. paid >= TierMinutes
          BY <4>3 DEF TierMinutes
        <5>2. ExtraTimeCountdown(rate.tieredPricing, u, paid, grace, m)
                = (u + 1) * TierMinutes + grace + 1 - m
          BY <4>3, <5>1, Zenon DEF ExtraTimeCountdown
        <5> QED
          BY <5>2 DEF TierMinutes
      <4> QED
        BY <4>1, <4>2, <4>3
    <3>2. Countdown(rate, u, r, m) \in Int
      BY <2>4, <2>5, <2>7, <3>1 DEF Countdown
    <3> QED
      BY <1>2, <2>2, <3>2 DEF IsPriced
  <2> QED
    BY <2>6, <2>7
<1> QED
  BY <1>1, <1>2

-----------------------------------------------------------------------------
(* Best price: the packages on a ticket together.                           *)

\* What the rate i of a ticket costs after e minutes.
Costs(e, i) == PriceSessionForPeriod(rates[i], e, Minimum).lineTotal
CountdownOf(e, i) == PriceSessionForPeriod(rates[i], e, Minimum).minutesUntilNextCharge

\* A rate of a ticket never gets cheaper, and costs the same until its countdown ends.
LEMMA CostsGrow ==
    ASSUME NEW n \in Nat, rates \in [1 .. n -> Rate], NEW i \in 1 .. n,
           NEW e \in Nat, NEW f \in Nat, e <= f
    PROVE  /\ Costs(e, i) \in Nat /\ Costs(f, i) \in Nat
           /\ Costs(e, i) <= Costs(f, i)
           /\ CountdownOf(e, i) # NoCountdown =>
                /\ CountdownOf(e, i) \in Int
                /\ f < e + CountdownOf(e, i) => Costs(f, i) = Costs(e, i)
<1>1. PICK rate \in Rate : rate = rates[i]
  OBVIOUS
<1>2. PICK m \in Nat, k \in Nat :
        /\ m = BilledMinutes(rate, e, Minimum) /\ k = BilledMinutes(rate, f, Minimum)
        /\ m <= k
        /\ rate.pricingMode # "PRORATA" => m = e /\ k = f
  <2>1. PICK minimum \in Nat : minimum = Minimum
    BY TimesAreNatural
  <2>2. CASE rate.pricingMode = "PRORATA"
    BY <2>1, <2>2 DEF BilledMinutes, AtLeast
  <2>3. CASE rate.pricingMode # "PRORATA"
    BY <2>3 DEF BilledMinutes
  <2> QED
    BY <2>2, <2>3
<1>3. /\ Costs(e, i) = PriceSession(rate, m).lineTotal
      /\ Costs(f, i) = PriceSession(rate, k).lineTotal
      /\ CountdownOf(e, i) = PriceSession(rate, m).minutesUntilNextCharge
  BY <1>1, <1>2 DEF Costs, CountdownOf, PriceSessionForPeriod
<1>4. /\ PriceSession(rate, m).lineTotal \in Nat
      /\ PriceSession(rate, m).lineTotal <= PriceSession(rate, k).lineTotal
  BY <1>2, PriceGrows
<1>5. PriceSession(rate, k).lineTotal \in Nat
  <2>1. k <= k
    OBVIOUS
  <2> QED
    BY <2>1, PriceGrows
<1>6. ASSUME CountdownOf(e, i) # NoCountdown
      PROVE  /\ CountdownOf(e, i) \in Int
             /\ f < e + CountdownOf(e, i) => Costs(f, i) = Costs(e, i)
  <2>1. rate \in UnitRate
    BY <1>3, <1>6, CountdownIs DEF UnitRate
  <2>2. PICK c \in Int : c = PriceSession(rate, m).minutesUntilNextCharge
    BY <2>1, CountdownIs DEF UnitRate
  <2>3. m = e /\ k = f
    BY <1>2, <2>1 DEF UnitRate
  <2>4. ASSUME f < e + c PROVE PriceSession(rate, k).lineTotal = PriceSession(rate, m).lineTotal
    BY <1>2, <2>1, <2>2, <2>3, <2>4, UnchangedUntil
  <2> QED
    BY <1>3, <2>2, <2>4
<1> QED
  BY <1>3, <1>4, <1>5, <1>6

\* The first of the cheapest is one of them, none is cheaper, and none before it as cheap.
LEMMA CheapestIs ==
    ASSUME NEW n \in Nat, n > 0, NEW totals \in [1 .. n -> Nat]
    PROVE  /\ Cheapest(totals) \in 1 .. n
           /\ \A j \in 1 .. n : totals[Cheapest(totals)] <= totals[j]
           /\ \A j \in 1 .. n : totals[j] <= totals[Cheapest(totals)] => Cheapest(totals) <= j
<1>1. IsFiniteSet(1 .. n) /\ 1 \in 1 .. n
  BY FS_Interval
<1> DEFINE low == [i \in 1 .. n |-> 0 - totals[i]]
           lowest == {i \in 1 .. n : \A j \in 1 .. n : totals[i] <= totals[j]}
           early == [i \in lowest |-> 0 - i]
<1>2. \A i \in 1 .. n : low[i] \in Int /\ low[i] = 0 - totals[i]
  OBVIOUS
<1>3. lowest # {}
  <2>1. PICK i \in 1 .. n : \A j \in 1 .. n : low[j] <= low[i]
    <3> HIDE DEF low
    <3>1. 1 .. n # {} /\ \A i \in 1 .. n : low[i] \in Int
      BY <1>1, <1>2
    <3> QED
      BY <1>1, <3>1, FiniteMaximum
  <2>2. \A j \in 1 .. n : totals[i] <= totals[j]
    <3> SUFFICES ASSUME NEW j \in 1 .. n PROVE totals[i] <= totals[j]
      OBVIOUS
    <3>1. low[j] = 0 - totals[j] /\ low[i] = 0 - totals[i] /\ low[j] <= low[i]
      BY <1>2, <2>1
    <3>2. totals[i] \in Nat /\ totals[j] \in Nat
      OBVIOUS
    <3> HIDE DEF low
    <3> QED
      BY <3>1, <3>2
  <2> QED
    BY <2>2
<1>4. IsFiniteSet(lowest)
  BY <1>1, FS_Subset
<1>5. \A i \in lowest : early[i] \in Int /\ early[i] = 0 - i /\ i \in 1 .. n
  OBVIOUS
<1>6. PICK i \in lowest : \A j \in lowest : early[j] <= early[i]
  <2> HIDE DEF early, lowest
  <2>1. \A j \in lowest : early[j] \in Int
    BY <1>5
  <2> QED
    BY <1>3, <1>4, <2>1, FiniteMaximum
<1>7. i \in 1 .. n /\ \A j \in 1 .. n : totals[i] < totals[j] \/ (totals[i] = totals[j] /\ i <= j)
  <2>1. i \in 1 .. n /\ \A j \in 1 .. n : totals[i] <= totals[j]
    OBVIOUS
  <2>2. ASSUME NEW j \in 1 .. n, totals[i] = totals[j] PROVE i <= j
    <3>1. j \in lowest
      BY <2>1, <2>2
    <3>2. early[j] <= early[i] /\ early[j] = 0 - j /\ early[i] = 0 - i
      BY <1>5, <1>6, <3>1
    <3> QED
      BY <2>1, <3>2
  <2> QED
    BY <2>1, <2>2
<1>8. DOMAIN totals = 1 .. n
  OBVIOUS
<1>9. /\ Cheapest(totals) \in 1 .. n
      /\ \A j \in 1 .. n : totals[Cheapest(totals)] < totals[j]
            \/ (totals[Cheapest(totals)] = totals[j] /\ Cheapest(totals) <= j)
  BY <1>7, <1>8, Zenon DEF Cheapest
<1>10. PICK c \in 1 .. n : c = Cheapest(totals)
  BY <1>9
<1>11. \A j \in 1 .. n : totals[c] < totals[j] \/ (totals[c] = totals[j] /\ c <= j)
  BY <1>9, <1>10
<1>12. \A j \in 1 .. n : totals[c] <= totals[j] /\ (totals[j] <= totals[c] => c <= j)
  BY <1>11
<1> QED
  BY <1>10, <1>12

\* The quote for e minutes: the first of the cheapest, and its countdown.
QuoteFor(e) == PriceSessionBestOf(rates, e, Minimum)

\* It is the first of the cheapest, and its countdown is of one that costs as much.
LEMMA QuoteIs ==
    ASSUME NEW n \in Nat, n > 0, rates \in [1 .. n -> Rate], NEW e \in Nat
    PROVE  /\ QuoteFor(e).index \in 1 .. n
           /\ QuoteFor(e).lineTotal = Costs(e, QuoteFor(e).index)
           /\ QuoteFor(e).lineTotal \in Nat
           /\ \A j \in 1 .. n : QuoteFor(e).lineTotal <= Costs(e, j)
           /\ QuoteFor(e).chosenLineTotal = Costs(e, 1)
           /\ QuoteFor(e).chosenLineTotal <= QuoteFor(e).lineTotal => QuoteFor(e).index = 1
           /\ QuoteFor(e).minutesUntilNextCharge # NoCountdown =>
                \E j \in 1 .. n :
                    /\ Costs(e, j) = QuoteFor(e).lineTotal
                    /\ CountdownOf(e, j) \in Int
                    /\ QuoteFor(e).minutesUntilNextCharge = CountdownOf(e, j)
<1> DEFINE priced == [i \in DOMAIN rates |-> PriceSessionForPeriod(rates[i], e, Minimum)]
           totals == [i \in DOMAIN priced |-> priced[i].lineTotal]
<1>1. DOMAIN rates = 1 .. n /\ 1 \in 1 .. n
  OBVIOUS
<1>2. \A i \in 1 .. n : Costs(e, i) \in Nat
  <2>1. e <= e
    OBVIOUS
  <2> QED
    BY <2>1, CostsGrow
<1>3. DOMAIN priced = 1 .. n
  BY <1>1
<1>4. \A i \in 1 .. n : /\ priced[i].lineTotal = Costs(e, i)
                        /\ priced[i].minutesUntilNextCharge = CountdownOf(e, i)
  BY <1>1 DEF Costs, CountdownOf
<1>5. totals \in [1 .. n -> Nat] /\ \A i \in 1 .. n : totals[i] = Costs(e, i)
  BY <1>2, <1>3, <1>4
<1>6. PICK index \in 1 .. n :
        /\ index = Cheapest(totals)
        /\ \A j \in 1 .. n : totals[index] <= totals[j]
        /\ \A j \in 1 .. n : totals[j] <= totals[index] => index <= j
  <2> HIDE DEF totals
  <2>1. /\ Cheapest(totals) \in 1 .. n
        /\ \A j \in 1 .. n : totals[Cheapest(totals)] <= totals[j]
        /\ \A j \in 1 .. n : totals[j] <= totals[Cheapest(totals)] => Cheapest(totals) <= j
    BY <1>5, CheapestIs
  <2> QED
    BY <2>1, Zenon
<1>7. /\ QuoteFor(e).index = index
      /\ QuoteFor(e).lineTotal = priced[index].lineTotal
      /\ QuoteFor(e).chosenLineTotal = priced[1].lineTotal
      /\ QuoteFor(e).minutesUntilNextCharge = LatestCountdown(priced, priced[index].lineTotal)
  BY <1>6, Zenon DEF QuoteFor, PriceSessionBestOf
<1> HIDE DEF priced, totals
<1>8. PICK lowest \in Nat : lowest = Costs(e, index) /\ lowest = priced[index].lineTotal
  BY <1>2, <1>4
<1>9. \A j \in 1 .. n : lowest <= Costs(e, j)
  BY <1>5, <1>6, <1>8
<1>10. Costs(e, 1) <= lowest => index = 1
  <2>1. totals[1] = Costs(e, 1) /\ totals[index] = lowest
    BY <1>1, <1>5, <1>8
  <2>2. totals[1] <= totals[index] => index <= 1
    BY <1>1, <1>6
  <2> QED
    BY <2>1, <2>2
<1>11. ASSUME LatestCountdown(priced, lowest) # NoCountdown
       PROVE  \E j \in 1 .. n : /\ Costs(e, j) = lowest /\ CountdownOf(e, j) \in Int
                                /\ LatestCountdown(priced, lowest) = CountdownOf(e, j)
  <2> DEFINE tied == {i \in 1 .. n : Costs(e, i) = lowest /\ CountdownOf(e, i) # NoCountdown}
             minutes == [i \in tied |-> CountdownOf(e, i)]
             countdowns == TiedCountdowns(priced, lowest)
  <2>1. \A c : c \in countdowns <=> \E i \in tied : c = CountdownOf(e, i)
    BY <1>3, <1>4 DEF TiedCountdowns
  <2>2. countdowns # {} /\ LatestCountdown(priced, lowest) = Max(countdowns)
    BY <1>11 DEF LatestCountdown
  <2>3. IsFiniteSet(tied)
    <3>1. IsFiniteSet(1 .. n)
      BY FS_Interval
    <3> QED
      BY <3>1, FS_Subset
  <2>4. tied # {}
    <3> HIDE DEF tied, countdowns
    <3> QED
      BY <2>1, <2>2
  <2>5. \A i \in tied : /\ i \in 1 .. n /\ Costs(e, i) = lowest
                        /\ CountdownOf(e, i) \in Int /\ minutes[i] = CountdownOf(e, i)
    <3>1. e <= e
      OBVIOUS
    <3>2. \A i \in 1 .. n : CountdownOf(e, i) # NoCountdown => CountdownOf(e, i) \in Int
      BY <3>1, CostsGrow
    <3> QED
      BY <3>2
  <2> HIDE DEF tied, minutes, countdowns
  <2>6. PICK i \in tied : \A j \in tied : minutes[j] <= minutes[i]
    <3>1. \A j \in tied : minutes[j] \in Int
      BY <2>5
    <3> QED
      BY <2>3, <2>4, <3>1, FiniteMaximum
  <2>7. CountdownOf(e, i) \in countdowns /\ \A c \in countdowns : c \in Int /\ CountdownOf(e, i) >= c
    BY <2>1, <2>5, <2>6
  <2>8. Max(countdowns) \in countdowns
    BY <2>7 DEF Max
  <2> QED
    BY <2>1, <2>2, <2>5, <2>8
<1> QED
  BY <1>4, <1>6, <1>7, <1>8, <1>9, <1>10, <1>11

-----------------------------------------------------------------------------
(* The specification.                                                       *)

ClockTypes == clock \in Int /\ \E n \in Nat : n > 0 /\ rates \in [1 .. n -> Rate]

\* The packages on a ticket are ones that can be priced, whatever is stored.
THEOREM ClockTypesHold == ClockSpec => []ClockTypes
<1>1. ClockInit => ClockTypes
  <2> SUFFICES ASSUME ClockInit PROVE ClockTypes
    OBVIOUS
  <2>1. clock \in Int
    BY TimesAreNatural DEF ClockInit
  <2>2. PICK k \in Nat, chosen \in Packages :
          \E others \in [1 .. k -> Packages] : rates = FrozenRates(chosen, others)
    BY TimesAreNatural DEF ClockInit
  <2>3. PICK others \in [1 .. k -> Packages] : rates = FrozenRates(chosen, others)
    BY <2>2
  <2>4. Len(others) = k
    <3>1. others \in Seq(Packages)
      BY <2>3
    <3> QED
      BY <2>3, <3>1
  <2>5. PICK n \in Nat : n = k + 1 /\ n > 0
    OBVIOUS
  <2>6. \A i \in 1 .. n : (IF i = 1 THEN chosen ELSE others[i - 1]) \in StoredPackage
    <3>1. \A i \in 1 .. n : i # 1 => i - 1 \in 1 .. k
      BY <2>5
    <3> QED
      BY <2>3, <3>1, PackagesAreStored
  <2>7. \A i \in 1 .. n : ResolveSessionRate(IF i = 1 THEN chosen ELSE others[i - 1]) \in Rate
    BY <2>6, ResolvedIsARate
  <2>8. rates = [i \in 1 .. n |-> ResolveSessionRate(IF i = 1 THEN chosen ELSE others[i - 1])]
    BY <2>3, <2>4, <2>5 DEF FrozenRates
  <2>9. rates \in [1 .. n -> Rate]
    BY <2>7, <2>8
  <2> QED
    BY <2>1, <2>5, <2>9 DEF ClockTypes
<1>2. ClockTypes /\ [ClockNext]_clockVars => ClockTypes'
  BY DEF ClockTypes, ClockNext, Tick, clockVars
<1> QED
  BY <1>1, <1>2, PTL DEF ClockSpec

\* A part of a minute is billed as a whole one.
LEMMA ElapsedIs ==
    ASSUME NEW at \in Int, CanQuote(at)
    PROVE  /\ Elapsed(at) \in Nat /\ at <= 2 * Elapsed(at)
           /\ \A k \in Nat : at <= 2 * k => Elapsed(at) <= k
<1>1. PICK moment \in Nat : moment = at /\ moment > 0
  BY DEF CanQuote
<1>2. PICK two \in Nat : two = 2 /\ two > 0
  OBVIOUS
<1>3. /\ CeilDiv(moment, two) \in Nat /\ moment <= two * CeilDiv(moment, two)
      /\ \A k \in Nat : moment <= two * k => CeilDiv(moment, two) <= k
  BY <1>2, CeilIs
<1> QED
  BY <1>1, <1>2, <1>3 DEF Elapsed

\* Nothing on the ticket is cheaper than what is charged, and another package is charged
\* only if it is cheaper than the one the family chose (priceSessionBestOf).
THEOREM BestPriceIsCharged == ClockSpec => []ChosenUnlessDearer
<1>1. ClockTypes => ChosenUnlessDearer
  <2> SUFFICES ASSUME ClockTypes, CanQuote(clock) PROVE ChosenUnlessDearer
    BY DEF ChosenUnlessDearer
  <2>1. PICK n \in Nat : n > 0 /\ rates \in [1 .. n -> Rate] /\ DOMAIN rates = 1 .. n
    BY DEF ClockTypes
  <2>2. PICK e \in Nat : e = Elapsed(clock)
    BY ElapsedIs DEF ClockTypes
  <2>3. QuoteAt(clock) = QuoteFor(e)
    BY <2>2 DEF QuoteAt, QuoteFor
  <2>4. /\ \A j \in 1 .. n : QuoteFor(e).lineTotal <= Costs(e, j)
        /\ QuoteFor(e).lineTotal \in Nat
        /\ QuoteFor(e).chosenLineTotal = Costs(e, 1)
        /\ QuoteFor(e).chosenLineTotal <= QuoteFor(e).lineTotal => QuoteFor(e).index = 1
    BY <2>1, QuoteIs
  <2>5. Costs(e, 1) \in Nat
    <3>1. e <= e /\ 1 \in 1 .. n
      BY <2>1
    <3> QED
      BY <2>1, <3>1, CostsGrow
  <2>6. QuoteFor(e).index # 1 => QuoteFor(e).lineTotal < QuoteFor(e).chosenLineTotal
    BY <2>4, <2>5
  <2> QED
    BY <2>1, <2>2, <2>3, <2>4, <2>6 DEF ChosenUnlessDearer, Costs
<1> QED
  BY <1>1, ClockTypesHold, PTL

\* A longer stay never costs less.
LEMMA QuotesGrow ==
    ASSUME NEW n \in Nat, n > 0, rates \in [1 .. n -> Rate], NEW e \in Nat, NEW f \in Nat, e <= f
    PROVE  QuoteFor(e).lineTotal <= QuoteFor(f).lineTotal
<1>1. PICK i \in 1 .. n : i = QuoteFor(f).index /\ QuoteFor(f).lineTotal = Costs(f, i)
  <2>1. QuoteFor(f).index \in 1 .. n /\ QuoteFor(f).lineTotal = Costs(f, QuoteFor(f).index)
    BY QuoteIs
  <2> QED
    BY <2>1
<1>2. QuoteFor(e).lineTotal \in Nat /\ QuoteFor(e).lineTotal <= Costs(e, i)
  BY QuoteIs
<1>3. Costs(e, i) \in Nat /\ Costs(f, i) \in Nat /\ Costs(e, i) <= Costs(f, i)
  BY CostsGrow
<1> QED
  BY <1>1, <1>2, <1>3

\* A family that stays a minute longer never pays less (priceSessionBestOf).
THEOREM StayingNeverPaysOff == ClockSpec => StayingNeverGetsCheaper
<1>1. ClockTypes /\ [ClockNext]_clockVars =>
        [CanQuote(clock) => QuoteAt(clock').lineTotal >= QuoteAt(clock).lineTotal]_clockVars
  <2> SUFFICES ASSUME ClockTypes, ClockNext, CanQuote(clock)
               PROVE  QuoteAt(clock').lineTotal >= QuoteAt(clock).lineTotal
    BY DEF clockVars
  <2>1. PICK n \in Nat : n > 0 /\ rates \in [1 .. n -> Rate]
    BY DEF ClockTypes
  <2>2. clock \in Int /\ clock' = clock + 1 /\ CanQuote(clock')
    BY DEF ClockTypes, ClockNext, Tick, CanQuote
  <2>3. PICK e \in Nat : e = Elapsed(clock) /\ \A k \in Nat : clock <= 2 * k => e <= k
    BY <2>2, ElapsedIs
  <2>4. PICK f \in Nat : f = Elapsed(clock') /\ clock' <= 2 * f
    BY <2>2, ElapsedIs
  <2>5. e <= f
    BY <2>2, <2>3, <2>4
  <2>6. PICK a \in Nat, b \in Nat : a = QuoteFor(e).lineTotal /\ b = QuoteFor(f).lineTotal
    BY <2>1, QuoteIs
  <2>7. a <= b
    BY <2>1, <2>5, <2>6, QuotesGrow
  <2> QED
    BY <2>3, <2>4, <2>6, <2>7 DEF QuoteAt, QuoteFor
<1> QED
  BY <1>1, ClockTypesHold, PTL DEF ClockSpec, StayingNeverGetsCheaper

\* Nothing more is charged until a minute before the instant announced.
THEOREM NothingIsDueBefore == ClockSpec => []NothingDueBeforeTheCountdown
<1>1. ClockTypes => NothingDueBeforeTheCountdown
  <2> SUFFICES ASSUME ClockTypes, CanQuote(clock), NextChargeAt(clock) # NoCountdown,
                      NEW at \in clock + 1 .. NextChargeAt(clock) - 2
               PROVE  PriceAt(at) = PriceAt(clock)
    BY DEF NothingDueBeforeTheCountdown
  <2>1. PICK n \in Nat : n > 0 /\ rates \in [1 .. n -> Rate]
    BY DEF ClockTypes
  <2>2. clock \in Int
    BY DEF ClockTypes
  <2>3. PICK e \in Nat : e = Elapsed(clock) /\ clock <= 2 * e
    BY <2>2, ElapsedIs
  <2>4. QuoteAt(clock) = QuoteFor(e)
    BY <2>3 DEF QuoteAt, QuoteFor
  <2>5. QuoteFor(e).minutesUntilNextCharge # NoCountdown
    BY <2>4 DEF NextChargeAt
  <2>6. PICK j \in 1 .. n :
          /\ Costs(e, j) = QuoteFor(e).lineTotal
          /\ CountdownOf(e, j) \in Int
          /\ QuoteFor(e).minutesUntilNextCharge = CountdownOf(e, j)
    BY <2>1, <2>5, QuoteIs
  <2>7. PICK minutes \in Int : minutes = CountdownOf(e, j) /\ NextChargeAt(clock) = clock + 2 * minutes
    BY <2>4, <2>5, <2>6 DEF NextChargeAt
  <2>8. at \in Int /\ at > clock /\ at <= clock + 2 * minutes - 2 /\ CanQuote(at)
    BY <2>2, <2>7 DEF CanQuote
  <2>9. PICK f \in Nat : f = Elapsed(at) /\ at <= 2 * f /\ \A k \in Nat : at <= 2 * k => f <= k
    BY <2>8, ElapsedIs
  <2>10. e <= f
    <3>1. clock <= 2 * f
      BY <2>2, <2>8, <2>9
    <3> QED
      BY <2>2, <2>3, <3>1, ElapsedIs
  <2>11. f < e + minutes
    <3>1. PICK k \in Nat : k = e + minutes - 1 /\ at <= 2 * k
      BY <2>2, <2>3, <2>8
    <3>2. f <= k
      BY <2>9, <3>1
    <3> QED
      BY <3>1, <3>2
  <2>12. Costs(f, j) = Costs(e, j)
    <3>1. CountdownOf(e, j) # NoCountdown
      BY <2>5, <2>6
    <3> QED
      BY <2>1, <2>7, <2>10, <2>11, <3>1, CostsGrow
  <2>13. QuoteFor(f).lineTotal \in Nat /\ QuoteFor(f).lineTotal <= Costs(f, j)
    BY <2>1, QuoteIs
  <2>14. QuoteFor(e).lineTotal \in Nat /\ QuoteFor(e).lineTotal <= QuoteFor(f).lineTotal
    BY <2>1, <2>10, QuoteIs, QuotesGrow
  <2>15. QuoteFor(f).lineTotal = QuoteFor(e).lineTotal
    BY <2>6, <2>12, <2>13, <2>14
  <2> QED
    BY <2>3, <2>9, <2>15 DEF PriceAt, QuoteAt, QuoteFor
<1> QED
  BY <1>1, ClockTypesHold, PTL

-----------------------------------------------------------------------------
(* The meter.                                                               *)

\* What the minutes up to m come to, each at the price of its unit, before the division.
Minutes(rate, m) == SumFunctionOnSet([i \in Nat |-> MinuteRate(rate, i)], 1 .. m)

\* The meter runs at the price of the unit the minute lies in.
LEMMA MinuteRateIs ==
    ASSUME NEW rate \in UnitRate, NEW n \in Nat, NEW i \in Nat,
           UnitLength(rate) * n < i, i <= UnitLength(rate) * (n + 1)
    PROVE  MinuteRate(rate, i) = UnitPrice(rate, n + 1)
<1>1. CASE rate.pricingMode # "TIERED_HOURLY"
  BY <1>1 DEF MinuteRate, UnitPrice
<1>2. CASE rate.pricingMode = "TIERED_HOURLY"
  <2>1. PICK unit \in Nat : unit = 60 /\ unit > 0 /\ UnitLength(rate) = unit /\ TierMinutes = unit
    BY <1>2 DEF UnitLength, TierMinutes
  <2>2. PICK q \in Nat : /\ q = CeilDiv(i, unit) /\ i <= unit * q
                         /\ \A k \in Nat : i <= unit * k => q <= k
    BY <2>1, CeilIs
  <2>3. q <= n + 1
    <3>1. n + 1 \in Nat /\ i <= unit * (n + 1)
      BY <2>1
    <3> QED
      BY <2>2, <3>1
  <2>4. ASSUME q <= n PROVE FALSE
    <3>1. unit * q <= unit * n
      BY <2>4
    <3> QED
      BY <2>1, <2>2, <3>1
  <2>5. q = n + 1
    BY <2>3, <2>4
  <2> QED
    BY <1>2, <2>1, <2>2, <2>5 DEF MinuteRate, UnitPrice
<1> QED
  BY <1>1, <1>2

\* The minutes of one unit come to its price.
LEMMA MinutesOfUnit ==
    ASSUME NEW rate \in UnitRate, NEW n \in Nat, NEW s \in Nat, s <= UnitLength(rate)
    PROVE  /\ Minutes(rate, UnitLength(rate) * n + s)
                = Minutes(rate, UnitLength(rate) * n) + s * UnitPrice(rate, n + 1)
           /\ Minutes(rate, UnitLength(rate) * n) \in Int
<1> DEFINE v == [i \in Nat |-> MinuteRate(rate, i)]
<1>1. PICK unit \in Nat : unit = UnitLength(rate) /\ unit > 0
  BY UnitLengthIs
<1>2. PICK before \in Nat, whole \in Nat : before = unit * n /\ whole = before + s
  OBVIOUS
<1>3. PICK price \in Nat : price = UnitPrice(rate, n + 1)
  <2>1. n + 1 \in Nat /\ n + 1 > 0
    OBVIOUS
  <2> QED
    BY <2>1, UnitPriceIs
<1> DEFINE w == [i \in 1 .. s |-> price]
<1>4. \A i \in Nat : i > 0 => v[i] \in Int
  <2> SUFFICES ASSUME NEW i \in Nat, i > 0 PROVE v[i] \in Int
    OBVIOUS
  <2>1. PICK j \in Nat : j = i - 1
    BY i - 1 \in Nat
  <2>2. PICK k \in Nat, r \in Nat : r < unit /\ j = unit * k + r
    BY <1>1, UnitsAndRest
  <2>3. unit * (k + 1) = unit * k + unit
    BY <1>1
  <2>4. unit * k < i /\ i <= unit * (k + 1)
    BY <2>1, <2>2, <2>3
  <2>5. MinuteRate(rate, i) = UnitPrice(rate, k + 1)
    BY <1>1, <2>4, MinuteRateIs
  <2>6. UnitPrice(rate, k + 1) \in Nat
    <3>1. k + 1 \in Nat /\ k + 1 > 0
      OBVIOUS
    <3> QED
      BY <3>1, UnitPriceIs
  <2> QED
    BY <2>5, <2>6
<1>5. \A i \in 1 .. s : v[before + i] = price
  <2> SUFFICES ASSUME NEW i \in 1 .. s PROVE v[before + i] = price
    OBVIOUS
  <2>1. PICK j \in Nat : j = before + i
    BY <1>2
  <2>2. unit * (n + 1) = unit * n + unit
    BY <1>1
  <2>3. UnitLength(rate) * n < j /\ j <= UnitLength(rate) * (n + 1)
    BY <1>1, <1>2, <2>1, <2>2
  <2> QED
    BY <1>3, <2>1, <2>3, MinuteRateIs
<1>6. Minutes(rate, whole) = SumFunctionOnSet(v, 1 .. whole)
      /\ Minutes(rate, before) = SumFunctionOnSet(v, 1 .. before)
  BY DEF Minutes
<1> HIDE DEF v
<1>7. SumFunctionOnSet(v, 1 .. whole) = SumFunctionOnSet(v, 1 .. before) + SumFunctionOnSet(w, 1 .. s)
  <2>1. \A i \in 1 .. whole : v[i] \in Int
    BY <1>4
  <2>2. \A i \in 1 .. s : w[i] = v[before + i]
    BY <1>5
  <2> HIDE DEF w
  <2> QED
    BY <1>2, <2>1, <2>2, SumOfJoined
<1>8. SumFunctionOnSet(w, 1 .. s) = s * price
  <2>1. price \in Int /\ \A i \in 1 .. s : w[i] = price
    OBVIOUS
  <2> HIDE DEF w
  <2> QED
    BY <2>1, SumOfAlike
<1>9. SumFunctionOnSet(v, 1 .. before) \in Int
  <2>1. IsFiniteSet(1 .. before) /\ \A i \in 1 .. before : v[i] \in Int
    BY <1>4, FS_Interval
  <2> QED
    BY <2>1, SumStep
<1> QED
  BY <1>1, <1>2, <1>3, <1>6, <1>7, <1>8, <1>9

\* And those of whole units to their cost.
LEMMA MinutesOfUnits ==
    ASSUME NEW rate \in UnitRate, NEW n \in Nat
    PROVE  Minutes(rate, UnitLength(rate) * n) = UnitLength(rate) * Cost(rate, n)
<1>1. PICK unit \in Nat : unit = UnitLength(rate) /\ unit > 0
  BY UnitLengthIs
<1> DEFINE Good == {k \in Nat : Minutes(rate, unit * k) = unit * Cost(rate, k)}
<1>2. 0 \in Good
  <2>1. unit * 0 = 0 /\ Cost(rate, 0) = 0
    BY <1>1, CostIs
  <2>2. Minutes(rate, 0) = 0
    <3> DEFINE v == [i \in Nat |-> MinuteRate(rate, i)]
    <3>1. Minutes(rate, 0) = SumFunctionOnSet(v, 1 .. 0)
      BY DEF Minutes
    <3>2. IsFiniteSet(1 .. 0) /\ 1 .. 0 = {}
      BY FS_Interval
    <3> HIDE DEF v
    <3> QED
      BY <3>1, <3>2, SumStep
  <2> QED
    BY <2>1, <2>2
<1>3. ASSUME NEW k \in Good PROVE k + 1 \in Good
  <2>1. k \in Nat /\ Minutes(rate, unit * k) = unit * Cost(rate, k)
    OBVIOUS
  <2>2. PICK c \in Nat, p \in Nat :
          c = Cost(rate, k) /\ p = UnitPrice(rate, k + 1) /\ Cost(rate, k + 1) = c + p
    <3>1. k + 1 \in Nat /\ k + 1 > 0
      BY <2>1
    <3> QED
      BY <2>1, <3>1, CostIs, UnitPriceIs
  <2>3. Minutes(rate, unit * k + unit) = unit * c + unit * p
    <3>1. unit <= UnitLength(rate)
      BY <1>1
    <3>2. Minutes(rate, unit * k + unit) = Minutes(rate, unit * k) + unit * UnitPrice(rate, k + 1)
      BY <1>1, <2>1, <3>1, MinutesOfUnit
    <3> QED
      BY <2>1, <2>2, <3>2
  <2>4. unit * (k + 1) = unit * k + unit /\ unit * (c + p) = unit * c + unit * p
    BY <1>1, <2>1
  <2> QED
    BY <2>1, <2>2, <2>3, <2>4
<1>4. Good \in SUBSET Nat
  OBVIOUS
<1> HIDE DEF Good
<1>5. Good = Nat
  BY <1>2, <1>3, <1>4, SetInduction
<1> QED
  BY <1>1, <1>5 DEF Good

\* The meter, after whole units and a part of the next one.
LEMMA MeterIs ==
    ASSUME NEW rate \in UnitRate, NEW n \in Nat, NEW s \in Nat, s <= UnitLength(rate)
    PROVE  Metered(rate, UnitLength(rate) * n + s)
            = Cost(rate, n) + RoundDiv(UnitPrice(rate, n + 1) * s, UnitLength(rate))
<1>1. PICK unit \in Nat : unit = UnitLength(rate) /\ unit > 0
  BY UnitLengthIs
<1>2. PICK c \in Nat : c = Cost(rate, n)
  BY CostIs
<1>3. PICK price \in Nat : price = UnitPrice(rate, n + 1)
  <2>1. n + 1 \in Nat /\ n + 1 > 0
    OBVIOUS
  <2> QED
    BY <2>1, UnitPriceIs
<1>4. PICK m \in Nat : m = unit * n + s
  OBVIOUS
<1>5. Minutes(rate, m) = unit * c + price * s
  <2>1. Minutes(rate, m) = Minutes(rate, unit * n) + s * UnitPrice(rate, n + 1)
    BY <1>1, <1>4, MinutesOfUnit
  <2>2. Minutes(rate, unit * n) = unit * c
    BY <1>1, <1>2, MinutesOfUnits
  <2> QED
    BY <1>3, <2>1, <2>2
<1>6. SumFunction([i \in 1 .. m |-> MinuteRate(rate, i)]) = Minutes(rate, m)
  <2> DEFINE v == [i \in Nat |-> MinuteRate(rate, i)]
             w == [i \in 1 .. m |-> MinuteRate(rate, i)]
  <2>1. SumFunction(w) = SumFunctionOnSet(w, 1 .. m)
    BY DEF SumFunction
  <2>2. Minutes(rate, m) = SumFunctionOnSet(v, 1 .. m)
    BY DEF Minutes
  <2>3. \A i \in 1 .. m : w[i] = v[i] /\ v[i] \in Int
    <3> SUFFICES ASSUME NEW i \in 1 .. m PROVE w[i] = v[i] /\ v[i] \in Int
      OBVIOUS
    <3>1. PICK j \in Nat : j = i - 1
      BY i - 1 \in Nat
    <3>2. PICK k \in Nat, r \in Nat : r < unit /\ j = unit * k + r
      BY <1>1, UnitsAndRest
    <3>3. unit * (k + 1) = unit * k + unit
      BY <1>1
    <3>4. i \in Nat /\ unit * k < i /\ i <= unit * (k + 1)
      BY <3>1, <3>2, <3>3
    <3>5. MinuteRate(rate, i) = UnitPrice(rate, k + 1)
      BY <1>1, <3>4, MinuteRateIs
    <3>6. UnitPrice(rate, k + 1) \in Nat
      <4>1. k + 1 \in Nat /\ k + 1 > 0
        OBVIOUS
      <4> QED
        BY <4>1, UnitPriceIs
    <3> QED
      BY <3>5, <3>6
  <2>4. IsFiniteSet(1 .. m)
    BY FS_Interval
  <2> HIDE DEF v, w
  <2>5. SumFunctionOnSet(v, 1 .. m) = SumFunctionOnSet(w, 1 .. m)
    BY <2>3, <2>4, SumSame
  <2> QED
    BY <2>1, <2>2, <2>5 DEF w
<1>7. Metered(rate, m) = RoundDiv(unit * c + price * s, unit)
  BY <1>1, <1>5, <1>6 DEF Metered
<1>8. PICK a \in Nat : a = price * s
  OBVIOUS
<1>9. RoundDiv(unit * c + a, unit) = c + RoundDiv(a, unit)
  BY <1>1, RoundOfUnits
<1> QED
  BY <1>1, <1>2, <1>3, <1>4, <1>7, <1>8, <1>9

\* The meter, after whole units.
LEMMA MeterOfUnits ==
    ASSUME NEW rate \in UnitRate, NEW n \in Nat
    PROVE  Metered(rate, UnitLength(rate) * n) = Cost(rate, n)
<1>1. PICK unit \in Nat : unit = UnitLength(rate) /\ unit > 0
  BY UnitLengthIs
<1>2. PICK c \in Nat : c = Cost(rate, n)
  BY CostIs
<1>3. PICK price \in Nat : price = UnitPrice(rate, n + 1)
  <2>1. n + 1 \in Nat /\ n + 1 > 0
    OBVIOUS
  <2> QED
    BY <2>1, UnitPriceIs
<1>4. PICK none \in Nat : none = 0
  OBVIOUS
<1>5. none <= UnitLength(rate)
  BY <1>1, <1>4
<1>6. Metered(rate, unit * n + none) = c + RoundDiv(price * none, unit)
  BY <1>1, <1>2, <1>3, <1>5, MeterIs
<1>7. unit * n + none = unit * n /\ price * none = 0
  BY <1>4
<1>8. RoundDiv(0, unit) = 0
  <2>1. 0 \in Nat /\ 0 <= unit * 0
    OBVIOUS
  <2>2. RoundDiv(0, unit) \in Nat /\ RoundDiv(0, unit) <= 0
    BY <1>1, <2>1, RoundIs, RoundWithin
  <2> QED
    BY <2>2
<1> QED
  BY <1>1, <1>2, <1>6, <1>7, <1>8

\* Within the grace a stay costs the whole units, past it every minute since the last one
\* (priceTieredSession, priceSession).
THEOREM GraceThenMetered == ClockSpec => []GraceThenEveryMinute
<1>1. ClockTypes => GraceThenEveryMinute
  <2> SUFFICES ASSUME ClockTypes, CanQuote(clock), NEW i \in DOMAIN rates,
                      rates[i].pricingMode # "PRORATA"
               PROVE  LET rate == rates[i]
                          unit == UnitLength(rate)
                          m == Elapsed(clock)
                          whole == AtLeast(m \div unit, 1) * unit
                          price == PriceSession(rate, m)
                          graced == m <= whole + AtMost(rate.graceMinutes, unit - 1)
                      IN  IF graced THEN price.rawTotal = Metered(rate, whole)
                          ELSE /\ price.rawTotal >= Metered(rate, m)
                               /\ price.rawTotal <= Metered(rate, whole + unit)
                               /\ \/ price.rawTotal = Metered(rate, m)
                                  \/ /\ rate.tieredPricing # NoTiers
                                     /\ rate.tieredPricing.overtimeMode = "BLOCK"
    BY DEF GraceThenEveryMinute
  <2>1. PICK rate \in UnitRate : rate = rates[i]
    BY DEF ClockTypes, UnitRate
  <2>2. PICK m \in Nat : m = Elapsed(clock)
    BY ElapsedIs DEF ClockTypes
  <2>3. PICK unit \in Nat : unit = UnitLength(rate) /\ unit > 0
    BY UnitLengthIs
  <2>4. PICK u \in Nat, r \in Nat :
          /\ m = unit * u + r /\ r < unit /\ u = m \div unit
          /\ PriceSession(rate, m).rawTotal = Raw(rate, u, r)
    BY <2>3, UnitsArePriced DEF IsPriced
  <2>5. PICK c \in Nat : c = AtLeast(u, 1) /\ c = IF u > 1 THEN u ELSE 1
    BY DEF AtLeast
  <2>6. PICK grace \in Nat : grace = rate.graceMinutes
    BY DEF UnitRate, Rate, StoredPackage
  <2>7. PICK whole \in Nat : whole = c * unit /\ whole = unit * c
    OBVIOUS
  <2>8. PICK most \in Int : /\ most = AtMost(grace, unit - 1)
                            /\ most = IF grace < unit - 1 THEN grace ELSE unit - 1
    BY DEF AtMost
  <2>9. PICK raw \in Nat : raw = Raw(rate, u, r)
    <3>1. u = u /\ r <= r
      OBVIOUS
    <3>2. Raw(rate, u, r) \in Nat
      BY <2>3, <2>4, <3>1, RawGrows
    <3> QED
      BY <3>2
  <2>10. ASSUME m <= whole + most PROVE raw = Metered(rate, whole)
    <3>1. ~ Chargeable(u, r, grace)
      <4>1. u >= 1 => whole = unit * u
        BY <2>5, <2>7
      <4>2. u >= 1 => r <= grace
        BY <2>4, <2>8, <2>10, <4>1
      <4> QED
        BY <4>2 DEF Chargeable
    <3>2. raw = Cost(rate, c)
      <4>1. PICK x \in Nat : x = Cost(rate, c)
        BY CostIs
      <4> QED
        BY <2>5, <2>6, <2>9, <3>1, <4>1 DEF Raw, Extra
    <3>3. Metered(rate, whole) = Cost(rate, c)
      BY <2>3, <2>7, MeterOfUnits
    <3> QED
      BY <3>2, <3>3
  <2>11. ASSUME ~ (m <= whole + most)
         PROVE  /\ raw >= Metered(rate, m)
                /\ raw <= Metered(rate, whole + unit)
                /\ \/ raw = Metered(rate, m)
                   \/ /\ rate.tieredPricing # NoTiers
                      /\ rate.tieredPricing.overtimeMode = "BLOCK"
    <3>1. u >= 1 /\ c = u
      <4>1. CASE u = 0
        <5>1. unit * u = 0 /\ whole = unit
          BY <2>5, <2>7, <4>1
        <5> QED
          BY <2>4, <2>8, <2>11, <5>1
      <4> QED
        BY <2>5, <4>1
    <3>2. r > grace
      BY <2>4, <2>7, <2>8, <2>11, <3>1
    <3>3. Chargeable(u, r, grace)
      BY <3>1, <3>2 DEF Chargeable
    <3>4. PICK x \in Nat, price \in Nat :
            x = Cost(rate, u) /\ price = UnitPrice(rate, u + 1) /\ Cost(rate, u + 1) = x + price
      <4>1. u + 1 \in Nat /\ u + 1 > 0
        OBVIOUS
      <4>2. UnitPrice(rate, u + 1) \in Nat
        BY <4>1, UnitPriceIs
      <4>3. Cost(rate, u) \in Nat /\ Cost(rate, u + 1) = Cost(rate, u) + UnitPrice(rate, u + 1)
        BY CostIs
      <4> QED
        BY <4>2, <4>3
    <3>5. PICK paid \in Nat :
            /\ paid = Paid(rate, r) /\ r <= paid /\ paid <= unit
            /\ rate.pricingMode # "TIERED_HOURLY" => paid = r
            /\ rate.pricingMode = "TIERED_HOURLY" /\ rate.tieredPricing.overtimeMode # "BLOCK" => paid = r
      <4>1. r <= r /\ r <= UnitLength(rate)
        BY <2>3, <2>4
      <4>2. Paid(rate, r) \in Nat /\ r <= Paid(rate, r) /\ Paid(rate, r) <= unit
        BY <2>3, <4>1, PaidIs
      <4>3. /\ rate.pricingMode # "TIERED_HOURLY" => Paid(rate, r) = r
            /\ rate.pricingMode = "TIERED_HOURLY" /\ rate.tieredPricing.overtimeMode # "BLOCK" =>
                Paid(rate, r) = r
        BY DEF Paid, ChargedMinutes
      <4> QED
        BY <4>2, <4>3
    <3>6. PICK a \in Nat, b \in Nat :
            /\ a = price * r /\ b = price * paid /\ a <= b /\ b <= unit * price
            /\ paid = r => a = b
      <4>1. PICK a \in Nat, b \in Nat : a = price * r /\ b = price * paid
        OBVIOUS
      <4>2. price * r <= price * paid /\ price * paid <= price * unit
        BY <3>5
      <4> QED
        BY <4>1, <4>2
    <3>7. PICK d \in Nat, e \in Nat :
            /\ d = RoundDiv(a, unit) /\ e = RoundDiv(b, unit)
            /\ d <= e /\ e <= price
      <4>1. RoundDiv(a, unit) \in Nat /\ RoundDiv(b, unit) \in Nat
        BY <2>3, RoundIs
      <4>2. RoundDiv(a, unit) <= RoundDiv(b, unit) /\ RoundDiv(b, unit) <= price
        BY <2>3, <3>6, RoundGrows, RoundWithin
      <4> QED
        BY <4>1, <4>2
    <3>8. raw = x + e
      <4>1. Extra(rate, u, r) = e
        BY <2>3, <2>6, <3>3, <3>4, <3>5, <3>6, <3>7 DEF Extra
      <4> QED
        BY <2>5, <2>9, <3>1, <3>4, <4>1 DEF Raw
    <3>9. Metered(rate, m) = x + d
      <4>1. r <= UnitLength(rate)
        BY <2>3, <2>4
      <4>2. Metered(rate, unit * u + r) = Cost(rate, u) + RoundDiv(UnitPrice(rate, u + 1) * r, unit)
        BY <2>3, <4>1, MeterIs
      <4> QED
        BY <2>4, <3>4, <3>6, <3>7, <4>2
    <3>10. Metered(rate, whole + unit) = x + price
      <4>1. PICK n \in Nat : n = u + 1
        OBVIOUS
      <4>2. unit * n = unit * u + unit
        BY <4>1
      <4>3. whole + unit = unit * n
        BY <2>7, <3>1, <4>2
      <4>4. Metered(rate, unit * n) = Cost(rate, n)
        BY <2>3, MeterOfUnits
      <4> QED
        BY <3>4, <4>1, <4>3, <4>4
    <3>11. paid = r => e = d
      BY <3>6, <3>7
    <3>12. \/ paid = r
           \/ rate.tieredPricing # NoTiers /\ rate.tieredPricing.overtimeMode = "BLOCK"
      BY <3>5 DEF UnitRate, Rate
    <3> QED
      BY <3>7, <3>8, <3>9, <3>10, <3>11, <3>12
  <2> QED
    BY <2>1, <2>2, <2>3, <2>4, <2>5, <2>6, <2>7, <2>8, <2>9, <2>10, <2>11
<1> QED
  BY <1>1, ClockTypesHold, PTL

\* The charge is the least of prices that are what a meter allows, whatever the packages.
THEOREM PriceIsFair == ClockSpec => []FairPrice
<1>1. ChosenUnlessDearer /\ GraceThenEveryMinute => FairPrice
  BY DEF FairPrice
<1> QED
  BY <1>1, BestPriceIsCharged, GraceThenMetered, PTL

-----------------------------------------------------------------------------
(* A line on paper.                                                         *)

\* The parts of a breakdown, for u whole units and r minutes.
IsBrokenDown(rate, m, u, r) ==
    LET breakdown == PriceSession(rate, m)
        hours == AtLeast(u, 1)
    IN  /\ breakdown.blocksCharged = hours
        /\ breakdown.blockSubtotal = Cost(rate, hours)
        /\ breakdown.overageAmount = Extra(rate, u, r)
        /\ breakdown.overageMinutes = (IF Chargeable(u, r, rate.graceMinutes) THEN r ELSE 0)
        /\ breakdown.graceApplied = (u >= 1 /\ r > 0 /\ ~ Chargeable(u, r, rate.graceMinutes))
        /\ breakdown.roundingAdjustment = breakdown.lineTotal - breakdown.rawTotal
        /\ rate.pricingMode = "TIERED_HOURLY" =>
            breakdown.hourLines = [h \in 1 .. hours |-> UnitPrice(rate, h)]

\* Blocks and tiered hours are broken down in that form.
LEMMA UnitsAreBrokenDown ==
    ASSUME NEW rate \in UnitRate, NEW m \in Nat, NEW u \in Nat, NEW r \in Nat,
           IsPriced(rate, m, u, r)
    PROVE  IsBrokenDown(rate, m, u, r)
<1>1. PICK unit \in Nat : unit = UnitLength(rate) /\ unit > 0
  BY UnitLengthIs
<1>2. u = m \div unit /\ r < unit /\ m = unit * u + r
  BY <1>1 DEF IsPriced
<1>3. r = m % unit
  <2>1. PICK q \in Nat, s \in Nat : q = m \div unit /\ s = m % unit /\ m = unit * q + s
    <3>1. m \div unit \in Nat /\ m % unit \in Nat /\ m = unit * (m \div unit) + (m % unit)
      BY <1>1, DivisionIs
    <3> QED
      BY <3>1
  <2>2. q = u
    BY <1>2, <2>1
  <2>3. unit * q = unit * u
    BY <2>2
  <2>4. s = r
    BY <1>2, <2>1, <2>3
  <2> QED
    BY <2>1, <2>4
<1>4. CASE rate.pricingMode = "TIERED_HOURLY"
  <2>1. PriceSession(rate, m) = PriceTieredSession(rate, m)
    BY <1>4, Zenon DEF PriceSession
  <2>2. unit = TierMinutes
    BY <1>1, <1>4 DEF UnitLength
  <2> DEFINE hours == AtLeast(u, 1)
             lines == [h \in 1 .. hours |-> UnitPrice(rate, h)]
  <2>3. lines = [h \in 1 .. hours |-> TierRate(rate.tieredPricing.hourlyRates, h)]
    BY <1>4 DEF UnitPrice
  <2>4. SumFunction(lines) = Cost(rate, hours)
    BY HoursAddUp
  <2>5. Extra(rate, u, r) =
          RoundDiv(TierRate(rate.tieredPricing.hourlyRates, u + 1)
                    * (IF Chargeable(u, r, rate.graceMinutes)
                       THEN ChargedMinutes(rate.tieredPricing, r) ELSE 0), TierMinutes)
    BY <1>4, TieredExtra
  <2>6. PriceTieredSession(rate, m).hourLines = lines
    BY <1>2, <2>2, <2>3 DEF PriceTieredSession
  <2>7. /\ PriceTieredSession(rate, m).blocksCharged = hours
        /\ PriceTieredSession(rate, m).blockSubtotal = Cost(rate, hours)
    BY <1>2, <2>2, <2>3, <2>4 DEF PriceTieredSession
  <2>8. PriceTieredSession(rate, m).overageAmount = Extra(rate, u, r)
    BY <1>2, <1>3, <2>2, <2>5 DEF PriceTieredSession
  <2>9. /\ PriceTieredSession(rate, m).overageMinutes
              = (IF Chargeable(u, r, rate.graceMinutes) THEN r ELSE 0)
        /\ PriceTieredSession(rate, m).graceApplied
              = (u >= 1 /\ r > 0 /\ ~ Chargeable(u, r, rate.graceMinutes))
    BY <1>2, <1>3, <2>2 DEF PriceTieredSession
  <2>10. PriceTieredSession(rate, m).roundingAdjustment
           = PriceTieredSession(rate, m).lineTotal - PriceTieredSession(rate, m).rawTotal
    BY DEF PriceTieredSession
  <2> HIDE DEF lines
  <2> QED
    BY <2>1, <2>6, <2>7, <2>8, <2>9, <2>10 DEF IsBrokenDown, lines
<1>5. CASE rate.pricingMode # "TIERED_HOURLY"
  <2>1. PriceSession(rate, m) = PriceBlockSession(rate, m)
    <3>1. rate.pricingMode = "BLOCK_WITH_GRACE"
      BY <1>5 DEF UnitRate, Rate, StoredPackage
    <3> QED
      BY <3>1, Zenon DEF PriceSession
  <2>2. unit = rate.rateDurationMinutes
    BY <1>1, <1>5 DEF UnitLength
  <2>3. Cost(rate, AtLeast(u, 1)) = AtLeast(u, 1) * rate.unitPrice
    <3>1. AtLeast(u, 1) \in Nat
      BY DEF AtLeast
    <3> QED
      BY <1>5, <3>1, CostOfBlocks
  <2>4. Extra(rate, u, r) = IF Chargeable(u, r, rate.graceMinutes)
                            THEN RoundDiv(rate.unitPrice * r, unit) ELSE 0
    BY <1>1, <1>5 DEF Extra, Paid, UnitPrice
  <2>5. /\ PriceBlockSession(rate, m).blocksCharged = AtLeast(u, 1)
        /\ PriceBlockSession(rate, m).blockSubtotal = Cost(rate, AtLeast(u, 1))
        /\ PriceBlockSession(rate, m).overageAmount = Extra(rate, u, r)
    BY <1>2, <1>3, <2>2, <2>3, <2>4 DEF PriceBlockSession, Untiered
  <2>6. /\ PriceBlockSession(rate, m).overageMinutes
              = (IF Chargeable(u, r, rate.graceMinutes) THEN r ELSE 0)
        /\ PriceBlockSession(rate, m).graceApplied
              = (u >= 1 /\ r > 0 /\ ~ Chargeable(u, r, rate.graceMinutes))
    BY <1>2, <1>3, <2>2 DEF PriceBlockSession, Untiered
  <2>7. PriceBlockSession(rate, m).roundingAdjustment
          = PriceBlockSession(rate, m).lineTotal - PriceBlockSession(rate, m).rawTotal
    <3>1. PICK raw \in Nat : raw = Raw(rate, u, r)
      <4>1. u = u /\ r <= r
        OBVIOUS
      <4>2. Raw(rate, u, r) \in Nat
        BY <1>1, <1>2, <4>1, RawGrows
      <4> QED
        BY <4>2
    <3>2. PriceBlockSession(rate, m).lineTotal = raw /\ PriceBlockSession(rate, m).rawTotal = raw
      BY <1>5, <2>1, <3>1 DEF IsPriced, Rounded
    <3>3. PriceBlockSession(rate, m).roundingAdjustment = 0
      BY DEF PriceBlockSession, Untiered
    <3> QED
      BY <3>1, <3>2, <3>3
  <2> QED
    BY <1>5, <2>1, <2>5, <2>6, <2>7 DEF IsBrokenDown
<1> QED
  BY <1>4, <1>5

\* Every hour past the table costs what the last one in it costs.
LEMMA HoursPastTheTable ==
    ASSUME NEW rate \in UnitRate, rate.pricingMode = "TIERED_HOURLY", NEW n \in Nat
    PROVE  /\ Cost(rate, n + 3) = Cost(rate, 3) + n * UnitPrice(rate, 4)
           /\ \A h \in Nat : h >= 4 => UnitPrice(rate, h) = UnitPrice(rate, 4)
<1> DEFINE v == [h \in Nat |-> UnitPrice(rate, h)]
           w == [h \in 1 .. n |-> UnitPrice(rate, 4)]
<1>1. \A h \in Nat : h >= 4 => UnitPrice(rate, h) = UnitPrice(rate, 4)
  <2>1. PICK prices \in Seq(Nat) : prices = rate.tieredPricing.hourlyRates /\ Len(prices) = 4
    BY DEF UnitRate, Rate, TierTable, TierCount
  <2>2. \A h \in Nat : h >= 4 => UnitPrice(rate, h) = prices[4]
    BY <2>1 DEF UnitPrice, TierRate, AtMost
  <2> QED
    BY <2>2
<1>2. PICK price \in Nat : price = UnitPrice(rate, 4)
  <2>1. 4 \in Nat /\ 4 > 0
    OBVIOUS
  <2> QED
    BY <2>1, UnitPriceIs
<1>3. PICK three \in Nat, whole \in Nat : three = 3 /\ whole = three + n
  OBVIOUS
<1>4. \A i \in 1 .. whole : v[i] \in Int
  BY UnitPriceIs
<1>5. \A i \in 1 .. n : w[i] = v[three + i] /\ w[i] = price
  <2> SUFFICES ASSUME NEW i \in 1 .. n PROVE w[i] = v[three + i] /\ w[i] = price
    OBVIOUS
  <2>1. PICK h \in Nat : h = three + i /\ h >= 4
    BY <1>3
  <2>2. v[h] = UnitPrice(rate, h)
    OBVIOUS
  <2> QED
    BY <1>1, <1>2, <2>1, <2>2
<1>6. Cost(rate, whole) = SumFunctionOnSet(v, 1 .. whole)
      /\ Cost(rate, three) = SumFunctionOnSet(v, 1 .. three)
  BY DEF Cost
<1> HIDE DEF v, w
<1>7. SumFunctionOnSet(v, 1 .. whole) = SumFunctionOnSet(v, 1 .. three) + SumFunctionOnSet(w, 1 .. n)
  <2>1. \A i \in 1 .. n : w[i] = v[three + i]
    BY <1>5
  <2>2. whole = three + n
    BY <1>3
  <2> QED
    BY <1>4, <2>1, <2>2, SumOfJoined
<1>8. SumFunctionOnSet(w, 1 .. n) = n * price
  BY <1>5, SumOfAlike
<1> QED
  BY <1>1, <1>2, <1>3, <1>6, <1>7, <1>8

\* A row of hours.
HourRowType == [from : Nat, to : Nat, rate : Nat, amount : Nat]

\* Three rows and one below them.
LEMMA ThreeAndOne ==
    ASSUME NEW top \in Seq(HourRowType), Len(top) = 3, NEW x \in HourRowType
    PROVE  \E rows \in Seq(HourRowType) :
            /\ rows = top \o <<x>> /\ Len(rows) = 4 /\ rows[4] = x
            /\ \A h \in 1 .. 3 : rows[h] = top[h]
<1>1. /\ Append(top, x) \in Seq(HourRowType)
      /\ Append(top, x) # << >>
      /\ Len(Append(top, x)) = Len(top)+1
      /\ \A i \in 1.. Len(top) : Append(top, x)[i] = top[i]
      /\ Append(top, x)[Len(top)+1] = x
  BY AppendProperties, Zenon
<1>2. Append(top, x) = top \o <<x>>
  BY AppendIsConcat, Zenon
<1>3. Len(top) + 1 = 4
  OBVIOUS
<1> QED
  BY <1>1, <1>2, <1>3, Zenon

\* The rows of a line of so many hours: the first three each, the rest together.
IsPrinted(rate, hours, rows) ==
    /\ rows \in Seq(HourRowType)
    /\ Len(rows) = IF hours <= 3 THEN hours ELSE 4
    /\ \A h \in 1 .. Len(rows) :
        /\ rows[h].from = h /\ rows[h].rate = UnitPrice(rate, h)
        /\ h <= 3 => rows[h].to = h /\ rows[h].amount = UnitPrice(rate, h)
        /\ h = 4 => rows[h].to = hours /\ rows[h].amount = (hours - 3) * UnitPrice(rate, 4)

\* The rows of a tiered line are those.
LEMMA RowsArePrinted ==
    ASSUME NEW rate \in UnitRate, rate.pricingMode = "TIERED_HOURLY",
           NEW hours \in Nat, hours > 0, NEW breakdown,
           breakdown.hourLines = [h \in 1 .. hours |-> UnitPrice(rate, h)]
    PROVE  IsPrinted(rate, hours, HourRows(breakdown))
<1>1. PICK lines \in Seq(Nat) :
        /\ lines = breakdown.hourLines /\ Len(lines) = hours
        /\ \A h \in 1 .. hours : lines[h] = UnitPrice(rate, h)
  <2>1. \A h \in 1 .. hours : UnitPrice(rate, h) \in Nat
    BY UnitPriceIs
  <2>2. [h \in 1 .. hours |-> UnitPrice(rate, h)] \in Seq(Nat)
    BY <2>1
  <2> QED
    BY <2>1, <2>2
<1>2. PICK early \in Nat : early = AtMost(hours, 3) /\ early = IF hours < 3 THEN hours ELSE 3
  BY DEF AtMost
<1> DEFINE first == [h \in 1 .. early |-> HourRow(h, h, lines[h], lines[h])]
           late == 4 .. hours
           last == HourRow(4, hours, lines[hours], SumFunctionOnSet(lines, late))
<1>3. HourRows(breakdown) = first \o (IF late = {} THEN <<>> ELSE <<last>>)
  <2>1. /\ breakdown.hourLines = lines /\ Len(lines) = hours
        /\ FirstCollapsedHour = 4 /\ AtMost(hours, 4 - 1) = early
    BY <1>1, <1>2 DEF FirstCollapsedHour
  <2> QED
    BY <2>1, Zenon DEF HourRows
<1>4. \A h \in 1 .. early :
        /\ first[h] \in HourRowType /\ first[h].from = h /\ first[h].to = h
        /\ first[h].rate = UnitPrice(rate, h) /\ first[h].amount = UnitPrice(rate, h)
  <2> SUFFICES ASSUME NEW h \in 1 .. early
               PROVE  /\ first[h] \in HourRowType /\ first[h].from = h /\ first[h].to = h
                      /\ first[h].rate = UnitPrice(rate, h) /\ first[h].amount = UnitPrice(rate, h)
    OBVIOUS
  <2>1. PICK price \in Nat : price = lines[h] /\ price = UnitPrice(rate, h)
    BY <1>1, <1>2
  <2>2. first[h] = [from |-> h, to |-> h, rate |-> price, amount |-> price]
    BY <2>1 DEF HourRow
  <2> HIDE DEF first
  <2> QED
    BY <2>1, <2>2 DEF HourRowType
<1>5. first \in Seq(HourRowType) /\ Len(first) = early
  <2>1. DOMAIN first = 1 .. early
    OBVIOUS
  <2> HIDE DEF first
  <2>2. first = [h \in 1 .. early |-> first[h]]
    BY <2>1 DEF first
  <2> QED
    BY <1>4, <2>1, <2>2
<1>6. CASE hours <= 3
  <2>1. late = {} /\ early = hours
    BY <1>2, <1>6
  <2> HIDE DEF first, late, last
  <2>2. HourRows(breakdown) = first
    <3>1. PICK rows \in Seq(HourRowType) : rows = first
      BY <1>5
    <3>2. rows \o <<>> = rows
      OBVIOUS
    <3> QED
      BY <1>3, <2>1, <3>1, <3>2
  <2> QED
    BY <1>4, <1>5, <1>6, <2>1, <2>2 DEF IsPrinted
<1>7. CASE hours > 3
  <2>1. PICK n \in Nat : n = hours - 3 /\ hours \in late /\ early = 3
    BY <1>2, <1>7
  <2>2. PICK price \in Nat : /\ price = UnitPrice(rate, 4)
                             /\ \A h \in Nat : h >= 4 => UnitPrice(rate, h) = price
    <3>1. 4 \in Nat /\ 4 > 0
      OBVIOUS
    <3>2. UnitPrice(rate, 4) \in Nat
      BY <3>1, UnitPriceIs
    <3> QED
      BY <3>2, HoursPastTheTable
  <2>3. \A h \in late : lines[h] = price
    BY <1>1, <2>2
  <2>4. IsFiniteSet(late) /\ Cardinality(late) = n
    BY <1>7, <2>1, FS_Interval
  <2>5. SumFunctionOnSet(lines, late) = n * price
    <3> HIDE DEF late
    <3>1. price \in Int /\ IsFiniteSet(late) /\ \A h \in late : lines[h] = price
      BY <2>3, <2>4
    <3>2. SumFunctionOnSet(lines, late) = Cardinality(late) * price
      BY <3>1, SumOfConstant, Zenon
    <3> QED
      BY <2>4, <3>2
  <2>6. PICK amount \in Nat : amount = n * price
    OBVIOUS
  <2>7. last = [from |-> 4, to |-> hours, rate |-> price, amount |-> amount]
    BY <2>1, <2>3, <2>5, <2>6 DEF HourRow
  <2>8. PICK bottom \in HourRowType :
          /\ bottom = last
          /\ bottom.from = 4 /\ bottom.to = hours /\ bottom.rate = price /\ bottom.amount = amount
    <3> HIDE DEF last
    <3> DEFINE bottom == [from |-> 4, to |-> hours, rate |-> price, amount |-> amount]
    <3>1. /\ bottom.from = 4 /\ bottom.to = hours /\ bottom.rate = price
          /\ bottom.amount = amount
      OBVIOUS
    <3>2. 4 \in Nat
      OBVIOUS
    <3>3. bottom \in HourRowType
      BY <3>2 DEF HourRowType
    <3> HIDE DEF bottom
    <3>4. bottom = last
      BY <2>7 DEF bottom
    <3> QED
      BY <3>1, <3>3, <3>4, Zenon
  <2> HIDE DEF first, late, last
  <2>9. PICK top \in Seq(HourRowType) : top = first /\ Len(top) = 3
    BY <1>5, <2>1
  <2>10. PICK rows \in Seq(HourRowType) :
           /\ rows = top \o <<bottom>> /\ Len(rows) = 4 /\ rows[4] = bottom
           /\ \A h \in 1 .. 3 : rows[h] = top[h]
    <3>1. Len(top) = 3 /\ top \in Seq(HourRowType) /\ bottom \in HourRowType
      BY <2>9
    <3> QED
      BY <3>1, ThreeAndOne
  <2>11. HourRows(breakdown) = rows
    BY <1>3, <2>1, <2>8, <2>9, <2>10
  <2>12. Len(rows) = 4 /\ rows[4] = bottom /\ \A h \in 1 .. 3 : rows[h] = top[h]
    BY <2>10
  <2>13. \A h \in 1 .. 3 :
           /\ rows[h].from = h /\ rows[h].to = h
           /\ rows[h].rate = UnitPrice(rate, h) /\ rows[h].amount = UnitPrice(rate, h)
    BY <1>4, <2>1, <2>9, <2>12
  <2>14. \A h \in 1 .. Len(rows) : h \in 1 .. 3 \/ h = 4
    BY <2>12
  <2>15. /\ rows[4].from = 4 /\ rows[4].to = hours /\ rows[4].rate = UnitPrice(rate, 4)
         /\ rows[4].amount = (hours - 3) * UnitPrice(rate, 4)
    BY <2>1, <2>2, <2>6, <2>8, <2>12
  <2>16. \A h \in 1 .. Len(rows) :
           /\ rows[h].from = h /\ rows[h].rate = UnitPrice(rate, h)
           /\ h <= 3 => rows[h].to = h /\ rows[h].amount = UnitPrice(rate, h)
           /\ h = 4 => rows[h].to = hours /\ rows[h].amount = (hours - 3) * UnitPrice(rate, 4)
    <3> TAKE h \in 1 .. Len(rows)
    <3>1. CASE h \in 1 .. 3
      BY <2>13, <3>1
    <3>2. CASE h = 4
      BY <2>15, <3>2
    <3> QED
      BY <2>14, <3>1, <3>2
  <2> QED
    BY <1>7, <2>11, <2>12, <2>16 DEF IsPrinted
<1> QED
  BY <1>6, <1>7

\* They add up to what the hours cost.
LEMMA PrintedAddUp ==
    ASSUME NEW rate \in UnitRate, rate.pricingMode = "TIERED_HOURLY",
           NEW hours \in Nat, hours > 0, NEW rows, IsPrinted(rate, hours, rows)
    PROVE  SumFunction([i \in DOMAIN rows |-> rows[i].amount]) = Cost(rate, hours)
<1> DEFINE v == [h \in Nat |-> UnitPrice(rate, h)]
           amounts == [i \in DOMAIN rows |-> rows[i].amount]
<1>1. DOMAIN rows = 1 .. Len(rows) /\ Len(rows) \in Nat
  <2>1. rows \in Seq(HourRowType)
    BY DEF IsPrinted
  <2> QED
    BY <2>1
<1>2. SumFunction(amounts) = SumFunctionOnSet(amounts, 1 .. Len(rows))
  BY <1>1 DEF SumFunction
<1>3. /\ Cost(rate, hours) = SumFunctionOnSet(v, 1 .. hours)
      /\ Cost(rate, 3) = SumFunctionOnSet(v, 1 .. 3)
  BY DEF Cost
<1>4. \A h \in 1 .. Len(rows) : h <= 3 => amounts[h] = v[h] /\ v[h] \in Int
  <2> SUFFICES ASSUME NEW h \in 1 .. Len(rows), h <= 3 PROVE amounts[h] = v[h] /\ v[h] \in Int
    OBVIOUS
  <2>1. amounts[h] = rows[h].amount
    BY <1>1
  <2>2. rows[h].amount = UnitPrice(rate, h)
    BY DEF IsPrinted
  <2>3. v[h] = UnitPrice(rate, h) /\ UnitPrice(rate, h) \in Nat
    BY UnitPriceIs
  <2> QED
    BY <2>1, <2>2, <2>3
<1>5. CASE hours <= 3
  <2>1. Len(rows) = hours
    BY <1>5 DEF IsPrinted
  <2>2. \A h \in 1 .. hours : v[h] \in Int /\ amounts[h] = v[h]
    BY <1>4, <1>5, <2>1
  <2>3. IsFiniteSet(1 .. hours)
    BY FS_Interval
  <2> HIDE DEF v, amounts
  <2>4. SumFunctionOnSet(v, 1 .. hours) = SumFunctionOnSet(amounts, 1 .. hours)
    BY <2>2, <2>3, SumSame
  <2> QED
    BY <1>2, <1>3, <2>1, <2>4 DEF amounts
<1>6. CASE hours > 3
  <2>1. Len(rows) = 4
    BY <1>6 DEF IsPrinted
  <2>2. PICK n \in Nat : n = hours - 3 /\ hours = n + 3
    BY <1>6
  <2>3. PICK price \in Nat : price = UnitPrice(rate, 4)
    <3>1. 4 \in Nat /\ 4 > 0
      OBVIOUS
    <3> QED
      BY <3>1, UnitPriceIs
  <2>4. amounts[4] = n * price
    <3>1. amounts[4] = rows[4].amount
      BY <1>1, <2>1
    <3>2. rows[4].amount = (hours - 3) * UnitPrice(rate, 4)
      <4>1. 4 \in 1 .. Len(rows)
        BY <2>1
      <4> QED
        BY <4>1 DEF IsPrinted
    <3> QED
      BY <2>2, <2>3, <3>1, <3>2
  <2>5. \A h \in 1 .. 3 : v[h] \in Int /\ amounts[h] = v[h]
    BY <1>4, <2>1
  <2>6. Cost(rate, hours) = Cost(rate, 3) + n * price
    BY <2>2, <2>3, HoursPastTheTable
  <2>7. PICK three \in Nat : three = 3 /\ three + 1 = 4 /\ 1 .. three = 1 .. 3
    OBVIOUS
  <2>8. IsFiniteSet(1 .. 3)
    <3>1. 1 \in Int /\ 3 \in Int
      OBVIOUS
    <3> QED
      BY <3>1, FS_Interval, Zenon
  <2>9. \A h \in 1 .. three + 1 : amounts[h] \in Int
    <3>1. n * price \in Int
      OBVIOUS
    <3>2. \A h \in 1 .. three + 1 : h \in 1 .. 3 \/ h = 4
      BY <2>7
    <3> HIDE DEF amounts, v
    <3> QED
      BY <2>4, <2>5, <3>1, <3>2
  <2> HIDE DEF v, amounts
  <2>10. SumFunctionOnSet(v, 1 .. 3) = SumFunctionOnSet(amounts, 1 .. 3)
    BY <2>5, <2>8, SumSame
  <2>11. SumFunctionOnSet(amounts, 1 .. three + 1)
           = SumFunctionOnSet(amounts, 1 .. three) + amounts[three + 1]
    BY <2>9, SumOfOneMore
  <2> QED
    BY <1>2, <1>3, <2>1, <2>4, <2>6, <2>7, <2>10, <2>11 DEF amounts
<1> QED
  BY <1>5, <1>6

\* What makes up PaperExplainsTheLine, for one line.
Explained(line, rate, breakdown, paper) ==
    /\ RowsAddUp(line, paper)
    /\ HoursArePrintedOnce(paper)
    /\ paper.perChild * line.quantity = paper.lineTotal
    /\ Len(paper.hourRows) + (IF paper.extra.amount > 0 THEN 1 ELSE 0) <= 5
    /\ paper.graceIsFree => GraceWasFree(line, paper.units)
    /\ \A public \in ToPublicItem(rate.pricingMode, breakdown) : SameParts(public, paper)

\* The price of one child is read back from the line.
LEMMA PerChild ==
    ASSUME NEW total \in Nat, NEW children \in Nat, children > 0
    PROVE  /\ total * children \in Nat
           /\ (total * children) \div children = total
<1>1. PICK amount \in Nat : amount = total * children /\ amount = children * total
  OBVIOUS
<1>2. amount < children * total + children
  BY <1>1
<1>3. amount \div children = total
  BY <1>1, <1>2, QuotientIs
<1> QED
  BY <1>1, <1>3

\* A line that is not tiered prints no hours.
LEMMA NoRows ==
    ASSUME NEW paper, paper.hourRows = <<>>
    PROVE  HoursArePrintedOnce(paper) /\ Len(paper.hourRows) = 0
BY DEF HoursArePrintedOnce

\* The rows of a tiered line follow on each other up to the last hour paid for.
LEMMA RowsFollow ==
    ASSUME NEW rate \in UnitRate, NEW hours \in Nat, hours > 0, NEW paper,
           IsPrinted(rate, hours, paper.hourRows), paper.units = hours
    PROVE  HoursArePrintedOnce(paper) /\ Len(paper.hourRows) \in 1 .. 4
<1>1. PICK rows \in Seq(HourRowType), count \in Nat :
        /\ rows = paper.hourRows /\ count = Len(rows) /\ count > 0 /\ count <= 4
        /\ count = IF hours <= 3 THEN hours ELSE 4
  BY DEF IsPrinted
<1>2. \A h \in 1 .. count :
        /\ rows[h].from = h /\ rows[h].rate = UnitPrice(rate, h)
        /\ h <= 3 => rows[h].to = h /\ rows[h].amount = UnitPrice(rate, h)
        /\ h = 4 => rows[h].to = hours /\ rows[h].amount = (hours - 3) * UnitPrice(rate, 4)
  BY <1>1 DEF IsPrinted
<1>3. \A h \in 1 .. count : rows[h].amount = rows[h].rate * (rows[h].to - rows[h].from + 1)
  <2> SUFFICES ASSUME NEW h \in 1 .. count
               PROVE  rows[h].amount = rows[h].rate * (rows[h].to - rows[h].from + 1)
    OBVIOUS
  <2>1. PICK price \in Nat : price = UnitPrice(rate, h)
    <3>1. h \in Nat /\ h > 0
      OBVIOUS
    <3> QED
      BY <3>1, UnitPriceIs
  <2>2. CASE h <= 3
    <3>1. rows[h].amount = price /\ rows[h].rate = price /\ rows[h].to = h /\ rows[h].from = h
      BY <1>2, <2>1, <2>2
    <3>2. price * (h - h + 1) = price
      OBVIOUS
    <3> QED
      BY <3>1, <3>2
  <2>3. CASE h = 4
    <3>1. /\ rows[h].amount = (hours - 3) * price /\ rows[h].rate = price
          /\ rows[h].to = hours /\ rows[h].from = 4
      BY <1>2, <2>1, <2>3
    <3>2. (hours - 3) * price = price * (hours - 4 + 1)
      OBVIOUS
    <3> QED
      BY <3>1, <3>2
  <2> QED
    BY <1>1, <2>2, <2>3
<1>4. \A h \in 1 .. count : rows[h].from = IF h = 1 THEN 1 ELSE rows[h - 1].to + 1
  <2> SUFFICES ASSUME NEW h \in 1 .. count
               PROVE  rows[h].from = IF h = 1 THEN 1 ELSE rows[h - 1].to + 1
    OBVIOUS
  <2>1. CASE h = 1
    BY <1>2, <2>1
  <2>2. CASE h # 1
    <3>1. PICK before \in 1 .. count : before = h - 1 /\ before <= 3 /\ h = before + 1
      BY <1>1, <2>2
    <3>2. rows[before].to = before /\ rows[h].from = h
      BY <1>2, <3>1
    <3> QED
      BY <2>2, <3>1, <3>2
  <2> QED
    BY <2>1, <2>2
<1>5. rows[count].to = hours
  <2>1. CASE count <= 3
    BY <1>1, <1>2, <2>1
  <2>2. CASE count = 4
    BY <1>1, <1>2, <2>2
  <2> QED
    BY <1>1, <2>1, <2>2
<1>6. Last(rows).to = hours
  BY <1>1, <1>5 DEF Last
<1>7. DOMAIN rows = 1 .. count
  <2>1. DOMAIN rows = 1 .. Len(rows)
    OBVIOUS
  <2> QED
    BY <1>1, <2>1
<1>8. HoursArePrintedOnce(paper)
  BY <1>1, <1>3, <1>4, <1>6, <1>7, Zenon DEF HoursArePrintedOnce
<1> QED
  BY <1>1, <1>8

\* A line in units: its breakdown, as the paper has it.
LEMMA UnitPaper ==
    ASSUME NEW rate \in UnitRate, NEW m \in Nat, NEW children \in Nat, children > 0,
           NEW line, line.rate = rate, line.billedMinutes = m, line.quantity = children,
           line.lineTotal = PriceSession(rate, m).lineTotal * children
    PROVE  Explained(line, rate, PriceSession(rate, m), ReceiptItem(line, rate, PriceSession(rate, m)))
<1> DEFINE b == PriceSession(rate, m)
           paper == ReceiptItem(line, rate, b)
<1>1. PICK u \in Nat, r \in Nat : IsPriced(rate, m, u, r)
  BY UnitsArePriced
<1>2. IsBrokenDown(rate, m, u, r)
  BY <1>1, UnitsAreBrokenDown
<1>3. PICK hours \in Nat : hours = AtLeast(u, 1) /\ hours > 0 /\ (u >= 1 => hours = u)
  BY DEF AtLeast
<1>4. PICK cost \in Nat, extra \in Nat :
        cost = Cost(rate, hours) /\ extra = Extra(rate, u, r) /\ Raw(rate, u, r) = cost + extra
  <2>1. Extra(rate, u, r) \in Nat
    BY <1>1, ExtraOf DEF IsPriced
  <2>2. Cost(rate, hours) \in Nat
    BY CostIs
  <2> QED
    BY <1>3, <2>1, <2>2 DEF Raw
<1>5. PICK total \in Nat : total = b.lineTotal
  <2>1. m <= m /\ rate \in Rate
    BY DEF UnitRate
  <2>2. PriceSession(rate, m).lineTotal \in Nat
    BY <2>1, PriceGrows
  <2> QED
    BY <2>2
<1>6. PICK amount \in Nat :
        amount = total * children /\ line.lineTotal = amount /\ amount \div children = total
  BY <1>5, PerChild
<1>7. /\ b.rawTotal = cost + extra
      /\ b.blocksCharged = hours /\ b.blockSubtotal = cost /\ b.overageAmount = extra
      /\ b.overageMinutes = (IF Chargeable(u, r, rate.graceMinutes) THEN r ELSE 0)
      /\ b.graceApplied = (u >= 1 /\ r > 0 /\ ~ Chargeable(u, r, rate.graceMinutes))
      /\ b.roundingAdjustment = total - (cost + extra)
  BY <1>1, <1>2, <1>3, <1>4, <1>5 DEF IsPriced, IsBrokenDown
<1>8. /\ rate.pricingMode = "TIERED_HOURLY" => b.hourLines = [h \in 1 .. hours |-> UnitPrice(rate, h)]
      /\ rate.pricingMode # "TIERED_HOURLY" => total = cost + extra
  BY <1>1, <1>2, <1>3, <1>4, <1>5 DEF IsPriced, IsBrokenDown, Rounded
<1>9. rate.pricingMode # "PRORATA"
  BY DEF UnitRate
<1> HIDE DEF b
<1>10. /\ paper.units = hours /\ paper.extra.amount = extra
       /\ paper.rounding = total - (cost + extra)
       /\ paper.perChild = total /\ paper.lineTotal = amount
       /\ paper.graceIsFree = (b.overageMinutes = 0 /\ b.graceApplied)
  BY <1>6, <1>7, <1>9 DEF ReceiptItem
<1>11. /\ rate.pricingMode = "TIERED_HOURLY" => paper.hourRows = HourRows(b)
       /\ rate.pricingMode # "TIERED_HOURLY" => paper.hourRows = <<>>
  BY DEF ReceiptItem
<1> HIDE DEF paper
<1>12. rate.pricingMode = "TIERED_HOURLY" => IsPrinted(rate, hours, paper.hourRows)
  BY <1>3, <1>8, <1>11, RowsArePrinted
<1>13. RowsAddUp(line, paper)
  <2>1. CASE rate.pricingMode = "TIERED_HOURLY"
    <3>1. SumFunction([i \in DOMAIN paper.hourRows |-> paper.hourRows[i].amount]) = cost
      <4>1. /\ rate \in UnitRate /\ hours \in Nat /\ hours > 0
            /\ IsPrinted(rate, hours, paper.hourRows)
        BY <1>3, <1>12, <2>1
      <4>2. SumFunction([i \in DOMAIN paper.hourRows |-> paper.hourRows[i].amount])
              = Cost(rate, hours)
        BY <2>1, <4>1, PrintedAddUp, Zenon
      <4> QED
        BY <1>4, <4>2
    <3>2. cost + extra + (total - (cost + extra)) = total
      OBVIOUS
    <3>3. SumFunction([i \in DOMAIN paper.hourRows |-> paper.hourRows[i].amount])
            + paper.extra.amount + paper.rounding = paper.perChild
      BY <1>10, <3>1, <3>2
    <3> QED
      BY <2>1, <3>3, Zenon DEF RowsAddUp
  <2>2. CASE rate.pricingMode # "TIERED_HOURLY"
    <3>1. rate.pricingMode = "BLOCK_WITH_GRACE"
      BY <1>9, <2>2 DEF UnitRate, Rate, StoredPackage
    <3>2. cost = hours * rate.unitPrice
      BY <1>4, <2>2, CostOfBlocks
    <3>3. paper.units * rate.unitPrice + paper.extra.amount = paper.perChild
      BY <1>8, <1>10, <2>2, <3>2
    <3> QED
      BY <3>1, <3>3, Zenon DEF RowsAddUp
  <2> QED
    BY <2>1, <2>2
<1>14. HoursArePrintedOnce(paper) /\ Len(paper.hourRows) \in 0 .. 4
  <2>1. CASE rate.pricingMode = "TIERED_HOURLY"
    BY <1>3, <1>10, <1>12, <2>1, RowsFollow
  <2>2. CASE rate.pricingMode # "TIERED_HOURLY"
    BY <1>11, <2>2, NoRows
  <2> QED
    BY <2>1, <2>2
<1>15. ASSUME paper.graceIsFree PROVE GraceWasFree(line, paper.units)
  <2>1. u >= 1 /\ hours = u /\ ~ Chargeable(u, r, rate.graceMinutes)
    BY <1>3, <1>7, <1>10, <1>15
  <2>2. extra = 0
    BY <1>4, <2>1 DEF Extra
  <2>3. PICK unit \in Nat : unit = UnitLength(rate) /\ unit > 0
    BY UnitLengthIs
  <2>4. PICK n \in Nat : n = hours * unit /\ n = unit * hours /\ n < unit * hours + unit
    BY <2>3
  <2>5. PICK v \in Nat, s \in Nat : IsPriced(rate, n, v, s)
    BY UnitsArePriced
  <2>6. v = hours
    <3>1. v = n \div unit
      BY <2>3, <2>5 DEF IsPriced
    <3>2. n \div unit = hours
      BY <2>3, <2>4, QuotientIs
    <3> QED
      BY <3>1, <3>2
  <2>7. s = 0
    <3>1. n = unit * v + s
      BY <2>3, <2>5 DEF IsPriced
    <3>2. unit * v = unit * hours
      BY <2>6
    <3> QED
      BY <2>4, <3>1, <3>2
  <2>8. Raw(rate, v, s) = cost
    <3>1. ~ Chargeable(v, s, rate.graceMinutes)
      BY <2>7 DEF Chargeable, UnitRate, Rate, StoredPackage
    <3>2. Extra(rate, v, s) = 0
      BY <3>1 DEF Extra
    <3>3. AtLeast(v, 1) = hours
      BY <1>3, <2>6 DEF AtLeast
    <3> QED
      BY <1>4, <3>2, <3>3 DEF Raw
  <2>9. PriceSession(rate, n).rawTotal = cost
    BY <2>5, <2>8 DEF IsPriced
  <2>10. b.rawTotal = cost
    BY <1>7, <2>2
  <2> QED
    BY <1>10, <2>3, <2>4, <2>9, <2>10 DEF GraceWasFree, b
<1>16. \A public \in ToPublicItem(rate.pricingMode, b) : SameParts(public, paper)
  <2> SUFFICES ASSUME NEW public \in ToPublicItem(rate.pricingMode, b) PROVE SameParts(public, paper)
    OBVIOUS
  <2>1. /\ public.blockSubtotal = cost /\ public.overageAmount = extra
        /\ public.rounded = IF rate.pricingMode = "TIERED_HOURLY"
                            THEN {[rawTotal |-> b.rawTotal, roundingAdjustment |-> b.roundingAdjustment]}
                            ELSE {}
    BY <1>7, <1>9 DEF ToPublicItem
  <2>2. public.rounded = {} => cost + extra = total
    BY <1>8, <2>1
  <2>3. \A whole \in public.rounded :
          whole.rawTotal = cost + extra /\ whole.roundingAdjustment = total - (cost + extra)
    BY <1>7, <2>1
  <2>4. cost + extra + (total - (cost + extra)) = total
    OBVIOUS
  <2> QED
    BY <1>10, <2>1, <2>2, <2>3, <2>4 DEF SameParts
<1>17. paper.perChild * line.quantity = paper.lineTotal
  BY <1>6, <1>10
<1>18. Len(paper.hourRows) + (IF paper.extra.amount > 0 THEN 1 ELSE 0) <= 5
  <2>1. PICK count \in 0 .. 4 : count = Len(paper.hourRows)
    BY <1>14
  <2>2. PICK one \in 0 .. 1 : one = IF paper.extra.amount > 0 THEN 1 ELSE 0
    <3>1. CASE paper.extra.amount > 0
      BY <3>1
    <3>2. CASE ~ (paper.extra.amount > 0)
      BY <3>2
    <3> QED
      BY <3>1, <3>2
  <2>3. count + one <= 5
    OBVIOUS
  <2> QED
    BY <2>1, <2>2, <2>3, Zenon
<1>19. Explained(line, rate, b, paper)
  BY <1>13, <1>14, <1>15, <1>16, <1>17, <1>18, Zenon DEF Explained
<1> QED
  BY <1>19 DEF b, paper

\* A pro-rata line: one amount, within half a unit of the exact one.
LEMMA ProRataPaper ==
    ASSUME NEW rate \in Rate, rate.pricingMode = "PRORATA", NEW m \in Nat,
           NEW children \in Nat, children > 0,
           NEW line, line.rate = rate, line.billedMinutes = m, line.quantity = children,
           line.lineTotal = PriceSession(rate, m).lineTotal * children
    PROVE  Explained(line, rate, PriceSession(rate, m), ReceiptItem(line, rate, PriceSession(rate, m)))
<1> DEFINE b == PriceSession(rate, m)
           paper == ReceiptItem(line, rate, b)
<1>1. PICK price \in Nat, unit \in Nat :
        price = rate.unitPrice /\ unit = rate.rateDurationMinutes /\ unit > 0
  BY DEF Rate, StoredPackage
<1>2. PICK a \in Nat : a = price * m
  OBVIOUS
<1>3. PICK total \in Nat :
        /\ total = RoundDiv(a, unit)
        /\ 2 * unit * total <= 2 * a + unit /\ 2 * a + unit < 2 * unit * total + 2 * unit
  BY <1>1, RoundIs
<1>4. b.lineTotal = total
  <2>1. PriceSession(rate, m) = PriceProRata(rate, m)
    BY Zenon DEF PriceSession
  <2> QED
    BY <1>1, <1>2, <1>3, <2>1 DEF PriceProRata, Untiered, CalculateSessionLineTotal
<1>5. PICK amount \in Nat :
        amount = total * children /\ line.lineTotal = amount /\ amount \div children = total
  BY <1>4, PerChild
<1> HIDE DEF b
<1>6. /\ paper.hourRows = <<>> /\ paper.units = 0 /\ paper.extra.amount = 0
      /\ paper.graceIsFree = FALSE /\ paper.perChild = total /\ paper.lineTotal = amount
  BY <1>5 DEF ReceiptItem
<1> HIDE DEF paper
<1>7. RowsAddUp(line, paper)
  <2>1. PICK x \in Nat : x = total * unit
    OBVIOUS
  <2>2. 2 * x <= 2 * a + unit /\ 2 * a + unit < 2 * x + 2 * unit
    BY <1>3, <2>1
  <2>3. 2 * Distance(x, a) <= unit
    BY <1>1, <2>2 DEF Distance
  <2>4. 2 * Distance(paper.perChild * rate.rateDurationMinutes, rate.unitPrice * line.billedMinutes)
          <= rate.rateDurationMinutes
    BY <1>1, <1>2, <1>6, <2>1, <2>3
  <2> QED
    BY <2>4, Zenon DEF RowsAddUp
<1>8. HoursArePrintedOnce(paper) /\ Len(paper.hourRows) = 0
  BY <1>6, NoRows
<1>9. ToPublicItem(rate.pricingMode, b) = {}
  BY DEF ToPublicItem
<1>10. paper.perChild * line.quantity = paper.lineTotal
  BY <1>5, <1>6
<1>11. Len(paper.hourRows) + (IF paper.extra.amount > 0 THEN 1 ELSE 0) <= 5
  BY <1>6, <1>8
<1>12. Explained(line, rate, b, paper)
  <2>1. ~ paper.graceIsFree
    BY <1>6
  <2>2. \A public \in ToPublicItem(rate.pricingMode, b) : SameParts(public, paper)
    BY <1>9
  <2> QED
    BY <1>7, <1>8, <1>10, <1>11, <2>1, <2>2, Zenon DEF Explained
<1> QED
  BY <1>12 DEF b, paper

\* A parent can check the line with the receipt, whatever the package, at any moment of the
\* stay and for any number of children (receipt.service.ts, bill.service.ts toPublicItem).
THEOREM LinesAreExplained == ClockSpec => []PaperExplainsTheLine
<1>1. ClockTypes => PaperExplainsTheLine
  <2> SUFFICES ASSUME ClockTypes,
                      NEW at \in {clock + 2 * TierMinutes * later : later \in HoursLater},
                      NEW children \in Children, CanQuote(at),
                      NEW line \in {PlayLine(at, children)},
                      NEW stored \in {ResolveSessionRate(line.rate)},
                      NEW breakdown \in {BreakdownOf(line)},
                      NEW paper \in {ReceiptItem(line, stored, breakdown)}
               PROVE  Explained(line, stored, breakdown, paper)
    BY Zenon DEF PaperExplainsTheLine, Explained
  <2>1. PICK n \in Nat : n > 0 /\ rates \in [1 .. n -> Rate]
    BY DEF ClockTypes
  <2>2. at \in Int
    BY LinesAreForChildren DEF ClockTypes, TierMinutes
  <2>3. PICK e \in Nat : e = Elapsed(at)
    BY <2>2, ElapsedIs
  <2>4. PICK i \in 1 .. n : i = QuoteFor(e).index /\ QuoteFor(e).lineTotal = Costs(e, i)
    BY <2>1, QuoteIs
  <2>5. PICK rate \in Rate : rate = rates[i]
    BY <2>1
  <2>6. PICK m \in Nat : m = BilledMinutes(rate, e, Minimum)
    BY TimesAreNatural DEF BilledMinutes, AtLeast
  <2>7. QuoteAt(at) = QuoteFor(e)
    BY <2>3 DEF QuoteAt, QuoteFor
  <2>8. /\ line.rate = rate /\ line.billedMinutes = m /\ line.quantity = children
        /\ line.lineTotal = PriceSession(rate, m).lineTotal * children
    BY <2>3, <2>4, <2>5, <2>6, <2>7 DEF PlayLine, Costs, PriceSessionForPeriod
  <2>9. stored = rate /\ breakdown = PriceSession(rate, m)
    BY <2>8, ResolvedIsKept DEF BreakdownOf
  <2>10. children \in Nat /\ children > 0
    BY LinesAreForChildren
  <2>11. Explained(line, rate, PriceSession(rate, m), ReceiptItem(line, rate, PriceSession(rate, m)))
    <3>1. CASE rate.pricingMode = "PRORATA"
      BY <2>8, <2>10, <3>1, ProRataPaper
    <3>2. CASE rate.pricingMode # "PRORATA"
      <4>1. rate \in UnitRate
        BY <3>2 DEF UnitRate
      <4> QED
        BY <2>8, <2>10, <4>1, UnitPaper
    <3> QED
      BY <3>1, <3>2
  <2> QED
    BY <2>9, <2>11
<1> QED
  BY <1>1, ClockTypesHold, PTL

=============================================================================
