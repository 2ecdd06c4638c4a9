------------------------- MODULE DraftPricingProofs -------------------------
(***************************************************************************)
(* DraftPricing and ReceiptTotals for every set of orders, visits,         *)
(* discounts, settings and catalogues, proved: what the till and the       *)
(* receipt say of a bill's money and of the day it was paid.               *)
(*                                                                         *)
(* The inductive invariant, DraftInvariant, is what a draft keeps of its   *)
(* pricing: the amounts are those its lines, its discount and the stored   *)
(* percentage give (Quoted), a ticket's line is its charge times its       *)
(* children (TicketsDivide), and no line without a ticket ends long before *)
(* the draft, unless an admin wrote it (LinesDated).                       *)
(***************************************************************************)
EXTENDS ReceiptTotals, SumTheorems

LineType ==
    [kind : {"PLAY", "PRODUCT", "GROUP"}, quantity : Nat, lineTotal : Nat,
     ticket : BOOLEAN, endsAt : Int \cup {NoTime}]

BillType ==
    [status : {"NONE", "DRAFT", "PAID"}, cashier : SUBSET Users, items : Seq(LineType),
     discountType : {"NONE", "FIXED", "PERCENTAGE"}, discountValue : Nat,
     subtotal : Nat, discount : Nat, multiChildDiscount : Nat,
     multiChildDiscountPercentage : 0 .. 100, multiChildCount : Nat, tax : Nat,
     grandTotal : Nat, createdAt : Hours \cup {NoTime}, paidAt : Int \cup {NoTime},
     paymentRecordedAt : Hours \cup {NoTime}]

DraftTypes ==
    /\ bill \in BillType
    /\ settings \in Settings /\ catalogue \in Catalogues /\ now \in Hours
    /\ pricedBy \in [user : SUBSET Users, cap : Nat]
    /\ ringing \in [lines : SUBSET Users, payment : SUBSET Users]

IsShared(line) == line.kind = "PLAY" /\ \E charge \in Nat : line.lineTotal = charge * line.quantity
Divides(items) ==
    \A i \in DOMAIN items : items[i].ticket => items[i].quantity > 0 /\ IsShared(items[i])
TicketsDivide == Divides(bill.items)

Quoted ==
    bill.status # "NONE" =>
        /\ bill.subtotal = Subtotal(bill.items)
        /\ bill.multiChildDiscount =
             CalculatePercentage(PlayBase(bill.items), bill.multiChildDiscountPercentage)
        /\ bill.multiChildDiscount <= bill.subtotal
        /\ bill.discount = bill.multiChildDiscount
             + CalculateDiscountAmount(bill.subtotal - bill.multiChildDiscount, StoredDiscount)
        /\ bill.discount <= bill.subtotal
        /\ bill.discountType = "PERCENTAGE" => bill.discountValue <= 100
        /\ bill.multiChildDiscount > 0 => bill.multiChildCount = PlayChildrenOnItems(bill.items)
        /\ bill.multiChildDiscount = 0 => bill.multiChildDiscountPercentage = 0
        /\ bill.grandTotal = bill.subtotal - bill.discount + bill.tax

Recent(items, day) == \A i \in DOMAIN items : items[i].endsAt = NoTime \/ items[i].endsAt >= day - Day
LinesDated ==
    bill.status # "NONE" =>
        /\ bill.createdAt \in Hours /\ bill.createdAt <= now
        /\ HasTickets \/ ringing.lines \subseteq Admins \/ Recent(bill.items, bill.createdAt)

DraftInvariant ==
    /\ DraftTypes /\ TicketsDivide /\ Quoted /\ LinesDated
    /\ WithinTheCap /\ PaidWhenItHappened

-----------------------------------------------------------------------------
(* Arithmetic.                                                              *)

\* The largest and the smallest of two amounts.
LEMMA MaxOfTwo ==
    ASSUME NEW a \in Int, NEW b \in Int
    PROVE  Max({a, b}) = (IF a >= b THEN a ELSE b) /\ Min({a, b}) = (IF a <= b THEN a ELSE b)
BY DEF Max, Min

\* A rounded quotient is at most half above the quotient.
LEMMA Quotients ==
    ASSUME NEW a \in Nat, NEW b \in Nat, b > 0
    PROVE  RoundedQuotient(a, b) \in Nat /\ 2 * b * RoundedQuotient(a, b) <= 2 * a + b
<1> DEFINE n == 2 * a + b
           d == 2 * b
<1>1. n \in Nat /\ d \in Nat /\ d > 0
  OBVIOUS
<1> HIDE DEF n, d
<1>2. n \div d \in Nat /\ d * (n \div d) <= n
  BY <1>1
<1>3. RoundedQuotient(a, b) = n \div d
  BY DEF RoundedQuotient, n, d
<1> QED
  BY <1>2, <1>3 DEF n, d

\* A percentage of an amount: none of it for 0, and up to 100 never more than all of it.
LEMMA Percentages ==
    ASSUME NEW base \in Nat, NEW percentage \in Nat
    PROVE  /\ CalculatePercentage(base, percentage) \in Nat
           /\ 200 * CalculatePercentage(base, percentage) <= 2 * (base * percentage) + 100
           /\ percentage = 0 => CalculatePercentage(base, percentage) = 0
           /\ percentage <= 100 => CalculatePercentage(base, percentage) <= base
<1> DEFINE a == base * percentage
           q == CalculatePercentage(base, percentage)
<1>1. a \in Nat
  OBVIOUS
<1>2. q \in Nat /\ 2 * 100 * q <= 2 * a + 100
  <2> HIDE DEF a
  <2> QED
    BY <1>1, Quotients DEF CalculatePercentage, a
<1>3. percentage = 0 => a = 0
  OBVIOUS
<1>4. percentage <= 100 => a <= base * 100
  OBVIOUS
<1> HIDE DEF a, q
<1>5. percentage = 0 => q = 0
  BY <1>2, <1>3
<1>6. percentage <= 100 => q <= base
  BY <1>1, <1>2, <1>4
<1> QED
  BY <1>2, <1>5, <1>6 DEF a, q

\* A discount that is not more than all of it leaves something.
LEMMA Discounted ==
    ASSUME NEW subtotal \in Nat, NEW discount \in AskedDiscount,
           discount.type = "PERCENTAGE" => discount.value <= 100
    PROVE  /\ CalculateDiscountAmount(subtotal, discount) \in Nat
           /\ CalculateDiscountAmount(subtotal, discount) <= subtotal
           /\ discount.type = "NONE" => CalculateDiscountAmount(subtotal, discount) = 0
<1>1. discount.type \in {"NONE", "FIXED", "PERCENTAGE"} /\ discount.value \in Nat
  BY DEF AskedDiscount
<1>2. CASE discount.type = "NONE"
  <2>1. CalculateDiscountAmount(subtotal, discount) = 0
    BY <1>2 DEF CalculateDiscountAmount
  <2> QED
    BY <1>2, <2>1
<1>3. CASE discount.type = "FIXED"
  <2>1. CalculateDiscountAmount(subtotal, discount) = Min({discount.value, subtotal})
    BY <1>3 DEF CalculateDiscountAmount
  <2>2. PICK value \in Nat : value = discount.value
    BY <1>1
  <2>3. Min({value, subtotal}) = IF value <= subtotal THEN value ELSE subtotal
    BY MaxOfTwo
  <2> QED
    BY <1>3, <2>1, <2>2, <2>3
<1>4. CASE discount.type = "PERCENTAGE"
  <2>1. CalculateDiscountAmount(subtotal, discount) = CalculatePercentage(subtotal, discount.value)
    BY <1>4 DEF CalculateDiscountAmount
  <2> QED
    BY <1>1, <1>4, <2>1, Percentages
<1> QED
  BY <1>1, <1>2, <1>3, <1>4

-----------------------------------------------------------------------------
(* The sums over the lines.                                                 *)

LineTotals == [line \in LineType |-> line.lineTotal]
PlayTotals == [line \in LineType |-> IF line.kind = "PLAY" THEN line.lineTotal ELSE 0]
ChildrenOn == [line \in LineType |->
    IF line.kind # "PLAY" THEN 0 ELSE IF line.ticket THEN line.quantity ELSE 1]

\* What a line contributes to each sum is an amount.
LEMMA LineAmounts ==
    /\ LineTotals \in [LineType -> Int] /\ PlayTotals \in [LineType -> Int]
    /\ ChildrenOn \in [LineType -> Int]
    /\ \A line \in LineType :
        /\ LineTotals[line] \in Nat /\ PlayTotals[line] \in Nat /\ ChildrenOn[line] \in Nat
        /\ PlayTotals[line] <= LineTotals[line]
BY DEF LineTotals, PlayTotals, ChildrenOn, LineType

\* The three sums of billCalculator.ts are sums over the sequence of a bill's lines.
LEMMA LinesAddUp ==
    ASSUME NEW items \in Seq(LineType)
    PROVE  /\ Subtotal(items) = SumAlong(LineTotals, items)
           /\ PlayBase(items) = SumAlong(PlayTotals, items)
           /\ PlayChildrenOnItems(items) = SumAlong(ChildrenOn, items)
<1>1. \A i \in DOMAIN items : items[i] \in LineType
  OBVIOUS
<1>2. Subtotal(items) = SumAlong(LineTotals, items)
  BY <1>1 DEF Subtotal, SumOf, SumAlong, LineTotals
<1>3. PlayBase(items) = SumAlong(PlayTotals, items)
  BY <1>1 DEF PlayBase, SumOf, SumAlong, PlayTotals
<1>4. PlayChildrenOnItems(items) = SumAlong(ChildrenOn, items)
  BY <1>1 DEF PlayChildrenOnItems, SumOf, SumAlong, ChildrenOn
<1> QED
  BY <1>2, <1>3, <1>4

\* The lines come to an amount, and those of play to no more than all of them.
LEMMA LinesAreAmounts ==
    ASSUME NEW items \in Seq(LineType)
    PROVE  /\ Subtotal(items) \in Nat /\ PlayBase(items) \in Nat /\ PlayChildrenOnItems(items) \in Nat
           /\ PlayBase(items) <= Subtotal(items)
<1> DEFINE all == [i \in 1 .. Len(items) |-> LineTotals[items[i]]]
           play == [i \in 1 .. Len(items) |-> PlayTotals[items[i]]]
           children == [i \in 1 .. Len(items) |-> ChildrenOn[items[i]]]
<1>1. IsFiniteSet(1 .. Len(items)) /\ \A i \in 1 .. Len(items) : items[i] \in LineType
  BY FS_Interval
<1>2. /\ Subtotal(items) = SumFunctionOnSet(all, 1 .. Len(items))
      /\ PlayBase(items) = SumFunctionOnSet(play, 1 .. Len(items))
      /\ PlayChildrenOnItems(items) = SumFunctionOnSet(children, 1 .. Len(items))
  <2>1. SumAlong(LineTotals, items) = SumFunctionOnSet(all, 1 .. Len(items))
    BY LineAmounts, SumAlongIs
  <2>2. SumAlong(PlayTotals, items) = SumFunctionOnSet(play, 1 .. Len(items))
    BY LineAmounts, SumAlongIs
  <2>3. SumAlong(ChildrenOn, items) = SumFunctionOnSet(children, 1 .. Len(items))
    BY LineAmounts, SumAlongIs
  <2> QED
    BY <2>1, <2>2, <2>3, LinesAddUp
<1>3. \A i \in 1 .. Len(items) :
        all[i] \in Nat /\ play[i] \in Nat /\ children[i] \in Nat /\ play[i] <= all[i]
  BY <1>1, LineAmounts
<1> HIDE DEF all, play, children
<1>4. /\ SumFunctionOnSet(all, 1 .. Len(items)) \in Nat
      /\ SumFunctionOnSet(play, 1 .. Len(items)) \in Nat
      /\ SumFunctionOnSet(children, 1 .. Len(items)) \in Nat
  BY <1>1, <1>3, SumIsNatural
<1>5. SumFunctionOnSet(play, 1 .. Len(items)) <= SumFunctionOnSet(all, 1 .. Len(items))
  <2>1. \A i \in 1 .. Len(items) : play[i] \in Int /\ all[i] \in Int /\ play[i] <= all[i]
    BY <1>3
  <2> QED
    BY <1>1, <2>1, SumGrows
<1> QED
  BY <1>2, <1>4, <1>5

\* A bill's totals, for a percentage and a discount that are not more than all of it.
TotalsOf(items, discount, percentage, totals) ==
    /\ totals.subtotal = Subtotal(items)
    /\ totals.multiChildDiscount = CalculatePercentage(PlayBase(items), percentage)
    /\ totals.discount = totals.multiChildDiscount
         + CalculateDiscountAmount(totals.subtotal - totals.multiChildDiscount, discount)
    /\ totals.grandTotal = totals.subtotal - totals.discount + totals.tax
    /\ totals.subtotal \in Nat /\ totals.multiChildDiscount \in Nat
    /\ totals.discount \in Nat /\ totals.tax \in Nat /\ totals.grandTotal \in Nat
    /\ totals.multiChildDiscount <= totals.subtotal /\ totals.discount <= totals.subtotal

\* calculateBillTotals gives them: for such a discount none of its limits applies.
LEMMA TotalsAre ==
    ASSUME NEW items \in Seq(LineType), NEW discount \in AskedDiscount,
           discount.type = "PERCENTAGE" => discount.value <= 100,
           NEW rate \in Nat, NEW percentage \in 0 .. 100
    PROVE  TotalsOf(items, discount, percentage,
                    CalculateBillTotals(items, discount, rate, percentage))
<1>0. PICK totals : totals = CalculateBillTotals(items, discount, rate, percentage)
  OBVIOUS
<1> DEFINE subtotal == Subtotal(items)
           share == CalculatePercentage(PlayBase(items), percentage)
           multi == Min({share, subtotal})
           given == CalculateDiscountAmount(subtotal - multi, discount)
           off == multi + given
           taxable == Max({subtotal - off, 0})
           tax == CalculatePercentage(taxable, rate)
<1>1. totals = [subtotal |-> subtotal, multiChildDiscount |-> multi, discount |-> off,
                tax |-> tax, grandTotal |-> Max({taxable + tax, 0})]
  BY <1>0 DEF CalculateBillTotals
<1>2. /\ multi = Min({share, subtotal}) /\ given = CalculateDiscountAmount(subtotal - multi, discount)
      /\ off = multi + given /\ taxable = Max({subtotal - off, 0})
      /\ tax = CalculatePercentage(taxable, rate)
      /\ share = CalculatePercentage(PlayBase(items), percentage) /\ subtotal = Subtotal(items)
  OBVIOUS
<1> HIDE DEF subtotal, share, multi, given, off, taxable, tax
<1>3. subtotal \in Nat /\ PlayBase(items) \in Nat /\ PlayBase(items) <= subtotal
  BY <1>2, LinesAreAmounts
<1>4. share \in Nat /\ share <= subtotal
  <2>1. percentage \in Nat /\ percentage <= 100
    OBVIOUS
  <2>2. share \in Nat /\ share <= PlayBase(items)
    BY <1>2, <1>3, <2>1, Percentages
  <2> QED
    BY <1>3, <2>2
<1>5. multi = share
  <2>1. Min({share, subtotal}) = IF share <= subtotal THEN share ELSE subtotal
    <3>1. share \in Int /\ subtotal \in Int
      BY <1>3, <1>4
    <3> QED
      BY <3>1, MaxOfTwo
  <2> QED
    BY <1>2, <1>4, <2>1
<1>6. given \in Nat /\ given <= subtotal - multi
  <2>1. subtotal - multi \in Nat
    BY <1>3, <1>4, <1>5
  <2> QED
    BY <1>2, <2>1, Discounted
<1>7. off \in Nat /\ off <= subtotal
  <2>1. off = multi + given /\ multi \in Nat /\ given \in Nat /\ given <= subtotal - multi
    BY <1>2, <1>4, <1>5, <1>6
  <2> QED
    BY <1>3, <2>1
<1>8. taxable = subtotal - off /\ taxable \in Nat
  <2>1. Max({subtotal - off, 0}) = IF subtotal - off >= 0 THEN subtotal - off ELSE 0
    BY <1>3, <1>7, MaxOfTwo
  <2> QED
    BY <1>2, <1>3, <1>7, <2>1
<1>9. tax \in Nat
  BY <1>2, <1>8, Percentages
<1>10. Max({taxable + tax, 0}) = subtotal - off + tax /\ subtotal - off + tax \in Nat
  <2>1. Max({taxable + tax, 0}) = IF taxable + tax >= 0 THEN taxable + tax ELSE 0
    BY <1>8, <1>9, MaxOfTwo
  <2> QED
    BY <1>3, <1>7, <1>8, <1>9, <2>1
<1>11. /\ totals.subtotal = subtotal /\ totals.multiChildDiscount = multi /\ totals.discount = off
       /\ totals.tax = tax /\ totals.grandTotal = subtotal - off + tax
  BY <1>1, <1>10
<1>12. TotalsOf(items, discount, percentage, totals)
  BY <1>2, <1>3, <1>4, <1>5, <1>6, <1>7, <1>9, <1>10, <1>11 DEF TotalsOf
<1> QED
  BY <1>0, <1>12

-----------------------------------------------------------------------------
(* The percentage of the tiers.                                             *)

\* The best tier reached gives a percentage, as does none.
LEMMA PercentageIsOne ==
    ASSUME NEW tiers \in SUBSET DiscountTier, IsFiniteSet(tiers), NEW count \in Nat
    PROVE  MultiChildPercentage(tiers, count) \in 0 .. 100
<1> DEFINE reached == {tier \in tiers : tier.minChildren <= count /\ tier.percentage > 0}
           best == CHOOSE tier \in reached : \A other \in reached : other.minChildren <= tier.minChildren
           from == [tier \in reached |-> tier.minChildren]
<1>1. MultiChildPercentage(tiers, count) = IF reached = {} THEN 0 ELSE best.percentage
  BY DEF MultiChildPercentage
<1>2. CASE reached = {}
  BY <1>1, <1>2
<1>3. CASE reached # {}
  <2>1. IsFiniteSet(reached) /\ \A tier \in reached : from[tier] \in Int /\ from[tier] = tier.minChildren
    BY FS_Subset DEF DiscountTier
  <2> HIDE DEF from
  <2>2. \E tier \in reached : \A other \in reached : from[other] <= from[tier]
    BY <1>3, <2>1, FiniteMaximum
  <2>3. \E tier \in reached : \A other \in reached : other.minChildren <= tier.minChildren
    BY <2>1, <2>2
  <2>4. best \in reached
    BY <2>3
  <2>5. best \in DiscountTier
    BY <2>4
  <2> HIDE DEF best
  <2>6. best.percentage \in 0 .. 100
    BY <2>5 DEF DiscountTier
  <2> QED
    BY <1>1, <1>3, <2>6
<1> QED
  BY <1>2, <1>3

-----------------------------------------------------------------------------
(* The lines a till rings up, and those of a checkout.                      *)

\* A line that is no ticket, dated only if it is a group.
LEMMA SnapshotIs ==
    ASSUME DraftTypes, NEW wanted \in WantedItem \cup WantedGroup
    PROVE  /\ Snapshot(wanted) \in LineType /\ ~ Snapshot(wanted).ticket
           /\ wanted.kind # "GROUP" => Snapshot(wanted).endsAt = NoTime
           /\ wanted.kind = "GROUP" =>
                Snapshot(wanted).endsAt = now - wanted.ago + wanted.minutes
<1>1. now \in Nat
  BY HoursAreTimes DEF DraftTypes
<1>2. CASE wanted.kind = "GROUP"
  <2>1. /\ wanted.rate \in Nat /\ wanted.headcount \in Nat /\ wanted.minutes \in Nat
        /\ wanted.ago \in Int
    BY <1>2 DEF WantedItem, WantedGroup
  <2> DEFINE amount == wanted.rate * wanted.headcount * wanted.minutes
  <2>2. amount \in Nat
    BY <2>1
  <2> HIDE DEF amount
  <2>3. PriceGroupVisit(wanted) \in Nat
    BY <2>2, Quotients DEF PriceGroupVisit, amount
  <2>4. Snapshot(wanted) = [kind |-> "GROUP", quantity |-> wanted.headcount,
            lineTotal |-> PriceGroupVisit(wanted), ticket |-> FALSE,
            endsAt |-> now - wanted.ago + wanted.minutes]
    BY <1>2 DEF Snapshot, Line
  <2>5. now - wanted.ago + wanted.minutes \in Int
    BY <1>1, <2>1
  <2> QED
    BY <1>2, <2>1, <2>3, <2>4, <2>5 DEF LineType
<1>3. CASE wanted.kind # "GROUP"
  <2>1. wanted \in WantedItem
    BY <1>3 DEF WantedGroup
  <2>2. /\ wanted.kind \in {"PLAY", "PRODUCT"} /\ wanted.quantity \in Nat
        /\ catalogue[wanted.of].price \in Nat
    BY <2>1, StoredIsValid DEF WantedItem, DraftTypes
  <2>3. Snapshot(wanted) = [kind |-> wanted.kind, quantity |-> wanted.quantity,
            lineTotal |-> catalogue[wanted.of].price * wanted.quantity,
            ticket |-> FALSE, endsAt |-> NoTime]
    BY <1>3 DEF Snapshot, Line
  <2>4. catalogue[wanted.of].price * wanted.quantity \in Nat
    BY <2>2
  <2> QED
    BY <1>3, <2>2, <2>3, <2>4 DEF LineType
<1> QED
  BY <1>2, <1>3

\* The lines of an order: no tickets, and a cashier's end no earlier than a day ago.
LEMMA OrderedLines ==
    ASSUME DraftTypes, NEW user \in Users, NEW order \in Orders, Orderable(user, order)
    PROVE  /\ ItemSnapshots(order) \in Seq(LineType)
           /\ \A i \in DOMAIN ItemSnapshots(order) : ~ ItemSnapshots(order)[i].ticket
           /\ user \in Admins \/ \A day \in Hours : day <= now => Recent(ItemSnapshots(order), day)
<1>1. /\ order \in Seq(WantedItem \cup WantedGroup)
      /\ DOMAIN ItemSnapshots(order) = 1 .. Len(order) /\ Len(order) \in Nat
      /\ \A i \in 1 .. Len(order) :
            /\ order[i] \in WantedItem \cup WantedGroup
            /\ ItemSnapshots(order)[i] = Snapshot(order[i])
  BY RequestsAreValid DEF ItemSnapshots
<1>2. \A i \in 1 .. Len(order) :
        /\ ItemSnapshots(order)[i] \in LineType /\ ~ ItemSnapshots(order)[i].ticket
        /\ order[i].kind # "GROUP" => ItemSnapshots(order)[i].endsAt = NoTime
        /\ order[i].kind = "GROUP" =>
             ItemSnapshots(order)[i].endsAt = now - order[i].ago + order[i].minutes
  BY <1>1, SnapshotIs
<1>3. ItemSnapshots(order) \in Seq(LineType)
  <2>1. ItemSnapshots(order) = [i \in 1 .. Len(order) |-> Snapshot(order[i])]
    BY <1>1 DEF ItemSnapshots
  <2>2. \A i \in 1 .. Len(order) : Snapshot(order[i]) \in LineType
    BY <1>1, <1>2
  <2> QED
    BY <1>1, <2>1, <2>2
<1>4. ASSUME user \notin Admins, NEW day \in Hours, day <= now, NEW i \in 1 .. Len(order),
             order[i].kind = "GROUP"
      PROVE  ItemSnapshots(order)[i].endsAt >= day - Day
  <2>1. order[i].ago \in Int /\ order[i].minutes \in Nat
    BY <1>1, <1>4 DEF WantedItem, WantedGroup
  <2>2. now \in Nat /\ day \in Nat
    BY HoursAreTimes DEF DraftTypes
  <2>3. now - (now - order[i].ago) <= Day
    BY <1>1, <1>4 DEF Orderable, VisitAllowed
  <2>4. ItemSnapshots(order)[i].endsAt = now - order[i].ago + order[i].minutes
    BY <1>2, <1>4
  <2>5. PICK ago \in Int : ago = order[i].ago
    BY <2>1
  <2>6. PICK minutes \in Nat : minutes = order[i].minutes
    BY <2>1
  <2>7. PICK today \in Nat : today = now
    BY <2>2
  <2>8. today - (today - ago) <= 24 * 60
    BY <2>3, <2>5, <2>7 DEF Day
  <2>9. today - ago + minutes >= day - 24 * 60
    <3>1. day <= today
      BY <1>4, <2>7
    <3> QED
      BY <2>2, <2>8, <3>1
  <2> QED
    BY <2>4, <2>5, <2>6, <2>7, <2>9 DEF Day
<1> QED
  BY <1>1, <1>2, <1>3, <1>4 DEF Recent

\* A line that, if it is a ticket's, is its charge times its children.
SharedLine == {line \in LineType : line.ticket => line.quantity > 0 /\ IsShared(line)}

\* A claimed ticket's lines, the visit first.
LEMMA TicketLinesAre ==
    ASSUME DraftTypes, NEW ticket \in ClaimedTicket
    PROVE  /\ TicketLines(ticket) \in Seq(SharedLine)
           /\ TicketLines(ticket) # <<>> /\ TicketLines(ticket)[1].ticket
<1>1. /\ now \in Nat /\ ticket.children \in Nat /\ ticket.children > 0 /\ ticket.charge \in Nat
      /\ ticket.ago \in Int /\ ticket.extras \in Nat
  BY HoursAreTimes DEF DraftTypes, ClaimedTicket
<1> DEFINE plain == Line("PLAY", ticket.children, ticket.charge * ticket.children)
           visit == [plain EXCEPT !.ticket = TRUE, !.endsAt = now - ticket.ago]
           extras == Line("PRODUCT", 1, ticket.extras)
<1>2. TicketLines(ticket) = <<visit>> \o IF ticket.extras = 0 THEN <<>> ELSE <<extras>>
  BY DEF TicketLines
<1>3. ticket.charge * ticket.children \in Nat /\ now - ticket.ago \in Int
  BY <1>1
<1>4. /\ plain \in LineType /\ extras \in LineType /\ ~ extras.ticket
      /\ plain.kind = "PLAY" /\ plain.quantity = ticket.children
      /\ plain.lineTotal = ticket.charge * ticket.children
  BY <1>1, <1>3 DEF LineType, Line
<1> HIDE DEF plain, extras
<1>5. /\ visit \in LineType /\ IsShared(visit)
  <2>1. visit \in LineType
    BY <1>3, <1>4 DEF LineType
  <2>2. /\ visit.kind = plain.kind /\ visit.lineTotal = plain.lineTotal
        /\ visit.quantity = plain.quantity
    BY <1>4 DEF LineType
  <2> HIDE DEF visit
  <2>3. visit.kind = "PLAY" /\ visit.lineTotal = ticket.charge * visit.quantity
    BY <1>4, <2>2
  <2> QED
    BY <1>1, <2>1, <2>3 DEF IsShared
<1>6. visit \in SharedLine /\ extras \in SharedLine /\ visit.ticket
  <2>1. visit.quantity = ticket.children /\ visit.ticket
    BY <1>4 DEF LineType
  <2> HIDE DEF visit
  <2> QED
    BY <1>1, <1>4, <1>5, <2>1 DEF SharedLine
<1> HIDE DEF visit, extras
<1> QED
  BY <1>2, <1>6

\* The lines of a checkout: at least one of a ticket.
LEMMA CheckedOutLines ==
    ASSUME DraftTypes, NEW visit \in Visits
    PROVE  /\ CheckoutLines(visit) \in Seq(LineType) /\ Divides(CheckoutLines(visit))
           /\ \E i \in DOMAIN CheckoutLines(visit) : CheckoutLines(visit)[i].ticket
<1> DEFINE seqs == [i \in 1 .. Len(visit) |-> TicketLines(visit[i])]
<1>1. visit \in Seq(ClaimedTicket) /\ visit # <<>>
  BY RequestsAreValid
<1>2. Len(visit) \in Nat /\ Len(visit) > 0 /\ DOMAIN visit = 1 .. Len(visit)
  BY <1>1
<1>3. \A i \in 1 .. Len(visit) :
        /\ TicketLines(visit[i]) \in Seq(SharedLine)
        /\ TicketLines(visit[i]) # <<>> /\ TicketLines(visit[i])[1].ticket
  BY <1>1, TicketLinesAre
<1>4. CheckoutLines(visit) = FlattenSeq(seqs)
  BY <1>2 DEF CheckoutLines
<1>5. seqs \in Seq(Seq(SharedLine)) /\ seqs # <<>> /\ seqs[1] = TicketLines(visit[1])
  BY <1>2, <1>3
<1> HIDE DEF seqs
<1>6. CheckoutLines(visit) \in Seq(SharedLine)
  <2>1. PICK g \in [1 .. Len(seqs) -> Seq(SharedLine)] : FlattenSeq(seqs) = g[Len(seqs)]
    BY <1>5, FlattenIs
  <2>2. Len(seqs) \in 1 .. Len(seqs)
    BY <1>5
  <2> QED
    BY <1>4, <2>1, <2>2
<1>7. CheckoutLines(visit) # <<>> /\ CheckoutLines(visit)[1].ticket
  BY <1>2, <1>3, <1>4, <1>5, FlattenedFirst
<1>8. 1 \in DOMAIN CheckoutLines(visit)
  BY <1>6, <1>7
<1>9. \A i \in DOMAIN CheckoutLines(visit) : CheckoutLines(visit)[i] \in SharedLine
  BY <1>6
<1>10. CheckoutLines(visit) \in Seq(LineType)
  <2>1. SharedLine \subseteq LineType
    BY DEF SharedLine
  <2> QED
    BY <1>6, <2>1
<1> QED
  BY <1>7, <1>8, <1>9, <1>10 DEF Divides, SharedLine

-----------------------------------------------------------------------------
(* Pricing a draft.                                                         *)

\* What a user may give, and what it comes to, half a minor unit of rounding aside.
LEMMA PermittedGift ==
    ASSUME NEW user, user \notin Admins, NEW base \in Nat, NEW discount \in AskedDiscount,
           settings.cap \in Nat, Permitted(user, base, discount)
    PROVE  200 * CalculateDiscountAmount(base, discount) <= 2 * settings.cap * base + 100
<1> DEFINE given == CalculateDiscountAmount(base, discount)
<1>1. PICK value \in Nat, cap \in Nat : value = discount.value /\ cap = settings.cap
  BY DEF AskedDiscount
<1>2. 0 <= 2 * cap * base /\ 2 * cap * base \in Nat
  BY <1>1
<1>3. CASE discount.type = "NONE"
  <2>1. given = 0
    BY <1>3 DEF CalculateDiscountAmount
  <2> HIDE DEF given
  <2>2. 200 * given <= 2 * cap * base + 100
    BY <1>2, <2>1
  <2> QED
    BY <1>1, <2>2 DEF given
<1>4. CASE discount.type = "FIXED"
  <2>1. given = Min({value, base})
    BY <1>1, <1>4 DEF CalculateDiscountAmount
  <2>2. given = IF value <= base THEN value ELSE base
    <3>1. Min({value, base}) = IF value <= base THEN value ELSE base
      BY MaxOfTwo
    <3> HIDE DEF given
    <3> QED
      BY <2>1, <3>1
  <2>3. base = 0 \/ value * 100 <= cap * base
    BY <1>1, <1>4 DEF Permitted
  <2> HIDE DEF given
  <2>4. base = 0 => 200 * given <= 2 * cap * base + 100
    BY <1>2, <2>2
  <2>5. value * 100 <= cap * base => 200 * given <= 2 * cap * base + 100
    <3>1. cap * base \in Nat /\ 2 * cap * base = 2 * (cap * base)
      BY <1>1
    <3>2. given \in Nat /\ given <= value
      BY <2>2
    <3> QED
      BY <3>1, <3>2
  <2> QED
    BY <1>1, <2>3, <2>4, <2>5 DEF given
<1>5. CASE discount.type = "PERCENTAGE"
  <2>1. given = CalculatePercentage(base, value)
    BY <1>1, <1>5 DEF CalculateDiscountAmount
  <2>2. 200 * given <= 2 * (base * value) + 100
    BY <2>1, Percentages
  <2>3. base = 0 \/ value <= cap
    BY <1>1, <1>5 DEF Permitted
  <2>4. base * value <= base * cap
    <3>1. CASE base = 0
      BY <3>1
    <3>2. CASE value <= cap
      BY <3>2
    <3> QED
      BY <2>3, <3>1, <3>2
  <2>5. base * value \in Nat /\ base * cap \in Nat /\ 2 * cap * base = 2 * (base * cap)
    OBVIOUS
  <2>6. given \in Nat
    BY <2>1, Percentages
  <2> HIDE DEF given
  <2>7. 200 * given <= 2 * cap * base + 100
    BY <2>2, <2>4, <2>5, <2>6
  <2> QED
    BY <1>1, <2>7 DEF given
<1> QED
  BY <1>3, <1>4, <1>5 DEF AskedDiscount

\* What pricing makes of a document: the bill is quoted, and the discount below the cap.
LEMMA PricedIs ==
    ASSUME DraftTypes, NEW user \in Users, NEW doc \in BillType, doc.status = "DRAFT",
           NEW items \in Seq(LineType), NEW discount \in AskedDiscount,
           Price(user, doc, items, discount)
    PROVE  /\ bill' \in BillType /\ bill'.status = "DRAFT" /\ bill'.items = items
           /\ bill'.createdAt = doc.createdAt
           /\ pricedBy' \in [user : SUBSET Users, cap : Nat]
           /\ Quoted' /\ WithinTheCap' /\ PaidWhenItHappened'
<1>1. /\ settings.taxPercentage \in Nat /\ settings.cap \in Nat
      /\ settings.tiers \in SUBSET DiscountTier /\ IsFiniteSet(settings.tiers)
  BY StoredIsValid DEF DraftTypes
<1>2. PICK count \in Nat : count = PlayChildrenOnItems(items)
  BY LinesAreAmounts
<1>3. PICK percentage \in 0 .. 100 : percentage = MultiChildPercentage(settings.tiers, count)
  BY <1>1, PercentageIsOne
<1>4. PriceAllowed(user, items, discount, percentage)
  BY <1>2, <1>3 DEF Price
<1>5. discount.type = "PERCENTAGE" => discount.value <= 100
  BY <1>4 DEF PriceAllowed, Permitted
<1>6. PICK totals : totals = CalculateBillTotals(items, discount, settings.taxPercentage, percentage)
  OBVIOUS
<1>7. /\ totals.subtotal = Subtotal(items)
      /\ totals.multiChildDiscount = CalculatePercentage(PlayBase(items), percentage)
      /\ totals.discount = totals.multiChildDiscount
           + CalculateDiscountAmount(totals.subtotal - totals.multiChildDiscount, discount)
      /\ totals.grandTotal = totals.subtotal - totals.discount + totals.tax
      /\ totals.subtotal \in Nat /\ totals.multiChildDiscount \in Nat
      /\ totals.discount \in Nat /\ totals.tax \in Nat /\ totals.grandTotal \in Nat
      /\ totals.multiChildDiscount <= totals.subtotal /\ totals.discount <= totals.subtotal
  <2>1. PICK rate \in Nat : rate = settings.taxPercentage
    BY <1>1
  <2>2. totals = CalculateBillTotals(items, discount, rate, percentage)
    BY <1>6, <2>1
  <2>3. TotalsOf(items, discount, percentage, totals)
    BY <1>5, <2>2, TotalsAre
  <2> QED
    BY <2>3 DEF TotalsOf
<1>8. bill' = [doc EXCEPT !.items = items, !.discountType = discount.type,
                  !.discountValue = discount.value,
                  !.subtotal = totals.subtotal, !.discount = totals.discount,
                  !.multiChildDiscount = totals.multiChildDiscount,
                  !.multiChildDiscountPercentage = IF totals.multiChildDiscount > 0 THEN percentage ELSE 0,
                  !.multiChildCount = IF totals.multiChildDiscount > 0 THEN count ELSE 0,
                  !.tax = totals.tax, !.grandTotal = totals.grandTotal]
  BY <1>2, <1>3, <1>6 DEF Price, PriceDraft
<1>9. /\ bill'.status = "DRAFT" /\ bill'.items = items /\ bill'.createdAt = doc.createdAt
      /\ bill'.discountType = discount.type /\ bill'.discountValue = discount.value
      /\ bill'.subtotal = totals.subtotal /\ bill'.discount = totals.discount
      /\ bill'.multiChildDiscount = totals.multiChildDiscount
      /\ bill'.multiChildDiscountPercentage = IF totals.multiChildDiscount > 0 THEN percentage ELSE 0
      /\ bill'.multiChildCount = IF totals.multiChildDiscount > 0 THEN count ELSE 0
      /\ bill'.tax = totals.tax /\ bill'.grandTotal = totals.grandTotal
  BY <1>8 DEF BillType
<1>10. bill' \in BillType
  <2>1. discount.type \in {"NONE", "FIXED", "PERCENTAGE"} /\ discount.value \in Nat
    BY DEF AskedDiscount
  <2>2. /\ (IF totals.multiChildDiscount > 0 THEN percentage ELSE 0) \in 0 .. 100
        /\ (IF totals.multiChildDiscount > 0 THEN count ELSE 0) \in Nat
    BY <1>2, <1>3
  <2>3. PICK type \in {"NONE", "FIXED", "PERCENTAGE"}, value \in Nat :
          type = discount.type /\ value = discount.value
    BY <2>1
  <2>4. PICK subtotal \in Nat, off \in Nat, multi \in Nat, tax \in Nat, total \in Nat :
          /\ subtotal = totals.subtotal /\ off = totals.discount /\ multi = totals.multiChildDiscount
          /\ tax = totals.tax /\ total = totals.grandTotal
    BY <1>7
  <2>5. PICK share \in 0 .. 100, children \in Nat :
          /\ share = IF totals.multiChildDiscount > 0 THEN percentage ELSE 0
          /\ children = IF totals.multiChildDiscount > 0 THEN count ELSE 0
    BY <2>2
  <2>6. bill' = [doc EXCEPT !.items = items, !.discountType = type, !.discountValue = value,
                     !.subtotal = subtotal, !.discount = off, !.multiChildDiscount = multi,
                     !.multiChildDiscountPercentage = share, !.multiChildCount = children,
                     !.tax = tax, !.grandTotal = total]
    BY <1>8, <2>3, <2>4, <2>5, Zenon
  <2> QED
    BY <2>6 DEF BillType
<1>11. StoredDiscount' = discount
  BY <1>9 DEF StoredDiscount, AskedDiscount
<1>12. totals.multiChildDiscount = CalculatePercentage(PlayBase(items),
          IF totals.multiChildDiscount > 0 THEN percentage ELSE 0)
  <2>1. CASE totals.multiChildDiscount > 0
    BY <1>7, <2>1
  <2>2. CASE ~ (totals.multiChildDiscount > 0)
    <3>1. totals.multiChildDiscount = 0
      BY <1>7, <2>2
    <3>2. PlayBase(items) \in Nat
      BY LinesAreAmounts
    <3>3. CalculatePercentage(PlayBase(items), 0) = 0
      BY <3>2, Percentages
    <3> QED
      BY <3>1, <3>3
  <2> QED
    BY <2>1, <2>2
<1>13. Quoted'
  BY <1>2, <1>5, <1>7, <1>9, <1>11, <1>12 DEF Quoted
<1>14. pricedBy' = [user |-> {user}, cap |-> settings.cap]
  BY DEF Price
<1>15. WithinTheCap'
  <2> SUFFICES ASSUME user \notin Admins
               PROVE  200 * (totals.discount - totals.multiChildDiscount)
                        <= 2 * settings.cap * (totals.subtotal - totals.multiChildDiscount) + 100
    BY <1>9, <1>14 DEF WithinTheCap
  <2> DEFINE before == CalculateBillTotals(items, NoDiscount, 0, percentage)
             base == totals.subtotal - totals.multiChildDiscount
  <2>1. before.subtotal = totals.subtotal /\ before.multiChildDiscount = totals.multiChildDiscount
    <3>1. PICK first : first = before
      OBVIOUS
    <3>2. NoDiscount \in AskedDiscount /\ NoDiscount.type # "PERCENTAGE"
      BY DEF NoDiscount, AskedDiscount
    <3>3. /\ first.subtotal = Subtotal(items)
          /\ first.multiChildDiscount = CalculatePercentage(PlayBase(items), percentage)
      <4>1. 0 \in Nat /\ (NoDiscount.type = "PERCENTAGE" => NoDiscount.value <= 100)
        BY <3>2
      <4>2. TotalsOf(items, NoDiscount, percentage, first)
        BY <3>1, <3>2, <4>1, TotalsAre
      <4> QED
        BY <4>2 DEF TotalsOf
    <3> QED
      BY <1>7, <3>1, <3>3
  <2>2. Permitted(user, base, discount)
    BY <1>4, <2>1 DEF PriceAllowed
  <2>3. base \in Nat
    BY <1>7
  <2> HIDE DEF base
  <2>4. 200 * CalculateDiscountAmount(base, discount) <= 2 * settings.cap * base + 100
    BY <1>1, <2>2, <2>3, PermittedGift
  <2>5. totals.discount - totals.multiChildDiscount = CalculateDiscountAmount(base, discount)
    <3>1. CalculateDiscountAmount(base, discount) \in Nat
      BY <1>5, <2>3, Discounted
    <3> QED
      BY <1>7, <3>1 DEF base
  <2> QED
    BY <2>4, <2>5 DEF base
<1>16. PaidWhenItHappened'
  BY <1>9 DEF PaidWhenItHappened
<1>17. pricedBy' \in [user : SUBSET Users, cap : Nat]
  BY <1>1, <1>14
<1> QED
  BY <1>9, <1>10, <1>13, <1>15, <1>16, <1>17

-----------------------------------------------------------------------------
(* The steps.                                                               *)

\* An edit that sends no discount is given one again that was given before.
LEMMA StoredDiscountIsOne ==
    ASSUME DraftTypes
    PROVE  StoredDiscount \in AskedDiscount
BY DEF DraftTypes, BillType, StoredDiscount, AskedDiscount

\* Whatever prices a draft keeps the invariant, if its lines are in order.
LEMMA DraftedIs ==
    ASSUME DraftInvariant, NEW user \in Users, NEW doc \in BillType, doc.status = "DRAFT",
           NEW items \in Seq(LineType), NEW discount \in AskedDiscount,
           Price(user, doc, items, discount), UNCHANGED <<settings, catalogue, now>>,
           ringing' \in [lines : SUBSET Users, payment : SUBSET Users],
           doc.createdAt \in Hours, doc.createdAt <= now, Divides(items),
           \/ \E i \in DOMAIN items : items[i].ticket
           \/ ringing'.lines \subseteq Admins
           \/ Recent(items, doc.createdAt)
    PROVE  DraftInvariant'
<1>1. /\ bill' \in BillType /\ bill'.status = "DRAFT" /\ bill'.items = items
      /\ bill'.createdAt = doc.createdAt
      /\ pricedBy' \in [user : SUBSET Users, cap : Nat]
      /\ Quoted' /\ WithinTheCap' /\ PaidWhenItHappened'
  BY PricedIs DEF DraftInvariant
<1>2. DraftTypes'
  BY <1>1 DEF DraftInvariant, DraftTypes
<1>3. TicketsDivide'
  BY <1>1 DEF TicketsDivide
<1>4. LinesDated'
  BY <1>1 DEF LinesDated, HasTickets
<1> QED
  BY <1>1, <1>2, <1>3, <1>4 DEF DraftInvariant

\* The document a draft starts from.
LEMMA NewDraft ==
    ASSUME DraftTypes, NEW user \in Users
    PROVE  /\ Draft(user) \in BillType /\ Draft(user).status = "DRAFT"
           /\ Draft(user).createdAt = now /\ now \in Hours /\ now <= now
<1>1. now \in Hours /\ now \in Nat
  BY HoursAreTimes DEF DraftTypes
<1>2. Draft(user) = [NoBill EXCEPT !.status = "DRAFT", !.cashier = {user}, !.createdAt = now]
  BY DEF Draft
<1>3. NoBill \in BillType
  BY DEF NoBill, BillType
<1>4. PICK today \in Hours, cashier \in SUBSET Users : today = now /\ cashier = {user}
  BY <1>1
<1>5. Draft(user) = [NoBill EXCEPT !.status = "DRAFT", !.cashier = cashier, !.createdAt = today]
  BY <1>2, <1>4
<1>6. PICK blank \in BillType : blank = NoBill
  BY <1>3
<1>7. Draft(user) = [blank EXCEPT !.status = "DRAFT", !.cashier = cashier, !.createdAt = today]
  BY <1>5, <1>6
<1>8. Draft(user) \in BillType
  BY <1>7 DEF BillType
<1>9. Draft(user).status = "DRAFT" /\ Draft(user).createdAt = today
  BY <1>7 DEF BillType
<1> QED
  BY <1>1, <1>4, <1>8, <1>9

\* A draft of lines that a till rang up.
LEMMA CreateDraftStep ==
    ASSUME DraftInvariant, NEW user \in Users, NEW order \in Orders, NEW discount \in Discounts,
           CreateDraft(user, order, discount)
    PROVE  DraftInvariant'
<1>1. DraftTypes /\ discount \in AskedDiscount
  BY RequestsAreValid DEF DraftInvariant
<1>2. /\ Draft(user) \in BillType /\ Draft(user).status = "DRAFT"
      /\ Draft(user).createdAt = now /\ now \in Hours /\ now <= now
  BY <1>1, NewDraft
<1>3. /\ Orderable(user, order) /\ Price(user, Draft(user), ItemSnapshots(order), discount)
      /\ UNCHANGED <<settings, catalogue, now>> /\ ringing' = [ringing EXCEPT !.lines = {user}]
  BY DEF CreateDraft
<1>4. /\ ItemSnapshots(order) \in Seq(LineType)
      /\ \A i \in DOMAIN ItemSnapshots(order) : ~ ItemSnapshots(order)[i].ticket
      /\ user \in Admins \/ Recent(ItemSnapshots(order), now)
  BY <1>1, <1>2, <1>3, OrderedLines
<1>5. Divides(ItemSnapshots(order))
  BY <1>4 DEF Divides
<1>6. ringing' \in [lines : SUBSET Users, payment : SUBSET Users] /\ ringing'.lines = {user}
  BY <1>1, <1>3 DEF DraftTypes
<1>7. \/ ringing'.lines \subseteq Admins
      \/ Recent(ItemSnapshots(order), Draft(user).createdAt)
  BY <1>2, <1>4, <1>6
<1> QED
  BY <1>1, <1>2, <1>3, <1>4, <1>5, <1>6, <1>7, DraftedIs

\* A draft of tickets.
LEMMA CheckoutStep ==
    ASSUME DraftInvariant, NEW user \in Users, NEW visit \in Visits, NEW discount \in Discounts,
           CreateDraftFromSessions(user, visit, discount)
    PROVE  DraftInvariant'
<1>1. DraftTypes /\ discount \in AskedDiscount
  BY RequestsAreValid DEF DraftInvariant
<1>2. /\ Draft(user) \in BillType /\ Draft(user).status = "DRAFT"
      /\ Draft(user).createdAt = now /\ now \in Hours /\ now <= now
  BY <1>1, NewDraft
<1>3. /\ Price(user, Draft(user), CheckoutLines(visit), discount)
      /\ UNCHANGED <<settings, catalogue, now>> /\ ringing' = [ringing EXCEPT !.lines = {user}]
  BY DEF CreateDraftFromSessions
<1>4. /\ CheckoutLines(visit) \in Seq(LineType) /\ Divides(CheckoutLines(visit))
      /\ \E i \in DOMAIN CheckoutLines(visit) : CheckoutLines(visit)[i].ticket
  BY <1>1, CheckedOutLines
<1>5. ringing' \in [lines : SUBSET Users, payment : SUBSET Users]
  BY <1>1, <1>3 DEF DraftTypes
<1> QED
  BY <1>1, <1>2, <1>3, <1>4, <1>5, DraftedIs

\* An edit of the discount leaves the lines and when they end.
LEMMA EditDiscountStep ==
    ASSUME DraftInvariant, NEW user \in Users, NEW discount \in Discounts \cup {StoredDiscount},
           EditDiscount(user, discount)
    PROVE  DraftInvariant'
<1>1. DraftTypes /\ TicketsDivide /\ LinesDated
  BY DEF DraftInvariant
<1>2. discount \in AskedDiscount
  BY <1>1, RequestsAreValid, StoredDiscountIsOne
<1>3. /\ bill.status = "DRAFT" /\ Price(user, bill, bill.items, discount)
      /\ UNCHANGED <<settings, catalogue, now, ringing>>
  BY DEF EditDiscount, MayEdit
<1>4. /\ bill \in BillType /\ bill.items \in Seq(LineType)
      /\ ringing' \in [lines : SUBSET Users, payment : SUBSET Users]
  BY <1>1, <1>3 DEF DraftTypes, BillType
<1>5. /\ bill.createdAt \in Hours /\ bill.createdAt <= now /\ Divides(bill.items)
      /\ \/ \E i \in DOMAIN bill.items : bill.items[i].ticket
         \/ ringing'.lines \subseteq Admins
         \/ Recent(bill.items, bill.createdAt)
  BY <1>1, <1>3 DEF LinesDated, TicketsDivide, HasTickets
<1>6. PICK doc \in BillType, items \in Seq(LineType) : doc = bill /\ items = bill.items
  BY <1>4
<1> QED
  BY <1>2, <1>3, <1>4, <1>5, <1>6, DraftedIs

\* An edit of the lines dates them to whoever sends them now.
LEMMA ReplaceLinesStep ==
    ASSUME DraftInvariant, NEW user \in Users, NEW order \in Orders,
           NEW discount \in Discounts \cup {StoredDiscount},
           ReplaceLines(user, order, discount)
    PROVE  DraftInvariant'
<1>1. DraftTypes /\ LinesDated
  BY DEF DraftInvariant
<1>2. discount \in AskedDiscount
  BY <1>1, RequestsAreValid, StoredDiscountIsOne
<1>3. /\ bill.status = "DRAFT" /\ Orderable(user, order)
      /\ Price(user, bill, ItemSnapshots(order), discount)
      /\ UNCHANGED <<settings, catalogue, now>> /\ ringing' = [ringing EXCEPT !.lines = {user}]
  BY DEF ReplaceLines, MayEdit
<1>4. bill \in BillType /\ bill.createdAt \in Hours /\ bill.createdAt <= now
  BY <1>1, <1>3 DEF LinesDated, DraftTypes
<1>5. /\ ItemSnapshots(order) \in Seq(LineType)
      /\ \A i \in DOMAIN ItemSnapshots(order) : ~ ItemSnapshots(order)[i].ticket
      /\ user \in Admins \/ Recent(ItemSnapshots(order), bill.createdAt)
  BY <1>1, <1>3, <1>4, OrderedLines
<1>6. Divides(ItemSnapshots(order))
  BY <1>5 DEF Divides
<1>7. ringing' \in [lines : SUBSET Users, payment : SUBSET Users] /\ ringing'.lines = {user}
  BY <1>1, <1>3 DEF DraftTypes
<1>8. ringing'.lines \subseteq Admins \/ Recent(ItemSnapshots(order), bill.createdAt)
  BY <1>5, <1>7
<1>9. PICK doc \in BillType : doc = bill
  BY <1>4
<1> QED
  BY <1>2, <1>3, <1>4, <1>5, <1>6, <1>7, <1>8, <1>9, DraftedIs

-----------------------------------------------------------------------------
(* The payment.                                                             *)

\* checkoutTimeOf is a time, and no earlier than a day before the draft if all lines are.
LEMMA CheckoutTimeIs ==
    ASSUME NEW items \in Seq(LineType), NEW doc, doc.items = items, doc.createdAt \in Int
    PROVE  /\ CheckoutTimeOf(doc) \in Int
           /\ Recent(items, doc.createdAt) => CheckoutTimeOf(doc) >= doc.createdAt - Day
<1> DEFINE dated == {i \in 1 .. Len(items) : items[i].endsAt # NoTime}
           ends == [i \in dated |-> items[i].endsAt]
           times == {items[i].endsAt : i \in DOMAIN items} \ {NoTime}
<1>1. /\ CheckoutTimeOf(doc) = IF times = {} THEN doc.createdAt ELSE Max(times)
      /\ DOMAIN items = 1 .. Len(items)
  BY DEF CheckoutTimeOf
<1>2. CASE times = {}
  BY <1>1, <1>2 DEF Day
<1>3. CASE times # {}
  <2>1. IsFiniteSet(dated) /\ dated # {}
    <3>1. IsFiniteSet(1 .. Len(items)) /\ dated \in SUBSET (1 .. Len(items))
      BY FS_Interval
    <3>2. dated # {}
      BY <1>1, <1>3
    <3> QED
      BY <3>1, <3>2, FS_Subset
  <2>2. ASSUME NEW i \in dated PROVE ends[i] \in Int /\ ends[i] = items[i].endsAt
    <3>1. items[i] \in LineType /\ items[i].endsAt # NoTime
      BY <1>1
    <3>2. items[i].endsAt \in Int
      BY <3>1 DEF LineType
    <3> QED
      BY <3>2
  <2> HIDE DEF ends
  <2>3. PICK last \in dated : \A i \in dated : ends[i] <= ends[last]
    BY <2>1, <2>2, FiniteMaximum
  <2>4. \A time \in times : \E i \in dated : time = ends[i]
    BY <1>1, <2>2
  <2>5. ends[last] \in times
    BY <1>1, <2>2
  <2> HIDE DEF dated, times
  <2>6. \E time \in times : \A other \in times : time >= other
    BY <2>2, <2>3, <2>4, <2>5
  <2>7. Max(times) \in times
    BY <2>6 DEF Max
  <2>8. PICK i \in dated : CheckoutTimeOf(doc) = ends[i]
    BY <1>1, <1>3, <2>4, <2>7
  <2>9. items[i].endsAt # NoTime /\ i \in DOMAIN items
    BY DEF dated
  <2> QED
    BY <2>2, <2>8, <2>9 DEF Recent
<1> QED
  BY <1>2, <1>3

\* Paying a draft changes its tax and its day, and no other amount.
LEMMA PaidAsQuoted ==
    ASSUME DraftTypes, Quoted, bill.status = "DRAFT",
           NEW totals, totals = CalculateBillTotals(bill.items, StoredDiscount,
                                    settings.taxPercentage, PercentageAtPayment(bill))
    PROVE  /\ totals.subtotal = bill.subtotal /\ totals.discount = bill.discount
           /\ totals.multiChildDiscount = bill.multiChildDiscount
           /\ totals.tax \in Nat /\ totals.grandTotal \in Nat
           /\ totals.grandTotal = bill.subtotal - bill.discount + totals.tax
<1>1. PICK items \in Seq(LineType), percentage \in 0 .. 100, rate \in Nat :
        /\ items = bill.items /\ percentage = bill.multiChildDiscountPercentage
        /\ rate = settings.taxPercentage
  BY StoredIsValid DEF DraftTypes, BillType
<1>2. PICK discount \in AskedDiscount : discount = StoredDiscount
  BY StoredDiscountIsOne
<1>3. discount.type = "PERCENTAGE" => discount.value <= 100
  BY <1>2 DEF Quoted, StoredDiscount
<1>4. totals = CalculateBillTotals(items, discount, rate, percentage)
  BY <1>1, <1>2 DEF PercentageAtPayment
<1>5. TotalsOf(items, discount, percentage, totals)
  BY <1>3, <1>4, TotalsAre
<1>6. /\ bill.subtotal = Subtotal(items)
      /\ bill.multiChildDiscount = CalculatePercentage(PlayBase(items), percentage)
      /\ bill.discount = bill.multiChildDiscount
           + CalculateDiscountAmount(bill.subtotal - bill.multiChildDiscount, discount)
  BY <1>1, <1>2 DEF Quoted
<1> QED
  BY <1>5, <1>6 DEF TotalsOf

\* The payment, for the amount quoted and the tax of now.
LEMMA CompleteBillStep ==
    ASSUME DraftInvariant, NEW user \in Users, NEW backdated \in BOOLEAN,
           CompleteBill(user, backdated)
    PROVE  DraftInvariant'
<1>1. /\ DraftTypes /\ TicketsDivide /\ Quoted /\ LinesDated /\ WithinTheCap
      /\ bill.status = "DRAFT" /\ (backdated => user \in Admins)
      /\ UNCHANGED <<settings, catalogue, now, pricedBy>>
      /\ ringing' = [ringing EXCEPT !.payment = {user}]
  BY DEF DraftInvariant, CompleteBill
<1>2. PICK totals : totals = CalculateBillTotals(bill.items, StoredDiscount,
                        settings.taxPercentage, PercentageAtPayment(bill))
  OBVIOUS
<1>3. /\ totals.subtotal = bill.subtotal /\ totals.discount = bill.discount
      /\ totals.multiChildDiscount = bill.multiChildDiscount
      /\ totals.tax \in Nat /\ totals.grandTotal \in Nat
      /\ totals.grandTotal = bill.subtotal - bill.discount + totals.tax
  BY <1>1, <1>2, PaidAsQuoted
<1>4. bill' = [bill EXCEPT !.status = "PAID", !.subtotal = totals.subtotal,
          !.discount = totals.discount, !.multiChildDiscount = totals.multiChildDiscount,
          !.tax = totals.tax, !.grandTotal = totals.grandTotal, !.paidAt = PaidAt(backdated),
          !.paymentRecordedAt = IF backdated THEN now ELSE NoTime]
  BY <1>2 DEF CompleteBill
<1>5. bill \in BillType /\ now \in Hours /\ now \in Nat
  BY <1>1, HoursAreTimes DEF DraftTypes
<1>6. /\ bill.createdAt \in Hours /\ bill.createdAt \in Nat /\ bill.createdAt <= now
      /\ HasTickets \/ ringing.lines \subseteq Admins \/ Recent(bill.items, bill.createdAt)
  BY <1>1, HoursAreTimes DEF LinesDated
<1>7. /\ CheckoutTimeOf(bill) \in Int
      /\ Recent(bill.items, bill.createdAt) => CheckoutTimeOf(bill) >= bill.createdAt - Day
  <2>1. PICK items \in Seq(LineType) : items = bill.items
    BY <1>5 DEF BillType
  <2>2. bill.createdAt \in Int
    BY <1>6
  <2> QED
    BY <2>1, <2>2, CheckoutTimeIs
<1>8. /\ PaidAt(backdated) \in Int /\ PaidAt(backdated) <= now
      /\ ~ backdated => PaidAt(backdated) = now
      /\ Recent(bill.items, bill.createdAt) => PaidAt(backdated) >= bill.createdAt - Day
  <2>1. CASE backdated
    <3>1. PICK checkout \in Int, today \in Nat : checkout = CheckoutTimeOf(bill) /\ today = now
      BY <1>5, <1>7
    <3>2. Min({checkout, today}) = IF checkout <= today THEN checkout ELSE today
      BY MaxOfTwo
    <3>3. PaidAt(backdated) = IF checkout <= today THEN checkout ELSE today
      BY <2>1, <3>1, <3>2 DEF PaidAt
    <3>4. PICK made \in Nat : made = bill.createdAt /\ made <= today
      BY <1>6, <3>1
    <3>5. Recent(bill.items, bill.createdAt) => checkout >= made - Day
      BY <1>7, <3>1, <3>4
    <3>6. Recent(bill.items, bill.createdAt) => PaidAt(backdated) >= made - Day
      BY <3>1, <3>3, <3>4, <3>5 DEF Day
    <3>7. PaidAt(backdated) \in Int /\ PaidAt(backdated) <= now
      BY <3>1, <3>3
    <3>8. Recent(bill.items, bill.createdAt) => PaidAt(backdated) >= bill.createdAt - Day
      BY <3>4, <3>6
    <3> QED
      BY <2>1, <3>7, <3>8
  <2>2. CASE ~ backdated
    BY <1>5, <1>6, <2>2 DEF PaidAt, Day
  <2> QED
    BY <2>1, <2>2
<1>9. PICK paid \in Int, recorded \in Hours \cup {NoTime} :
        paid = PaidAt(backdated) /\ recorded = IF backdated THEN now ELSE NoTime
  BY <1>5, <1>8
<1>10. /\ bill'.status = "PAID" /\ bill'.items = bill.items /\ bill'.subtotal = bill.subtotal
       /\ bill'.discount = bill.discount /\ bill'.multiChildDiscount = bill.multiChildDiscount
       /\ bill'.tax = totals.tax /\ bill'.grandTotal = totals.grandTotal
       /\ bill'.multiChildDiscountPercentage = bill.multiChildDiscountPercentage
       /\ bill'.multiChildCount = bill.multiChildCount
       /\ bill'.discountType = bill.discountType /\ bill'.discountValue = bill.discountValue
       /\ bill'.createdAt = bill.createdAt /\ bill'.paidAt = paid
       /\ bill'.paymentRecordedAt = recorded
  BY <1>3, <1>4, <1>5, <1>9 DEF BillType
<1>11. bill' \in BillType
  <2>1. PICK tax \in Nat, total \in Nat : tax = totals.tax /\ total = totals.grandTotal
    BY <1>3
  <2>2. PICK subtotal \in Nat, off \in Nat, multi \in Nat :
          subtotal = bill.subtotal /\ off = bill.discount /\ multi = bill.multiChildDiscount
    BY <1>5 DEF BillType
  <2>3. bill' = [bill EXCEPT !.status = "PAID", !.subtotal = subtotal, !.discount = off,
           !.multiChildDiscount = multi, !.tax = tax, !.grandTotal = total, !.paidAt = paid,
           !.paymentRecordedAt = recorded]
    BY <1>3, <1>4, <1>9, <2>1, <2>2, Zenon
  <2> QED
    BY <1>5, <2>3 DEF BillType
<1>12. ringing' \in [lines : SUBSET Users, payment : SUBSET Users]
       /\ ringing'.lines = ringing.lines /\ ringing'.payment = {user}
  BY <1>1 DEF DraftTypes
<1>13. DraftTypes'
  BY <1>1, <1>11, <1>12 DEF DraftTypes
<1>14. TicketsDivide' /\ WithinTheCap'
  BY <1>1, <1>10 DEF TicketsDivide, WithinTheCap
<1>15. Quoted'
  <2>1. StoredDiscount' = StoredDiscount
    BY <1>10 DEF StoredDiscount
  <2> QED
    BY <1>1, <1>3, <1>10, <2>1 DEF Quoted
<1>16. HasTickets' = HasTickets
  BY <1>10 DEF HasTickets
<1>17. LinesDated'
  BY <1>1, <1>6, <1>10, <1>12, <1>16 DEF LinesDated
<1>18. PaidWhenItHappened'
  <2>1. paid <= now /\ (~ backdated => paid = now)
    BY <1>8, <1>9
  <2>2. recorded = NoTime <=> ~ backdated
    BY <1>5, <1>9, HoursAreTimes
  <2>3. (IF recorded = NoTime THEN paid ELSE recorded) = now
    BY <1>9, <2>1, <2>2
  <2>4. paid < now => {user} \subseteq Admins
    BY <1>1, <1>5, <2>1
  <2>5. ~ HasTickets /\ paid < bill.createdAt - Day => ringing.lines \subseteq Admins
    BY <1>6, <1>8, <1>9 DEF Day
  <2> QED
    BY <1>10, <1>12, <1>16, <2>1, <2>3, <2>4, <2>5 DEF PaidWhenItHappened
<1> QED
  BY <1>13, <1>14, <1>15, <1>17, <1>18 DEF DraftInvariant

\* What happens next to a draft changes neither it nor what is known of it.
LEMMA OtherSteps ==
    ASSUME DraftInvariant,
           \/ \E to \in Settings : UpdateSettings(to)
           \/ \E to \in Catalogues : UpdateCatalogue(to)
           \/ \E to \in Hours : TimePasses(to)
           \/ UNCHANGED vars
    PROVE  DraftInvariant'
<1>1. /\ DraftTypes /\ TicketsDivide /\ Quoted /\ LinesDated
      /\ WithinTheCap /\ PaidWhenItHappened
  BY DEF DraftInvariant
<1>2. UNCHANGED <<bill, pricedBy, ringing>>
  BY DEF UpdateSettings, UpdateCatalogue, TimePasses, vars
<1>3. settings' \in Settings /\ catalogue' \in Catalogues /\ now' \in Hours /\ now' >= now
  <2>1. now \in Nat
    BY <1>1, HoursAreTimes DEF DraftTypes
  <2> QED
    BY <1>1, <2>1 DEF UpdateSettings, UpdateCatalogue, TimePasses, vars, DraftTypes
<1>4. DraftTypes'
  BY <1>1, <1>2, <1>3 DEF DraftTypes
<1>5. TicketsDivide' /\ WithinTheCap' /\ PaidWhenItHappened'
  BY <1>1, <1>2 DEF TicketsDivide, WithinTheCap, PaidWhenItHappened, HasTickets
<1>6. Quoted'
  BY <1>1, <1>2 DEF Quoted, StoredDiscount
<1>7. LinesDated'
  <2>1. now \in Nat /\ now' \in Nat
    BY <1>1, <1>3, HoursAreTimes DEF DraftTypes
  <2>2. ASSUME bill.createdAt \in Hours, bill.createdAt <= now PROVE bill.createdAt <= now'
    <3>1. bill.createdAt \in Nat
      BY <2>2, HoursAreTimes
    <3> QED
      BY <1>3, <2>1, <2>2, <3>1
  <2> QED
    BY <1>1, <1>2, <2>2 DEF LinesDated, HasTickets
<1> QED
  BY <1>4, <1>5, <1>6, <1>7 DEF DraftInvariant

\* Before there is a draft.
LEMMA DraftStarts ==
    ASSUME Init
    PROVE  DraftInvariant
<1>1. /\ bill = NoBill /\ settings \in Settings /\ catalogue \in Catalogues /\ now \in Hours
      /\ pricedBy = [user |-> {}, cap |-> 0] /\ ringing = [lines |-> {}, payment |-> {}]
  BY DEF Init
<1>2. NoBill \in BillType /\ NoBill.status = "NONE" /\ NoBill.items = <<>>
  BY DEF NoBill, BillType
<1>3. pricedBy.user = {}
  BY <1>1
<1>4. DraftTypes
  BY <1>1, <1>2 DEF DraftTypes
<1> QED
  BY <1>1, <1>2, <1>3, <1>4
  DEF DraftInvariant, TicketsDivide, Divides, Quoted, LinesDated, WithinTheCap, PaidWhenItHappened

-----------------------------------------------------------------------------
(* The theorems.                                                            *)

\* The inductive invariant holds, for every set of orders, visits, discounts, settings,
\* catalogues and hours: what a draft stores is what its own lines, discount and rule give.
THEOREM DraftInvariantHolds == Spec => []DraftInvariant
<1>1. Init => DraftInvariant
  BY DraftStarts
<1>2. DraftInvariant /\ [Next]_vars => DraftInvariant'
  <2> SUFFICES ASSUME DraftInvariant, [Next]_vars PROVE DraftInvariant'
    OBVIOUS
  <2>1. ASSUME NEW user \in Users, TillStep(user) PROVE DraftInvariant'
    <3>1. CASE \E order \in Orders, discount \in Discounts : CreateDraft(user, order, discount)
      BY <3>1, CreateDraftStep
    <3>2. CASE \E visit \in Visits, discount \in Discounts :
                 CreateDraftFromSessions(user, visit, discount)
      BY <3>2, CheckoutStep
    <3>3. CASE \E discount \in Discounts \cup {StoredDiscount} : EditDiscount(user, discount)
      BY <3>3, EditDiscountStep
    <3>4. CASE \E order \in Orders, discount \in Discounts \cup {StoredDiscount} :
                 ReplaceLines(user, order, discount)
      BY <3>4, ReplaceLinesStep
    <3>5. CASE \E backdated \in BOOLEAN : CompleteBill(user, backdated)
      BY <3>5, CompleteBillStep
    <3> QED
      BY <2>1, <3>1, <3>2, <3>3, <3>4, <3>5 DEF TillStep
  <2>2. CASE \E user \in Users : TillStep(user)
    BY <2>1, <2>2
  <2>3. CASE ~ \E user \in Users : TillStep(user)
    BY <2>3, OtherSteps DEF Next
  <2> QED
    BY <2>2, <2>3
<1> QED
  BY <1>1, <1>2, PTL DEF Spec

\* Every part of the state keeps its type: amounts are natural numbers, a draft has a date.
THEOREM DraftTypesHold == Spec => []DraftTypes
<1>1. DraftInvariant => DraftTypes
  BY DEF DraftInvariant
<1> QED
  BY <1>1, DraftInvariantHolds, PTL

\* What a cashier gives on a draft he priced stays below the cap he priced it under, of what
\* the automatic discount left (priceDraft, validateDiscountPermission).
THEOREM WithinTheCapHolds == Spec => []WithinTheCap
<1>1. DraftInvariant => WithinTheCap
  BY DEF DraftInvariant
<1> QED
  BY <1>1, DraftInvariantHolds, PTL

\* A payment is dated to another moment by an admin only, never ahead, and without tickets
\* not more than a day before the draft unless an admin wrote the lines (completeBill).
THEOREM PaidWhenItHappenedHolds == Spec => []PaidWhenItHappened
<1>1. DraftInvariant => PaidWhenItHappened
  BY DEF DraftInvariant
<1> QED
  BY <1>1, DraftInvariantHolds, PTL

\* Paying a draft charges the subtotal and the discounts it was quoted with, whatever the
\* settings and the catalogue have become (completeBill on the snapshotted rule).
THEOREM ChargedAsQuotedHolds == Spec => ChargedAsQuoted
<1> DEFINE Kept == bill.status = "DRAFT" /\ bill'.status = "PAID" =>
                     /\ bill'.subtotal = bill.subtotal /\ bill'.discount = bill.discount
                     /\ bill'.multiChildDiscount = bill.multiChildDiscount
<1>1. DraftInvariant /\ [Next]_vars => [Kept]_vars
  <2> SUFFICES ASSUME DraftInvariant, Next, bill.status = "DRAFT", bill'.status = "PAID"
               PROVE  /\ bill'.subtotal = bill.subtotal /\ bill'.discount = bill.discount
                      /\ bill'.multiChildDiscount = bill.multiChildDiscount
    BY DEF vars
  <2>1. DraftTypes /\ Quoted
    BY DEF DraftInvariant
  <2>2. bill # NoBill
    BY DEF NoBill
  <2>3. bill' # bill
    OBVIOUS
  <2>4. PICK user \in Users : TillStep(user)
    BY <2>3 DEF Next, UpdateSettings, UpdateCatalogue, TimePasses
  <2>5. ASSUME NEW doc \in BillType, doc.status = "DRAFT", NEW items, NEW discount,
               Price(user, doc, items, discount)
        PROVE  FALSE
    <3>1. bill'.status = "DRAFT"
      BY <2>5 DEF Price, PriceDraft, BillType
    <3> QED
      BY <3>1
  <2>6. bill \in BillType
    BY <2>1 DEF DraftTypes
  <2>7. PICK backdated \in BOOLEAN : CompleteBill(user, backdated)
    BY <2>2, <2>4, <2>5, <2>6 DEF TillStep, CreateDraft, CreateDraftFromSessions, EditDiscount, ReplaceLines
  <2>8. PICK totals : totals = CalculateBillTotals(bill.items, StoredDiscount,
                        settings.taxPercentage, PercentageAtPayment(bill))
    OBVIOUS
  <2>9. /\ bill'.subtotal = totals.subtotal /\ bill'.discount = totals.discount
        /\ bill'.multiChildDiscount = totals.multiChildDiscount
    BY <2>6, <2>7, <2>8 DEF CompleteBill, BillType
  <2>10. /\ totals.subtotal = bill.subtotal /\ totals.discount = bill.discount
         /\ totals.multiChildDiscount = bill.multiChildDiscount
    BY <2>1, <2>8, PaidAsQuoted
  <2> QED
    BY <2>9, <2>10
<1> QED
  BY <1>1, DraftInvariantHolds, PTL DEF Spec, ChargedAsQuoted

-----------------------------------------------------------------------------
(* One ticket for a family, or one for each child.                          *)

\* The line of a ticket, split into one for each child, comes to the same.
LEMMA ChildrenApart ==
    ASSUME NEW line \in LineType, line.quantity > 0, IsShared(line), line.ticket
    PROVE  LET child == [line EXCEPT !.quantity = 1, !.lineTotal = @ \div line.quantity]
           IN  /\ child \in LineType
               /\ line.quantity * LineTotals[child] = LineTotals[line]
               /\ line.quantity * PlayTotals[child] = PlayTotals[line]
               /\ line.quantity * ChildrenOn[child] = ChildrenOn[line]
<1> DEFINE child == [line EXCEPT !.quantity = 1, !.lineTotal = @ \div line.quantity]
<1>1. PICK charge \in Nat : line.lineTotal = charge * line.quantity /\ line.kind = "PLAY"
  BY DEF IsShared
<1>2. PICK quantity \in Nat : quantity = line.quantity /\ quantity > 0
  BY DEF LineType
<1>3. (charge * quantity) \div quantity = charge
  BY <1>2
<1>4. child = [line EXCEPT !.quantity = 1, !.lineTotal = charge]
  BY <1>1, <1>2, <1>3
<1>5. child \in LineType
  BY <1>4 DEF LineType
<1>6. child.quantity = 1 /\ child.lineTotal = charge /\ child.kind = "PLAY" /\ child.ticket
  BY <1>1, <1>4 DEF LineType
<1>7. LineTotals[child] = charge /\ LineTotals[line] = charge * quantity
  BY <1>1, <1>2, <1>5, <1>6 DEF LineTotals
<1>8. PlayTotals[child] = charge /\ PlayTotals[line] = charge * quantity
  BY <1>1, <1>2, <1>5, <1>6 DEF PlayTotals
<1>9. ChildrenOn[child] = 1 /\ ChildrenOn[line] = quantity
  BY <1>1, <1>2, <1>5, <1>6 DEF ChildrenOn
<1> HIDE DEF child
<1>10. /\ line.quantity * LineTotals[child] = LineTotals[line]
       /\ line.quantity * PlayTotals[child] = PlayTotals[line]
       /\ line.quantity * ChildrenOn[child] = ChildrenOn[line]
  BY <1>2, <1>7, <1>8, <1>9
<1> QED
  BY <1>5, <1>10 DEF child

\* n copies of a line add up to n times the line, and one of it to itself.
LEMMA SumOfCopies ==
    ASSUME NEW amount \in [LineType -> Int], NEW line \in LineType, NEW n \in Nat
    PROVE  /\ [k \in 1 .. n |-> line] \in Seq(LineType)
           /\ SumAlong(amount, [k \in 1 .. n |-> line]) = n * amount[line]
           /\ <<line>> \in Seq(LineType) /\ SumAlong(amount, <<line>>) = amount[line]
<1>1. ASSUME NEW m \in Nat, NEW copies \in Seq(LineType), Len(copies) = m,
             \A k \in 1 .. m : copies[k] = line
      PROVE  SumAlong(amount, copies) = m * amount[line]
  <2> DEFINE v == [k \in 1 .. Len(copies) |-> amount[copies[k]]]
  <2>1. SumAlong(amount, copies) = SumFunctionOnSet(v, 1 .. Len(copies))
    BY SumAlongIs
  <2>2. \A k \in 1 .. m : v[k] = amount[line]
    BY <1>1
  <2>3. amount[line] \in Int
    OBVIOUS
  <2> HIDE DEF v
  <2>4. SumFunctionOnSet(v, 1 .. m) = m * amount[line]
    BY <2>2, <2>3, SumOfAlike
  <2> QED
    BY <1>1, <2>1, <2>4
<1>2. /\ [k \in 1 .. n |-> line] \in Seq(LineType) /\ Len([k \in 1 .. n |-> line]) = n
      /\ \A k \in 1 .. n : [j \in 1 .. n |-> line][k] = line
  OBVIOUS
<1>3. <<line>> \in Seq(LineType) /\ Len(<<line>>) = 1 /\ \A k \in 1 .. 1 : <<line>>[k] = line
  OBVIOUS
<1>4. SumAlong(amount, [k \in 1 .. n |-> line]) = n * amount[line]
  BY <1>1, <1>2
<1>5. SumAlong(amount, <<line>>) = 1 * amount[line] /\ 1 \in Nat
  BY <1>1, <1>3
<1>6. amount[line] \in Int
  OBVIOUS
<1> QED
  BY <1>2, <1>3, <1>4, <1>5, <1>6

\* Lines that are each replaced by lines of the same amount come to the same.
LEMMA SplitUp ==
    ASSUME NEW amount \in [LineType -> Int], NEW items \in Seq(LineType), items # <<>>,
           NEW seqs \in Seq(Seq(LineType)), Len(seqs) = Len(items),
           \A i \in 1 .. Len(items) : SumAlong(amount, seqs[i]) = amount[items[i]]
    PROVE  SumAlong(amount, FlattenSeq(seqs)) = SumAlong(amount, items)
<1> DEFINE sums == [i \in 1 .. Len(seqs) |-> SumAlong(amount, seqs[i])]
           v == [i \in 1 .. Len(items) |-> amount[items[i]]]
<1>1. SumAlong(amount, FlattenSeq(seqs)) = SumFunctionOnSet(sums, 1 .. Len(seqs))
  <2>1. seqs # <<>>
    OBVIOUS
  <2> QED
    BY <2>1, SumAlongFlattened
<1>2. SumAlong(amount, items) = SumFunctionOnSet(v, 1 .. Len(items))
  <2>1. DOMAIN items = 1 .. Len(items)
    OBVIOUS
  <2> QED
    BY <2>1 DEF SumAlong, SumFunction
<1>3. IsFiniteSet(1 .. Len(items)) /\ \A i \in 1 .. Len(items) : items[i] \in LineType
  BY FS_Interval
<1>4. \A i \in 1 .. Len(items) : v[i] \in Int /\ sums[i] = v[i]
  BY <1>3
<1> HIDE DEF sums, v
<1>5. SumFunctionOnSet(v, 1 .. Len(items)) = SumFunctionOnSet(sums, 1 .. Len(items))
  BY <1>3, <1>4, SumSame
<1> QED
  BY <1>1, <1>2, <1>5

\* A bill whose tickets are split into one for each child has the same sums.
LEMMA SeparateTickets ==
    ASSUME NEW items \in Seq(LineType), Divides(items)
    PROVE  /\ Subtotal(ASeparateTicketEach(items)) = Subtotal(items)
           /\ PlayBase(ASeparateTicketEach(items)) = PlayBase(items)
           /\ PlayChildrenOnItems(ASeparateTicketEach(items)) = PlayChildrenOnItems(items)
<1> DEFINE child(line) == [line EXCEPT !.quantity = 1, !.lineTotal = @ \div line.quantity]
           apart(line) == IF line.ticket THEN [k \in 1 .. line.quantity |-> child(line)] ELSE <<line>>
           seqs == [i \in 1 .. Len(items) |-> apart(items[i])]
<1>1. /\ Len(items) \in Nat /\ DOMAIN items = 1 .. Len(items)
      /\ \A i \in 1 .. Len(items) : items[i] \in LineType
  OBVIOUS
<1>2. ASeparateTicketEach(items) = FlattenSeq(seqs)
  BY <1>1 DEF ASeparateTicketEach
<1>3. ASSUME NEW i \in 1 .. Len(items)
      PROVE  /\ seqs[i] \in Seq(LineType)
             /\ SumAlong(LineTotals, seqs[i]) = LineTotals[items[i]]
             /\ SumAlong(PlayTotals, seqs[i]) = PlayTotals[items[i]]
             /\ SumAlong(ChildrenOn, seqs[i]) = ChildrenOn[items[i]]
  <2>1. PICK line \in LineType : line = items[i] /\ seqs[i] = apart(line)
    BY <1>1
  <2>2. CASE line.ticket
    <3>1. line.quantity > 0 /\ IsShared(line) /\ line.quantity \in Nat
      BY <1>1, <2>1, <2>2 DEF Divides, LineType
    <3>2. PICK one \in LineType : one = child(line)
      BY <2>2, <3>1, ChildrenApart
    <3>3. /\ line.quantity * LineTotals[one] = LineTotals[line]
          /\ line.quantity * PlayTotals[one] = PlayTotals[line]
          /\ line.quantity * ChildrenOn[one] = ChildrenOn[line]
      BY <2>2, <3>1, <3>2, ChildrenApart
    <3>4. PICK n \in Nat : n = line.quantity
      BY <3>1
    <3>5. seqs[i] = [k \in 1 .. n |-> one]
      BY <2>1, <2>2, <3>2, <3>4
    <3> HIDE DEF seqs
    <3>6. ASSUME NEW amount \in [LineType -> Int]
          PROVE  SumAlong(amount, seqs[i]) = n * amount[one] /\ seqs[i] \in Seq(LineType)
      <4>1. /\ SumAlong(amount, [k \in 1 .. n |-> one]) = n * amount[one]
            /\ [k \in 1 .. n |-> one] \in Seq(LineType)
        BY SumOfCopies
      <4> QED
        BY <3>5, <4>1
    <3>7. /\ SumAlong(LineTotals, seqs[i]) = n * LineTotals[one]
          /\ SumAlong(PlayTotals, seqs[i]) = n * PlayTotals[one]
          /\ SumAlong(ChildrenOn, seqs[i]) = n * ChildrenOn[one] /\ seqs[i] \in Seq(LineType)
      BY <3>6, LineAmounts
    <3> QED
      BY <2>1, <3>3, <3>4, <3>7
  <2>3. CASE ~ line.ticket
    <3>1. seqs[i] = <<line>> /\ 0 \in Nat
      BY <2>1, <2>3
    <3> HIDE DEF seqs
    <3>2. SumAlong(LineTotals, seqs[i]) = LineTotals[line] /\ seqs[i] \in Seq(LineType)
      BY <3>1, LineAmounts, SumOfCopies
    <3>3. SumAlong(PlayTotals, seqs[i]) = PlayTotals[line]
      BY <3>1, LineAmounts, SumOfCopies
    <3>4. SumAlong(ChildrenOn, seqs[i]) = ChildrenOn[line]
      BY <3>1, LineAmounts, SumOfCopies
    <3> QED
      BY <2>1, <3>2, <3>3, <3>4
  <2> QED
    BY <2>2, <2>3
<1>4. seqs \in Seq(Seq(LineType)) /\ Len(seqs) = Len(items)
  <2>1. \A i \in 1 .. Len(items) : apart(items[i]) \in Seq(LineType)
    BY <1>3
  <2> HIDE DEF apart
  <2> QED
    BY <1>1, <2>1
<1>5. CASE items = <<>>
  <2>1. FlattenSeq(seqs) = items
    BY <1>4, <1>5 DEF FlattenSeq
  <2> HIDE DEF seqs
  <2> QED
    BY <1>2, <2>1
<1>6. CASE items # <<>>
  <2> HIDE DEF seqs
  <2>1. SumAlong(LineTotals, FlattenSeq(seqs)) = SumAlong(LineTotals, items)
    BY <1>3, <1>4, <1>6, LineAmounts, SplitUp
  <2>2. SumAlong(PlayTotals, FlattenSeq(seqs)) = SumAlong(PlayTotals, items)
    BY <1>3, <1>4, <1>6, LineAmounts, SplitUp
  <2>3. SumAlong(ChildrenOn, FlattenSeq(seqs)) = SumAlong(ChildrenOn, items)
    BY <1>3, <1>4, <1>6, LineAmounts, SplitUp
  <2>4. FlattenSeq(seqs) \in Seq(LineType)
    <3>1. seqs # <<>>
      BY <1>1, <1>4, <1>6
    <3> QED
      BY <1>4, <3>1, LineAmounts, SumAlongFlattened
  <2> QED
    BY <1>2, <2>1, <2>2, <2>3, <2>4, LinesAddUp
<1> QED
  BY <1>5, <1>6

\* A family pays the same on one ticket as on a ticket for each child, whatever the tiers.
THEOREM FamilyTicketsHold == Spec => []FamilyTicketIsAsSeparateTickets
<1>1. DraftInvariant => FamilyTicketIsAsSeparateTickets
  <2> SUFFICES ASSUME DraftInvariant
               PROVE  PriceDraft(bill, ASeparateTicketEach(bill.items), StoredDiscount)
                        = [PriceDraft(bill, bill.items, StoredDiscount)
                             EXCEPT !.items = ASeparateTicketEach(bill.items)]
    BY DEF FamilyTicketIsAsSeparateTickets
  <2>1. PICK doc \in BillType, items \in Seq(LineType) :
          doc = bill /\ items = bill.items /\ Divides(items)
    BY DEF DraftInvariant, DraftTypes, TicketsDivide, BillType
  <2>2. PICK apart : apart = ASeparateTicketEach(items)
    OBVIOUS
  <2>3. /\ Subtotal(apart) = Subtotal(items) /\ PlayBase(apart) = PlayBase(items)
        /\ PlayChildrenOnItems(apart) = PlayChildrenOnItems(items)
    BY <2>1, <2>2, SeparateTickets
  <2>4. PICK discount : discount = StoredDiscount
    OBVIOUS
  <2> DEFINE count == PlayChildrenOnItems(items)
             percentage == MultiChildPercentage(settings.tiers, count)
             totals == CalculateBillTotals(items, discount, settings.taxPercentage, percentage)
             Priced(lines) ==
               [doc EXCEPT !.items = lines, !.discountType = discount.type,
                  !.discountValue = discount.value, !.subtotal = totals.subtotal,
                  !.discount = totals.discount, !.multiChildDiscount = totals.multiChildDiscount,
                  !.multiChildDiscountPercentage = IF totals.multiChildDiscount > 0 THEN percentage ELSE 0,
                  !.multiChildCount = IF totals.multiChildDiscount > 0 THEN count ELSE 0,
                  !.tax = totals.tax, !.grandTotal = totals.grandTotal]
  <2>5. CalculateBillTotals(apart, discount, settings.taxPercentage, percentage) = totals
    BY <2>3 DEF CalculateBillTotals
  <2>6. PriceDraft(doc, items, discount) = Priced(items)
    BY DEF PriceDraft
  <2>7. PriceDraft(doc, apart, discount) = Priced(apart)
    <3> HIDE DEF totals
    <3> QED
      BY <2>3, <2>5 DEF PriceDraft
  <2>8. Priced(apart) = [Priced(items) EXCEPT !.items = apart]
    <3> HIDE DEF totals, percentage, count
    <3> QED
      BY DEF BillType
  <2> QED
    BY <2>1, <2>2, <2>4, <2>6, <2>7, <2>8
<1> QED
  BY <1>1, DraftInvariantHolds, PTL

-----------------------------------------------------------------------------
(* The foot of the receipt.                                                 *)

Labels == {"Subtotal", "Family discount", "Discount", "Tax"}
RowType == [label : Labels, amount : Int]
RowAmounts == [row \in RowType |-> row.amount]

\* A row is its label and its amount.
LEMMA RowIs ==
    ASSUME NEW label \in Labels, NEW amount \in Int
    PROVE  /\ Row(label, amount) \in RowType
           /\ Row(label, amount).label = label /\ Row(label, amount).amount = amount
BY DEF Row, RowType

\* What one sequence and another behind it hold is what either holds.
LEMMA RangeOfJoined ==
    ASSUME NEW T, NEW s \in Seq(T), NEW t \in Seq(T)
    PROVE  Range(s \o t) = Range(s) \cup Range(t)
<1> DEFINE u == s \o t
<1>1. /\ DOMAIN s = 1 .. Len(s) /\ DOMAIN t = 1 .. Len(t) /\ DOMAIN u = 1 .. Len(u)
      /\ Len(u) = Len(s) + Len(t) /\ Len(s) \in Nat /\ Len(t) \in Nat
  OBVIOUS
<1>2. \A i \in 1 .. Len(s) : i \in 1 .. Len(u) /\ u[i] = s[i]
  BY <1>1
<1>3. \A i \in 1 .. Len(t) : Len(s) + i \in 1 .. Len(u) /\ u[Len(s) + i] = t[i]
  BY <1>1
<1>4. \A i \in 1 .. Len(u) :
        \/ i \in 1 .. Len(s) /\ u[i] = s[i]
        \/ i - Len(s) \in 1 .. Len(t) /\ u[i] = t[i - Len(s)]
  BY <1>1
<1> HIDE DEF u
<1>5. Range(u) \subseteq Range(s) \cup Range(t)
  BY <1>1, <1>4 DEF Range
<1>6. Range(s) \subseteq Range(u)
  BY <1>1, <1>2 DEF Range
<1>7. Range(t) \subseteq Range(u)
  BY <1>1, <1>3 DEF Range
<1> QED
  BY <1>5, <1>6, <1>7 DEF u

\* A row that is printed for an amount above 0 adds its own amount.
LEMMA PrintedIs ==
    ASSUME NEW n \in Nat, NEW row \in RowType
    PROVE  /\ PrintedIf(n > 0, row) \in Seq(RowType)
           /\ n > 0 => SumAlong(RowAmounts, PrintedIf(n > 0, row)) = row.amount
           /\ n = 0 => SumAlong(RowAmounts, PrintedIf(n > 0, row)) = 0
           /\ \A x \in Range(PrintedIf(n > 0, row)) : n > 0 /\ x = row
           /\ n > 0 => row \in Range(PrintedIf(n > 0, row))
<1>1. RowAmounts \in [RowType -> Int] /\ RowAmounts[row] = row.amount /\ row.amount \in Int
  BY DEF RowAmounts, RowType
<1>2. CASE n > 0
  <2>1. PICK s \in Seq(RowType) : s = <<row>>
    <3>1. <<row>> \in Seq(RowType)
      OBVIOUS
    <3> QED
      BY <3>1
  <2>2. s = PrintedIf(n > 0, row)
    BY <1>2, <2>1 DEF PrintedIf
  <2>3. DOMAIN s = 1 .. 1 /\ s[1] = row /\ Len(s) = 1
    BY <2>1
  <2> DEFINE v == [i \in 1 .. Len(s) |-> RowAmounts[s[i]]]
  <2>4. SumAlong(RowAmounts, s) = SumFunctionOnSet(v, 1 .. Len(s))
    BY <2>3 DEF SumAlong, SumFunction
  <2>5. \A i \in 1 .. 1 : v[i] = row.amount
    BY <1>1, <2>3
  <2> HIDE DEF v
  <2>6. SumFunctionOnSet(v, 1 .. 1) = 1 * row.amount
    BY <1>1, <2>5, SumOfAlike
  <2>7. SumAlong(RowAmounts, s) = row.amount
    BY <1>1, <2>3, <2>4, <2>6
  <2>8. Range(s) = {row}
    BY <2>3 DEF Range
  <2> QED
    BY <1>2, <2>2, <2>7, <2>8
<1>3. CASE ~ (n > 0)
  <2>1. PICK s \in Seq(RowType) : s = <<>>
    <3>1. <<>> \in Seq(RowType)
      OBVIOUS
    <3> QED
      BY <3>1
  <2>2. s = PrintedIf(n > 0, row)
    BY <1>3, <2>1 DEF PrintedIf
  <2>3. DOMAIN s = {}
    BY <2>1
  <2> DEFINE v == [i \in {} |-> RowAmounts[s[i]]]
  <2>4. SumAlong(RowAmounts, s) = SumFunctionOnSet(v, {})
    BY <2>3 DEF SumAlong, SumFunction
  <2> HIDE DEF v
  <2>5. SumFunctionOnSet(v, {}) = 0
    <3>1. IsFiniteSet({}) /\ \A x \in {} : v[x] \in Int
      BY FS_EmptySet
    <3> QED
      BY <3>1, SumStep
  <2>6. Range(s) = {}
    BY <2>3 DEF Range
  <2> QED
    BY <1>3, <2>2, <2>4, <2>5, <2>6
<1> QED
  BY <1>2, <1>3

\* The rows of a footer: what they add up to, what comes first, and which there are.
FooterOf(rows, subtotal, multi, given, tax) ==
    /\ rows \in Seq(RowType)
    /\ SumAlong(RowAmounts, rows) = subtotal - multi - given + tax
    /\ rows[1].amount = subtotal
    /\ \A row \in Range(rows) :
         row.label = "Family discount" => row.amount = 0 - multi /\ multi > 0
    /\ multi > 0 => \E row \in Range(rows) : row.label = "Family discount"

\* FooterRows gives them.
LEMMA FooterIs ==
    ASSUME NEW subtotal \in Nat, NEW multi \in Nat, NEW given \in Nat, NEW tax \in Nat,
           NEW doc, doc.subtotal = subtotal, doc.multiChildDiscount = multi,
           ManualDiscount(doc) = given, doc.tax = tax
    PROVE  FooterOf(FooterRows(doc), subtotal, multi, given, tax)
<1>1. PICK top \in RowType :
        top = Row("Subtotal", subtotal) /\ top.label = "Subtotal" /\ top.amount = subtotal
  <2>1. PICK label \in Labels, amount \in Int : label = "Subtotal" /\ amount = subtotal
    BY DEF Labels
  <2> QED
    BY <2>1, RowIs
<1>2. PICK family \in RowType :
        family = Row("Family discount", 0 - multi) /\ family.label = "Family discount" /\ family.amount = 0 - multi
  <2>1. PICK label \in Labels, amount \in Int : label = "Family discount" /\ amount = 0 - multi
    BY DEF Labels
  <2> QED
    BY <2>1, RowIs
<1>3. PICK gift \in RowType :
        gift = Row("Discount", 0 - given) /\ gift.label = "Discount" /\ gift.amount = 0 - given
  <2>1. PICK label \in Labels, amount \in Int : label = "Discount" /\ amount = 0 - given
    BY DEF Labels
  <2> QED
    BY <2>1, RowIs
<1>4. PICK taxes \in RowType :
        taxes = Row("Tax", tax) /\ taxes.label = "Tax" /\ taxes.amount = tax
  <2>1. PICK label \in Labels, amount \in Int : label = "Tax" /\ amount = tax
    BY DEF Labels
  <2> QED
    BY <2>1, RowIs
<1> DEFINE a == <<top>>
           b == PrintedIf(multi > 0, family)
           c == PrintedIf(given > 0, gift)
           d == PrintedIf(tax > 0, taxes)
<1>5. FooterRows(doc) = ((a \o b) \o c) \o d
  BY <1>1, <1>2, <1>3, <1>4 DEF FooterRows
<1>6. PICK one \in Nat : one > 0 /\ a = PrintedIf(one > 0, top)
  BY DEF PrintedIf
<1>7. RowAmounts \in [RowType -> Int]
  BY DEF RowAmounts, RowType
<1>8. a \in Seq(RowType) /\ SumAlong(RowAmounts, a) = subtotal
  <2>1. /\ PrintedIf(one > 0, top) \in Seq(RowType)
        /\ SumAlong(RowAmounts, PrintedIf(one > 0, top)) = top.amount
    BY <1>6, PrintedIs
  <2> HIDE DEF a
  <2>2. a \in Seq(RowType) /\ SumAlong(RowAmounts, a) = top.amount
    BY <1>6, <2>1, Zenon
  <2> QED
    BY <1>1, <2>2
<1>9. b \in Seq(RowType) /\ SumAlong(RowAmounts, b) = 0 - multi
  <2>1. /\ b \in Seq(RowType)
        /\ multi > 0 => SumAlong(RowAmounts, b) = family.amount
        /\ multi = 0 => SumAlong(RowAmounts, b) = 0
    BY PrintedIs
  <2> HIDE DEF b
  <2>2. multi > 0 \/ multi = 0
    OBVIOUS
  <2>3. family.amount = 0 - multi
    BY <1>2, Zenon
  <2> QED
    BY <2>1, <2>2, <2>3
<1>10. c \in Seq(RowType) /\ SumAlong(RowAmounts, c) = 0 - given
  <2>1. /\ c \in Seq(RowType)
        /\ given > 0 => SumAlong(RowAmounts, c) = gift.amount
        /\ given = 0 => SumAlong(RowAmounts, c) = 0
    BY PrintedIs
  <2> HIDE DEF c
  <2>2. given > 0 \/ given = 0
    OBVIOUS
  <2> QED
    BY <1>3, <2>1, <2>2
<1>11. d \in Seq(RowType) /\ SumAlong(RowAmounts, d) = tax
  <2>1. /\ d \in Seq(RowType)
        /\ tax > 0 => SumAlong(RowAmounts, d) = taxes.amount
        /\ tax = 0 => SumAlong(RowAmounts, d) = 0
    BY PrintedIs
  <2> HIDE DEF d
  <2>2. tax > 0 \/ tax = 0
    OBVIOUS
  <2> QED
    BY <1>4, <2>1, <2>2
<1>12. PICK first \in Seq(RowType) : first = a /\ first[1] = top /\ Len(first) = 1
  BY <1>8
<1>13. \A row \in Range(a) : row.label = "Subtotal"
  <2> HIDE DEF a
  <2>1. first = a /\ DOMAIN first = 1 .. 1 /\ first[1] = top
    BY <1>12
  <2>2. \A row \in Range(first) : row = top
    BY <2>1 DEF Range
  <2>3. \A row \in Range(a) : row = top
    BY <2>1, <2>2, Zenon
  <2> QED
    BY <1>1, <2>3
<1>14. \A row \in Range(b) : row = family /\ multi > 0
  BY PrintedIs
<1>15. multi > 0 => family \in Range(b)
  BY PrintedIs
<1>16. \A row \in Range(c) : row.label = "Discount"
  <2>1. \A row \in Range(c) : row = gift
    BY PrintedIs
  <2> QED
    BY <1>3, <2>1
<1>17. \A row \in Range(d) : row.label = "Tax"
  <2>1. \A row \in Range(d) : row = taxes
    BY PrintedIs
  <2> QED
    BY <1>4, <2>1
<1> HIDE DEF a, b, c, d
<1>18. PICK ab \in Seq(RowType) : ab = a \o b
  <2>1. a \o b \in Seq(RowType)
    BY <1>8, <1>9
  <2> QED
    BY <2>1
<1>19. PICK abc \in Seq(RowType) : abc = ab \o c
  <2>1. ab \o c \in Seq(RowType)
    BY <1>10
  <2> QED
    BY <2>1
<1>20. PICK rows \in Seq(RowType) : rows = abc \o d
  <2>1. abc \o d \in Seq(RowType)
    BY <1>11
  <2> QED
    BY <2>1
<1>21. rows = FooterRows(doc)
  BY <1>5, <1>18, <1>19, <1>20
<1>22. SumAlong(RowAmounts, rows) = subtotal - multi - given + tax
  <2>1. SumAlong(RowAmounts, ab) = SumAlong(RowAmounts, a) + SumAlong(RowAmounts, b)
    BY <1>7, <1>8, <1>9, <1>18, SumAlongJoined
  <2>2. SumAlong(RowAmounts, abc) = SumAlong(RowAmounts, ab) + SumAlong(RowAmounts, c)
    BY <1>7, <1>10, <1>19, SumAlongJoined
  <2>3. SumAlong(RowAmounts, rows) = SumAlong(RowAmounts, abc) + SumAlong(RowAmounts, d)
    BY <1>7, <1>11, <1>20, SumAlongJoined
  <2> QED
    BY <1>8, <1>9, <1>10, <1>11, <2>1, <2>2, <2>3
<1>23. Range(rows) = Range(a) \cup Range(b) \cup Range(c) \cup Range(d)
  <2>1. Range(ab) = Range(a) \cup Range(b)
    BY <1>8, <1>9, <1>18, RangeOfJoined
  <2>2. Range(abc) = Range(ab) \cup Range(c)
    BY <1>10, <1>19, RangeOfJoined
  <2>3. Range(rows) = Range(abc) \cup Range(d)
    BY <1>11, <1>20, RangeOfJoined
  <2> QED
    BY <2>1, <2>2, <2>3
<1>24. rows[1] = top
  <2>1. ASSUME NEW s \in Seq(RowType), NEW t \in Seq(RowType), Len(s) > 0
        PROVE  Len(s \o t) > 0 /\ (s \o t)[1] = s[1]
    BY <2>1
  <2>2. Len(a) > 0 /\ a[1] = top
    BY <1>12
  <2>3. Len(ab) > 0 /\ ab[1] = top
    BY <1>8, <1>9, <1>18, <2>1, <2>2
  <2>4. Len(abc) > 0 /\ abc[1] = top
    BY <1>10, <1>19, <2>1, <2>3
  <2> QED
    BY <1>11, <1>20, <2>1, <2>4
<1>25. \A row \in Range(rows) :
         row.label = "Family discount" => row.amount = 0 - multi /\ multi > 0
  BY <1>2, <1>23, <1>13, <1>14, <1>16, <1>17
<1>26. multi > 0 => \E row \in Range(rows) : row.label = "Family discount"
  BY <1>2, <1>23, <1>15
<1>27. rows[1].amount = subtotal
  BY <1>1, <1>24
<1>28. FooterOf(rows, subtotal, multi, given, tax)
  BY <1>22, <1>25, <1>26, <1>27 DEF FooterOf
<1> QED
  BY <1>21, <1>28

\* The lines of a paid bill add up to the first row of its receipt and the rows to its total;
\* the family discount is the stated percentage of the play of the stated children.
THEOREM PaperFootsUpHolds == Spec => []PaperFootsUp
<1>1. DraftInvariant => PaperFootsUp
  <2> SUFFICES ASSUME DraftInvariant, bill.status = "PAID"
               PROVE  PaperFootsUp
    BY DEF PaperFootsUp
  <2>1. bill \in BillType /\ Quoted
    BY DEF DraftInvariant, DraftTypes
  <2>2. PICK subtotal \in Nat, multi \in Nat, off \in Nat, tax \in Nat :
          /\ subtotal = bill.subtotal /\ multi = bill.multiChildDiscount
          /\ off = bill.discount /\ tax = bill.tax
    BY <2>1 DEF BillType
  <2>3. PICK given \in Nat : given = bill.discount - bill.multiChildDiscount
    <3>1. PICK items \in Seq(LineType), discount \in AskedDiscount :
            items = bill.items /\ discount = StoredDiscount
      BY <2>1, StoredDiscountIsOne DEF BillType, DraftInvariant
    <3>2. discount.type = "PERCENTAGE" => discount.value <= 100
      BY <2>1, <3>1 DEF Quoted, StoredDiscount
    <3>3. PICK left \in Nat : left = subtotal - multi
      BY <2>1, <2>2 DEF Quoted
    <3>4. CalculateDiscountAmount(left, discount) \in Nat
      BY <3>2, Discounted
    <3>5. off = multi + CalculateDiscountAmount(left, discount)
      BY <2>1, <2>2, <3>1, <3>3 DEF Quoted
    <3> QED
      BY <2>2, <3>4, <3>5
  <2>4. PICK rows : rows = FooterRows(bill)
    OBVIOUS
  <2>5. FooterOf(rows, subtotal, multi, given, tax)
    <3>1. PICK doc : doc = bill
      OBVIOUS
    <3>2. ManualDiscount(doc) = given
      BY <2>3, <3>1 DEF ManualDiscount
    <3>3. FooterOf(FooterRows(doc), subtotal, multi, given, tax)
      BY <2>2, <3>1, <3>2, FooterIs
    <3> QED
      BY <2>4, <3>1, <3>3
  <2>6. ReceiptData(bill) = [rows |-> rows, total |-> bill.grandTotal,
          family |-> [children |-> bill.multiChildCount,
                      percentage |-> bill.multiChildDiscountPercentage],
          lines |-> bill.items]
    BY <2>4 DEF ReceiptData
  <2>7. SumOf(LAMBDA row : row.amount, rows) = SumAlong(RowAmounts, rows)
    <3>1. rows \in Seq(RowType)
      BY <2>5 DEF FooterOf
    <3>2. \A i \in DOMAIN rows : rows[i] \in RowType
      BY <3>1
    <3> QED
      BY <3>2 DEF SumOf, SumAlong, RowAmounts
  <2>8. SumOf(LAMBDA row : row.amount, rows) = bill.grandTotal
    <3>1. bill.grandTotal = subtotal - off + tax
      BY <2>1, <2>2 DEF Quoted
    <3>2. given = off - multi
      BY <2>2, <2>3
    <3>3. SumAlong(RowAmounts, rows) = subtotal - multi - given + tax
      BY <2>5 DEF FooterOf
    <3> QED
      BY <2>7, <3>1, <3>2, <3>3
  <2>9. Subtotal(bill.items) = rows[1].amount
    BY <2>1, <2>2, <2>5 DEF Quoted, FooterOf
  <2>10. ASSUME NEW row \in Range(rows), row.label = "Family discount"
         PROVE  /\ bill.multiChildCount = PlayChildrenOnItems(bill.items)
                /\ 0 - row.amount
                     = CalculatePercentage(PlayBase(bill.items), bill.multiChildDiscountPercentage)
    <3>1. row.amount = 0 - multi /\ multi > 0
      BY <2>5, <2>10 DEF FooterOf
    <3>2. /\ bill.multiChildCount = PlayChildrenOnItems(bill.items)
          /\ multi = CalculatePercentage(PlayBase(bill.items), bill.multiChildDiscountPercentage)
      BY <2>1, <2>2, <3>1 DEF Quoted
    <3>3. 0 - row.amount = multi
      BY <3>1
    <3> QED
      BY <3>2, <3>3
  <2>11. (\A row \in Range(rows) : row.label # "Family discount")
           => bill.multiChildDiscountPercentage = 0
    <3>1. ASSUME \A row \in Range(rows) : row.label # "Family discount"
          PROVE  multi = 0
      <4>1. multi > 0 => \E row \in Range(rows) : row.label = "Family discount"
        BY <2>5 DEF FooterOf
      <4>2. ~ (multi > 0)
        BY <3>1, <4>1
      <4> QED
        BY <4>2
    <3> QED
      BY <2>1, <2>2, <3>1 DEF Quoted
  <2>12. PICK paper : paper = ReceiptData(bill)
    OBVIOUS
  <2>13. /\ paper.rows = rows /\ paper.total = bill.grandTotal /\ paper.lines = bill.items
         /\ paper.family.children = bill.multiChildCount
         /\ paper.family.percentage = bill.multiChildDiscountPercentage
    BY <2>6, <2>12
  <2> DEFINE family == {row \in Range(rows) : row.label = "Family discount"}
  <2>14. Subtotal(paper.lines) = paper.rows[1].amount
    BY <2>9, <2>13
  <2>15. SumOf(LAMBDA row : row.amount, paper.rows) = paper.total
    BY <2>8, <2>13
  <2>16. \A row \in family :
           /\ paper.family.children = PlayChildrenOnItems(paper.lines)
           /\ 0 - row.amount = CalculatePercentage(PlayBase(paper.lines), paper.family.percentage)
    BY <2>10, <2>13
  <2>17. family = {} => paper.family.percentage = 0
    BY <2>11, <2>13
  <2>18. family = {row \in Range(paper.rows) : row.label = "Family discount"}
    BY <2>13
  <2> HIDE DEF family
  <2> QED
    BY <2>12, <2>14, <2>15, <2>16, <2>17, <2>18 DEF PaperFootsUp
<1> QED
  BY <1>1, DraftInvariantHolds, PTL

=============================================================================
