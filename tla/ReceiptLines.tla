----------------------------- MODULE ReceiptLines -----------------------------
(***************************************************************************)
(* A ticket's line on paper: the line a checkout writes for it at any      *)
(* moment of its stay, and the rows receipt.service.ts prints to explain   *)
(* its amount.  They are computed again from the rate kept on the line,    *)
(* months later and without the ticket, by the receipt and by the API.     *)
(*                                                                         *)
(* A row is the hours, minutes, rate and amount on it; its wording and its *)
(* width are left out.                                                     *)
(***************************************************************************)
EXTENDS PlayClock, SequencesExt

CONSTANTS
    Children,        \* the numbers of children a ticket may be for
    HoursLater       \* the line is also looked at so many hours after now

ASSUME LinesAreForChildren == Children \subseteq Nat \ {0} /\ HoursLater \subseteq Nat

\* Mutants (definitions named "...Mutant") are the code with one plausible mistake in
\* it, next to the definition they replace when a property is put to the test.
ThirdHourCollapsedMutant == 3

\* The hour from which hours share one row of the receipt.
FirstCollapsedHour == 4

\* The line of a ticket that leaves then: the rate that won, its minutes, and its price
\* for one child times the children.
PlayLine(at, children) ==
    LET quote == QuoteAt(at)
        rate == rates[quote.index]
    IN  [rate |-> rate, quantity |-> children, lineTotal |-> quote.lineTotal * children,
         billedMinutes |-> BilledMinutes(rate, Elapsed(at), Minimum)]

\* The breakdown of a stored line, from its own snapshot.
BreakdownOf(line) == PriceSession(ResolveSessionRate(line.rate), line.billedMinutes)

HourRow(from, to, rate, amount) == [from |-> from, to |-> to, rate |-> rate, amount |-> amount]

\* The hours of a tiered line: the first ones a row each, the later ones one row in all.
HourRows(breakdown) ==
    LET hours == Len(breakdown.hourLines)
        early == AtMost(hours, FirstCollapsedHour - 1)
        late == FirstCollapsedHour .. hours
    IN  [h \in 1 .. early |-> HourRow(h, h, breakdown.hourLines[h], breakdown.hourLines[h])]
        \o IF late = {} THEN <<>>
           ELSE <<HourRow(FirstCollapsedHour, hours, breakdown.hourLines[hours],
                          SumFunctionOnSet(breakdown.hourLines, late))>>

\* What the receipt says of a line, for one child and in all.
ReceiptItem(line, rate, breakdown) ==
    LET inUnits == rate.pricingMode # "PRORATA"
    IN  [hourRows |-> IF rate.pricingMode = "TIERED_HOURLY" THEN HourRows(breakdown) ELSE <<>>,
         units |-> IF inUnits THEN breakdown.blocksCharged ELSE 0,
         extra |-> IF inUnits THEN [minutes |-> breakdown.overageMinutes, amount |-> breakdown.overageAmount]
                   ELSE [minutes |-> 0, amount |-> 0],
         graceIsFree |-> inUnits /\ breakdown.overageMinutes = 0 /\ breakdown.graceApplied,
         rounding |-> breakdown.roundingAdjustment,
         perChild |-> line.lineTotal \div line.quantity,
         lineTotal |-> line.lineTotal]

\* The parts of a line in the API (toPublicItem): none for a pro-rata one, and what its
\* rounding did only for a tiered one.
ToPublicItem(mode, breakdown) ==
    IF mode = "PRORATA" THEN {}
    ELSE {[blockSubtotal |-> breakdown.blockSubtotal, overageAmount |-> breakdown.overageAmount,
           rounded |-> IF mode = "TIERED_HOURLY"
                       THEN {[rawTotal |-> breakdown.rawTotal,
                              roundingAdjustment |-> breakdown.roundingAdjustment]}
                       ELSE {}]}

-----------------------------------------------------------------------------

Distance(a, b) == IF a > b THEN a - b ELSE b - a

\* The whole price of a child is on the paper, part by part, and nothing else.
RowsAddUp(line, paper) ==
    LET rate == line.rate
        hours == SumFunction([i \in DOMAIN paper.hourRows |-> paper.hourRows[i].amount])
    IN  CASE rate.pricingMode = "TIERED_HOURLY" -> hours + paper.extra.amount + paper.rounding = paper.perChild
          [] rate.pricingMode = "BLOCK_WITH_GRACE" ->
                paper.units * rate.unitPrice + paper.extra.amount = paper.perChild
          [] rate.pricingMode = "PRORATA" ->
                2 * Distance(paper.perChild * rate.rateDurationMinutes, rate.unitPrice * line.billedMinutes)
                    <= rate.rateDurationMinutes

\* Every hour paid for is on one row, and a row of several is hours times the rate on it.
HoursArePrintedOnce(paper) ==
    /\ \A i \in DOMAIN paper.hourRows :
        LET row == paper.hourRows[i]
        IN  /\ row.amount = row.rate * (row.to - row.from + 1)
            /\ row.from = IF i = 1 THEN 1 ELSE paper.hourRows[i - 1].to + 1
    /\ paper.hourRows # <<>> => Last(paper.hourRows).to = paper.units

\* The minutes called free cost nothing: without them the line would be as dear.
GraceWasFree(line, units) ==
    PriceSession(line.rate, line.billedMinutes).rawTotal
        = PriceSession(line.rate, units * UnitLength(line.rate)).rawTotal

\* The API's parts of the price are those on the paper.
SameParts(public, paper) ==
    LET parts == public.blockSubtotal + public.overageAmount
    IN  /\ public.overageAmount = paper.extra.amount
        /\ public.rounded = {} => parts = paper.perChild
        /\ \A whole \in public.rounded :
            whole.rawTotal = parts /\ parts + whole.roundingAdjustment = paper.perChild

\* "So the total reconciles on paper" (receipt.service.ts): a parent with the receipt can
\* check it.  The rows of one child add up to its price, and the price times the children
\* to the line; hours are printed once, in "five rows at most" with the extra time; the
\* minutes called free were; and the API's parts are those on the paper.
PaperExplainsTheLine ==
    \A at \in {clock + 2 * TierMinutes * later : later \in HoursLater}, children \in Children :
        CanQuote(at) =>
            \A line \in {PlayLine(at, children)} :
            \A rate \in {ResolveSessionRate(line.rate)}, breakdown \in {BreakdownOf(line)} :
            \A paper \in {ReceiptItem(line, rate, breakdown)} :
                /\ RowsAddUp(line, paper)
                /\ HoursArePrintedOnce(paper)
                /\ paper.perChild * line.quantity = paper.lineTotal
                /\ Len(paper.hourRows) + (IF paper.extra.amount > 0 THEN 1 ELSE 0) <= 5
                /\ paper.graceIsFree => GraceWasFree(line, paper.units)
                /\ \A public \in ToPublicItem(rate.pricingMode, breakdown) : SameParts(public, paper)

=============================================================================
