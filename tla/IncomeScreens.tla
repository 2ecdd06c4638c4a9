--------------------------- MODULE IncomeScreens ---------------------------
(***************************************************************************)
(* What the dashboard and the reports say about the income of some days,   *)
(* computed from the bills and tickets of SalesLedger as the aggregations  *)
(* compute it.  Each screen has its own definition, as it has its own      *)
(* query in the code, so that whether two of them agree is a question.     *)
(*                                                                         *)
(* A business day is a number; day 0 is a Monday.  A period is named by    *)
(* its first day.                                                          *)
(***************************************************************************)
EXTENDS SalesLedger

CONSTANTS
    ReportDays,     \* the business days a report is asked for by its dates
    NamedPeriods,   \* the periods it is asked for by name, as in this_week and last_week
    MonthStarts,    \* the business days on which a month begins
    MinimumMinutes  \* resolveMinimumBillableMinutes

Groupings == {"day", "week", "month"}

-----------------------------------------------------------------------------
(* Days and periods *)

PeriodStart(by, day) ==
    CASE by = "day" -> day
      [] by = "week" -> day - (day % 7)
      [] by = "month" -> Max({m \in MonthStarts : m <= day})

PeriodEnd(by, day) ==
    CASE by = "day" -> day
      [] by = "week" -> PeriodStart(by, day) + 6
      [] by = "month" -> Min({m \in MonthStarts : m > day}) - 1

ThePeriodOf(by, day) == [from |-> PeriodStart(by, day), to |-> PeriodEnd(by, day)]
ThePeriodBefore(by, day) == ThePeriodOf(by, PeriodStart(by, day) - 1)

\* resolveDateRange: from two dates, or from the name of a period.
RangesOn(today) ==
    {r \in [from : ReportDays, to : ReportDays] : r.from <= r.to}
    \cup {ThePeriodOf(by, today) : by \in NamedPeriods}
    \cup {ThePeriodBefore(by, today) : by \in NamedPeriods}

Ranges == RangesOn(Day(now))

\* The calendar goes on after every range that can be asked for and after all that happens, and
\* does not begin in them.
ASSUME MonthsAreKnown ==
    /\ MonthStarts \subseteq Int /\ IsFiniteSet(MonthStarts)
    /\ \A t \in Times : \E first, last \in MonthStarts : first <= Day(t) /\ Day(t) < last
    /\ \A t \in Times : \A r \in RangesOn(Day(t)) :
           /\ r.from \in Int /\ r.to \in Int /\ r.from <= r.to
           /\ \E first, last \in MonthStarts : first <= r.from /\ r.to < last

\* updateSettingsSchema: at most a day.
ASSUME MinimumIsAtMostADay == MinimumMinutes \in 0..1440

Within(r, t) == t # None /\ r.from * 1440 - Zone <= t /\ t < (r.to + 1) * 1440 - Zone

\* The buckets of a range: the periods it touches.
BucketLabels(r, by) == {day \in PeriodStart(by, r.from)..r.to : PeriodStart(by, day) = day}

\* Mutants (definitions named "...Mutant") are the code with one plausible mistake in
\* it, next to the definition they replace when a property is put to the test.
UTCBucketMutant(by, t) == PeriodStart(by, t \div 1440)

\* $dateToString of a moment, in the business timezone.
BucketOf(by, t) == PeriodStart(by, Day(t))

-----------------------------------------------------------------------------
(* Match fragments and expressions all the aggregations share *)

Recognized(r) ==
    {s \in Sales : ~ bill[s].isTestBill /\ bill[s].status \in {"PAID", "REFUNDED"} /\ Within(r, bill[s].paidAt)}

StillPaid(set) == {s \in set : bill[s].status = "PAID"}
Refunded(set) == {s \in set : bill[s].status = "REFUNDED"}

CancelledIn(r) ==
    {s \in Sales : ~ bill[s].isTestBill /\ bill[s].status = "CANCELLED" /\ Within(r, bill[s].cancelledAt)}

ClosedIn(r) ==
    {s \in Sales : ~ ticket[s].isTestBill /\ ticket[s].status = "CLOSED" /\ Within(r, ticket[s].checkOutAt)}

VoidedIn(r) ==
    {s \in Sales : ~ ticket[s].isTestBill /\ ticket[s].status = "VOIDED" /\ Within(r, ticket[s].voidedAt)}

LinesOnBillMutant(s) == Len(s.lines)

\* Socks are nobody; a party is its headcount; a ticket its children; a flat line one child.
ChildrenOnBill(s) ==
    SumOfLines(s, LAMBDA line :
        CASE line.kind = "GROUP" -> line.quantity
          [] line.kind = "PRODUCT" -> 0
          [] line.kind = "PLAY" /\ line.ticket -> line.quantity
          [] OTHER -> 1)

LineRevenueOfKind(s, kind) == SumOfLines(s, LAMBDA line : IF line.kind = kind THEN line.total ELSE 0)

PaidAmountWithMethod(s, method) ==
    IF bill[s].status = "PAID" /\ bill[s].paymentMethod = method THEN GrandTotal(s) ELSE 0

SessionChildCount(s) == SumOfLines(s, LAMBDA line : IF line.ticket THEN line.quantity ELSE 0)
ChildMinutes(s) == s.stay * SessionChildCount(s)
MinimumApplied(s) == s.stay <= MinimumMinutes /\ s.mode = "PRORATA"

Discounts(set) == SumOver(LAMBDA s : s.discount, set)
WriteOffs(set) == SumOver(LAMBDA s : bill[s].writeOff, set)

NetRevenue(bills) ==
    SumOver(Subtotal, bills) - Discounts(bills) - WriteOffs(bills) - SumOver(GrandTotal, Refunded(bills))

-----------------------------------------------------------------------------
(* The dashboard *)

LinesOfKind(set, kind) == UNION {{<<s, i>> : i \in {i \in DOMAIN s.lines : s.lines[i].kind = kind}} : s \in set}
LineAt(at) == at[1].lines[at[2]]

Summary(r) ==
    LET bills == Recognized(r)
        ofKind(kind) == LinesOfKind(bills, kind)
    IN  [grossRevenue |-> SumOver(Subtotal, bills),
         discounts |-> Discounts(bills),
         writeOffs |-> WriteOffs(bills),
         refunds |-> SumOver(GrandTotal, Refunded(bills)),
         netRevenue |-> NetRevenue(bills),
         paidBillsCount |-> Cardinality(StillPaid(bills)),
         refundedBillsCount |-> Cardinality(Refunded(bills)),
         cancelledBillsCount |-> Cardinality(CancelledIn(r)),
         childrenServed |-> SumOver(ChildrenOnBill, bills),
         revenueByKind |-> [kind \in Kinds |-> SumOver(LAMBDA at : LineAt(at).total, ofKind(kind))],
         groupHeadcount |-> SumOver(LAMBDA at : LineAt(at).quantity, ofKind("GROUP")),
         productUnitsSold |-> SumOver(LAMBDA at : LineAt(at).quantity, ofKind("PRODUCT"))]

\* One point of the chart.
RevenuePoint(r, by, label) ==
    LET bills == {s \in Recognized(r) : BucketOf(by, bill[s].paidAt) = label}
    IN  [grossRevenue |-> SumOver(Subtotal, bills),
         discounts |-> Discounts(bills),
         writeOffs |-> WriteOffs(bills),
         refunds |-> SumOver(GrandTotal, Refunded(bills)),
         netRevenue |-> NetRevenue(bills),
         billCount |-> Cardinality(bills),
         childrenCount |-> SumOver(ChildrenOnBill, bills)]

\* By creation: the only screen that counts drafts.
BillsBreakdown(r) ==
    [status \in {"DRAFT", "PAID", "CANCELLED", "REFUNDED"} |->
        Cardinality({s \in Sales : /\ ~ bill[s].isTestBill
                                   /\ bill[s].status = status
                                   /\ Within(r, bill[s].createdAt)})]

\* Packages (PLAY) and products, each with its units and its revenue.
Performance(r, kind) ==
    LET lines == LinesOfKind(Recognized(r), kind)
        of(what) == {at \in lines : LineAt(at).of = what}
    IN  [what \in {LineAt(at).of : at \in lines} |->
            [quantitySold |-> SumOver(LAMBDA at : LineAt(at).quantity, of(what)),
             revenue |-> SumOver(LAMBDA at : LineAt(at).total, of(what))]]

PaymentMethodBreakdown(r) ==
    [method \in Methods |->
        SumOver(GrandTotal, {s \in StillPaid(Recognized(r)) : bill[s].paymentMethod = method})]

\* A cashier whose every bill was cancelled or refunded has no row.
CashierPerformance(r) ==
    LET bills == StillPaid(Recognized(r))
        of(cashier) == {s \in bills : s.cashier = cashier}
    IN  [cashier \in {s.cashier : s \in bills} |->
            [billCount |-> Cardinality(of(cashier)),
             revenue |-> SumOver(GrandTotal, of(cashier)),
             cancelledCount |-> Cardinality({s \in CancelledIn(r) : s.cashier = cashier})]]

SessionSummary(r) ==
    LET closed == ClosedIn(r)
    IN  [sessionCount |-> Cardinality(closed),
         childCount |-> SumOver(SessionChildCount, closed),
         totalPlayMinutes |-> SumOver(ChildMinutes, closed),
         minimumAppliedCount |-> Cardinality({s \in closed : MinimumApplied(s)}),
         voidedCount |-> Cardinality(VoidedIn(r))]

-----------------------------------------------------------------------------
(* The period summary *)

\* The first and the last bucket are clipped to the range.
PeriodBucket(r, by, label) ==
    LET bills == {s \in Recognized(r) : BucketOf(by, bill[s].paidAt) = label}
        closed == {s \in ClosedIn(r) : BucketOf(by, ticket[s].checkOutAt) = label}
    IN  [label |-> label,
         start |-> Max({label, r.from}),
         end |-> Min({PeriodEnd(by, label), r.to}),
         billCount |-> Cardinality(bills),
         childrenCount |-> SumOver(ChildrenOnBill, bills),
         grossRevenue |-> SumOver(Subtotal, bills),
         discounts |-> Discounts(bills),
         writeOffs |-> WriteOffs(bills),
         refunds |-> SumOver(GrandTotal, Refunded(bills)),
         netRevenue |-> NetRevenue(bills),
         tax |-> SumOver(LAMBDA s : s.tax, bills),
         cashAmount |-> SumOver(LAMBDA s : PaidAmountWithMethod(s, "CASH"), bills),
         cardAmount |-> SumOver(LAMBDA s : PaidAmountWithMethod(s, "CARD"), bills),
         bankTransferAmount |-> SumOver(LAMBDA s : PaidAmountWithMethod(s, "BANK_TRANSFER"), bills),
         otherAmount |-> SumOver(LAMBDA s : PaidAmountWithMethod(s, "OTHER"), bills),
         playRevenue |-> SumOver(LAMBDA s : LineRevenueOfKind(s, "PLAY"), bills),
         groupRevenue |-> SumOver(LAMBDA s : LineRevenueOfKind(s, "GROUP"), bills),
         productRevenue |-> SumOver(LAMBDA s : LineRevenueOfKind(s, "PRODUCT"), bills),
         cancelledCount |-> Cardinality({s \in CancelledIn(r) : BucketOf(by, bill[s].cancelledAt) = label}),
         sessionCount |-> Cardinality(closed),
         playMinutes |-> SumOver(ChildMinutes, closed),
         minimumAppliedCount |-> Cardinality({s \in closed : MinimumApplied(s)}),
         voidedCount |-> Cardinality({s \in VoidedIn(r) : BucketOf(by, ticket[s].voidedAt) = label})]

Buckets(r, by) == {PeriodBucket(r, by, label) : label \in BucketLabels(r, by)}

\* From the figures of the dashboard; only the tax is added up from the buckets.
TotalsRow(r, buckets) ==
    LET totals == Summary(r)
        methods == PaymentMethodBreakdown(r)
        sessions == SessionSummary(r)
    IN  [billCount |-> totals.paidBillsCount + totals.refundedBillsCount,
         childrenCount |-> totals.childrenServed,
         grossRevenue |-> totals.grossRevenue,
         discounts |-> totals.discounts,
         writeOffs |-> totals.writeOffs,
         refunds |-> totals.refunds,
         netRevenue |-> totals.netRevenue,
         tax |-> SumOver(LAMBDA bucket : bucket.tax, buckets),
         cashAmount |-> methods["CASH"],
         cardAmount |-> methods["CARD"],
         bankTransferAmount |-> methods["BANK_TRANSFER"],
         otherAmount |-> methods["OTHER"],
         playRevenue |-> totals.revenueByKind["PLAY"],
         groupRevenue |-> totals.revenueByKind["GROUP"],
         productRevenue |-> totals.revenueByKind["PRODUCT"],
         cancelledCount |-> totals.cancelledBillsCount,
         sessionCount |-> sessions.sessionCount,
         playMinutes |-> sessions.totalPlayMinutes,
         minimumAppliedCount |-> sessions.minimumAppliedCount,
         voidedCount |-> sessions.voidedCount]

-----------------------------------------------------------------------------
(* The bill register, the session report, the daily close, the exceptions *)

BillRegister(r) ==
    {s \in Sales : /\ ~ bill[s].isTestBill
                   /\ bill[s].status \in {"PAID", "REFUNDED", "CANCELLED"}
                   /\ Within(r, bill[s].paidAt)}

ChildrenOnLine(line) ==
    IF line.kind = "GROUP" \/ line.ticket THEN line.quantity
    ELSE IF line.kind = "PRODUCT" THEN 0 ELSE 1

RegisterRow(s) ==
    [childrenCount |-> SumOfLines(s, ChildrenOnLine),
     playAmount |-> SumOfLines(s, LAMBDA line : IF line.kind = "PLAY" THEN line.total ELSE 0),
     groupAmount |-> SumOfLines(s, LAMBDA line : IF line.kind = "GROUP" THEN line.total ELSE 0),
     productAmount |-> SumOfLines(s, LAMBDA line : IF line.kind = "PRODUCT" THEN line.total ELSE 0),
     grandTotal |-> GrandTotal(s)]

RegisterTotals(r) ==
    LET listed == BillRegister(r)
        sold == {s \in listed : bill[s].status \in {"PAID", "REFUNDED"}}
        cancelled == {s \in listed : bill[s].status = "CANCELLED"}
    IN  [billCount |-> Cardinality(sold),
         grossRevenue |-> SumOver(Subtotal, sold),
         discounts |-> Discounts(sold),
         writeOffs |-> WriteOffs(sold),
         refunds |-> SumOver(GrandTotal, Refunded(listed)),
         netRevenue |-> NetRevenue(sold),
         tax |-> SumOver(LAMBDA s : s.tax, sold),
         cancelledAfterPaymentCount |-> Cardinality(cancelled),
         cancelledAfterPaymentAmount |-> SumOver(GrandTotal, cancelled)]

\* By check-in, whatever became of the ticket.
SessionReport(r) ==
    {[of |-> s, status |-> ticket[s].status,
      minimumApplied |-> ticket[s].status = "CLOSED" /\ s.mode = "PRORATA" /\ s.stay <= MinimumMinutes] :
        s \in {s \in Sales : ~ ticket[s].isTestBill /\ Within(r, ticket[s].checkInAt)}}

OneDay(day) == [from |-> day, to |-> day]
After(day, t) == t # None /\ t >= (day + 1) * 1440 - Zone

OpenDrafts(day) ==
    {s \in Sales : ~ bill[s].isTestBill /\ bill[s].status = "DRAFT" /\ Within(OneDay(day), bill[s].createdAt)}

ActiveSessions(day) ==
    {s \in Sales : ~ ticket[s].isTestBill /\ ticket[s].status = "ACTIVE" /\ Within(OneDay(day), ticket[s].checkInAt)}

CancelledOnlyMutant(day) ==
    {s \in Sales : /\ ~ bill[s].isTestBill /\ Within(OneDay(day), bill[s].paidAt)
                   /\ bill[s].status = "CANCELLED" /\ After(day, bill[s].cancelledAt)}

\* Paid on the day, and reversed or corrected after it ended.
Reversed(day) ==
    {s \in Sales : /\ ~ bill[s].isTestBill /\ Within(OneDay(day), bill[s].paidAt)
                   /\ \/ bill[s].status = "CANCELLED" /\ After(day, bill[s].cancelledAt)
                      \/ bill[s].status = "REFUNDED" /\ After(day, bill[s].refundedAt)}

CorrectedLater(day) ==
    {s \in Sales : ~ bill[s].isTestBill /\ Within(OneDay(day), bill[s].paidAt)
                   /\ \E i \in DOMAIN bill[s].revisions : After(day, bill[s].revisions[i].editedAt)}

Adjustments(day) ==
    {[of |-> s, action |-> bill[s].status, amount |-> GrandTotal(s),
      at |-> IF bill[s].status = "CANCELLED" THEN bill[s].cancelledAt ELSE bill[s].refundedAt, entry |-> 0] :
        s \in Reversed(day)}
    \cup UNION {{[of |-> s, action |-> "CORRECTED", amount |-> bill[s].revisions[i].amount,
                  at |-> bill[s].revisions[i].editedAt, entry |-> i] :
                    i \in {i \in DOMAIN bill[s].revisions : After(day, bill[s].revisions[i].editedAt)}} :
                s \in CorrectedLater(day)}

\* The types of row about bills and tickets of this ledger; the row cap is out of reach here.
\* A correction is there by its row in the audit log, at the moment that was written.
Exceptions(r) ==
    LET row(type, s, at) == [type |-> type, of |-> s, at |-> at, entry |-> 0]
        real == {s \in Sales : ~ bill[s].isTestBill}
        realTicket == {s \in Sales : ~ ticket[s].isTestBill}
    IN  {row("DISCOUNT", s, bill[s].paidAt) : s \in {s \in Recognized(r) : s.discount > 0}}
        \cup {row("REFUND", s, bill[s].refundedAt) : s \in {s \in Refunded(real) : Within(r, bill[s].refundedAt)}}
        \cup {row("CANCELLATION", s, bill[s].cancelledAt) : s \in CancelledIn(r)}
        \cup {row("TEST_FLAG", s, bill[s].testMarkedAt) :
                s \in {s \in Sales \ real : Within(r, bill[s].testMarkedAt)}}
        \cup {row("VOID", s, ticket[s].voidedAt) : s \in VoidedIn(r)}
        \cup {row("LATE_PAYMENT", s, bill[s].paymentRecordedAt) :
                s \in {s \in real : Within(r, bill[s].paymentRecordedAt)}}
        \cup {[type |-> "BILL_CORRECTION", of |-> log.of, at |-> log.at, entry |-> log.entry] :
                log \in {log \in audit : Within(r, log.at)}}

-----------------------------------------------------------------------------
(* Properties *)

\* The TOTAL row of a period summary, which is the dashboard's, is the sum of its buckets in
\* every column; and a bill counted in a bucket was paid on one
\* of the days the bucket prints.  (periodSummary.ts:205: "is the dashboard's number by construction")
BucketsAddUp(r, by, buckets, totals) ==
    /\ \A column \in DOMAIN totals :
           totals[column] = SumOver(LAMBDA bucket : bucket[column], buckets)
    /\ \A s \in Recognized(r), bucket \in buckets :
           BucketOf(by, bill[s].paidAt) = bucket.label
               <=> Day(bill[s].paidAt) \in bucket.start..bucket.end

\* What was taken by each method adds up to the net revenue and the tax, in the total and in each
\* bucket, through refunds and corrections.  (billFilters.ts:28)
MethodsAreNetPlusTax(rows) ==
    \A row \in rows :
        row.cashAmount + row.cardAmount + row.bankTransferAmount + row.otherAmount
            = row.netRevenue + row.tax

\* Each income screen adds up: its rows to its total, its methods to its revenue, for every range
\* and grouping.
IncomeAddsUp ==
    \A r \in Ranges, by \in Groupings :
        LET buckets == Buckets(r, by)
            totals == TotalsRow(r, buckets)
        IN  BucketsAddUp(r, by, buckets, totals) /\ MethodsAreNetPlusTax(buckets \cup {totals})

\* The register, the chart, the package, product and cashier tables and the session report show
\* parts of the same figures as the dashboard.
ScreensAgree ==
    \A r \in Ranges :
        LET summary == Summary(r)
            register == RegisterTotals(r)
            sold == {s \in BillRegister(r) : bill[s].status # "CANCELLED"}
            methods == PaymentMethodBreakdown(r)
            cashiers == CashierPerformance(r)
            revenueOf(rows) == SumOver(LAMBDA of : rows[of].revenue, DOMAIN rows)
        IN  /\ register.netRevenue = summary.netRevenue
            /\ register.billCount = summary.paidBillsCount + summary.refundedBillsCount
            /\ summary.childrenServed = SumOver(LAMBDA s : RegisterRow(s).childrenCount, sold)
            /\ summary.revenueByKind =
                   [kind \in Kinds |-> SumOver(LAMBDA s : CASE kind = "PLAY" -> RegisterRow(s).playAmount
                                                            [] kind = "GROUP" -> RegisterRow(s).groupAmount
                                                            [] kind = "PRODUCT" -> RegisterRow(s).productAmount, sold)]
            /\ summary.netRevenue = SumOver(LAMBDA day : RevenuePoint(r, "day", day).netRevenue, r.from..r.to)
            /\ revenueOf(Performance(r, "PLAY")) = summary.revenueByKind["PLAY"]
            /\ revenueOf(Performance(r, "PRODUCT")) = summary.revenueByKind["PRODUCT"]
            /\ revenueOf(cashiers) = methods["CASH"] + methods["CARD"] + methods["BANK_TRANSFER"]
                                        + methods["OTHER"]
            /\ SumOver(LAMBDA cashier : cashiers[cashier].billCount, DOMAIN cashiers) = summary.paidBillsCount
            /\ SessionSummary(r).minimumAppliedCount =
                   Cardinality({row \in SessionReport([r EXCEPT !.from = @ - 1]) :
                                   row.minimumApplied /\ Within(r, ticket[row.of].checkOutAt)})
            /\ r.from = r.to =>
                   /\ BillsBreakdown(r)["DRAFT"] = Cardinality(OpenDrafts(r.from))
                   /\ ActiveSessions(r.from) = {row.of : row \in {row \in SessionReport(r) : row.status = "ACTIVE"}}

\* When the daily close of a past day is printed again, every bill that now adds something else to
\* the day's takings is on it as an adjustment of just that amount, or the exceptions report names
\* it as paid late or marked as a test; unless its test mark was taken off again, which leaves no
\* trace there.  Every reversal among the adjustments has its row in the exceptions, at the same
\* moment, and so has every correction whose row in the audit log was written, at that moment or
\* later: one whose row was lost is on the daily close alone.  And the exceptions name no correction
\* that was not made before.
ReprintExplained ==
    \A s \in Sales : bill[s].paidAt # None /\ Day(bill[s].paidAt) < Day(now) =>
        LET day == Day(bill[s].paidAt)
            listed == {a \in Adjustments(day) : a.of = s}
            amounts == SumOver(LAMBDA a : IF a.action = "CORRECTED" THEN a.amount ELSE -a.amount, listed)
            rows == {row \in Exceptions([from |-> day, to |-> Day(now)]) : row.of = s}
        IN  /\ \/ Takings(s) = printed[s] + amounts
               \/ \E row \in rows : row.type \in {"LATE_PAYMENT", "TEST_FLAG"}
               \/ s \in unmarked
            /\ \A a \in listed : a.action # "CORRECTED" => \E row \in rows :
                   /\ row.at = a.at
                   /\ row.type = IF a.action = "CANCELLED" THEN "CANCELLATION" ELSE "REFUND"
            /\ \A a \in listed : a.action = "CORRECTED" =>
                   \/ \E row \in rows :
                          row.type = "BILL_CORRECTION" /\ row.entry = a.entry /\ row.at >= a.at
                   \/ ~ \E log \in audit : log.of = s /\ log.entry = a.entry
            /\ \A row \in rows : row.type = "BILL_CORRECTION" =>
                   /\ row.entry \in DOMAIN bill[s].revisions
                   /\ bill[s].revisions[row.entry].editedAt <= row.at

=============================================================================
