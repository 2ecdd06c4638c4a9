-------------------------- MODULE CustomerScreens --------------------------
(***************************************************************************)
(* How often a family has been: the profile, the till's lookup, the record *)
(* of the customer, the segments of the admin's list and the customer      *)
(* report, from the bills of SalesLedger and as each screen computes it.   *)
(***************************************************************************)
EXTENDS IncomeScreens

CONSTANTS
    NewDays, RegularDays, RegularVisits, AtRiskDays, LostDays,  \* SEGMENT_THRESHOLDS
    Interval                                                    \* the loyalty interval, 0 for none

ASSUME ThresholdsAreOrdered ==
    /\ {NewDays, RegularDays, AtRiskDays, LostDays, RegularVisits, Interval} \subseteq Nat
    /\ NewDays < AtRiskDays /\ AtRiskDays < LostDays /\ RegularDays < LostDays /\ RegularVisits >= 2

-----------------------------------------------------------------------------
(* customerVisits *)

VisitBills ==
    {s \in Sales : /\ ~ bill[s].isTestBill
                   /\ bill[s].status \in {"PAID", "REFUNDED"}
                   /\ \E i \in DOMAIN s.lines : s.lines[i].kind \in {"PLAY", "GROUP"}}

\* Mutants (definitions named "...Mutant") are the code with one plausible mistake in
\* it, next to the definition they replace when a property is put to the test.
UTCVisitDayMutant(s) == bill[s].paidAt \div 1440

VisitDay(s) == Day(bill[s].paidAt)
VisitDays(set) == {VisitDay(s) : s \in set}

\* By the number the customer has now, and by any bill linked to it.
BillsOf(c) ==
    {s \in Sales : \/ bill[s].customerId = c
                   \/ customers[c] # None /\ bill[s].phoneNumber = customers[c]}

VisitsOf(c) == BillsOf(c) \cap VisitBills

\* The number on the bill, or else the customer it is linked to.
FamilyKey(s) == IF bill[s].phoneNumber # None THEN bill[s].phoneNumber ELSE bill[s].customerId

-----------------------------------------------------------------------------
(* One customer *)

\* recomputeStats
Figures(c) ==
    LET visits == VisitsOf(c)
        paid == {bill[s].paidAt : s \in visits}
    IN  [visitCount |-> Cardinality(VisitDays(visits)),
         firstVisitAt |-> IF paid = {} THEN None ELSE Min(paid),
         lastVisitAt |-> IF paid = {} THEN None ELSE Max(paid)]

AlwaysOneMoreMutant(c) ==
    LET days == VisitDays(VisitsOf(c))
    IN  [visitCount |-> Cardinality(days), visitedToday |-> Day(now) \in days,
         nextVisitNumber |-> Cardinality(days) + 1,
         rewardDue |-> Interval > 0 /\ (Cardinality(days) + 1) % Interval = 0]

\* The till: the visit about to be paid is the next one, unless the family was here today.
Lookup(c) ==
    LET days == VisitDays(VisitsOf(c))
        next == IF Day(now) \in days THEN Cardinality(days) ELSE Cardinality(days) + 1
    IN  [visitCount |-> Cardinality(days),
         visitedToday |-> Day(now) \in days,
         nextVisitNumber |-> next,
         rewardDue |-> Interval > 0 /\ next % Interval = 0]

\* The profile: the frequencies, and the children of each day of the heatmap.
Frequency(c) ==
    LET days == VisitDays(VisitsOf(c))
        from(start) == Cardinality({day \in days : day >= start})
        on(day) == {bill[s].paidAt : s \in {s \in VisitsOf(c) : VisitDay(s) = day}}
    IN  [totalVisits |-> Cardinality(days),
         visitsThisWeek |-> from(PeriodStart("week", Day(now))),
         visitsThisMonth |-> from(PeriodStart("month", Day(now))),
         visitsInRegularDays |-> from(Day(now) - (RegularDays - 1)),
         firstVisitAt |-> IF days = {} THEN None ELSE Min(on(Min(days))),
         lastVisitAt |-> IF days = {} THEN None ELSE Max(on(Max(days)))]

\* listVisits: one row a day, with every bill of the day.
VisitRows(c) ==
    {[date |-> day,
      bills |-> {s \in VisitsOf(c) : VisitDay(s) = day},
      amount |-> SumOver(GrandTotal, {s \in VisitsOf(c) : VisitDay(s) = day})] : day \in VisitDays(VisitsOf(c))}

-----------------------------------------------------------------------------
(* The admin's list *)

DaysAgo(days) == (Day(now) - days) * 1440 - Zone

CountTriplesMutant(since, c) ==
    {[day |-> VisitDay(s), phoneNumber |-> bill[s].phoneNumber, customerId |-> bill[s].customerId] :
        s \in {s \in VisitsOf(c) : bill[s].paidAt >= since}}

\* customerIdsWithVisits: distinct (day, number, link) triples, each credited to its owners.
VisitDaysByTriples(since, c) ==
    LET triples == {[day |-> VisitDay(s), phoneNumber |-> bill[s].phoneNumber, customerId |-> bill[s].customerId] :
                        s \in {s \in VisitBills : bill[s].paidAt >= since}}
        owners(triple) ==
            {owner \in DOMAIN customers :
                \/ triple.phoneNumber # None /\ customers[owner] = triple.phoneNumber
                \/ owner = triple.customerId}
    IN  {triple.day : triple \in {triple \in triples : c \in owners(triple)}}

CustomersWithVisits(since, minVisits) ==
    {c \in DOMAIN customers : Cardinality(VisitDaysByTriples(since, c)) >= minVisits /\ VisitDaysByTriples(since, c) # {}}

Before(t, bound) == t # None /\ t < bound

SegmentFilter(segment, c) ==
    LET figures == Figures(c)
    IN  CASE segment = "new" -> figures.firstVisitAt # None /\ figures.firstVisitAt >= DaysAgo(NewDays)
          [] segment = "one_time" -> figures.visitCount = 1 /\ Before(figures.lastVisitAt, DaysAgo(NewDays))
          [] segment = "returning" -> figures.visitCount >= 2
          [] segment = "regular" -> c \in CustomersWithVisits(DaysAgo(RegularDays), RegularVisits)
          [] segment = "at_risk" -> /\ figures.visitCount >= 2
                                    /\ Before(figures.lastVisitAt, DaysAgo(AtRiskDays))
                                    /\ figures.lastVisitAt >= DaysAgo(LostDays)
          [] segment = "lost" -> Before(figures.lastVisitAt, DaysAgo(LostDays))
          [] segment = "never" -> figures.visitCount = 0

-----------------------------------------------------------------------------
(* The customer report *)

CustomerReport(r, by) ==
    LET history == {s \in VisitBills : Day(bill[s].paidAt) <= r.to}
        families == {FamilyKey(s) : s \in history} \ {None}
        daysOf(family) == VisitDays({s \in history : FamilyKey(s) = family})
        inRange(family) == {day \in daysOf(family) : day \in r.from..r.to}
        present == {family \in families : inRange(family) # {}}
        anonymous == {s \in history : FamilyKey(s) = None /\ VisitDay(s) >= r.from}
        new == {family \in present : Min(daysOf(family)) >= r.from}
        bucket(label) ==
            LET in(family) == {day \in inRange(family) : PeriodStart(by, day) = label}
                here == {family \in present : in(family) # {}}
                fresh == {family \in here : Min(daysOf(family)) \in in(family)}
            IN  [visits |-> SumOver(LAMBDA family : Cardinality(in(family)), here)
                            + Cardinality({s \in anonymous : PeriodStart(by, VisitDay(s)) = label}),
                 families |-> Cardinality(here),
                 newFamilies |-> Cardinality(fresh)]
        cohort(month) ==
            LET members == {family \in families : PeriodStart("month", Min(daysOf(family))) = month}
            IN  [size |-> Cardinality(members),
                 returned |-> [later \in {m \in MonthStarts : month <= m /\ m <= r.to} |->
                     Cardinality({family \in members : \E day \in daysOf(family) : PeriodStart("month", day) = later})]]
    IN  [uniqueFamilies |-> Cardinality(present),
         visits |-> SumOver(LAMBDA family : Cardinality(inRange(family)), present) + Cardinality(anonymous),
         newFamilies |-> Cardinality(new),
         returningFamilies |-> Cardinality(present) - Cardinality(new),
         buckets |-> [label \in BucketLabels(r, by) |-> bucket(label)],
         cohorts |-> [month \in {m \in MonthStarts : m <= r.to} |-> cohort(month)]]

-----------------------------------------------------------------------------
(* Properties *)

\* Every screen counts the same visits of a customer: the record, the till, the profile, the list
\* of visits and the filter of the admin's list; and, when every bill of a family carries the
\* number its customer has, the customer report too.  (customerVisits.ts:8: "no two screens can
\* disagree about how often a family has been")
CountsAgree ==
    /\ \A c \in DOMAIN customers :
        LET count == Figures(c).visitCount
        IN  /\ count = Lookup(c).visitCount
            /\ count = Frequency(c).totalVisits
            /\ count = Cardinality(VisitRows(c))
            /\ count = Cardinality(VisitDaysByTriples(0, c))
            /\ Figures(c).firstVisitAt = Frequency(c).firstVisitAt
            /\ Figures(c).lastVisitAt = Frequency(c).lastVisitAt
    /\ (\A s \in VisitBills : bill[s].customerId # None => bill[s].phoneNumber = customers[bill[s].customerId])
       => \A r \in Ranges :
              LET visitors == {c \in DOMAIN customers : VisitDays(VisitsOf(c)) \cap r.from..r.to # {}}
              IN  CustomerReport(r, "day").uniqueFamilies = Cardinality(visitors)

\* The number of the visit the till announces to a family, and with it the reward, is the number
\* that visit has once it is paid: a second bill on the same day is not another visit.
VisitIsTheOneAnnounced ==
    [][\A s \in VisitBills' \ VisitBills, c \in DOMAIN customers :
          bill'[s].customerId = c /\ bill'[s].paidAt = now
            => Figures(c)'.visitCount = Lookup(c).nextVisitNumber]_vars

\* Every customer has never been, or is exactly one of: in one of the segments by the number of
\* visits; the segments by time are about those with enough visits, and exclude each other.
SegmentsCoverEveryone ==
    \A c \in DOMAIN customers :
        LET in(segment) == SegmentFilter(segment, c)
        IN  /\ in("never") <=> ~ (in("new") \/ in("one_time") \/ in("returning"))
            /\ ~ (in("new") /\ in("one_time")) /\ ~ (in("one_time") /\ in("returning"))
            /\ in("regular") => in("returning") /\ ~ in("lost")
            /\ in("at_risk") => in("returning") /\ ~ in("lost")

\* The buckets of the customer report add up to its summary, every family that ever came is in one
\* of its cohorts, and all of a cohort came in its first month.
CustomerReportAddsUp ==
    \A r \in Ranges, by \in Groupings :
        LET report == CustomerReport(r, by)
            everyone == {FamilyKey(s) : s \in {s \in VisitBills : VisitDay(s) <= r.to}} \ {None}
            sum(column) == SumOver(LAMBDA label : report.buckets[label][column], DOMAIN report.buckets)
        IN  /\ report.visits = sum("visits")
            /\ report.newFamilies = sum("newFamilies")
            /\ report.uniqueFamilies <= sum("families")
            /\ Cardinality(everyone) =
                   SumOver(LAMBDA month : report.cohorts[month].size, DOMAIN report.cohorts)
            /\ \A month \in DOMAIN report.cohorts :
                   report.cohorts[month].returned[month] = report.cohorts[month].size

\* How often a family has been is one number on every screen, the segment it is in follows from
\* it, and the customer report, which counts the visits once more by families and by
\* periods, loses none of them.
VisitsAgree == CountsAgree /\ SegmentsCoverEveryone /\ CustomerReportAddsUp

=============================================================================
