------------------------- MODULE MCCustomerScreens -------------------------
(* A place five hours behind UTC, around the first of a month (day 31) and a Sunday (day 34). *)
EXTENDS CustomerScreens

CONSTANTS ann, bob, n1, n2, cara, dan

Line(kind, of, quantity, total, onTicket) ==
    [kind |-> kind, of |-> of, quantity |-> quantity, total |-> total, ticket |-> onTicket]

\* Two children on a ticket, with socks; the family of ann.
FamilyTicket ==
    [lines |-> <<Line("PLAY", "hour", 2, 800, TRUE), Line("PRODUCT", "socks", 2, 100, FALSE)>>,
     discount |-> 50, tax |-> 20, number |-> n1, customer |-> None, cashier |-> cara, method |-> "CASH",
     stay |-> 30, mode |-> "PRORATA"]

\* A child at a fixed price beside a party, ann picked and her number left out.
FlatSale ==
    [lines |-> <<Line("PLAY", "day", 1, 500, FALSE), Line("GROUP", "party", 12, 3000, FALSE)>>,
     discount |-> 0, tax |-> 10, number |-> None, customer |-> ann, cashier |-> dan, method |-> "CARD",
     stay |-> 0, mode |-> None]

MCSales == {FamilyTicket, FlatSale}
MCRegistered == [c \in {ann} |-> n1]

Local(day, hour, minute) == day * 1440 + hour * 60 + minute + 300
MCZone == -300
\* Two of the moments are either side of a midnight.
MCTimes == {Local(30, 9, 0), Local(30, 23, 59), Local(31, 0, 1), Local(34, 20, 0)}
MCReportDays == {30, 34}
MCMonthStarts == {-31, 0, 31, 62}

\* Of the corrections made, at most one has no row in the audit log, yet or for good.
Unrecorded(s) ==
    {entry \in DOMAIN bill[s].revisions : ~ \E log \in audit : log.of = s /\ log.entry = entry}
OneUnrecorded == SumOver(LAMBDA s : Cardinality(Unrecorded(s)), Sales) <= 1

ScreensSpec == Init /\ [][Next /\ OneUnrecorded']_vars

=============================================================================
