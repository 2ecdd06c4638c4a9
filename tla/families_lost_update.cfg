SPECIFICATION Spec
CONSTANTS
    b1 = b1 b2 = b2
    Bills = {b1, b2}
    Tickets = {t1, t2}
    Customers = {c1, c2}
    Phones = {p1, p2}
    Requests = {r1, r2}
    NoPhone = NoPhone Nobody = Nobody NoBill = NoBill
    DayOf <- MCDayOf
    MaxRequests = 3
SYMMETRY Symmetry
INVARIANT FiguresAreDerived
CHECK_DEADLOCK FALSE
