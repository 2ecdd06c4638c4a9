---------------------------- MODULE SalesLedger ----------------------------
(***************************************************************************)
(* What the screens of the business are computed from: the bills, tickets  *)
(* and customers as each request leaves them, over some days.              *)
(*                                                                         *)
(* A request is one action here, without its intermediate states: those    *)
(* are the subject of BillMoney, TicketCheckout and FamilyRecords.  What   *)
(* is sold is given; what happens to it, and when, is not.                 *)
(***************************************************************************)
EXTENDS Integers, SequencesExt, FiniteSetsExt

CONSTANTS
    Sales,         \* what is sold, each on one bill: see SaleFields
    Customers,     \* customer records, present or still to be created
    Registered,    \* the numbers of the customers there are from the start
    Numbers,       \* normalised phone numbers
    None,          \* null, or ''
    Times,         \* the moments at which something happens: minutes, in UTC
    Zone,          \* how many minutes the business day is ahead of UTC
    RequestMinutes,\* the longest that a request takes
    MaxChanges     \* bound: how many requests change the documents

Methods == {"CASH", "CARD", "BANK_TRANSFER", "OTHER"}
Kinds == {"PLAY", "GROUP", "PRODUCT"}

\* The fixed part of a bill.  stay: the minutes billed on the ticket it closes, 0 without one;
\* mode: how that ticket is priced.
SaleFields == {"lines", "discount", "tax", "number", "customer", "cashier", "method", "stay", "mode"}

\* A line, and whether it is that of a ticket: what it sells is a package or a product.
IsLine(line) ==
    /\ line.kind \in Kinds /\ line.quantity \in Nat /\ line.total \in Int
    /\ line.ticket \in BOOLEAN /\ (line.ticket => line.kind = "PLAY")

ASSUME SalesAreSales ==
    /\ IsFiniteSet(Sales)
    /\ \A s \in Sales :
           /\ DOMAIN s = SaleFields
           /\ IsFiniteSet(DOMAIN s.lines) /\ \A i \in DOMAIN s.lines : IsLine(s.lines[i])
           /\ s.discount \in Int /\ s.tax \in Int /\ s.stay \in Nat /\ s.method \in Methods
           /\ s.number \in Numbers \cup {None} /\ s.customer \in Customers \cup {None}
ASSUME TimesAreMinutes == Times \subseteq Nat /\ Zone \in Int /\ None \notin Int /\ RequestMinutes \in Nat

\* A number has one record, and what is a number is not an id.
ASSUME CustomersAreRecords ==
    /\ IsFiniteSet(Customers) /\ Customers \cap Numbers = {} /\ None \notin Customers \cup Numbers
    /\ DOMAIN Registered \subseteq Customers
    /\ Registered \in [DOMAIN Registered -> Numbers \cup {None}]
    /\ \A c, d \in DOMAIN Registered : Registered[c] = Registered[d] => c = d \/ Registered[c] = None

VARIABLES
    bill,          \* what became of each sale
    ticket,        \* the play session each sale was checked out from
    customers,     \* the number of every customer there is
    audit,         \* the audit log's rows about corrections
    now,
    changes,
    printed,       \* history: what a bill added to the takings when its day was over
    unmarked       \* history: the bills a test mark was taken off again

vars == <<bill, ticket, customers, audit, now, changes, printed, unmarked>>

NoBill ==
    [status |-> "NONE", createdAt |-> None, paidAt |-> None, paymentRecordedAt |-> None,
     cancelledAt |-> None, refundedAt |-> None, isTestBill |-> FALSE, testMarkedAt |-> None,
     paymentMethod |-> None, phoneNumber |-> None, customerId |-> None,
     writeOff |-> 0, revisions |-> <<>>]

NoTicket ==
    [status |-> "NONE", checkInAt |-> None, checkOutAt |-> None, voidedAt |-> None, isTestBill |-> FALSE]

SumOver(amount(_), set) == SumFunctionOnSet([x \in set |-> amount(x)], set)
SumOfLines(s, amount(_)) == SumOver(LAMBDA i : amount(s.lines[i]), DOMAIN s.lines)

Subtotal(s) == SumOfLines(s, LAMBDA line : line.total)
Charge(s) == Subtotal(s) - s.discount + s.tax
GrandTotal(s) == Charge(s) - bill[s].writeOff

Day(t) == (t + Zone) \div 1440

\* What a bill adds to the takings of its day.
Takings(s) == IF bill[s].status = "PAID" /\ ~ bill[s].isTestBill THEN GrandTotal(s) ELSE 0

-----------------------------------------------------------------------------

Init ==
    /\ bill = [s \in Sales |-> NoBill]
    /\ ticket = [s \in Sales |-> NoTicket]
    /\ customers = Registered
    /\ audit = {}
    /\ now \in {t \in Times : \A other \in Times : t <= other}
    /\ changes = 0
    /\ printed = [s \in Sales |-> 0]
    /\ unmarked = {}

Change(s, to) ==
    /\ changes < MaxChanges
    /\ changes' = changes + 1
    /\ bill' = [bill EXCEPT ![s] = to]
    /\ UNCHANGED <<audit, now, printed>>

Known(number) == {c \in DOMAIN customers : customers[c] = number}
Added(c, number) == [other \in DOMAIN customers \cup {c} |-> IF other = c THEN number ELSE customers[other]]

\* ensureCustomer: by its id, else by the number, else a new one; nobody without either.
EnsureCustomer(id, number, c) ==
    IF id # None THEN c = id /\ UNCHANGED customers
    ELSE IF number = None THEN c = None /\ UNCHANGED customers
    ELSE IF Known(number) # {} THEN c \in Known(number) /\ UNCHANGED customers
    ELSE c \in Customers \ DOMAIN customers /\ customers' = Added(c, number)

\* A draft, with the ticket it closes; a customer is picked from those there are.
RingUp(s) ==
    /\ bill[s].status = "NONE"
    /\ s.customer # None => s.customer \in DOMAIN customers
    /\ Change(s, [bill[s] EXCEPT !.status = "DRAFT", !.createdAt = now, !.phoneNumber = s.number,
                                 !.customerId = s.customer])
    /\ ticket' = IF s.stay = 0 THEN ticket
                 ELSE [ticket EXCEPT ![s].status = "CLOSED", ![s].checkInAt = now - s.stay, ![s].checkOutAt = now]
    /\ UNCHANGED <<customers, unmarked>>

\* A payment recorded later may be dated to the checkout; then the family is found or made.
CompleteBill(s, backdated, c) ==
    /\ bill[s].status = "DRAFT"
    /\ EnsureCustomer(bill[s].customerId, bill[s].phoneNumber, c)
    /\ Change(s, [bill[s] EXCEPT !.status = "PAID", !.paymentMethod = s.method, !.customerId = c,
                                 !.paidAt = IF backdated THEN bill[s].createdAt ELSE now,
                                 !.paymentRecordedAt = IF backdated THEN now ELSE None])
    /\ UNCHANGED <<ticket, unmarked>>

RefundBill(s) ==
    /\ bill[s].status = "PAID"
    /\ Change(s, [bill[s] EXCEPT !.status = "REFUNDED", !.refundedAt = now])
    /\ UNCHANGED <<ticket, customers, unmarked>>

\* The ticket is reopened as it was, test mark included; paidAt stays on the bill.
CancelBill(s) ==
    /\ bill[s].status \in {"DRAFT", "PAID"}
    /\ Change(s, [bill[s] EXCEPT !.status = "CANCELLED", !.cancelledAt = now])
    /\ ticket' = IF ticket[s].status # "CLOSED" THEN ticket
                 ELSE [ticket EXCEPT ![s].status = "ACTIVE", ![s].checkOutAt = None]
    /\ UNCHANGED <<customers, unmarked>>

VoidSession(s) ==
    /\ ticket[s].status = "ACTIVE"
    /\ Change(s, bill[s])
    /\ ticket' = [ticket EXCEPT ![s].status = "VOIDED", ![s].voidedAt = now]
    /\ UNCHANGED <<customers, unmarked>>

\* The tickets that still are the bill's follow it.
SetTestFlag(s, flag) ==
    /\ bill[s].status \in {"PAID", "CANCELLED", "REFUNDED"} /\ bill[s].isTestBill # flag
    /\ Change(s, [bill[s] EXCEPT !.isTestBill = flag, !.testMarkedAt = IF flag THEN now ELSE None])
    /\ ticket' = IF ticket[s].status # "CLOSED" THEN ticket ELSE [ticket EXCEPT ![s].isTestBill = flag]
    /\ unmarked' = IF flag THEN unmarked ELSE unmarked \cup {s}
    /\ UNCHANGED customers

Correction(s, to) ==
    LET change == [editedAt |-> now, amount |-> bill[s].writeOff - to.writeOff]
    IN  [to EXCEPT !.revisions = Append(@, change)]

\* What was received, which is at most the charge, and how.
CorrectAmount(s, received, method) ==
    LET to == [bill[s] EXCEPT !.writeOff = Charge(s) - received, !.paymentMethod = method]
    IN  /\ bill[s].status = "PAID"
        /\ received <= Charge(s) /\ to # bill[s]
        /\ Change(s, Correction(s, to))
        /\ UNCHANGED <<ticket, customers, unmarked>>

\* The number; the customer follows it.
CorrectNumber(s, number, c) ==
    /\ bill[s].status = "PAID" /\ number # bill[s].phoneNumber
    /\ EnsureCustomer(None, number, c)
    /\ Change(s, Correction(s, [bill[s] EXCEPT !.phoneNumber = number, !.customerId = c]))
    /\ UNCHANGED <<ticket, unmarked>>

\* The last step of a correction, after the tickets and families have followed it: its row in
\* the audit log, dated when it is written.  By then it may be the next day; and it never comes
\* when the process dies first or the write fails, which is swallowed.
RecordCorrection(s, entry) ==
    LET editedAt == bill[s].revisions[entry].editedAt
    IN  /\ entry \in DOMAIN bill[s].revisions
        /\ ~ \E log \in audit : log.of = s /\ log.entry = entry
        /\ now <= editedAt + RequestMinutes
        /\ audit' = audit \cup {[of |-> s, entry |-> entry, at |-> now]}
        /\ UNCHANGED <<bill, ticket, customers, now, changes, printed, unmarked>>

\* customerService.create and update: a number has one record.
SetNumber(c, number) ==
    /\ number # None => Known(number) = {}
    /\ c \in DOMAIN customers => customers[c] # number
    /\ changes < MaxChanges
    /\ changes' = changes + 1
    /\ customers' = Added(c, number)
    /\ UNCHANGED <<bill, ticket, audit, now, printed, unmarked>>

\* When a business day is over its figures are printed.
TimePasses(to) ==
    /\ to > now
    /\ now' = to
    /\ printed' = [s \in Sales |->
           IF bill[s].paidAt # None /\ Day(bill[s].paidAt) = Day(now) /\ Day(now) < Day(to)
           THEN Takings(s) ELSE printed[s]]
    /\ UNCHANGED <<bill, ticket, customers, audit, changes, unmarked>>

SaleStep(s) ==
    \/ RingUp(s)
    \/ \E backdated \in BOOLEAN, c \in Customers \cup {None} : CompleteBill(s, backdated, c)
    \/ RefundBill(s)
    \/ CancelBill(s)
    \/ VoidSession(s)
    \/ \E flag \in BOOLEAN : SetTestFlag(s, flag)
    \/ \E received \in {0, Charge(s)}, method \in {s.method, "CARD"} : CorrectAmount(s, received, method)
    \/ \E number \in Numbers \cup {None}, c \in Customers \cup {None} : CorrectNumber(s, number, c)
    \/ \E entry \in DOMAIN bill[s].revisions : RecordCorrection(s, entry)

Next ==
    \/ \E s \in Sales : SaleStep(s)
    \/ \E c \in Customers, number \in Numbers \cup {None} : SetNumber(c, number)
    \/ \E to \in Times : TimePasses(to)

Spec == Init /\ [][Next]_vars

=============================================================================
