---------------------------- MODULE FamilyRecords ----------------------------
(***************************************************************************)
(* What has to follow when a bill is paid, cancelled, refunded, corrected  *)
(* or marked as a test: the customer it and its ticket are linked to, the  *)
(* ticket's copy of the test flag, and the visits and the spend kept on    *)
(* the customer, which are never counted up but derived from the bills.    *)
(*                                                                         *)
(* Each request is a chain of database operations; one action is one of    *)
(* them with the code up to the next await.  How a ticket gets onto its    *)
(* bill is TicketCheckout's; here it takes one step.                       *)
(***************************************************************************)
EXTENDS Integers, Sequences, FiniteSets, Functions

CONSTANTS
    Bills, Tickets,
    Customers,     \* customer records, present or still to be created
    Phones,        \* normalised numbers
    NoPhone,       \* '': nothing typed
    Nobody,        \* customerId null
    NoBill,        \* billId null
    DayOf,         \* the business day each bill is paid on
    Requests,      \* requests at work at once
    MaxRequests    \* bound: how many requests are ever made

ASSUME NothingIsNoRecord == Nobody \notin Customers /\ NoBill \notin Bills /\ NoPhone \notin Phones
ASSUME RequestsAreCounted == MaxRequests \in Nat

\* The charge of a bill, and what is left of it when all is written off.
Amounts == {0, 1}

VARIABLES
    bill,          \* status, paidAt (set or not), phone, customerId, isTest, grandTotal, revision
    ticket,        \* billId, customerId, isTest
    customer,      \* present, phone, visitCount, totalSpent
    request,       \* where each request stands, and its local variables
    made,          \* how many requests were made
    overtaken,     \* history: the customers whose figures a request working beside another one
                   \* may have left out of date
    contested      \* history: the customers that ever shared a bill with another record

vars == <<bill, ticket, customer, request, made, overtaken, contested>>

NoFamily == [phone |-> NoPhone, customerId |-> Nobody]
FamilyOf(b) == [phone |-> bill[b].phone, customerId |-> bill[b].customerId]

Idle == [at |-> "idle", bill |-> NoBill, family |-> NoFamily, todo |-> <<>>, flag |-> FALSE,
         revision |-> 0, who |-> Nobody, phone |-> NoPhone, visits |-> 0, spent |-> 0]

Init ==
    /\ bill = [b \in Bills |-> [status |-> "NONE", paidAt |-> FALSE, phone |-> NoPhone,
                                customerId |-> Nobody, isTest |-> FALSE, grandTotal |-> 1, revision |-> 0]]
    /\ ticket = [t \in Tickets |-> [billId |-> NoBill, customerId |-> Nobody, isTest |-> FALSE]]
    /\ customer = [c \in Customers |->
                    [present |-> FALSE, phone |-> NoPhone, visitCount |-> 0, totalSpent |-> 0]]
    /\ request = [r \in Requests |-> Idle]
    /\ made = 0
    /\ overtaken = {}
    /\ contested = {}

-----------------------------------------------------------------------------
(* The definitions of customerVisits.ts.                                    *)

\* The bills of one customer record: by its number, and any bill linked to it.
BillsOf(c, phone) ==
    {b \in Bills : bill[b].customerId = c \/ (phone # NoPhone /\ bill[b].phone = phone)}

\* A visit is a business day with a paid bill on it, refunded or not, that is no test.
VisitCount(c, phone) ==
    Cardinality({DayOf[b] : b \in {x \in BillsOf(c, phone) :
        bill[x].status \in {"PAID", "REFUNDED"} /\ ~ bill[x].isTest}})

TotalSpent(c, phone) ==
    SumFunction([b \in {x \in BillsOf(c, phone) : bill[x].status = "PAID" /\ ~ bill[x].isTest}
                    |-> bill[b].grandTotal])

Known(phone) == {c \in Customers : customer[c].present /\ customer[c].phone = phone}

-----------------------------------------------------------------------------

\* Two records share a bill: one by its number, one by its link.
Contested(c) ==
    \E other \in Customers \ {c} :
        /\ customer[other].present
        /\ BillsOf(c, customer[c].phone) \cap BillsOf(other, customer[other].phone) # {}

\* Part of every action: the history looks at the state the action starts from.
NoteContested == contested' = contested \cup {c \in Customers : customer[c].present /\ Contested(c)}

Goto(r, next) == request' = [request EXCEPT ![r] = next] /\ NoteContested
Begin(r, next) ==
    /\ request[r] = Idle /\ made < MaxRequests
    /\ made' = made + 1
    /\ Goto(r, next)
Continue(r, at) == Goto(r, [request[r] EXCEPT !.at = at])

\* What a request does once only the figures of some families are left to recompute.
Recompute(families) ==
    IF families = <<>> THEN Idle ELSE [Idle EXCEPT !.at = "lookup", !.todo = families]

RecomputeFor(c) == [Idle EXCEPT !.at = "identify", !.who = c]

\* Checkout: the customer is the one picked at the till, else the one on the ticket; the
\* number is the one typed.
CheckOut(b, t, family) ==
    /\ bill[b].status = "NONE" /\ ticket[t].billId = NoBill
    /\ bill' = [bill EXCEPT ![b].status = "DRAFT", ![b].phone = family.phone,
                            ![b].customerId = IF family.customerId # Nobody THEN family.customerId
                                              ELSE ticket[t].customerId]
    /\ ticket' = [ticket EXCEPT ![t].billId = b]
    /\ NoteContested
    /\ UNCHANGED <<customer, request, made, overtaken>>

Pay(r, b) ==
    /\ bill[b].status = "DRAFT"
    /\ bill' = [bill EXCEPT ![b].status = "PAID", ![b].paidAt = TRUE]
    /\ Begin(r, IF FamilyOf(b) = NoFamily THEN Idle
                ELSE [Idle EXCEPT !.at = "ensure", !.bill = b, !.family = FamilyOf(b)])
    /\ UNCHANGED <<ticket, customer, overtaken>>

\* ensureCustomer: c is the record of the family, which may be made for it.
EnsureCustomer(family, c) ==
    IF family.customerId # Nobody THEN c = family.customerId /\ UNCHANGED customer
    ELSE IF Known(family.phone) # {} THEN c \in Known(family.phone) /\ UNCHANGED customer
    ELSE /\ ~ customer[c].present
         /\ customer' = [customer EXCEPT ![c].present = TRUE, ![c].phone = family.phone]

EnsureForPayment(r, c) ==
    /\ request[r].at = "ensure"
    /\ EnsureCustomer(request[r].family, c)
    /\ Goto(r, [request[r] EXCEPT !.at = "link", !.who = c])
    /\ UNCHANGED <<bill, ticket, made, overtaken>>

\* Mutants (definitions named "...Mutant") are the code with one plausible mistake in
\* it, next to the definition they replace when a property is put to the test.
LinkNothingMutant(r) ==
    /\ request[r].at = "link"
    /\ Continue(r, "linkTickets")
    /\ UNCHANGED <<bill, ticket, customer, made, overtaken>>

\* setCustomerIdIfUnset, called only if the bill had no customer when it was paid.
Link(r) ==
    /\ request[r].at = "link"
    /\ LET b == request[r].bill
       IN  bill' = [bill EXCEPT ![b].customerId =
               IF request[r].family.customerId = Nobody /\ @ = Nobody THEN request[r].who ELSE @]
    /\ Continue(r, "linkTickets")
    /\ UNCHANGED <<ticket, customer, made, overtaken>>

\* setCustomerIdByBillId: the bill's tickets that have no customer yet.
LinkTickets(r) ==
    /\ request[r].at = "linkTickets"
    /\ ticket' = [t \in Tickets |->
           IF ticket[t].billId = request[r].bill /\ ticket[t].customerId = Nobody
           THEN [ticket[t] EXCEPT !.customerId = request[r].who] ELSE ticket[t]]
    /\ Goto(r, RecomputeFor(request[r].who))
    /\ UNCHANGED <<bill, customer, made, overtaken>>

RefundBill(r, b) ==
    /\ bill[b].status = "PAID"
    /\ bill' = [bill EXCEPT ![b].status = "REFUNDED"]
    /\ Begin(r, Recompute(<<FamilyOf(b)>>))
    /\ UNCHANGED <<ticket, customer, overtaken>>

CancelBill(r, b) ==
    /\ bill[b].status \in {"DRAFT", "PAID"}
    /\ bill' = [bill EXCEPT ![b].status = "CANCELLED"]
    /\ Begin(r, [Idle EXCEPT !.at = "reopen", !.bill = b, !.family = FamilyOf(b)])
    /\ UNCHANGED <<ticket, customer, overtaken>>

\* The ticket leaves the bill with the customer and the test flag it got there.
Reopen(r) ==
    /\ request[r].at = "reopen"
    /\ ticket' = [t \in Tickets |->
           IF ticket[t].billId = request[r].bill THEN [ticket[t] EXCEPT !.billId = NoBill]
           ELSE ticket[t]]
    /\ Goto(r, Recompute(IF bill[request[r].bill].paidAt THEN <<request[r].family>> ELSE <<>>))
    /\ UNCHANGED <<bill, customer, made, overtaken>>

\* setTestFlag read the bill and found it flagged otherwise.
BeginMark(r, b) ==
    /\ bill[b].status \notin {"NONE", "DRAFT"}
    /\ Begin(r, [Idle EXCEPT !.at = "mark", !.bill = b, !.flag = ~ bill[b].isTest])
    /\ UNCHANGED <<bill, ticket, customer, overtaken>>

SetTestFlagIfSettled(r) ==
    /\ request[r].at = "mark"
    /\ LET b == request[r].bill
       IN  /\ bill' = [bill EXCEPT ![b].isTest = request[r].flag]
           /\ Goto(r, [request[r] EXCEPT !.at = "flagTickets", !.family = FamilyOf(b)])
    /\ UNCHANGED <<ticket, customer, made, overtaken>>

SetTestFlagByBillId(r) ==
    /\ request[r].at = "flagTickets"
    /\ ticket' = [t \in Tickets |->
           IF ticket[t].billId = request[r].bill
           THEN [ticket[t] EXCEPT !.isTest = request[r].flag] ELSE ticket[t]]
    /\ Goto(r, Recompute(IF bill[request[r].bill].paidAt THEN <<request[r].family>> ELSE <<>>))
    /\ UNCHANGED <<bill, customer, made, overtaken>>

BeginCorrection(r, b) ==
    /\ bill[b].status = "PAID"
    /\ Begin(r, [Idle EXCEPT !.at = "correct", !.bill = b, !.family = FamilyOf(b),
                             !.revision = bill[b].revision])
    /\ UNCHANGED <<bill, ticket, customer, overtaken>>

\* applyCorrectionIfRevision finds the bill as it was read.
Unrevised(r) ==
    bill[request[r].bill].status = "PAID" /\ bill[request[r].bill].revision = request[r].revision

CorrectAmount(r) ==
    /\ request[r].at = "correct" /\ Unrevised(r)
    /\ LET b == request[r].bill
       IN  /\ bill' = [bill EXCEPT ![b].grandTotal = 1 - @, ![b].revision = @ + 1]
           /\ Goto(r, Recompute(<<FamilyOf(b)>>))
    /\ UNCHANGED <<ticket, customer, made, overtaken>>

\* The number is corrected: first the record of the family it belongs to.
EnsureForCorrection(r, phone, c) ==
    /\ request[r].at = "correct" /\ phone # request[r].family.phone
    /\ IF phone = NoPhone THEN c = Nobody /\ UNCHANGED customer
       ELSE c # Nobody /\ EnsureCustomer([phone |-> phone, customerId |-> Nobody], c)
    /\ Goto(r, [request[r] EXCEPT !.at = "move", !.who = c, !.phone = phone])
    /\ UNCHANGED <<bill, ticket, made, overtaken>>

\* A customer equal to the one that was read is no change and is not written.  The family
\* the bill is taken from is the one that was read: a link made since is not seen.
MoveToFamily(r) ==
    /\ request[r].at = "move" /\ Unrevised(r)
    /\ LET b == request[r].bill
       IN  bill' = [bill EXCEPT ![b].phone = request[r].phone, ![b].revision = @ + 1,
               ![b].customerId = IF request[r].who = request[r].family.customerId THEN @
                                 ELSE request[r].who]
    /\ Goto(r, [request[r] EXCEPT !.at = "reassign",
           !.todo = <<request[r].family,
                      [phone |-> request[r].phone, customerId |-> bill'[request[r].bill].customerId]>>])
    /\ overtaken' = overtaken \cup
           ({bill[request[r].bill].customerId} \ {request[r].family.customerId, Nobody})
    /\ UNCHANGED <<ticket, customer, made>>

CorrectionRefused(r) ==
    /\ request[r].at \in {"correct", "move"} /\ ~ Unrevised(r)
    /\ Goto(r, Idle)
    /\ UNCHANGED <<bill, ticket, customer, made, overtaken>>

RecomputeNewOnlyMutant(r) ==
    /\ request[r].at = "reassign"
    /\ ticket' = [t \in Tickets |->
           IF ticket[t].billId = request[r].bill
           THEN [ticket[t] EXCEPT !.customerId = request[r].todo[2].customerId] ELSE ticket[t]]
    /\ Goto(r, Recompute(<<request[r].todo[2]>>))
    /\ UNCHANGED <<bill, customer, made, overtaken>>

\* The tickets follow, then the family the bill left and the one it joined.
ReassignTickets(r) ==
    /\ request[r].at = "reassign"
    /\ ticket' = [t \in Tickets |->
           IF ticket[t].billId = request[r].bill
           THEN [ticket[t] EXCEPT !.customerId = request[r].todo[2].customerId] ELSE ticket[t]]
    /\ Goto(r, Recompute(request[r].todo))
    /\ UNCHANGED <<bill, customer, made, overtaken>>

\* POST /customers: a number another record has is refused by the unique index.
CreateCustomer(c, phone) ==
    /\ ~ customer[c].present /\ made < MaxRequests
    /\ phone # NoPhone /\ Known(phone) = {}
    /\ customer' = [customer EXCEPT ![c].present = TRUE, ![c].phone = phone]
    /\ made' = made + 1
    /\ NoteContested
    /\ UNCHANGED <<bill, ticket, request, overtaken>>

UpdatePhone(r, c, phone) ==
    /\ customer[c].present /\ phone # customer[c].phone
    /\ phone # NoPhone => Known(phone) = {}
    /\ customer' = [customer EXCEPT ![c].phone = phone]
    /\ Begin(r, RecomputeFor(c))
    /\ UNCHANGED <<bill, ticket, overtaken>>

-----------------------------------------------------------------------------
(* recomputeStatsForBill and recomputeStats, one read or write at a time.   *)

LookUpFamily(r) ==
    /\ request[r].at = "lookup"
    /\ LET family == Head(request[r].todo)
           rest == Tail(request[r].todo)
       IN  \/ /\ family.customerId # Nobody
              /\ Goto(r, [RecomputeFor(family.customerId) EXCEPT !.todo = rest])
           \/ /\ family.customerId = Nobody /\ family.phone # NoPhone
              /\ \E c \in Known(family.phone) : Goto(r, [RecomputeFor(c) EXCEPT !.todo = rest])
           \/ /\ family.customerId = Nobody
              /\ family.phone = NoPhone \/ Known(family.phone) = {}
              /\ Goto(r, Recompute(rest))
    /\ UNCHANGED <<bill, ticket, customer, made, overtaken>>

Identify(r) ==
    /\ request[r].at = "identify"
    /\ Goto(r, [request[r] EXCEPT !.at = "visits", !.phone = customer[request[r].who].phone])
    /\ UNCHANGED <<bill, ticket, customer, made, overtaken>>

CountVisits(r) ==
    /\ request[r].at = "visits"
    /\ Goto(r, [request[r] EXCEPT !.at = "spend", !.visits = VisitCount(request[r].who, request[r].phone)])
    /\ UNCHANGED <<bill, ticket, customer, made, overtaken>>

SumSpent(r) ==
    /\ request[r].at = "spend"
    /\ Goto(r, [request[r] EXCEPT !.at = "save", !.spent = TotalSpent(request[r].who, request[r].phone)])
    /\ UNCHANGED <<bill, ticket, customer, made, overtaken>>

UpToDate(c, visits, spent) ==
    visits = VisitCount(c, customer[c].phone) /\ spent = TotalSpent(c, customer[c].phone)

SetStats(r) ==
    /\ request[r].at = "save"
    /\ LET c == request[r].who
           visits == request[r].visits
           spent == request[r].spent
       IN  /\ customer' = [customer EXCEPT ![c].visitCount = visits, ![c].totalSpent = spent]
           /\ overtaken' = IF UpToDate(c, visits, spent) THEN overtaken \ {c} ELSE overtaken \cup {c}
    /\ Goto(r, Recompute(request[r].todo))
    /\ UNCHANGED <<bill, ticket, made>>

-----------------------------------------------------------------------------

Operate(r, b) ==
    \/ Pay(r, b) \/ RefundBill(r, b) \/ CancelBill(r, b)
    \/ BeginMark(r, b) \/ BeginCorrection(r, b)

Step(r) ==
    \/ \E c \in Customers : EnsureForPayment(r, c)
    \/ Link(r) \/ LinkTickets(r) \/ Reopen(r)
    \/ SetTestFlagIfSettled(r) \/ SetTestFlagByBillId(r)
    \/ CorrectAmount(r)
    \/ \E phone \in Phones \cup {NoPhone}, c \in Customers \cup {Nobody} :
        EnsureForCorrection(r, phone, c)
    \/ MoveToFamily(r) \/ CorrectionRefused(r) \/ ReassignTickets(r)
    \/ LookUpFamily(r) \/ Identify(r) \/ CountVisits(r) \/ SumSpent(r) \/ SetStats(r)

\* What the till sends: a number or nothing, or a customer picked with the record's number.
TypedAtTheTill ==
    {[phone |-> phone, customerId |-> Nobody] : phone \in Phones \cup {NoPhone}}
    \cup {[phone |-> customer[c].phone, customerId |-> c] : c \in {x \in Customers : customer[x].present}}

Next ==
    \/ \E b \in Bills, t \in Tickets, family \in TypedAtTheTill : CheckOut(b, t, family)
    \/ \E r \in Requests, b \in Bills : Operate(r, b)
    \/ \E r \in Requests : Step(r)
    \/ \E c \in Customers, phone \in Phones \cup {NoPhone} :
        CreateCustomer(c, phone) \/ \E r \in Requests : UpdatePhone(r, c, phone)

Spec == Init /\ [][Next]_vars

-----------------------------------------------------------------------------

Quiet == \A r \in Requests : request[r] = Idle

\* "Any change to a bill can simply recompute" (customer.service.ts): once no request is at
\* work the visits and the spend of a family are those of its bills, unless it
\* has shared one with another record, or its last figures were overtaken on the way.
FiguresFollowBills ==
    Quiet =>
        \A c \in Customers :
            customer[c].present /\ c \notin overtaken \cup contested /\ ~ Contested(c) =>
                UpToDate(c, customer[c].visitCount, customer[c].totalSpent)

\* "Derived instead ... so any change to a bill can simply recompute" (customer.service.ts):
\* once no request is at work no family is left with figures that are not those of its
\* bills, though two requests may have recomputed them at once.
FiguresAreDerived ==
    Quiet =>
        \A c \in Customers :
            customer[c].present /\ c \notin contested /\ ~ Contested(c) =>
                UpToDate(c, customer[c].visitCount, customer[c].totalSpent)

\* "What ties most bills - and the tickets they paid for - to a family" (bill.service.ts,
\* completeBill): once the requests are done, no paid bill with a number is without its
\* customer, whatever was corrected while it was being paid.
PaidBillsHaveAFamily ==
    Quiet =>
        \A b \in Bills :
            bill[b].status \in {"PAID", "REFUNDED"} /\ bill[b].phone # NoPhone =>
                bill[b].customerId # Nobody

\* "Mirrors `isTestBill` on the bill this session was checked out into"
\* (playSession.model.ts), once no request is at work.
TicketsMirrorTheirBill ==
    Quiet =>
        \A t \in Tickets :
            ticket[t].billId # NoBill => ticket[t].isTest = bill[ticket[t].billId].isTest

=============================================================================
