------------------------- MODULE FamilyRecordsProofs -------------------------
(***************************************************************************)
(* Theorems about FamilyRecords, for any bills, tickets, customers and     *)
(* numbers, and any number of requests at work at once.                    *)
(***************************************************************************)
EXTENDS FamilyRecords, FiniteSetTheorems, TLAPS

Linkable == Customers \cup {Nobody}
Typed == Phones \cup {NoPhone}
Families == [phone : Typed, customerId : Linkable]

\* Everything visits and spend can come to.
Figures ==
    {0} \cup {Cardinality(days) : days \in SUBSET {DayOf[b] : b \in Bills}}
        \cup {SumFunction(amounts) : amounts \in UNION {[paid -> Amounts] : paid \in SUBSET Bills}}

BillRecord ==
    [status : {"NONE", "DRAFT", "PAID", "REFUNDED", "CANCELLED"}, paidAt : BOOLEAN, phone : Typed,
     customerId : Linkable, isTest : BOOLEAN, grandTotal : Amounts, revision : Nat]

TicketRecord == [billId : Bills \cup {NoBill}, customerId : Linkable, isTest : BOOLEAN]
CustomerRecord == [present : BOOLEAN, phone : Typed, visitCount : Figures, totalSpent : Figures]

Places ==
    {"idle", "ensure", "link", "linkTickets", "reopen", "mark", "flagTickets", "correct", "move",
     "reassign", "lookup", "identify", "visits", "spend", "save"}

RequestRecord ==
    [at : Places, bill : Bills \cup {NoBill}, family : Families, todo : Seq(Families),
     flag : BOOLEAN, revision : Nat, who : Linkable, phone : Typed, visits : Figures, spent : Figures]

\* Types of every variable.
RecordTypes ==
    /\ bill \in [Bills -> BillRecord]
    /\ ticket \in [Tickets -> TicketRecord]
    /\ customer \in [Customers -> CustomerRecord]
    /\ request \in [Requests -> RequestRecord]
    /\ made \in Nat
    /\ overtaken \subseteq Customers /\ contested \subseteq Customers

There(c) == c # Nobody => customer[c].present

\* Whoever a bill, a ticket or a request is linked to has a record; no two have one number.
BillsLinked == \A b \in Bills : There(bill[b].customerId)
TicketsLinked == \A t \in Tickets : There(ticket[t].customerId)

RequestLinked(r) ==
    /\ There(request[r].who) /\ There(request[r].family.customerId)
    /\ \A i \in DOMAIN request[r].todo : There(request[r].todo[i].customerId)

OneRecordEach ==
    /\ \A c, d \in Customers :
        customer[c].present /\ customer[d].present /\ customer[c].phone = customer[d].phone
        /\ customer[c].phone # NoPhone => c = d
    /\ \A c \in Customers :
        ~ customer[c].present => customer[c].visitCount = 0 /\ customer[c].totalSpent = 0

\* The life of a bill.
BillsStand ==
    \A b \in Bills :
        /\ bill[b].status = "NONE" => FamilyOf(b) = NoFamily
        /\ bill[b].status \in {"NONE", "DRAFT"} => ~ bill[b].paidAt
        /\ bill[b].status \in {"PAID", "REFUNDED"} => bill[b].paidAt

WithBill == {"ensure", "link", "linkTickets", "reopen", "mark", "flagTickets", "correct", "move", "reassign"}
WithCustomer == {"link", "linkTickets", "identify", "visits", "spend", "save"}
WithTodo == {"reassign", "lookup", "identify", "visits", "spend", "save"}

\* What a request holds at each place.  A correction that is not refused finds the family it
\* read, or the one its bill got from none.
RequestStands(r) ==
    LET b == request[r].bill IN
    /\ request[r].at = "idle" => request[r] = Idle
    /\ request[r].at \in WithBill => b \in Bills /\ bill[b].status \notin {"NONE", "DRAFT"}
    /\ request[r].at \in WithCustomer => request[r].who \in Customers
    /\ request[r].at = "reopen" => bill[b].status = "CANCELLED"
    /\ request[r].at = "reassign" => Len(request[r].todo) = 2
    /\ request[r].at = "lookup" => request[r].todo # <<>>
    /\ request[r].at \notin WithTodo => request[r].todo = <<>>
    /\ request[r].at \in {"correct", "move"} =>
        /\ request[r].revision <= bill[b].revision
        /\ Unrevised(r) =>
            /\ request[r].family.phone = bill[b].phone
            /\ request[r].family.customerId \in {Nobody, bill[b].customerId}
    /\ request[r].at = "move" => (request[r].phone = NoPhone <=> request[r].who = Nobody)

Counted(b) == bill[b].status \in {"PAID", "REFUNDED"}

\* A paid bill with a number has its customer, or the payment is about to give it one.
NeedsFamily(b) == Counted(b) /\ bill[b].phone # NoPhone /\ bill[b].customerId = Nobody

AsksFamily(r, b) ==
    request[r].at \in {"ensure", "link"} /\ request[r].bill = b /\ request[r].family = FamilyOf(b)

FamiliesCome == \A b \in Bills : NeedsFamily(b) => \E r \in Requests : AsksFamily(r, b)

\* The family is that of c.
Reaches(family, c) ==
    IF family.customerId # Nobody THEN family.customerId = c
    ELSE family.phone # NoPhone /\ family.phone = customer[c].phone

\* The request will recompute the figures of c.
Owes(r, c) ==
    \/ request[r].at = "ensure" /\ Reaches(request[r].family, c)
    \/ request[r].at \in WithCustomer /\ request[r].who = c
    \/ /\ request[r].at \in {"reopen", "flagTickets"} /\ bill[request[r].bill].paidAt
       /\ Reaches(request[r].family, c)
    \/ \E i \in DOMAIN request[r].todo : Reaches(request[r].todo[i], c)

\* The request will link a bill of this number to another customer.
WillContest(r, c) ==
    LET b == request[r].bill IN
    /\ request[r].at = "link" /\ request[r].family.customerId = Nobody /\ request[r].who # c
    /\ bill[b].customerId = Nobody
    /\ bill[b].phone # NoPhone /\ bill[b].phone = customer[c].phone

Figured(c) == UpToDate(c, customer[c].visitCount, customer[c].totalSpent)

Attended(c) == \E r \in Requests : Owes(r, c) \/ WillContest(r, c)

\* Figures that are out of date will be recomputed, or turn out to be contested.
FiguresCome ==
    \A c \in Customers :
        customer[c].present /\ c \notin overtaken \cup contested /\ ~ Contested(c) =>
            Figured(c) \/ Attended(c)

\* The inductive invariant.
FInv ==
    /\ RecordTypes /\ BillsLinked /\ TicketsLinked /\ OneRecordEach /\ BillsStand
    /\ \A r \in Requests : RequestLinked(r) /\ RequestStands(r)
    /\ FamiliesCome /\ FiguresCome

-----------------------------------------------------------------------------
(* The records, and what a request goes on with.                            *)

LEMMA IdleIsARecord == Idle \in RequestRecord /\ NoFamily \in Families
BY DEF Idle, RequestRecord, Families, NoFamily, Linkable, Typed, Places, Figures

LEMMA RecomputeIsARecord ==
    ASSUME NEW families \in Seq(Families)
    PROVE  /\ Recompute(families) \in RequestRecord
           /\ families = <<>> => Recompute(families) = Idle
           /\ families # <<>> => /\ Recompute(families).at = "lookup"
                                /\ Recompute(families).todo = families
           /\ Recompute(families).who = Nobody /\ Recompute(families).family = NoFamily
           /\ Recompute(families).at \in {"idle", "lookup"} /\ Recompute(families).todo = families
BY IdleIsARecord DEF Recompute, Idle, RequestRecord, Places

LEMMA RecomputeForIsARecord ==
    ASSUME NEW c \in Customers, NEW families \in Seq(Families)
    PROVE  /\ RecomputeFor(c) \in RequestRecord
           /\ RecomputeFor(c).at = "identify" /\ RecomputeFor(c).who = c
           /\ RecomputeFor(c).family = NoFamily /\ RecomputeFor(c).todo = <<>>
           /\ [RecomputeFor(c) EXCEPT !.todo = families] \in RequestRecord
           /\ [RecomputeFor(c) EXCEPT !.todo = families].at = "identify"
           /\ [RecomputeFor(c) EXCEPT !.todo = families].who = c
           /\ [RecomputeFor(c) EXCEPT !.todo = families].family = NoFamily
           /\ [RecomputeFor(c) EXCEPT !.todo = families].todo = families
BY IdleIsARecord DEF RecomputeFor, Idle, RequestRecord, Places, Linkable

LEMMA FiguresAreFigures ==
    ASSUME RecordTypes, NEW c, NEW phone
    PROVE  VisitCount(c, phone) \in Figures /\ TotalSpent(c, phone) \in Figures
<1> DEFINE visits == {DayOf[b] : b \in {x \in BillsOf(c, phone) :
                        bill[x].status \in {"PAID", "REFUNDED"} /\ ~ bill[x].isTest}}
           paid == {x \in BillsOf(c, phone) : bill[x].status = "PAID" /\ ~ bill[x].isTest}
           spend == [b \in paid |-> bill[b].grandTotal]
<1>1. visits \in SUBSET {DayOf[b] : b \in Bills}
  BY DEF BillsOf
<1>2. paid \in SUBSET Bills
  BY DEF BillsOf
<1>3. spend \in [paid -> Amounts]
  BY <1>2 DEF RecordTypes, BillRecord
<1>4. VisitCount(c, phone) = Cardinality(visits) /\ TotalSpent(c, phone) = SumFunction(spend)
  BY DEF VisitCount, TotalSpent
<1> HIDE DEF visits, paid, spend
<1>5. spend \in UNION {[s -> Amounts] : s \in SUBSET Bills}
  BY <1>2, <1>3
<1> QED
  BY <1>1, <1>4, <1>5 DEF Figures

LEMMA InitFInv == Init => FInv
<1> SUFFICES ASSUME Init PROVE FInv
  OBVIOUS
<1>1. RecordTypes
  BY IdleIsARecord DEF Init, RecordTypes, BillRecord, TicketRecord, CustomerRecord, Linkable, Typed,
                       Figures, Amounts
<1>2. BillsLinked /\ TicketsLinked /\ OneRecordEach /\ BillsStand
  BY DEF Init, BillsLinked, TicketsLinked, OneRecordEach, BillsStand, There, FamilyOf, NoFamily
<1>3. ASSUME NEW r \in Requests PROVE RequestLinked(r) /\ RequestStands(r)
  BY DEF Init, Idle, NoFamily, RequestLinked, RequestStands, There, WithBill, WithCustomer,
         WithTodo
<1>4. FamiliesCome /\ FiguresCome
  BY DEF Init, FamiliesCome, NeedsFamily, FiguresCome, Counted
<1> QED
  BY <1>1, <1>2, <1>3, <1>4 DEF FInv

-----------------------------------------------------------------------------
(* What one step changes.                                                   *)

OnlyMoves(r) == \A q \in Requests \ {r} : request'[q] = request[q]

\* How the bills change under the requests at work on them.
BillsMove ==
    \A b \in Bills :
        /\ bill[b].status \notin {"NONE", "DRAFT"} =>
            /\ bill'[b].status \notin {"NONE", "DRAFT"}
            /\ bill'[b].status = "PAID" => bill[b].status = "PAID"
            /\ bill'[b].revision = bill[b].revision =>
                /\ bill'[b].phone = bill[b].phone
                /\ bill[b].customerId \in {Nobody, bill'[b].customerId}
        /\ bill[b].status = "CANCELLED" => bill'[b].status = "CANCELLED"
        /\ bill[b].revision <= bill'[b].revision
        /\ bill[b].paidAt => bill'[b].paidAt

\* The requests that do not move stand as they did.
LEMMA OthersStand ==
    ASSUME FInv, RecordTypes', BillsMove, NEW q \in Requests, request'[q] = request[q],
           \A c \in Customers : customer[c].present => customer'[c].present
    PROVE  RequestLinked(q)' /\ RequestStands(q)'
<1>1. RequestLinked(q)'
  <2>1. request[q] \in RequestRecord /\ RequestLinked(q)
    BY DEF FInv, RecordTypes
  <2>2. /\ request[q].who \in Linkable /\ request[q].family.customerId \in Linkable
        /\ \A i \in DOMAIN request[q].todo : request[q].todo[i].customerId \in Linkable
    <3>1. request[q].todo \in Seq(Families) /\ request[q].family \in Families
      BY <2>1 DEF RequestRecord
    <3>2. \A i \in DOMAIN request[q].todo : request[q].todo[i] \in Families
      BY <3>1
    <3> QED
      BY <2>1, <3>1, <3>2 DEF RequestRecord, Families
  <2> QED
    BY <2>1, <2>2 DEF RequestLinked, There, Linkable
<1>2. RequestStands(q)'
  <2>1. RequestStands(q) /\ request[q] \in RequestRecord
    BY DEF FInv, RecordTypes
  <2>2. CASE request[q].at \notin WithBill
    BY <2>1, <2>2 DEF RequestStands, WithBill
  <2>3. CASE request[q].at \in WithBill
    <3>1. PICK b \in Bills : b = request[q].bill
      BY <2>1, <2>3 DEF RequestStands
    <3>2. bill[b] \in BillRecord /\ bill'[b] \in BillRecord
      BY DEF FInv, RecordTypes
    <3>3. bill[b].status \notin {"NONE", "DRAFT"}
      BY <2>1, <2>3, <3>1 DEF RequestStands
    <3>4. request[q].revision \in Nat /\ bill[b].revision \in Nat /\ bill'[b].revision \in Nat
      BY <2>1, <3>2 DEF RequestRecord, BillRecord
    <3>5. request[q].at \in {"correct", "move"} =>
            /\ request[q].revision <= bill'[b].revision
            /\ Unrevised(q)' =>
                /\ request[q].family.phone = bill'[b].phone
                /\ request[q].family.customerId \in {Nobody, bill'[b].customerId}
      BY <2>1, <3>1, <3>3, <3>4 DEF RequestStands, Unrevised, BillsMove
    <3> QED
      BY <2>1, <3>1, <3>3, <3>5 DEF RequestStands, BillsMove
  <2> QED
    BY <2>2, <2>3
<1> QED
  BY <1>1, <1>2

\* The bill counts in the figures of c.
CountsFor(b, c) == Counted(b) /\ b \in BillsOf(c, customer[c].phone)

\* The figures of c are as right as they were if the bills that count for c are the same.
LEMMA SameFigures ==
    ASSUME NEW c \in Customers,
           customer'[c].phone = customer[c].phone,
           customer'[c].visitCount = customer[c].visitCount,
           customer'[c].totalSpent = customer[c].totalSpent,
           \A b \in Bills : CountsFor(b, c)' <=> CountsFor(b, c),
           \A b \in Bills : CountsFor(b, c) => bill'[b] = bill[b]
    PROVE  Figured(c)' <=> Figured(c)
<1> DEFINE phone == customer[c].phone
           visited == {x \in BillsOf(c, phone) : bill[x].status \in {"PAID", "REFUNDED"} /\ ~ bill[x].isTest}
           paid == {x \in BillsOf(c, phone) : bill[x].status = "PAID" /\ ~ bill[x].isTest}
           days == {DayOf[b] : b \in visited}
           spend == [b \in paid |-> bill[b].grandTotal]
<1>1. /\ Figured(c) <=> customer[c].visitCount = Cardinality(days) /\ customer[c].totalSpent = SumFunction(spend)
      /\ Figured(c)' <=> /\ customer'[c].visitCount = Cardinality(days')
                        /\ customer'[c].totalSpent = SumFunction(spend')
  BY DEF Figured, UpToDate, VisitCount, TotalSpent
<1>2. visited' = visited /\ paid' = paid
  BY DEF CountsFor, Counted, BillsOf
<1>3. \A b \in paid : bill'[b] = bill[b]
  BY DEF CountsFor, Counted, BillsOf
<1>4. days' = days
  BY <1>2
<1>5. spend' = spend
  BY <1>2, <1>3
<1> QED
  BY <1>1, <1>4, <1>5

\* What the requests that do not move owe they still do.
LEMMA OthersOwe ==
    ASSUME FInv, BillsMove, NEW q \in Requests, request'[q] = request[q],
           NEW c \in Customers, customer'[c].phone = customer[c].phone, Owes(q, c)
    PROVE  Owes(q, c)'
<1>1. RequestStands(q) /\ \A family : Reaches(family, c)' <=> Reaches(family, c)
  BY DEF FInv, Reaches
<1>2. request[q].at \in {"reopen", "flagTickets"} /\ bill[request[q].bill].paidAt =>
        bill'[request[q].bill].paidAt
  BY <1>1 DEF RequestStands, WithBill, BillsMove
<1> QED
  BY <1>1, <1>2 DEF Owes, Reaches

LEMMA OthersContest ==
    ASSUME NEW q \in Requests, request'[q] = request[q],
           NEW c \in Customers, customer'[c].phone = customer[c].phone, WillContest(q, c),
           bill'[request[q].bill].phone = bill[request[q].bill].phone,
           bill'[request[q].bill].customerId = bill[request[q].bill].customerId
    PROVE  WillContest(q, c)'
BY DEF WillContest

LEMMA FamiliesStep ==
    ASSUME FInv, NEW r, OnlyMoves(r),
           \A b \in Bills : NeedsFamily(b)' =>
              \/ r \in Requests /\ AsksFamily(r, b)'
              \/ NeedsFamily(b) /\ FamilyOf(b)' = FamilyOf(b) /\ (r \in Requests => ~ AsksFamily(r, b))
    PROVE  FamiliesCome'
<1> SUFFICES ASSUME NEW b \in Bills, NeedsFamily(b)' PROVE \E q \in Requests : AsksFamily(q, b)'
  BY DEF FamiliesCome
<1>1. CASE r \in Requests /\ AsksFamily(r, b)'
  BY <1>1
<1>2. CASE NeedsFamily(b) /\ FamilyOf(b)' = FamilyOf(b) /\ (r \in Requests => ~ AsksFamily(r, b))
  <2>1. PICK q \in Requests : AsksFamily(q, b)
    BY <1>2 DEF FInv, FamiliesCome
  <2>2. request'[q] = request[q]
    BY <1>2, <2>1 DEF OnlyMoves
  <2>3. AsksFamily(q, b)'
    BY <1>2, <2>1, <2>2 DEF AsksFamily
  <2> QED
    BY <2>3
<1> QED
  BY <1>1, <1>2

\* A step that writes no customer keeps the figures coming if it attends to whoever has them
\* from a bill it writes.
LEMMA FiguresStep ==
    ASSUME FInv, BillsMove, NEW r, OnlyMoves(r), customer' = customer, NoteContested,
           overtaken \subseteq overtaken',
           \A c \in Customers :
              customer[c].present /\ c \notin overtaken' /\ ~ Contested(c) /\ ~ Contested(c)' =>
                /\ r \in Requests /\ (Owes(r, c) \/ WillContest(r, c)) => Attended(c)'
                /\ \A b \in Bills : CountsFor(b, c) \/ CountsFor(b, c)' =>
                     bill'[b] = bill[b] \/ Attended(c)'
                /\ \A b \in Bills :
                     bill[b].status \notin {"NONE", "DRAFT"} /\ bill[b].phone # NoPhone
                     /\ bill[b].phone = customer[c].phone /\ bill[b].customerId = Nobody =>
                        FamilyOf(b)' = FamilyOf(b) \/ Attended(c)'
    PROVE  FiguresCome'
<1> SUFFICES ASSUME NEW c \in Customers, customer[c].present, c \notin overtaken', c \notin contested',
                    ~ Contested(c)', ~ Figured(c)', ~ Attended(c)'
             PROVE  FALSE
  BY DEF FiguresCome
<1>1. ~ Contested(c) /\ c \notin contested /\ c \notin overtaken
  BY DEF NoteContested
<1>2. \A b \in Bills : CountsFor(b, c) \/ CountsFor(b, c)' => bill'[b] = bill[b]
  BY <1>1
<1>3. \A b \in Bills : bill'[b] = bill[b] => (CountsFor(b, c)' <=> CountsFor(b, c))
  BY DEF CountsFor, Counted, BillsOf
<1>4. Figured(c)' <=> Figured(c)
  <2>1. \A b \in Bills : CountsFor(b, c)' <=> CountsFor(b, c)
    BY <1>2, <1>3
  <2>2. \A b \in Bills : CountsFor(b, c) => bill'[b] = bill[b]
    BY <1>2
  <2> QED
    BY <2>1, <2>2, SameFigures
<1>5. PICK q \in Requests : Owes(q, c) \/ WillContest(q, c)
  BY <1>1, <1>4 DEF FInv, FiguresCome, Attended
<1>6. q # r
  BY <1>1, <1>5
<1>7. request'[q] = request[q]
  BY <1>6 DEF OnlyMoves
<1>8. CASE Owes(q, c)
  BY <1>7, <1>8, OthersOwe DEF Attended
<1>9. CASE WillContest(q, c)
  <2>1. PICK b \in Bills : b = request[q].bill /\ bill[b].status \notin {"NONE", "DRAFT"}
    BY <1>9 DEF WillContest, FInv, RequestStands, WithBill
  <2>2. FamilyOf(b)' = FamilyOf(b)
    BY <1>1, <1>9, <2>1 DEF WillContest
  <2>3. bill'[b].phone = bill[b].phone /\ bill'[b].customerId = bill[b].customerId
    BY <2>2 DEF FamilyOf
  <2> QED
    BY <1>7, <1>9, <2>1, <2>3, OthersContest DEF Attended
<1> QED
  BY <1>5, <1>8, <1>9

\* The parts of the invariant a step may disturb.
LEMMA FInvStep ==
    ASSUME FInv, RecordTypes', BillsMove, NEW r, OnlyMoves(r),
           \A c \in Customers : customer[c].present => customer'[c].present,
           BillsLinked', TicketsLinked', OneRecordEach', BillsStand',
           r \in Requests => RequestLinked(r)' /\ RequestStands(r)',
           FamiliesCome', FiguresCome'
    PROVE  FInv'
<1>1. ASSUME NEW q \in Requests PROVE RequestLinked(q)' /\ RequestStands(q)'
  BY OthersStand DEF OnlyMoves
<1> QED
  BY <1>1 DEF FInv

\* A step of a request that writes neither a bill nor a customer keeps the invariant if the
\* request goes on to do what it owes.
LEMMA QuietStep ==
    ASSUME FInv, RecordTypes', NEW r \in Requests, OnlyMoves(r),
           UNCHANGED <<bill, customer, overtaken>>, NoteContested, request[r].at # "link",
           \A c \in Customers : customer[c].present /\ Owes(r, c) => Owes(r, c)',
           request[r].at = "ensure" =>
              /\ request'[r].at = "link" /\ request'[r].bill = request[r].bill
              /\ request'[r].family = request[r].family,
           TicketsLinked', RequestLinked(r)', RequestStands(r)'
    PROVE  FInv'
<1>0. BillsMove
  BY DEF BillsMove, FInv, RecordTypes, BillRecord
<1>1. BillsLinked' /\ OneRecordEach' /\ BillsStand'
  BY DEF FInv, BillsLinked, OneRecordEach, BillsStand, There, FamilyOf
<1>2. FamiliesCome'
  <2> SUFFICES ASSUME NEW b \in Bills, NeedsFamily(b) PROVE \E q \in Requests : AsksFamily(q, b)'
    BY DEF FamiliesCome, NeedsFamily, Counted
  <2>1. PICK q \in Requests : AsksFamily(q, b)
    BY DEF FInv, FamiliesCome
  <2>2. FamilyOf(b)' = FamilyOf(b)
    BY DEF FamilyOf
  <2>3. AsksFamily(q, b)'
    BY <2>1, <2>2 DEF AsksFamily, OnlyMoves
  <2> QED
    BY <2>3
<1>3. FiguresCome'
  <2> SUFFICES ASSUME NEW c \in Customers, customer[c].present, c \notin overtaken, c \notin contested',
                      ~ Figured(c)'
               PROVE  Attended(c)'
    BY DEF FiguresCome
  <2>1. ~ Contested(c) /\ c \notin contested
    BY DEF NoteContested
  <2>2. Figured(c)' <=> Figured(c)
    BY DEF Figured, UpToDate, VisitCount, TotalSpent, BillsOf
  <2>3. PICK q \in Requests : Owes(q, c) \/ WillContest(q, c)
    BY <2>1, <2>2 DEF FInv, FiguresCome, Attended
  <2>4. CASE q = r
    BY <2>3, <2>4 DEF WillContest, Attended
  <2>5. CASE q # r
    <3>1. request'[q] = request[q]
      BY <2>5 DEF OnlyMoves
    <3>2. Owes(q, c)' \/ WillContest(q, c)'
      BY <1>0, <2>3, <3>1, OthersOwe, OthersContest
    <3> QED
      BY <3>2 DEF Attended
  <2> QED
    BY <2>4, <2>5
<1> QED
  BY <1>0, <1>1, <1>2, <1>3, FInvStep

-----------------------------------------------------------------------------
(* The actions.                                                             *)

\* What is known of a request.
LEMMA RequestIs ==
    ASSUME FInv, NEW r \in Requests
    PROVE  /\ request[r] \in RequestRecord /\ RequestLinked(r) /\ RequestStands(r)
           /\ request[r].family \in Families /\ request[r].todo \in Seq(Families)
           /\ request[r].who \in Linkable /\ request[r].phone \in Typed
           /\ \A i \in DOMAIN request[r].todo :
                request[r].todo[i] \in Families /\ There(request[r].todo[i].customerId)
<1>1. request[r] \in RequestRecord /\ RequestLinked(r) /\ RequestStands(r)
  BY DEF FInv, RecordTypes
<1>2. request[r].todo \in Seq(Families)
  BY <1>1 DEF RequestRecord
<1>3. \A i \in DOMAIN request[r].todo : request[r].todo[i] \in Families
  BY <1>2
<1> QED
  BY <1>1, <1>2, <1>3 DEF RequestRecord, RequestLinked

\* What is known of a bill.
LEMMA BillIs ==
    ASSUME FInv, NEW b \in Bills
    PROVE  /\ bill[b] \in BillRecord /\ FamilyOf(b) \in Families /\ There(bill[b].customerId)
           /\ FamilyOf(b).phone = bill[b].phone /\ FamilyOf(b).customerId = bill[b].customerId
BY DEF FInv, RecordTypes, BillRecord, FamilyOf, Families, BillsLinked

\* What Goto and Begin do.
LEMMA GoesOn ==
    ASSUME FInv, NEW r \in Requests, NEW next \in RequestRecord, Goto(r, next)
    PROVE  /\ request' \in [Requests -> RequestRecord] /\ request'[r] = next /\ OnlyMoves(r)
           /\ NoteContested /\ contested' \subseteq Customers
BY DEF FInv, RecordTypes, Goto, NoteContested, OnlyMoves

LEMMA Begins ==
    ASSUME FInv, NEW r \in Requests, NEW next \in RequestRecord, Begin(r, next)
    PROVE  /\ request' \in [Requests -> RequestRecord] /\ request'[r] = next /\ OnlyMoves(r)
           /\ NoteContested /\ contested' \subseteq Customers /\ made' \in Nat
           /\ request[r] = Idle /\ \A c : ~ Owes(r, c)
<1>1. made' \in Nat /\ Goto(r, next) /\ request[r] = Idle
  BY DEF FInv, RecordTypes, Begin
<1>2. \A c : ~ Owes(r, c)
  BY <1>1 DEF Owes, Idle, WithCustomer
<1> QED
  BY <1>1, <1>2, GoesOn

LEMMA BeginMarkKeeps ==
    ASSUME FInv, NEW r \in Requests, NEW b \in Bills, BeginMark(r, b)
    PROVE  FInv'
<1> DEFINE next == [Idle EXCEPT !.at = "mark", !.bill = b, !.flag = ~ bill[b].isTest]
<1>1. /\ next \in RequestRecord /\ next.at = "mark" /\ next.bill = b /\ next.family = NoFamily
      /\ next.who = Nobody /\ next.todo = <<>>
  BY IdleIsARecord, BillIs DEF RequestRecord, Idle, Places
<1>2. Begin(r, next) /\ UNCHANGED <<bill, ticket, customer, overtaken>> /\ bill[b].status \notin {"NONE", "DRAFT"}
  BY DEF BeginMark
<1> HIDE DEF next
<1>3. RecordTypes' /\ TicketsLinked' /\ NoteContested /\ OnlyMoves(r)
  BY <1>1, <1>2, Begins DEF FInv, RecordTypes, TicketsLinked, There
<1>4. request'[r] = next /\ request[r].at = "idle" /\ \A c : ~ Owes(r, c)
  BY <1>1, <1>2, Begins DEF Idle
<1>5. RequestLinked(r)' /\ RequestStands(r)'
  BY <1>1, <1>2, <1>4 DEF RequestLinked, RequestStands, There, WithBill, WithCustomer, NoFamily
<1> QED
  BY <1>2, <1>3, <1>4, <1>5, QuietStep

LEMMA BeginCorrectionKeeps ==
    ASSUME FInv, NEW r \in Requests, NEW b \in Bills, BeginCorrection(r, b)
    PROVE  FInv'
<1> DEFINE next == [Idle EXCEPT !.at = "correct", !.bill = b, !.family = FamilyOf(b),
                                !.revision = bill[b].revision]
<1>1. /\ next \in RequestRecord /\ next.at = "correct" /\ next.bill = b /\ next.family = FamilyOf(b)
      /\ next.who = Nobody /\ next.todo = <<>> /\ next.revision = bill[b].revision
  BY IdleIsARecord, BillIs DEF RequestRecord, BillRecord, Idle, Places
<1>2. Begin(r, next) /\ UNCHANGED <<bill, ticket, customer, overtaken>> /\ bill[b].status = "PAID"
  BY DEF BeginCorrection
<1> HIDE DEF next
<1>3. RecordTypes' /\ TicketsLinked' /\ NoteContested /\ OnlyMoves(r)
  BY <1>1, <1>2, Begins DEF FInv, RecordTypes, TicketsLinked, There
<1>4. request'[r] = next /\ request[r].at = "idle" /\ \A c : ~ Owes(r, c)
  BY <1>1, <1>2, Begins DEF Idle
<1>5. RequestLinked(r)'
  BY <1>1, <1>2, <1>4, BillIs DEF RequestLinked, There
<1>6. RequestStands(r)'
  BY <1>1, <1>2, <1>4, BillIs DEF RequestStands, There, WithBill, WithCustomer, BillRecord, Unrevised
<1> QED
  BY <1>2, <1>3, <1>4, <1>5, <1>6, QuietStep

\* What a request owes once it has only figures to recompute.
LEMMA RecomputeStands ==
    ASSUME NEW r, NEW families \in Seq(Families), request'[r] = Recompute(families),
           \A i \in DOMAIN families : There(families[i].customerId)'
    PROVE  /\ RequestLinked(r)' /\ RequestStands(r)'
           /\ \A c : (\E i \in DOMAIN families : Reaches(families[i], c)') => Owes(r, c)'
<1>1. /\ request'[r].todo = families /\ request'[r].who = Nobody /\ request'[r].family = NoFamily
      /\ request'[r].at \in {"idle", "lookup"}
      /\ request'[r].at = "idle" => request'[r] = Idle
      /\ request'[r].at = "lookup" => families # <<>>
  BY RecomputeIsARecord DEF Idle
<1>2. RequestLinked(r)'
  BY <1>1 DEF RequestLinked, There, NoFamily
<1>3. RequestStands(r)'
  BY <1>1 DEF RequestStands, WithBill, WithCustomer, WithTodo, Idle
<1> QED
  BY <1>1, <1>2, <1>3 DEF Owes, Reaches

LEMMA RecomputeForStands ==
    ASSUME NEW r, NEW c \in Customers, NEW families \in Seq(Families), There(c)',
           request'[r].at = "identify", request'[r].who = c, request'[r].family = NoFamily,
           request'[r].todo = families,
           \A i \in DOMAIN families : There(families[i].customerId)'
    PROVE  /\ RequestLinked(r)' /\ RequestStands(r)' /\ Owes(r, c)'
           /\ \A d : (\E i \in DOMAIN families : Reaches(families[i], d)') => Owes(r, d)'
<1>1. RequestLinked(r)'
  BY DEF RequestLinked, There, NoFamily
<1>2. RequestStands(r)'
  BY DEF RequestStands, WithBill, WithCustomer, WithTodo
<1> QED
  BY <1>1, <1>2 DEF Owes, Reaches, WithCustomer

LEMMA LinkTicketsKeeps ==
    ASSUME FInv, NEW r \in Requests, LinkTickets(r)
    PROVE  FInv'
<1>1. PICK who \in Customers : who = request[r].who /\ customer[who].present
  BY RequestIs, NothingIsNoRecord DEF LinkTickets, RequestStands, RequestLinked, WithCustomer, There
<1>a. request[r].at = "linkTickets" /\ request[r].todo = <<>>
  BY RequestIs DEF LinkTickets, RequestStands, WithTodo
<1> DEFINE next == RecomputeFor(who)
<1>2. /\ next \in RequestRecord /\ next.at = "identify" /\ next.who = who
      /\ next.family = NoFamily /\ next.todo = <<>>
  <2>1. <<>> \in Seq(Families)
    OBVIOUS
  <2> QED
    BY <1>1, <2>1, RecomputeForIsARecord
<1>3. Goto(r, next) /\ UNCHANGED <<bill, customer, made, overtaken>>
  BY <1>1 DEF LinkTickets
<1> HIDE DEF next
<1>4. request' \in [Requests -> RequestRecord] /\ request'[r] = next /\ OnlyMoves(r)
      /\ NoteContested /\ contested' \subseteq Customers
  BY <1>2, <1>3, GoesOn
<1>5. ticket' \in [Tickets -> TicketRecord] /\ TicketsLinked'
  <2> DEFINE linked(t) == IF ticket[t].billId = request[r].bill /\ ticket[t].customerId = Nobody
                          THEN [ticket[t] EXCEPT !.customerId = who] ELSE ticket[t]
  <2>1. ticket' = [t \in Tickets |-> linked(t)]
    BY <1>1 DEF LinkTickets
  <2>2. ASSUME NEW t \in Tickets
        PROVE  linked(t) \in TicketRecord /\ linked(t).customerId \in {who, ticket[t].customerId}
    BY <1>1 DEF FInv, RecordTypes, TicketRecord, Linkable
  <2> HIDE DEF linked
  <2> QED
    BY <1>1, <1>3, <2>1, <2>2 DEF FInv, TicketsLinked, There
<1>6. RecordTypes'
  BY <1>3, <1>4, <1>5 DEF FInv, RecordTypes
<1>7. RequestLinked(r)' /\ RequestStands(r)' /\ Owes(r, who)'
  <2>1. There(who)'
    BY <1>1, <1>3 DEF There
  <2>2. <<>> \in Seq(Families) /\ \A i \in DOMAIN <<>> : There(<<>>[i].customerId)'
    OBVIOUS
  <2> QED
    BY <1>1, <1>2, <1>4, <2>1, <2>2, RecomputeForStands
<1>8. \A c \in Customers : Owes(r, c) => c = who
  BY <1>1, <1>a DEF Owes
<1> QED
  BY <1>a, <1>3, <1>4, <1>5, <1>6, <1>7, <1>8, QuietStep

\* The family a request holds is recomputed if its bill was ever paid.
LEMMA RecomputeIfPaidKeeps ==
    ASSUME FInv, NEW r \in Requests, request[r].at \in {"reopen", "flagTickets"},
           Goto(r, Recompute(IF bill[request[r].bill].paidAt THEN <<request[r].family>> ELSE <<>>)),
           UNCHANGED <<bill, customer, made, overtaken>>,
           ticket' \in [Tickets -> TicketRecord], TicketsLinked'
    PROVE  FInv'
<1>1. /\ request[r].family \in Families /\ There(request[r].family.customerId)
      /\ request[r].todo = <<>>
  BY RequestIs DEF RequestStands, WithTodo, RequestLinked
<1>2. PICK family \in Families : family = request[r].family /\ There(family.customerId)
  BY <1>1
<1>3. PICK families \in Seq(Families) :
        /\ families = IF bill[request[r].bill].paidAt THEN <<family>> ELSE <<>>
        /\ \A i \in DOMAIN families : families[i] = family
        /\ bill[request[r].bill].paidAt => 1 \in DOMAIN families
  <2>1. CASE bill[request[r].bill].paidAt
    <3>1. /\ <<family>> \in Seq(Families) /\ 1 \in DOMAIN <<family>>
          /\ \A i \in DOMAIN <<family>> : <<family>>[i] = family
      OBVIOUS
    <3> QED
      BY <2>1, <3>1
  <2>2. CASE ~ bill[request[r].bill].paidAt
    <3>1. <<>> \in Seq(Families) /\ \A i \in DOMAIN <<>> : <<>>[i] = family
      OBVIOUS
    <3> QED
      BY <2>2, <3>1
  <2> QED
    BY <2>1, <2>2
<1>4. Goto(r, Recompute(families)) /\ Recompute(families) \in RequestRecord
  BY <1>2, <1>3, RecomputeIsARecord
<1>5. request' \in [Requests -> RequestRecord] /\ request'[r] = Recompute(families) /\ OnlyMoves(r)
      /\ NoteContested /\ contested' \subseteq Customers
  BY <1>4, GoesOn
<1>6. RecordTypes'
  BY <1>5 DEF FInv, RecordTypes
<1>7. \A i \in DOMAIN families : There(families[i].customerId)'
  BY <1>2, <1>3 DEF There
<1>8. /\ RequestLinked(r)' /\ RequestStands(r)'
      /\ \A c : (\E i \in DOMAIN families : Reaches(families[i], c)') => Owes(r, c)'
  BY <1>5, <1>7, RecomputeStands
<1>9. ASSUME NEW c \in Customers, Owes(r, c) PROVE Owes(r, c)'
  <2>1. bill[request[r].bill].paidAt /\ Reaches(family, c)
    BY <1>1, <1>2, <1>9 DEF Owes, WithCustomer
  <2>2. Reaches(families[1], c)'
    BY <1>3, <2>1 DEF Reaches
  <2> QED
    BY <1>3, <1>8, <2>1, <2>2
<1> QED
  BY <1>5, <1>6, <1>8, <1>9, QuietStep

LEMMA ReopenKeeps ==
    ASSUME FInv, NEW r \in Requests, Reopen(r)
    PROVE  FInv'
<1> DEFINE after(t) == IF ticket[t].billId = request[r].bill
                       THEN [ticket[t] EXCEPT !.billId = NoBill] ELSE ticket[t]
<1>1. ticket' = [t \in Tickets |-> after(t)]
  BY DEF Reopen
<1>2. ASSUME NEW t \in Tickets
      PROVE  after(t) \in TicketRecord /\ after(t).customerId = ticket[t].customerId
  BY DEF FInv, RecordTypes, TicketRecord
<1> HIDE DEF after
<1>3. ticket' \in [Tickets -> TicketRecord] /\ TicketsLinked'
  BY <1>1, <1>2 DEF Reopen, FInv, TicketsLinked, There
<1> QED
  BY <1>3, RecomputeIfPaidKeeps DEF Reopen

LEMMA SetTestFlagByBillIdKeeps ==
    ASSUME FInv, NEW r \in Requests, SetTestFlagByBillId(r)
    PROVE  FInv'
<1> DEFINE after(t) == IF ticket[t].billId = request[r].bill
                       THEN [ticket[t] EXCEPT !.isTest = request[r].flag] ELSE ticket[t]
<1>1. ticket' = [t \in Tickets |-> after(t)]
  BY DEF SetTestFlagByBillId
<1>2. ASSUME NEW t \in Tickets
      PROVE  after(t) \in TicketRecord /\ after(t).customerId = ticket[t].customerId
  BY RequestIs DEF FInv, RecordTypes, TicketRecord, RequestRecord
<1> HIDE DEF after
<1>3. ticket' \in [Tickets -> TicketRecord] /\ TicketsLinked'
  BY <1>1, <1>2 DEF SetTestFlagByBillId, FInv, TicketsLinked, There
<1> QED
  BY <1>3, RecomputeIfPaidKeeps DEF SetTestFlagByBillId

LEMMA ReassignTicketsKeeps ==
    ASSUME FInv, NEW r \in Requests, ReassignTickets(r)
    PROVE  FInv'
<1>1. PICK families \in Seq(Families) :
        /\ families = request[r].todo
        /\ \A i \in DOMAIN families : families[i] \in Families /\ There(families[i].customerId)
  BY RequestIs
<1>2. request[r].at = "reassign" /\ Len(families) = 2
  BY <1>1, RequestIs DEF ReassignTickets, RequestStands
<1>3. PICK d \in Linkable : d = families[2].customerId /\ There(d)
  BY <1>1, <1>2 DEF Families
<1>4. Goto(r, Recompute(families)) /\ Recompute(families) \in RequestRecord
  BY <1>1, RecomputeIsARecord DEF ReassignTickets
<1>5. request' \in [Requests -> RequestRecord] /\ request'[r] = Recompute(families) /\ OnlyMoves(r)
      /\ NoteContested /\ contested' \subseteq Customers
  BY <1>4, GoesOn
<1>6. UNCHANGED <<bill, customer, made, overtaken>>
  BY DEF ReassignTickets
<1>7. ticket' \in [Tickets -> TicketRecord] /\ TicketsLinked'
  <2> DEFINE after(t) == IF ticket[t].billId = request[r].bill
                         THEN [ticket[t] EXCEPT !.customerId = d] ELSE ticket[t]
  <2>1. ticket' = [t \in Tickets |-> after(t)]
    BY <1>1, <1>3 DEF ReassignTickets
  <2>2. ASSUME NEW t \in Tickets
        PROVE  after(t) \in TicketRecord /\ after(t).customerId \in {d, ticket[t].customerId}
    BY <1>3 DEF FInv, RecordTypes, TicketRecord
  <2> HIDE DEF after
  <2> QED
    BY <1>3, <1>6, <2>1, <2>2 DEF FInv, TicketsLinked, There
<1>8. RecordTypes'
  BY <1>5, <1>6, <1>7 DEF FInv, RecordTypes
<1>9. /\ RequestLinked(r)' /\ RequestStands(r)'
      /\ \A c : (\E i \in DOMAIN families : Reaches(families[i], c)') => Owes(r, c)'
  <2>1. \A i \in DOMAIN families : There(families[i].customerId)'
    BY <1>1, <1>6 DEF There
  <2> QED
    BY <1>5, <2>1, RecomputeStands
<1>10. ASSUME NEW c \in Customers, Owes(r, c) PROVE Owes(r, c)'
  <2>1. PICK i \in DOMAIN families : Reaches(families[i], c)
    BY <1>1, <1>2, <1>10 DEF Owes, WithCustomer
  <2>2. Reaches(families[i], c)'
    BY <1>6, <2>1 DEF Reaches
  <2> QED
    BY <1>9, <2>2
<1> QED
  BY <1>2, <1>5, <1>6, <1>7, <1>8, <1>9, <1>10, QuietStep

LEMMA CorrectionRefusedKeeps ==
    ASSUME FInv, NEW r \in Requests, CorrectionRefused(r)
    PROVE  FInv'
<1>1. request[r].at \in {"correct", "move"} /\ request[r].todo = <<>>
  BY RequestIs DEF CorrectionRefused, RequestStands, WithTodo
<1>2. Goto(r, Idle) /\ UNCHANGED <<bill, ticket, customer, made, overtaken>>
  BY DEF CorrectionRefused
<1>3. request' \in [Requests -> RequestRecord] /\ request'[r] = Idle /\ OnlyMoves(r)
      /\ NoteContested /\ contested' \subseteq Customers
  BY <1>2, IdleIsARecord, GoesOn
<1>4. RecordTypes' /\ TicketsLinked'
  BY <1>2, <1>3 DEF FInv, RecordTypes, TicketsLinked, There
<1>5. RequestLinked(r)' /\ RequestStands(r)'
  BY <1>3 DEF RequestLinked, RequestStands, There, Idle, NoFamily, WithBill, WithCustomer
<1>6. \A c : ~ Owes(r, c)
  BY <1>1 DEF Owes, WithCustomer
<1> QED
  BY <1>1, <1>2, <1>3, <1>4, <1>5, <1>6, QuietStep

\* The first of some families, and the rest.
LEMMA FirstAndRest ==
    ASSUME NEW S, NEW s \in Seq(S), s # <<>>
    PROVE  /\ Head(s) \in S /\ Tail(s) \in Seq(S) /\ 1 \in DOMAIN s /\ Head(s) = s[1]
           /\ \A i \in DOMAIN s : i = 1 \/ (i - 1 \in DOMAIN Tail(s) /\ Tail(s)[i - 1] = s[i])
           /\ \A i \in DOMAIN Tail(s) : i + 1 \in DOMAIN s /\ Tail(s)[i] = s[i + 1]
BY SMTT(30)

LEMMA LookUpFamilyKeeps ==
    ASSUME FInv, NEW r \in Requests, LookUpFamily(r)
    PROVE  FInv'
<1>1. PICK todo \in Seq(Families) :
        /\ todo = request[r].todo
        /\ \A i \in DOMAIN todo : todo[i] \in Families /\ There(todo[i].customerId)
  BY RequestIs
<1>2. request[r].at = "lookup" /\ todo # <<>>
  BY <1>1, RequestIs DEF LookUpFamily, RequestStands
<1>3. PICK family \in Families, rest \in Seq(Families) :
        /\ family = Head(todo) /\ rest = Tail(todo) /\ There(family.customerId)
        /\ \A i \in DOMAIN todo : todo[i] = family \/ \E j \in DOMAIN rest : rest[j] = todo[i]
        /\ \A j \in DOMAIN rest : There(rest[j].customerId)
  <2>1. /\ Head(todo) \in Families /\ Tail(todo) \in Seq(Families)
        /\ 1 \in DOMAIN todo /\ Head(todo) = todo[1]
        /\ \A i \in DOMAIN todo :
             i = 1 \/ (i - 1 \in DOMAIN Tail(todo) /\ Tail(todo)[i - 1] = todo[i])
        /\ \A i \in DOMAIN Tail(todo) : i + 1 \in DOMAIN todo /\ Tail(todo)[i] = todo[i + 1]
    BY <1>2, FirstAndRest
  <2> DEFINE rest == Tail(todo)
  <2>2. \A i \in DOMAIN todo : todo[i] = Head(todo) \/ \E j \in DOMAIN rest : rest[j] = todo[i]
    BY <2>1
  <2>3. There(Head(todo).customerId) /\ \A j \in DOMAIN rest : There(rest[j].customerId)
    BY <1>1, <2>1
  <2> QED
    BY <2>1, <2>2, <2>3
<1>4. UNCHANGED <<bill, ticket, customer, made, overtaken>>
  BY DEF LookUpFamily
<1>5. \A j \in DOMAIN rest : There(rest[j].customerId)'
  BY <1>3, <1>4 DEF There
<1>6. ASSUME NEW c \in Customers, Owes(r, c), ~ Reaches(family, c)
      PROVE  \E j \in DOMAIN rest : Reaches(rest[j], c)'
  <2>1. PICK i \in DOMAIN todo : Reaches(todo[i], c)
    BY <1>1, <1>2, <1>6 DEF Owes, WithCustomer
  <2>2. PICK j \in DOMAIN rest : rest[j] = todo[i]
    BY <1>3, <1>6, <2>1
  <2> QED
    BY <1>4, <2>1, <2>2 DEF Reaches
<1>7. ASSUME NEW d \in Customers, customer[d].present,
             Goto(r, [RecomputeFor(d) EXCEPT !.todo = rest]),
             \A c \in Customers : customer[c].present /\ Reaches(family, c) => c = d
      PROVE  FInv'
  <2> DEFINE next == [RecomputeFor(d) EXCEPT !.todo = rest]
  <2>1. /\ next \in RequestRecord /\ next.at = "identify" /\ next.who = d
        /\ next.family = NoFamily /\ next.todo = rest
    BY RecomputeForIsARecord
  <2> HIDE DEF next
  <2>2. request' \in [Requests -> RequestRecord] /\ request'[r] = next /\ OnlyMoves(r)
        /\ NoteContested /\ contested' \subseteq Customers
    BY <1>7, <2>1, GoesOn DEF next
  <2>3. RecordTypes' /\ TicketsLinked'
    BY <1>4, <2>2 DEF FInv, RecordTypes, TicketsLinked, There
  <2>4. There(d)'
    BY <1>4, <1>7 DEF There
  <2>5. /\ RequestLinked(r)' /\ RequestStands(r)' /\ Owes(r, d)'
        /\ \A c : (\E i \in DOMAIN rest : Reaches(rest[i], c)') => Owes(r, c)'
    BY <1>5, <2>1, <2>2, <2>4, RecomputeForStands
  <2>6. ASSUME NEW c \in Customers, customer[c].present, Owes(r, c) PROVE Owes(r, c)'
    BY <1>6, <1>7, <2>5, <2>6
  <2> QED
    BY <1>2, <1>4, <2>2, <2>3, <2>5, <2>6, QuietStep
<1>8. ASSUME Goto(r, Recompute(rest)), \A c \in Customers : ~ (customer[c].present /\ Reaches(family, c))
      PROVE  FInv'
  <2>1. request' \in [Requests -> RequestRecord] /\ request'[r] = Recompute(rest) /\ OnlyMoves(r)
        /\ NoteContested /\ contested' \subseteq Customers
    BY <1>8, RecomputeIsARecord, GoesOn
  <2>2. RecordTypes' /\ TicketsLinked'
    BY <1>4, <2>1 DEF FInv, RecordTypes, TicketsLinked, There
  <2>3. /\ RequestLinked(r)' /\ RequestStands(r)'
        /\ \A c : (\E i \in DOMAIN rest : Reaches(rest[i], c)') => Owes(r, c)'
    BY <1>5, <2>1, RecomputeStands
  <2>4. ASSUME NEW c \in Customers, customer[c].present, Owes(r, c) PROVE Owes(r, c)'
    BY <1>6, <1>8, <2>3, <2>4
  <2> QED
    BY <1>2, <1>4, <2>1, <2>2, <2>3, <2>4, QuietStep
<1>9. CASE family.customerId # Nobody
  <2>1. family.customerId \in Customers /\ customer[family.customerId].present
    BY <1>3, <1>9 DEF Families, Linkable, There
  <2>2. Goto(r, [RecomputeFor(family.customerId) EXCEPT !.todo = rest])
    BY <1>1, <1>3, <1>9 DEF LookUpFamily
  <2>3. \A c \in Customers : Reaches(family, c) => c = family.customerId
    BY <1>9 DEF Reaches
  <2> QED
    BY <1>7, <2>1, <2>2, <2>3
<1>10. CASE family.customerId = Nobody /\ family.phone # NoPhone /\ Known(family.phone) # {}
  <2>1. PICK c \in Known(family.phone) : Goto(r, [RecomputeFor(c) EXCEPT !.todo = rest])
    BY <1>1, <1>3, <1>10 DEF LookUpFamily
  <2>2. \A d \in Customers : customer[d].present /\ Reaches(family, d) => d = c
    BY <1>10, <2>1 DEF Reaches, Known, FInv, OneRecordEach
  <2> QED
    BY <1>7, <2>1, <2>2 DEF Known
<1>11. CASE family.customerId = Nobody /\ (family.phone = NoPhone \/ Known(family.phone) = {})
  <2>1. Goto(r, Recompute(rest))
    BY <1>1, <1>3, <1>11 DEF LookUpFamily
  <2>2. \A c \in Customers : ~ (customer[c].present /\ Reaches(family, c))
    BY <1>11 DEF Reaches, Known
  <2> QED
    BY <1>8, <2>1, <2>2
<1> QED
  BY <1>9, <1>10, <1>11

\* The steps that read for the figures.
LEMMA FiguringKeeps ==
    ASSUME FInv, NEW r \in Requests, NEW next \in RequestRecord, Goto(r, next),
           request[r].at \in {"identify", "visits", "spend"}, next.at \in {"visits", "spend", "save"},
           next.who = request[r].who, next.todo = request[r].todo, next.family = request[r].family,
           UNCHANGED <<bill, ticket, customer, made, overtaken>>
    PROVE  FInv'
<1>1. request' \in [Requests -> RequestRecord] /\ request'[r] = next /\ OnlyMoves(r)
      /\ NoteContested /\ contested' \subseteq Customers
  BY GoesOn
<1>2. RecordTypes' /\ TicketsLinked'
  BY <1>1 DEF FInv, RecordTypes, TicketsLinked, There
<1>3. RequestLinked(r) /\ RequestStands(r)
  BY RequestIs
<1>4. RequestLinked(r)'
  BY <1>1, <1>3 DEF RequestLinked, There
<1>5. RequestStands(r)'
  BY <1>1, <1>3 DEF RequestStands, WithBill, WithCustomer, WithTodo
<1>6. \A c : Owes(r, c) => Owes(r, c)'
  BY <1>1 DEF Owes, WithCustomer, Reaches
<1> QED
  BY <1>1, <1>2, <1>4, <1>5, <1>6, QuietStep

LEMMA RecomputingKeeps ==
    ASSUME FInv, NEW r \in Requests, Identify(r) \/ CountVisits(r) \/ SumSpent(r)
    PROVE  FInv'
<1>1. request[r] \in RequestRecord /\ RequestStands(r)
  BY RequestIs
<1>2. CASE Identify(r)
  <2> DEFINE next == [request[r] EXCEPT !.at = "visits", !.phone = customer[request[r].who].phone]
  <2>1. customer[request[r].who].phone \in Typed
    BY <1>1, <1>2 DEF Identify, RequestStands, WithCustomer, FInv, RecordTypes, CustomerRecord
  <2>2. /\ next \in RequestRecord /\ next.at = "visits" /\ next.who = request[r].who
        /\ next.todo = request[r].todo /\ next.family = request[r].family
    BY <1>1, <2>1 DEF RequestRecord, Places
  <2> QED
    BY <1>2, <2>2, FiguringKeeps DEF Identify
<1>3. CASE CountVisits(r)
  <2> DEFINE next == [request[r] EXCEPT !.at = "spend",
                                        !.visits = VisitCount(request[r].who, request[r].phone)]
  <2>1. VisitCount(request[r].who, request[r].phone) \in Figures
    BY FiguresAreFigures DEF FInv
  <2>2. /\ next \in RequestRecord /\ next.at = "spend" /\ next.who = request[r].who
        /\ next.todo = request[r].todo /\ next.family = request[r].family
    BY <1>1, <2>1 DEF RequestRecord, Places
  <2> QED
    BY <1>3, <2>2, FiguringKeeps DEF CountVisits
<1>4. CASE SumSpent(r)
  <2> DEFINE next == [request[r] EXCEPT !.at = "save",
                                        !.spent = TotalSpent(request[r].who, request[r].phone)]
  <2>1. TotalSpent(request[r].who, request[r].phone) \in Figures
    BY FiguresAreFigures DEF FInv
  <2>2. /\ next \in RequestRecord /\ next.at = "save" /\ next.who = request[r].who
        /\ next.todo = request[r].todo /\ next.family = request[r].family
    BY <1>1, <2>1 DEF RequestRecord, Places
  <2> QED
    BY <1>4, <2>2, FiguringKeeps DEF SumSpent
<1> QED
  BY <1>2, <1>3, <1>4

-----------------------------------------------------------------------------
(* The steps that write a bill.                                             *)

\* A family that shares its bills with no other has them by the family of the bill.
LEMMA BillsReachTheirFamily ==
    ASSUME NEW b \in Bills, NEW c \in Customers, There(bill[b].customerId),
           bill[b].customerId \in Linkable, b \in BillsOf(c, customer[c].phone), ~ Contested(c)
    PROVE  Reaches(FamilyOf(b), c)
<1>1. CASE bill[b].customerId \in {c, Nobody}
  BY <1>1, NothingIsNoRecord DEF Reaches, FamilyOf, BillsOf
<1>2. CASE bill[b].customerId \notin {c, Nobody}
  <2>1. PICK d \in Customers \ {c} : bill[b].customerId = d /\ customer[d].present
    BY <1>2 DEF Linkable, There
  <2>2. b \in BillsOf(d, customer[d].phone)
    BY <2>1 DEF BillsOf
  <2> QED
    BY <2>1, <2>2 DEF Contested
<1> QED
  BY <1>1, <1>2

\* What a step on one bill of one request has to leave right.
LEMMA BillStep ==
    ASSUME FInv, RecordTypes', NEW r \in Requests, NEW b \in Bills, OnlyMoves(r),
           \A x \in Bills \ {b} : bill'[x] = bill[x], UNCHANGED <<ticket, customer>>,
           NoteContested, overtaken \subseteq overtaken',
           bill[b].status \notin {"NONE", "DRAFT"} =>
             /\ bill'[b].status = "PAID" => bill[b].status = "PAID"
             /\ bill'[b].revision = bill[b].revision =>
                 /\ bill'[b].phone = bill[b].phone
                 /\ bill[b].customerId \in {Nobody, bill'[b].customerId},
           bill'[b].status \notin {"NONE", "DRAFT"},
           bill[b].status = "CANCELLED" => bill'[b].status = "CANCELLED",
           bill[b].revision <= bill'[b].revision,
           bill[b].paidAt => bill'[b].paidAt,
           bill'[b].status \in {"PAID", "REFUNDED"} => bill'[b].paidAt,
           There(bill'[b].customerId),
           RequestLinked(r)', RequestStands(r)',
           \A x \in Bills \ {b} : ~ AsksFamily(r, x),
           NeedsFamily(b)' =>
              \/ AsksFamily(r, b)'
              \/ NeedsFamily(b) /\ FamilyOf(b)' = FamilyOf(b) /\ ~ AsksFamily(r, b),
           \A c \in Customers :
              customer[c].present /\ c \notin overtaken' /\ ~ Contested(c) /\ ~ Contested(c)' =>
                /\ Owes(r, c) \/ WillContest(r, c) => Attended(c)'
                /\ CountsFor(b, c) \/ CountsFor(b, c)' => bill'[b] = bill[b] \/ Attended(c)'
                /\ bill[b].status \notin {"NONE", "DRAFT"} /\ bill[b].phone # NoPhone
                   /\ bill[b].phone = customer[c].phone /\ bill[b].customerId = Nobody =>
                      FamilyOf(b)' = FamilyOf(b) \/ Attended(c)'
    PROVE  FInv'
<1>0. \A x \in Bills : bill[x] \in BillRecord /\ bill[x].revision \in Nat
  BY DEF FInv, RecordTypes, BillRecord
<1>1. BillsMove
  <2>1. ASSUME NEW x \in Bills, x # b PROVE bill'[x] = bill[x]
    BY <2>1
  <2> QED
    BY <1>0, <2>1 DEF BillsMove
<1>2. BillsLinked' /\ TicketsLinked' /\ OneRecordEach'
  <2>1. \A x \in Bills : There(bill'[x].customerId)
    BY DEF FInv, BillsLinked
  <2> QED
    BY <2>1 DEF FInv, BillsLinked, TicketsLinked, OneRecordEach, There
<1>3. BillsStand'
  <2>1. ASSUME NEW x \in Bills
        PROVE  /\ bill'[x].status = "NONE" => FamilyOf(x)' = NoFamily
               /\ bill'[x].status \in {"NONE", "DRAFT"} => ~ bill'[x].paidAt
               /\ bill'[x].status \in {"PAID", "REFUNDED"} => bill'[x].paidAt
    BY DEF FInv, BillsStand, FamilyOf
  <2> QED
    BY <2>1 DEF BillsStand
<1>4. FamiliesCome'
  <2>1. ASSUME NEW x \in Bills, x # b, NeedsFamily(x)'
        PROVE  NeedsFamily(x) /\ FamilyOf(x)' = FamilyOf(x) /\ ~ AsksFamily(r, x)
    BY <2>1 DEF NeedsFamily, Counted, FamilyOf
  <2> QED
    BY <2>1, FamiliesStep
<1>5. FiguresCome'
  <2>1. ASSUME NEW x \in Bills, x # b PROVE bill'[x] = bill[x] /\ FamilyOf(x)' = FamilyOf(x)
    BY <2>1 DEF FamilyOf
  <2>2. ASSUME NEW c \in Customers, customer[c].present, c \notin overtaken', ~ Contested(c), ~ Contested(c)'
        PROVE  /\ r \in Requests /\ (Owes(r, c) \/ WillContest(r, c)) => Attended(c)'
               /\ \A x \in Bills : CountsFor(x, c) \/ CountsFor(x, c)' =>
                    bill'[x] = bill[x] \/ Attended(c)'
               /\ \A x \in Bills :
                    bill[x].status \notin {"NONE", "DRAFT"} /\ bill[x].phone # NoPhone
                    /\ bill[x].phone = customer[c].phone /\ bill[x].customerId = Nobody =>
                       FamilyOf(x)' = FamilyOf(x) \/ Attended(c)'
    BY <2>1, <2>2
  <2> QED
    BY <1>1, <2>2, FiguresStep
<1> QED
  BY <1>1, <1>2, <1>3, <1>4, <1>5, FInvStep

\* A step that leaves the family of its bill alone, and makes its request owe that family's
\* figures if the bill counts in them before or after.
LEMMA SameFamilyStep ==
    ASSUME FInv, RecordTypes', NEW r \in Requests, NEW b \in Bills, OnlyMoves(r),
           \A x \in Bills \ {b} : bill'[x] = bill[x], UNCHANGED <<ticket, customer, overtaken>>,
           NoteContested, FamilyOf(b)' = FamilyOf(b),
           bill[b].status \notin {"NONE", "DRAFT"} /\ bill'[b].status = "PAID" => bill[b].status = "PAID",
           bill'[b].status \notin {"NONE", "DRAFT"},
           bill[b].status = "CANCELLED" => bill'[b].status = "CANCELLED",
           bill[b].revision <= bill'[b].revision,
           bill[b].paidAt => bill'[b].paidAt,
           bill'[b].status \in {"PAID", "REFUNDED"} => bill'[b].paidAt,
           RequestLinked(r)', RequestStands(r)',
           request[r].at \in {"idle", "mark", "correct"},
           NeedsFamily(b)' => AsksFamily(r, b)' \/ NeedsFamily(b),
           \A c \in Customers : Reaches(FamilyOf(b), c) /\ (Counted(b) \/ Counted(b)') => Owes(r, c)'
    PROVE  FInv'
<1>1. /\ bill[b] \in BillRecord /\ There(bill[b].customerId) /\ bill[b].customerId \in Linkable
      /\ bill'[b].phone = bill[b].phone /\ bill'[b].customerId = bill[b].customerId
  BY BillIs DEF BillRecord, FamilyOf
<1>2. request[r].todo = <<>>
  BY RequestIs DEF RequestStands, WithTodo, Idle
<1>3. ASSUME NEW c PROVE ~ Owes(r, c) /\ ~ WillContest(r, c)
  BY <1>2 DEF Owes, WillContest, WithCustomer
<1>4. ASSUME NEW x PROVE ~ AsksFamily(r, x)
  BY DEF AsksFamily
<1>5. ASSUME NEW c \in Customers, customer[c].present, c \notin overtaken', ~ Contested(c), ~ Contested(c)'
      PROVE  /\ Owes(r, c) \/ WillContest(r, c) => Attended(c)'
             /\ CountsFor(b, c) \/ CountsFor(b, c)' => Attended(c)'
             /\ bill[b].status \notin {"NONE", "DRAFT"} /\ bill[b].phone # NoPhone
                /\ bill[b].phone = customer[c].phone /\ bill[b].customerId = Nobody =>
                   FamilyOf(b)' = FamilyOf(b) \/ Attended(c)'
  <2>1. ASSUME CountsFor(b, c) \/ CountsFor(b, c)' PROVE Attended(c)'
    <3>1. b \in BillsOf(c, customer[c].phone) /\ (Counted(b) \/ Counted(b)')
      BY <1>1, <2>1 DEF CountsFor, BillsOf
    <3>2. Reaches(FamilyOf(b), c)
      BY <1>1, <1>5, <3>1, BillsReachTheirFamily
    <3> QED
      BY <3>1, <3>2 DEF Attended
  <2> QED
    BY <1>3, <2>1
<1>6. There(bill'[b].customerId) /\ overtaken \subseteq overtaken'
  BY <1>1
<1> QED
  BY <1>1, <1>3, <1>4, <1>5, <1>6, BillStep

LEMMA PayKeeps ==
    ASSUME FInv, NEW r \in Requests, NEW b \in Bills, Pay(r, b)
    PROVE  FInv'
<1> DEFINE next == IF FamilyOf(b) = NoFamily THEN Idle
                   ELSE [Idle EXCEPT !.at = "ensure", !.bill = b, !.family = FamilyOf(b)]
<1>1. /\ next \in RequestRecord /\ next.who = Nobody /\ next.todo = <<>>
      /\ next.family = FamilyOf(b)
      /\ IF FamilyOf(b) = NoFamily THEN next = Idle ELSE next.at = "ensure" /\ next.bill = b
  BY IdleIsARecord, BillIs DEF RequestRecord, Idle, Places
<1>2. Begin(r, next) /\ UNCHANGED <<ticket, customer, overtaken>> /\ bill[b].status = "DRAFT"
  BY DEF Pay
<1> HIDE DEF next
<1>3. /\ request' \in [Requests -> RequestRecord] /\ request'[r] = next /\ OnlyMoves(r)
      /\ NoteContested /\ contested' \subseteq Customers /\ made' \in Nat /\ request[r].at = "idle"
  BY <1>1, <1>2, Begins DEF Idle
<1>4. bill[b] \in BillRecord
  BY BillIs
<1>5. /\ bill' \in [Bills -> BillRecord] /\ \A x \in Bills \ {b} : bill'[x] = bill[x]
      /\ bill'[b] = [bill[b] EXCEPT !.status = "PAID", !.paidAt = TRUE]
  BY <1>4 DEF Pay, FInv, RecordTypes, BillRecord
<1>6. RecordTypes'
  BY <1>2, <1>3, <1>5 DEF FInv, RecordTypes
<1>7. /\ bill'[b].status = "PAID" /\ bill'[b].paidAt /\ FamilyOf(b)' = FamilyOf(b)
      /\ bill[b].revision <= bill'[b].revision
  BY <1>4, <1>5 DEF FamilyOf, BillRecord
<1>8. RequestLinked(r)'
  BY <1>1, <1>2, <1>3, BillIs DEF RequestLinked, There
<1>9. RequestStands(r)'
  BY <1>1, <1>3, <1>7 DEF RequestStands, WithBill, WithCustomer, WithTodo, Idle
<1>10. NeedsFamily(b)' => AsksFamily(r, b)'
  BY <1>1, <1>3, <1>7 DEF NeedsFamily, AsksFamily, FamilyOf, NoFamily
<1>11. ASSUME NEW c \in Customers, Reaches(FamilyOf(b), c) PROVE Owes(r, c)'
  <2>1. FamilyOf(b) # NoFamily
    BY <1>11 DEF Reaches, NoFamily
  <2> QED
    BY <1>1, <1>2, <1>3, <1>11, <2>1 DEF Owes, Reaches
<1> QED
  BY <1>2, <1>3, <1>5, <1>6, <1>7, <1>8, <1>9, <1>10, <1>11, SameFamilyStep

LEMMA CancelBillKeeps ==
    ASSUME FInv, NEW r \in Requests, NEW b \in Bills, CancelBill(r, b)
    PROVE  FInv'
<1> DEFINE next == [Idle EXCEPT !.at = "reopen", !.bill = b, !.family = FamilyOf(b)]
<1>1. /\ next \in RequestRecord /\ next.who = Nobody /\ next.todo = <<>>
      /\ next.family = FamilyOf(b) /\ next.at = "reopen" /\ next.bill = b
  BY IdleIsARecord, BillIs DEF RequestRecord, Idle, Places
<1>2. Begin(r, next) /\ UNCHANGED <<ticket, customer, overtaken>> /\ bill[b].status \in {"DRAFT", "PAID"}
  BY DEF CancelBill
<1> HIDE DEF next
<1>3. /\ request' \in [Requests -> RequestRecord] /\ request'[r] = next /\ OnlyMoves(r)
      /\ NoteContested /\ contested' \subseteq Customers /\ made' \in Nat /\ request[r].at = "idle"
  BY <1>1, <1>2, Begins DEF Idle
<1>4. bill[b] \in BillRecord
  BY BillIs
<1>5. /\ bill' \in [Bills -> BillRecord] /\ \A x \in Bills \ {b} : bill'[x] = bill[x]
      /\ bill'[b] = [bill[b] EXCEPT !.status = "CANCELLED"]
  BY <1>4 DEF CancelBill, FInv, RecordTypes, BillRecord
<1>6. RecordTypes'
  BY <1>2, <1>3, <1>5 DEF FInv, RecordTypes
<1>7. /\ bill'[b].status = "CANCELLED" /\ bill'[b].paidAt = bill[b].paidAt
      /\ FamilyOf(b)' = FamilyOf(b) /\ bill[b].revision <= bill'[b].revision
  BY <1>4, <1>5 DEF FamilyOf, BillRecord
<1>8. RequestLinked(r)'
  BY <1>1, <1>2, <1>3, BillIs DEF RequestLinked, There
<1>9. RequestStands(r)'
  BY <1>1, <1>3, <1>7 DEF RequestStands, WithBill, WithCustomer, WithTodo
<1>10. ~ NeedsFamily(b)'
  BY <1>7 DEF NeedsFamily, Counted
<1>11. ASSUME NEW c \in Customers, Reaches(FamilyOf(b), c), Counted(b) \/ Counted(b)'
       PROVE  Owes(r, c)'
  <2>1. bill'[b].paidAt
    BY <1>7, <1>11 DEF Counted, FInv, BillsStand
  <2> QED
    BY <1>1, <1>2, <1>3, <1>11, <2>1 DEF Owes, Reaches
<1> QED
  BY <1>2, <1>3, <1>5, <1>6, <1>7, <1>8, <1>9, <1>10, <1>11, SameFamilyStep

LEMMA SetTestFlagIfSettledKeeps ==
    ASSUME FInv, NEW r \in Requests, SetTestFlagIfSettled(r)
    PROVE  FInv'
<1>1. PICK b \in Bills : b = request[r].bill /\ bill[b].status \notin {"NONE", "DRAFT"}
  BY RequestIs DEF SetTestFlagIfSettled, RequestStands, WithBill
<1>2. /\ request[r] \in RequestRecord /\ request[r].at = "mark" /\ There(request[r].who)
      /\ request[r].todo = <<>>
  BY RequestIs DEF SetTestFlagIfSettled, RequestStands, RequestLinked, WithTodo
<1>3. /\ bill[b] \in BillRecord /\ FamilyOf(b) \in Families /\ There(FamilyOf(b).customerId)
  BY BillIs
<1> DEFINE next == [request[r] EXCEPT !.at = "flagTickets", !.family = FamilyOf(b)]
<1>4. /\ next \in RequestRecord /\ next.who = request[r].who /\ next.todo = <<>>
      /\ next.family = FamilyOf(b) /\ next.at = "flagTickets" /\ next.bill = b
  BY <1>1, <1>2, <1>3 DEF RequestRecord, Places
<1>5. Goto(r, next) /\ UNCHANGED <<ticket, customer, made, overtaken>>
  BY <1>1 DEF SetTestFlagIfSettled
<1> HIDE DEF next
<1>6. /\ request' \in [Requests -> RequestRecord] /\ request'[r] = next /\ OnlyMoves(r)
      /\ NoteContested /\ contested' \subseteq Customers
  BY <1>4, <1>5, GoesOn
<1>7. /\ bill' \in [Bills -> BillRecord] /\ \A x \in Bills \ {b} : bill'[x] = bill[x]
      /\ bill'[b] = [bill[b] EXCEPT !.isTest = request[r].flag]
  BY <1>1, <1>2, <1>3 DEF SetTestFlagIfSettled, FInv, RecordTypes, BillRecord, RequestRecord
<1>8. RecordTypes'
  BY <1>5, <1>6, <1>7 DEF FInv, RecordTypes
<1>9. /\ bill'[b].status = bill[b].status /\ bill'[b].paidAt = bill[b].paidAt
      /\ FamilyOf(b)' = FamilyOf(b) /\ bill[b].revision <= bill'[b].revision
      /\ bill[b].status \in {"PAID", "REFUNDED"} => bill[b].paidAt
  BY <1>3, <1>7 DEF FamilyOf, BillRecord, FInv, BillsStand
<1>10. RequestLinked(r)'
  BY <1>2, <1>3, <1>4, <1>5, <1>6 DEF RequestLinked, There
<1>11. RequestStands(r)'
  BY <1>1, <1>4, <1>6, <1>9 DEF RequestStands, WithBill, WithCustomer, WithTodo
<1>12. NeedsFamily(b)' => NeedsFamily(b)
  BY <1>9 DEF NeedsFamily, Counted, FamilyOf
<1>13. ASSUME NEW c \in Customers, Reaches(FamilyOf(b), c), Counted(b) \/ Counted(b)'
       PROVE  Owes(r, c)'
  <2>1. bill'[b].paidAt
    BY <1>9, <1>13 DEF Counted
  <2> QED
    BY <1>4, <1>5, <1>6, <1>13, <2>1 DEF Owes, Reaches
<1> QED
  BY <1>1, <1>2, <1>5, <1>6, <1>7, <1>8, <1>9, <1>10, <1>11, <1>12, <1>13, SameFamilyStep

\* The family of one bill, recomputed.
LEMMA RecomputeTheFamily ==
    ASSUME FInv, NEW r \in Requests, NEW b \in Bills,
           request'[r] = Recompute(<<FamilyOf(b)>>), UNCHANGED customer
    PROVE  /\ RequestLinked(r)' /\ RequestStands(r)'
           /\ \A c \in Customers : Reaches(FamilyOf(b), c) => Owes(r, c)'
<1>1. PICK family \in Families : family = FamilyOf(b) /\ There(family.customerId)
  BY BillIs
<1>2. PICK families \in Seq(Families) :
        families = <<family>> /\ 1 \in DOMAIN families /\ \A i \in DOMAIN families : families[i] = family
  <2>1. /\ <<family>> \in Seq(Families) /\ 1 \in DOMAIN <<family>>
        /\ \A i \in DOMAIN <<family>> : <<family>>[i] = family
    OBVIOUS
  <2> QED
    BY <2>1
<1>3. \A i \in DOMAIN families : There(families[i].customerId)'
  BY <1>1, <1>2 DEF There
<1>4. /\ RequestLinked(r)' /\ RequestStands(r)'
      /\ \A c : (\E i \in DOMAIN families : Reaches(families[i], c)') => Owes(r, c)'
  BY <1>1, <1>2, <1>3, RecomputeStands
<1>5. ASSUME NEW c \in Customers, Reaches(FamilyOf(b), c) PROVE Owes(r, c)'
  <2>1. Reaches(families[1], c)'
    BY <1>1, <1>2, <1>5 DEF Reaches
  <2> QED
    BY <1>2, <1>4, <2>1
<1> QED
  BY <1>4, <1>5

LEMMA RecomputeTheFamilyRecord ==
    ASSUME FInv, NEW b \in Bills
    PROVE  Recompute(<<FamilyOf(b)>>) \in RequestRecord
<1>1. <<FamilyOf(b)>> \in Seq(Families)
  BY BillIs
<1> QED
  BY <1>1, RecomputeIsARecord

LEMMA RefundBillKeeps ==
    ASSUME FInv, NEW r \in Requests, NEW b \in Bills, RefundBill(r, b)
    PROVE  FInv'
<1>1. /\ Begin(r, Recompute(<<FamilyOf(b)>>)) /\ UNCHANGED <<ticket, customer, overtaken>>
      /\ bill[b].status = "PAID"
  BY DEF RefundBill
<1>2. /\ request' \in [Requests -> RequestRecord] /\ request'[r] = Recompute(<<FamilyOf(b)>>)
      /\ OnlyMoves(r) /\ NoteContested /\ contested' \subseteq Customers /\ made' \in Nat
      /\ request[r].at = "idle"
  BY <1>1, RecomputeTheFamilyRecord, Begins DEF Idle
<1>3. bill[b] \in BillRecord /\ bill[b].paidAt
  BY <1>1, BillIs DEF FInv, BillsStand
<1>4. /\ bill' \in [Bills -> BillRecord] /\ \A x \in Bills \ {b} : bill'[x] = bill[x]
      /\ bill'[b] = [bill[b] EXCEPT !.status = "REFUNDED"]
  BY <1>3 DEF RefundBill, FInv, RecordTypes, BillRecord
<1>5. RecordTypes'
  BY <1>1, <1>2, <1>4 DEF FInv, RecordTypes
<1>6. /\ bill'[b].status = "REFUNDED" /\ bill'[b].paidAt /\ FamilyOf(b)' = FamilyOf(b)
      /\ bill[b].revision <= bill'[b].revision
  BY <1>3, <1>4 DEF FamilyOf, BillRecord
<1>7. /\ RequestLinked(r)' /\ RequestStands(r)'
      /\ \A c \in Customers : Reaches(FamilyOf(b), c) => Owes(r, c)'
  BY <1>1, <1>2, RecomputeTheFamily
<1>8. NeedsFamily(b)' => NeedsFamily(b)
  BY <1>1, <1>6 DEF NeedsFamily, Counted, FamilyOf
<1> QED
  BY <1>1, <1>2, <1>4, <1>5, <1>6, <1>7, <1>8, SameFamilyStep

LEMMA CorrectAmountKeeps ==
    ASSUME FInv, NEW r \in Requests, CorrectAmount(r)
    PROVE  FInv'
<1>1. PICK b \in Bills : b = request[r].bill /\ bill[b].status = "PAID"
  BY RequestIs DEF CorrectAmount, Unrevised, RequestStands, WithBill
<1>2. /\ Goto(r, Recompute(<<FamilyOf(b)>>)) /\ UNCHANGED <<ticket, customer, made, overtaken>>
      /\ request[r].at = "correct"
  BY <1>1 DEF CorrectAmount
<1>3. /\ request' \in [Requests -> RequestRecord] /\ request'[r] = Recompute(<<FamilyOf(b)>>)
      /\ OnlyMoves(r) /\ NoteContested /\ contested' \subseteq Customers
  BY <1>2, RecomputeTheFamilyRecord, GoesOn
<1>4. bill[b] \in BillRecord /\ bill[b].paidAt
  BY <1>1, BillIs DEF FInv, BillsStand
<1>5. 1 - bill[b].grandTotal \in Amounts /\ bill[b].revision + 1 \in Nat
      /\ bill[b].revision <= bill[b].revision + 1
  BY <1>4 DEF BillRecord, Amounts
<1>6. /\ bill' \in [Bills -> BillRecord] /\ \A x \in Bills \ {b} : bill'[x] = bill[x]
      /\ bill'[b] = [bill[b] EXCEPT !.grandTotal = 1 - @, !.revision = @ + 1]
  BY <1>1, <1>4, <1>5 DEF CorrectAmount, FInv, RecordTypes, BillRecord
<1>7. RecordTypes'
  BY <1>2, <1>3, <1>6 DEF FInv, RecordTypes
<1>8. /\ bill'[b].status = "PAID" /\ bill'[b].paidAt /\ FamilyOf(b)' = FamilyOf(b)
      /\ bill[b].revision <= bill'[b].revision
  BY <1>1, <1>4, <1>5, <1>6 DEF FamilyOf, BillRecord
<1>9. /\ RequestLinked(r)' /\ RequestStands(r)'
      /\ \A c \in Customers : Reaches(FamilyOf(b), c) => Owes(r, c)'
  BY <1>2, <1>3, RecomputeTheFamily
<1>10. NeedsFamily(b)' => NeedsFamily(b)
  BY <1>1, <1>8 DEF NeedsFamily, Counted, FamilyOf
<1> QED
  BY <1>1, <1>2, <1>3, <1>4, <1>6, <1>7, <1>8, <1>9, <1>10, SameFamilyStep

LEMMA LinkKeeps ==
    ASSUME FInv, NEW r \in Requests, Link(r)
    PROVE  FInv'
<1>1. PICK b \in Bills : b = request[r].bill /\ bill[b].status \notin {"NONE", "DRAFT"}
  BY RequestIs DEF Link, RequestStands, WithBill
<1>2. PICK who \in Customers : who = request[r].who /\ customer[who].present
  BY RequestIs, NothingIsNoRecord DEF Link, RequestStands, RequestLinked, WithCustomer, There
<1>3. /\ request[r] \in RequestRecord /\ request[r].at = "link" /\ request[r].todo = <<>>
      /\ There(request[r].family.customerId)
  BY RequestIs DEF Link, RequestStands, RequestLinked, WithTodo
<1>4. bill[b] \in BillRecord /\ There(bill[b].customerId)
  BY BillIs
<1> DEFINE next == [request[r] EXCEPT !.at = "linkTickets"]
<1>5. /\ next \in RequestRecord /\ next.who = who /\ next.todo = <<>>
      /\ next.family = request[r].family /\ next.at = "linkTickets" /\ next.bill = b
  BY <1>1, <1>2, <1>3 DEF RequestRecord, Places
<1>6. Goto(r, next) /\ UNCHANGED <<ticket, customer, made, overtaken>>
  BY DEF Link, Continue
<1> HIDE DEF next
<1>7. /\ request' \in [Requests -> RequestRecord] /\ request'[r] = next /\ OnlyMoves(r)
      /\ NoteContested /\ contested' \subseteq Customers
  BY <1>5, <1>6, GoesOn
<1> DEFINE links == request[r].family.customerId = Nobody /\ bill[b].customerId = Nobody
           linked == IF links THEN who ELSE bill[b].customerId
<1>8. linked \in Linkable /\ There(linked)
  BY <1>2, <1>4 DEF BillRecord, Linkable, There
<1>9. /\ bill' \in [Bills -> BillRecord] /\ \A x \in Bills \ {b} : bill'[x] = bill[x]
      /\ bill'[b] = [bill[b] EXCEPT !.customerId = linked]
  BY <1>1, <1>2, <1>4, <1>8 DEF Link, FInv, RecordTypes, BillRecord
<1>10. RecordTypes'
  BY <1>6, <1>7, <1>9 DEF FInv, RecordTypes
<1>11. /\ bill'[b].status = bill[b].status /\ bill'[b].paidAt = bill[b].paidAt
       /\ bill'[b].phone = bill[b].phone /\ bill'[b].customerId = linked
       /\ bill[b].revision <= bill'[b].revision
       /\ bill[b].status \in {"PAID", "REFUNDED"} => bill[b].paidAt
       /\ bill[b].customerId \in {Nobody, linked}
  BY <1>4, <1>9 DEF FamilyOf, BillRecord, FInv, BillsStand
<1>12. RequestLinked(r)'
  BY <1>2, <1>3, <1>5, <1>6, <1>7 DEF RequestLinked, There
<1>13. RequestStands(r)'
  BY <1>1, <1>2, <1>5, <1>7, <1>11 DEF RequestStands, WithBill, WithCustomer, WithTodo
<1>14. NeedsFamily(b)' => NeedsFamily(b) /\ FamilyOf(b)' = FamilyOf(b) /\ ~ AsksFamily(r, b)
  BY <1>2, <1>11, NothingIsNoRecord DEF NeedsFamily, Counted, FamilyOf, AsksFamily
<1>15. Owes(r, who)'
  BY <1>5, <1>7 DEF Owes, WithCustomer
<1>16. ASSUME NEW c \in Customers, links, c # who, bill[b].phone = customer[c].phone, bill[b].phone # NoPhone
       PROVE  Contested(c)'
  <2>1. b \in BillsOf(c, customer[c].phone)' /\ b \in BillsOf(who, customer[who].phone)'
    BY <1>6, <1>11, <1>16 DEF BillsOf
  <2>2. customer'[who].present
    BY <1>2, <1>6
  <2> QED
    BY <1>16, <2>1, <2>2 DEF Contested
<1>17. ASSUME NEW c \in Customers, customer[c].present, c \notin overtaken', ~ Contested(c), ~ Contested(c)'
       PROVE  /\ Owes(r, c) \/ WillContest(r, c) => Attended(c)'
              /\ CountsFor(b, c) \/ CountsFor(b, c)' => bill'[b] = bill[b] \/ Attended(c)'
              /\ bill[b].status \notin {"NONE", "DRAFT"} /\ bill[b].phone # NoPhone
                 /\ bill[b].phone = customer[c].phone /\ bill[b].customerId = Nobody =>
                    FamilyOf(b)' = FamilyOf(b) \/ Attended(c)'
  <2>1. CASE c = who
    BY <1>15, <2>1 DEF Attended
  <2>2. CASE c # who
    <3>1. ~ Owes(r, c) /\ ~ WillContest(r, c)
      BY <1>1, <1>2, <1>3, <1>16, <1>17, <2>2 DEF Owes, WillContest
    <3>2. CASE ~ links
      <4>1. bill'[b] = bill[b] /\ FamilyOf(b)' = FamilyOf(b)
        BY <1>4, <1>9, <1>11, <3>2 DEF FamilyOf, BillRecord
      <4> QED
        BY <3>1, <4>1
    <3>3. CASE links
      <4>1. ~ (bill[b].phone # NoPhone /\ bill[b].phone = customer[c].phone)
        BY <1>16, <1>17, <2>2, <3>3
      <4>2. ~ CountsFor(b, c) /\ ~ CountsFor(b, c)'
        BY <1>6, <1>11, <2>2, <3>3, <4>1, NothingIsNoRecord DEF CountsFor, BillsOf
      <4> QED
        BY <3>1, <4>1, <4>2
    <3> QED
      BY <3>2, <3>3
  <2> QED
    BY <2>1, <2>2
<1>18. \A x \in Bills \ {b} : ~ AsksFamily(r, x)
  BY <1>1 DEF AsksFamily
<1> HIDE DEF links, linked
<1>19. /\ There(bill'[b].customerId) /\ overtaken \subseteq overtaken' /\ UNCHANGED <<ticket, customer>>
       /\ bill[b].status \notin {"NONE", "DRAFT"} =>
             /\ bill'[b].status = "PAID" => bill[b].status = "PAID"
             /\ bill'[b].revision = bill[b].revision =>
                 /\ bill'[b].phone = bill[b].phone
                 /\ bill[b].customerId \in {Nobody, bill'[b].customerId}
       /\ bill'[b].status \notin {"NONE", "DRAFT"}
       /\ bill[b].status = "CANCELLED" => bill'[b].status = "CANCELLED"
       /\ bill[b].revision <= bill'[b].revision
       /\ bill[b].paidAt => bill'[b].paidAt
       /\ bill'[b].status \in {"PAID", "REFUNDED"} => bill'[b].paidAt
  BY <1>1, <1>6, <1>8, <1>11
<1> QED
  BY <1>7, <1>9, <1>10, <1>12, <1>13, <1>14, <1>17, <1>18, <1>19, BillStep

LEMMA BillsReachTheirFamilyAfter ==
    (\A b \in Bills, c \in Customers :
        There(bill[b].customerId) /\ bill[b].customerId \in Linkable
        /\ b \in BillsOf(c, customer[c].phone) /\ ~ Contested(c) => Reaches(FamilyOf(b), c))'
<1>1. \A b \in Bills, c \in Customers :
        There(bill[b].customerId) /\ bill[b].customerId \in Linkable
        /\ b \in BillsOf(c, customer[c].phone) /\ ~ Contested(c) => Reaches(FamilyOf(b), c)
  <2> SUFFICES ASSUME NEW b \in Bills, NEW c \in Customers, There(bill[b].customerId),
                      bill[b].customerId \in Linkable, b \in BillsOf(c, customer[c].phone),
                      ~ Contested(c)
               PROVE  Reaches(FamilyOf(b), c)
    OBVIOUS
  <2> QED
    BY BillsReachTheirFamily
<1> QED
  BY <1>1, PTL

LEMMA MoveToFamilyKeeps ==
    ASSUME FInv, NEW r \in Requests, MoveToFamily(r)
    PROVE  FInv'
<1>1. PICK b \in Bills : b = request[r].bill
  BY RequestIs DEF MoveToFamily, RequestStands, WithBill
<1>2. PICK family \in Families : family = request[r].family /\ There(family.customerId)
  BY RequestIs DEF RequestLinked
<1>3. PICK who \in Linkable, phone \in Typed : /\ who = request[r].who /\ phone = request[r].phone
                                               /\ There(who) /\ (phone = NoPhone <=> who = Nobody)
  BY RequestIs DEF MoveToFamily, RequestLinked, RequestStands
<1>4. /\ request[r] \in RequestRecord /\ request[r].at = "move" /\ request[r].todo = <<>>
      /\ bill[b].status = "PAID"
      /\ family.phone = bill[b].phone /\ family.customerId \in {Nobody, bill[b].customerId}
  BY <1>1, <1>2, RequestIs DEF MoveToFamily, Unrevised, RequestStands, WithTodo
<1>5. bill[b] \in BillRecord /\ There(bill[b].customerId) /\ bill[b].customerId \in Linkable
  BY BillIs DEF BillRecord
<1>6. PICK joined \in Linkable :
        joined = (IF who = family.customerId THEN bill[b].customerId ELSE who) /\ There(joined)
  BY <1>3, <1>5
<1>7. PICK new \in Families : new = [phone |-> phone, customerId |-> joined]
  BY <1>3, <1>6 DEF Families
<1>8. bill[b].revision + 1 \in Nat /\ bill[b].revision <= bill[b].revision + 1
      /\ bill[b].revision + 1 # bill[b].revision
  BY <1>5 DEF BillRecord
<1>9. /\ bill' \in [Bills -> BillRecord] /\ \A x \in Bills \ {b} : bill'[x] = bill[x]
      /\ bill'[b] = [bill[b] EXCEPT !.phone = phone, !.revision = @ + 1, !.customerId = joined]
  <2>1. bill' = [bill EXCEPT ![b] =
                   [bill[b] EXCEPT !.phone = phone, !.revision = @ + 1, !.customerId = joined]]
    BY <1>1, <1>2, <1>3, <1>6 DEF MoveToFamily
  <2>2. [bill[b] EXCEPT !.phone = phone, !.revision = @ + 1, !.customerId = joined] \in BillRecord
    BY <1>5, <1>8 DEF BillRecord
  <2> QED
    BY <2>1, <2>2 DEF FInv, RecordTypes
<1>10. /\ bill'[b].status = "PAID" /\ bill'[b].paidAt /\ FamilyOf(b)' = new
       /\ bill'[b].phone = phone /\ bill'[b].customerId = joined
       /\ bill'[b].revision = bill[b].revision + 1
  BY <1>4, <1>5, <1>7, <1>9 DEF FamilyOf, BillRecord, FInv, BillsStand
<1>11. PICK todo \in Seq(Families) :
         /\ todo = <<family, new>> /\ 1 \in DOMAIN todo /\ 2 \in DOMAIN todo /\ Len(todo) = 2
         /\ todo[1] = family /\ todo[2] = new
         /\ \A i \in DOMAIN todo : todo[i] \in {family, new}
  <2>1. /\ <<family, new>> \in Seq(Families) /\ 1 \in DOMAIN <<family, new>>
        /\ 2 \in DOMAIN <<family, new>> /\ Len(<<family, new>>) = 2
        /\ <<family, new>>[1] = family /\ <<family, new>>[2] = new
        /\ \A i \in DOMAIN <<family, new>> : <<family, new>>[i] \in {family, new}
    OBVIOUS
  <2> QED
    BY <2>1
<1> DEFINE next == [request[r] EXCEPT !.at = "reassign", !.todo = todo]
<1>12. /\ next \in RequestRecord /\ next.who = who /\ next.todo = todo
       /\ next.family = family /\ next.at = "reassign" /\ next.bill = b
  BY <1>1, <1>2, <1>3, <1>4 DEF RequestRecord, Places
<1>13. Goto(r, next)
  BY <1>1, <1>2, <1>3, <1>7, <1>10, <1>11 DEF MoveToFamily
<1>14. /\ UNCHANGED <<ticket, customer, made>>
       /\ overtaken' = overtaken \cup ({bill[b].customerId} \ {family.customerId, Nobody})
  BY <1>1, <1>2 DEF MoveToFamily
<1> HIDE DEF next
<1>15. /\ request' \in [Requests -> RequestRecord] /\ request'[r] = next /\ OnlyMoves(r)
       /\ NoteContested /\ contested' \subseteq Customers
  BY <1>12, <1>13, GoesOn
<1>16. RecordTypes'
  <2>1. overtaken' \subseteq Customers
    BY <1>5, <1>14 DEF Linkable, FInv, RecordTypes
  <2> QED
    BY <1>9, <1>14, <1>15, <2>1 DEF FInv, RecordTypes
<1>17. RequestLinked(r)'
  BY <1>2, <1>3, <1>6, <1>7, <1>11, <1>12, <1>14, <1>15 DEF RequestLinked, There
<1>18. RequestStands(r)'
  BY <1>10, <1>11, <1>12, <1>15 DEF RequestStands, WithBill, WithCustomer, WithTodo
<1>19. ~ NeedsFamily(b)'
  <2>1. phone # NoPhone => joined # Nobody
    BY <1>3, <1>4, <1>6
  <2> QED
    BY <1>10, <2>1 DEF NeedsFamily
<1>20. ASSUME NEW c \in Customers, Reaches(family, c) \/ Reaches(new, c) PROVE Owes(r, c)'
  <2>1. Reaches(todo[1], c)' \/ Reaches(todo[2], c)'
    BY <1>11, <1>14, <1>20 DEF Reaches
  <2> QED
    BY <1>11, <1>12, <1>15, <2>1 DEF Owes
<1>21. ASSUME NEW c \in Customers, customer[c].present, c \notin overtaken', ~ Contested(c), ~ Contested(c)'
       PROVE  /\ Owes(r, c) \/ WillContest(r, c) => Attended(c)'
              /\ CountsFor(b, c) \/ CountsFor(b, c)' => bill'[b] = bill[b] \/ Attended(c)'
              /\ bill[b].status \notin {"NONE", "DRAFT"} /\ bill[b].phone # NoPhone
                 /\ bill[b].phone = customer[c].phone /\ bill[b].customerId = Nobody =>
                    FamilyOf(b)' = FamilyOf(b) \/ Attended(c)'
  <2>1. ~ Owes(r, c) /\ ~ WillContest(r, c)
    BY <1>4 DEF Owes, WillContest, WithCustomer
  <2>2. ASSUME b \in BillsOf(c, customer[c].phone) PROVE Attended(c)'
    <3>1. Reaches(FamilyOf(b), c)
      BY <1>5, <1>21, <2>2, BillsReachTheirFamily
    <3>2. Reaches(family, c)
      BY <1>4, <1>14, <1>21, <3>1 DEF Reaches, FamilyOf
    <3> QED
      BY <1>20, <3>2 DEF Attended
  <2>3. ASSUME CountsFor(b, c)' PROVE Attended(c)'
    <3>1. /\ There(bill[b].customerId)' /\ (bill[b].customerId \in Linkable)'
          /\ (b \in BillsOf(c, customer[c].phone))'
      BY <1>6, <1>10, <1>14, <2>3 DEF There, CountsFor
    <3>2. Reaches(FamilyOf(b), c)'
      BY <1>21, <3>1, BillsReachTheirFamilyAfter
    <3>3. Reaches(new, c)
      BY <1>10, <1>14, <3>2 DEF Reaches
    <3> QED
      BY <1>20, <3>3 DEF Attended
  <2>4. bill[b].phone # NoPhone /\ bill[b].phone = customer[c].phone => b \in BillsOf(c, customer[c].phone)
    BY DEF BillsOf
  <2>5. CountsFor(b, c) => b \in BillsOf(c, customer[c].phone)
    BY DEF CountsFor
  <2> QED
    BY <2>1, <2>2, <2>3, <2>4, <2>5
<1>22. \A x : ~ AsksFamily(r, x)
  BY <1>4 DEF AsksFamily
<1>23. /\ There(bill'[b].customerId) /\ overtaken \subseteq overtaken' /\ UNCHANGED <<ticket, customer>>
       /\ bill[b].status \notin {"NONE", "DRAFT"} =>
             /\ bill'[b].status = "PAID" => bill[b].status = "PAID"
             /\ bill'[b].revision = bill[b].revision =>
                 /\ bill'[b].phone = bill[b].phone
                 /\ bill[b].customerId \in {Nobody, bill'[b].customerId}
       /\ bill'[b].status \notin {"NONE", "DRAFT"}
       /\ bill[b].status = "CANCELLED" => bill'[b].status = "CANCELLED"
       /\ bill[b].revision <= bill'[b].revision
       /\ bill[b].paidAt => bill'[b].paidAt
       /\ bill'[b].status \in {"PAID", "REFUNDED"} => bill'[b].paidAt
  BY <1>4, <1>6, <1>8, <1>10, <1>14
<1> QED
  BY <1>9, <1>15, <1>16, <1>17, <1>18, <1>19, <1>21, <1>22, <1>23, BillStep

LEMMA CheckOutKeeps ==
    ASSUME FInv, NEW b \in Bills, NEW t \in Tickets, NEW family \in TypedAtTheTill,
           CheckOut(b, t, family)
    PROVE  FInv'
<1>1. /\ bill[b].status = "NONE" /\ NoteContested
      /\ UNCHANGED <<customer, request, made, overtaken>>
  BY DEF CheckOut
<1>2. family \in Families /\ There(family.customerId)
  BY DEF TypedAtTheTill, Families, Typed, Linkable, There, FInv, RecordTypes, CustomerRecord
<1>3. ticket[t] \in TicketRecord /\ There(ticket[t].customerId)
  BY DEF FInv, RecordTypes, TicketsLinked
<1>4. PICK linked \in Linkable :
        /\ linked = (IF family.customerId # Nobody THEN family.customerId ELSE ticket[t].customerId)
        /\ There(linked)
  BY <1>2, <1>3 DEF Families, TicketRecord
<1>5. bill[b] \in BillRecord /\ ~ bill[b].paidAt
  BY <1>1, BillIs DEF FInv, BillsStand
<1>6. /\ bill' \in [Bills -> BillRecord] /\ \A x \in Bills \ {b} : bill'[x] = bill[x]
      /\ bill'[b] = [bill[b] EXCEPT !.status = "DRAFT", !.phone = family.phone, !.customerId = linked]
  <2>1. bill' = [bill EXCEPT ![b] =
                   [bill[b] EXCEPT !.status = "DRAFT", !.phone = family.phone, !.customerId = linked]]
    BY <1>4 DEF CheckOut
  <2>2. [bill[b] EXCEPT !.status = "DRAFT", !.phone = family.phone, !.customerId = linked] \in BillRecord
    BY <1>2, <1>5 DEF BillRecord, Families
  <2> QED
    BY <2>1, <2>2 DEF FInv, RecordTypes
<1>7. /\ bill'[b].status = "DRAFT" /\ ~ bill'[b].paidAt /\ bill'[b].customerId = linked
      /\ bill'[b].revision = bill[b].revision /\ bill[b].revision \in Nat
  BY <1>5, <1>6 DEF BillRecord
<1>8. ticket' \in [Tickets -> TicketRecord]
      /\ \A x \in Tickets : ticket'[x].customerId = ticket[x].customerId
  BY <1>3 DEF CheckOut, FInv, RecordTypes, TicketRecord
<1>9. RecordTypes'
  <2>1. contested' \subseteq Customers
    BY <1>1 DEF NoteContested, FInv, RecordTypes
  <2> QED
    BY <1>1, <1>6, <1>8, <2>1 DEF FInv, RecordTypes
<1>10. ASSUME NEW x \in Bills, x # b PROVE bill'[x] = bill[x] /\ FamilyOf(x)' = FamilyOf(x)
  BY <1>6, <1>10 DEF FamilyOf
<1>11. BillsMove
  <2>1. \A x \in Bills : bill[x].revision \in Nat
    BY DEF FInv, RecordTypes, BillRecord
  <2> QED
    BY <1>1, <1>5, <1>7, <1>10, <2>1 DEF BillsMove
<1>12. BillsLinked' /\ TicketsLinked' /\ OneRecordEach'
  <2>1. \A x \in Bills : There(bill'[x].customerId)
    BY <1>4, <1>7, <1>10 DEF FInv, BillsLinked
  <2> QED
    BY <1>1, <1>8, <2>1 DEF FInv, BillsLinked, TicketsLinked, OneRecordEach, There
<1>13. BillsStand'
  <2>1. ASSUME NEW x \in Bills
        PROVE  /\ bill'[x].status = "NONE" => FamilyOf(x)' = NoFamily
               /\ bill'[x].status \in {"NONE", "DRAFT"} => ~ bill'[x].paidAt
               /\ bill'[x].status \in {"PAID", "REFUNDED"} => bill'[x].paidAt
    BY <1>7, <1>10 DEF FInv, BillsStand
  <2> QED
    BY <2>1 DEF BillsStand
<1>14. PICK nobody : nobody \notin Requests
  BY NoSetContainsEverything
<1>15. OnlyMoves(nobody)
  BY <1>1 DEF OnlyMoves
<1>16. FamiliesCome'
  <2>1. ASSUME NEW x \in Bills, NeedsFamily(x)' PROVE NeedsFamily(x) /\ FamilyOf(x)' = FamilyOf(x)
    <3>1. x # b
      BY <1>7, <2>1 DEF NeedsFamily, Counted
    <3> QED
      BY <1>10, <2>1, <3>1 DEF NeedsFamily, Counted
  <2> QED
    BY <1>14, <1>15, <2>1, FamiliesStep
<1>17. FiguresCome'
  <2>1. ASSUME NEW c \in Customers, NEW x \in Bills, CountsFor(x, c) \/ CountsFor(x, c)'
        PROVE  bill'[x] = bill[x]
    <3>1. x # b
      BY <1>1, <1>7, <2>1 DEF CountsFor, Counted
    <3> QED
      BY <1>10, <3>1
  <2>2. \A x \in Bills : bill[x].status \notin {"NONE", "DRAFT"} => FamilyOf(x)' = FamilyOf(x)
    BY <1>1, <1>10
  <2> QED
    BY <1>1, <1>11, <1>14, <1>15, <2>1, <2>2, FiguresStep
<1> QED
  BY <1>1, <1>9, <1>11, <1>12, <1>13, <1>14, <1>15, <1>16, <1>17, FInvStep

-----------------------------------------------------------------------------
(* The steps that write a customer.                                         *)

LEMMA FamiliesKeepComing ==
    ASSUME FInv, NEW r, OnlyMoves(r), bill' = bill,
           \A b \in Bills : r \in Requests /\ AsksFamily(r, b) => AsksFamily(r, b)'
    PROVE  FamiliesCome'
<1>1. ASSUME NEW b \in Bills PROVE (NeedsFamily(b)' <=> NeedsFamily(b)) /\ FamilyOf(b)' = FamilyOf(b)
  BY DEF NeedsFamily, Counted, FamilyOf
<1> QED
  BY <1>1, FamiliesStep

\* What a step on one customer has to leave right.
LEMMA CustomerStep ==
    ASSUME FInv, RecordTypes', NEW r, NEW c \in Customers, OnlyMoves(r), UNCHANGED <<bill, ticket>>,
           \A x \in Customers \ {c} : customer'[x] = customer[x],
           customer[c].present => customer'[c].present,
           NoteContested, overtaken \subseteq overtaken' \cup {c}, OneRecordEach',
           r \in Requests => RequestLinked(r)' /\ RequestStands(r)',
           \A b \in Bills : r \in Requests /\ AsksFamily(r, b) => AsksFamily(r, b)',
           \A x \in Customers \ {c} :
              r \in Requests /\ customer[x].present => ~ WillContest(r, x) /\ (Owes(r, x) => Owes(r, x)'),
           customer'[c].present /\ c \notin overtaken' /\ ~ Contested(c)' => Figured(c)' \/ Attended(c)'
    PROVE  FInv'
<1>1. BillsMove
  BY DEF BillsMove, FInv, RecordTypes, BillRecord
<1>2. \A x \in Customers : customer[x].present => customer'[x].present
  OBVIOUS
<1>3. BillsLinked' /\ TicketsLinked' /\ BillsStand'
  <2>1. \A x \in Linkable : There(x) => There(x)'
    BY <1>2 DEF There, Linkable
  <2>2. \A b \in Bills : bill[b].customerId \in Linkable
    BY DEF FInv, RecordTypes, BillRecord
  <2>3. \A t \in Tickets : ticket[t].customerId \in Linkable
    BY DEF FInv, RecordTypes, TicketRecord
  <2> QED
    BY <2>1, <2>2, <2>3 DEF FInv, BillsLinked, TicketsLinked, BillsStand, FamilyOf, There
<1>4. FamiliesCome'
  BY FamiliesKeepComing
<1>5. FiguresCome'
  <2> SUFFICES ASSUME NEW x \in Customers \ {c}, customer[x].present, x \notin overtaken', x \notin contested',
                      ~ Figured(x)'
               PROVE  Attended(x)'
    BY DEF FiguresCome
  <2>1. ~ Contested(x) /\ x \notin contested /\ x \notin overtaken
    BY DEF NoteContested
  <2>2. Figured(x)' <=> Figured(x)
    BY DEF Figured, UpToDate, VisitCount, TotalSpent, BillsOf
  <2>3. PICK q \in Requests : Owes(q, x) \/ WillContest(q, x)
    BY <2>1, <2>2 DEF FInv, FiguresCome, Attended
  <2>4. CASE q = r
    BY <2>3, <2>4 DEF Attended
  <2>5. CASE q # r
    <3>1. request'[q] = request[q] /\ customer'[x].phone = customer[x].phone
      BY <2>5 DEF OnlyMoves
    <3>2. Owes(q, x)' \/ WillContest(q, x)'
      BY <1>1, <2>3, <3>1, OthersOwe, OthersContest
    <3> QED
      BY <3>2 DEF Attended
  <2> QED
    BY <2>4, <2>5
<1> QED
  BY <1>1, <1>2, <1>3, <1>4, <1>5, FInvStep

LEMMA UpdatePhoneKeeps ==
    ASSUME FInv, NEW r \in Requests, NEW c \in Customers, NEW phone \in Typed, UpdatePhone(r, c, phone)
    PROVE  FInv'
<1>1. /\ customer[c].present /\ customer' = [customer EXCEPT ![c].phone = phone]
      /\ phone # NoPhone => Known(phone) = {}
      /\ Begin(r, RecomputeFor(c)) /\ UNCHANGED <<bill, ticket, overtaken>>
  BY DEF UpdatePhone
<1>2. <<>> \in Seq(Families) /\ \A i \in DOMAIN <<>> : There(<<>>[i].customerId)'
  OBVIOUS
<1>3. /\ RecomputeFor(c) \in RequestRecord /\ RecomputeFor(c).at = "identify" /\ RecomputeFor(c).who = c
      /\ RecomputeFor(c).family = NoFamily /\ RecomputeFor(c).todo = <<>>
  BY <1>2, RecomputeForIsARecord
<1>4. /\ request' \in [Requests -> RequestRecord] /\ request'[r] = RecomputeFor(c) /\ OnlyMoves(r)
      /\ NoteContested /\ contested' \subseteq Customers /\ made' \in Nat
      /\ request[r].at = "idle" /\ \A x : ~ Owes(r, x)
  BY <1>1, <1>3, Begins DEF Idle
<1>5. customer[c] \in CustomerRecord
  BY DEF FInv, RecordTypes
<1>6. /\ customer' \in [Customers -> CustomerRecord]
      /\ \A x \in Customers \ {c} : customer'[x] = customer[x]
      /\ customer'[c] = [customer[c] EXCEPT !.phone = phone]
  BY <1>1, <1>5 DEF FInv, RecordTypes, CustomerRecord
<1>7. RecordTypes'
  BY <1>1, <1>4, <1>6 DEF FInv, RecordTypes
<1>8. customer'[c].present /\ customer'[c].phone = phone
  BY <1>1, <1>5, <1>6 DEF CustomerRecord
<1>9. OneRecordEach'
  <2>1. \A x \in Customers \ {c} : phone # NoPhone => ~ (customer'[x].present /\ customer'[x].phone = phone)
    BY <1>1, <1>6 DEF Known
  <2> QED
    BY <1>6, <1>8, <2>1 DEF FInv, OneRecordEach
<1>10. There(c)'
  BY <1>8 DEF There
<1>11. RequestLinked(r)' /\ RequestStands(r)' /\ Owes(r, c)'
  BY <1>2, <1>3, <1>4, <1>10, RecomputeForStands
<1>12. \A b : ~ AsksFamily(r, b)
  BY <1>4 DEF AsksFamily
<1>13. \A x : ~ WillContest(r, x)
  BY <1>4 DEF WillContest
<1>14. Attended(c)'
  BY <1>11 DEF Attended
<1> QED
  BY <1>1, <1>4, <1>6, <1>7, <1>8, <1>9, <1>11, <1>12, <1>13, <1>14, CustomerStep, SMTT(30)

LEMMA SetStatsKeeps ==
    ASSUME FInv, NEW r \in Requests, SetStats(r)
    PROVE  FInv'
<1>1. PICK c \in Customers : c = request[r].who /\ customer[c].present
  BY RequestIs, NothingIsNoRecord DEF SetStats, RequestStands, RequestLinked, WithCustomer, There
<1>2. PICK todo \in Seq(Families) :
        /\ todo = request[r].todo
        /\ \A i \in DOMAIN todo : todo[i] \in Families /\ There(todo[i].customerId)
  BY RequestIs
<1>3. PICK visits \in Figures, spent \in Figures : visits = request[r].visits /\ spent = request[r].spent
  BY RequestIs DEF RequestRecord
<1>4. /\ request[r].at = "save"
      /\ customer' = [customer EXCEPT ![c].visitCount = visits, ![c].totalSpent = spent]
      /\ overtaken' = IF UpToDate(c, visits, spent) THEN overtaken \ {c} ELSE overtaken \cup {c}
      /\ Goto(r, Recompute(todo)) /\ UNCHANGED <<bill, ticket, made>>
  BY <1>1, <1>2, <1>3 DEF SetStats
<1>5. /\ request' \in [Requests -> RequestRecord] /\ request'[r] = Recompute(todo) /\ OnlyMoves(r)
      /\ NoteContested /\ contested' \subseteq Customers
  BY <1>4, RecomputeIsARecord, GoesOn
<1>6. customer[c] \in CustomerRecord
  BY DEF FInv, RecordTypes
<1>7. /\ customer' \in [Customers -> CustomerRecord]
      /\ \A x \in Customers \ {c} : customer'[x] = customer[x]
      /\ customer'[c] = [customer[c] EXCEPT !.visitCount = visits, !.totalSpent = spent]
  BY <1>4, <1>6 DEF FInv, RecordTypes, CustomerRecord
<1>8. /\ customer'[c].present /\ customer'[c].phone = customer[c].phone
      /\ customer'[c].visitCount = visits /\ customer'[c].totalSpent = spent
  BY <1>1, <1>6, <1>7 DEF CustomerRecord
<1>9. RecordTypes'
  <2>1. overtaken' \subseteq Customers
    BY <1>4 DEF FInv, RecordTypes
  <2> QED
    BY <1>4, <1>5, <1>7, <2>1 DEF FInv, RecordTypes
<1>10. OneRecordEach'
  <2>1. ASSUME NEW x \in Customers
        PROVE  customer'[x].present = customer[x].present /\ customer'[x].phone = customer[x].phone
    <3>1. CASE x = c
      BY <1>1, <1>8, <3>1
    <3>2. CASE x # c
      BY <1>7, <3>2
    <3> QED
      BY <3>1, <3>2
  <2>2. \A x \in Customers : ~ customer[x].present => customer'[x] = customer[x]
    BY <1>1, <1>7
  <2> QED
    BY <2>1, <2>2 DEF FInv, OneRecordEach
<1>11. \A i \in DOMAIN todo : There(todo[i].customerId)'
  <2>1. \A x \in Customers : customer[x].present => customer'[x].present
    BY <1>7, <1>8
  <2>2. \A i \in DOMAIN todo : todo[i].customerId \in Linkable
    BY <1>2 DEF Families
  <2> QED
    BY <1>2, <2>1, <2>2 DEF There, Linkable
<1>12. /\ RequestLinked(r)' /\ RequestStands(r)'
       /\ \A x : (\E i \in DOMAIN todo : Reaches(todo[i], x)') => Owes(r, x)'
  BY <1>5, <1>11, RecomputeStands
<1>13. ASSUME NEW x \in Customers \ {c}, Owes(r, x) PROVE Owes(r, x)'
  <2>1. PICK i \in DOMAIN todo : Reaches(todo[i], x)
    BY <1>1, <1>2, <1>4, <1>13 DEF Owes
  <2>2. Reaches(todo[i], x)'
    BY <1>7, <2>1 DEF Reaches
  <2> QED
    BY <1>12, <2>2
<1>14. c \notin overtaken' => Figured(c)'
  <2>1. UpToDate(c, visits, spent)' <=> UpToDate(c, visits, spent)
    BY <1>4, <1>8 DEF UpToDate, VisitCount, TotalSpent, BillsOf
  <2> QED
    BY <1>4, <1>8, <2>1 DEF Figured
<1>15. /\ \A b : ~ AsksFamily(r, b)
       /\ \A x : ~ WillContest(r, x)
  BY <1>4 DEF AsksFamily, WillContest
<1>16. UNCHANGED <<bill, ticket>> /\ overtaken \subseteq overtaken' \cup {c}
  BY <1>4
<1> QED
  BY <1>5, <1>7, <1>8, <1>9, <1>10, <1>12, <1>13, <1>14, <1>15, <1>16, CustomerStep

\* Nothing spent comes to nothing.
LEMMA NothingSpent ==
    ASSUME NEW spend, DOMAIN spend = {}
    PROVE  SumFunction(spend) = 0
<1> DEFINE sums(iter) == [s \in SUBSET {} |->
              IF s = {} THEN 0 ELSE LET x == CHOOSE y \in s : TRUE IN spend[x] + iter[s \ {x}]]
           nothing == [s \in SUBSET {} |-> 0]
<1>1. nothing = sums(nothing)
  OBVIOUS
<1>2. LET iter[s \in SUBSET {}] ==
            IF s = {} THEN 0 ELSE LET x == CHOOSE y \in s : TRUE IN spend[x] + iter[s \ {x}]
      IN  iter[{}] = 0
  BY <1>1
<1> QED
  BY <1>2 DEF SumFunction, SumFunctionOnSet, FoldFunctionOnSet, MapThenFoldSet

\* A customer with no bill that counts has no figures.
LEMMA NothingCounted ==
    ASSUME NEW c \in Customers, \A b \in Bills : ~ CountsFor(b, c)
    PROVE  VisitCount(c, customer[c].phone) = 0 /\ TotalSpent(c, customer[c].phone) = 0
<1> DEFINE visited == {x \in BillsOf(c, customer[c].phone) :
                         bill[x].status \in {"PAID", "REFUNDED"} /\ ~ bill[x].isTest}
           paid == {x \in BillsOf(c, customer[c].phone) : bill[x].status = "PAID" /\ ~ bill[x].isTest}
           spend == [b \in paid |-> bill[b].grandTotal]
<1>1. visited = {} /\ paid = {}
  BY DEF CountsFor, Counted, BillsOf
<1>2. VisitCount(c, customer[c].phone) = Cardinality({DayOf[b] : b \in visited})
  BY DEF VisitCount
<1>3. TotalSpent(c, customer[c].phone) = SumFunction(spend)
  BY DEF TotalSpent
<1> HIDE DEF visited, paid
<1>4. {DayOf[b] : b \in visited} = {} /\ DOMAIN spend = {}
  BY <1>1
<1> HIDE DEF spend
<1>5. Cardinality({}) = 0 /\ SumFunction(spend) = 0
  BY <1>4, FS_EmptySet, NothingSpent
<1> QED
  BY <1>2, <1>3, <1>4, <1>5

LEMMA NothingCountedAfter ==
    (\A c \in Customers :
        (\A b \in Bills : ~ CountsFor(b, c)) =>
            VisitCount(c, customer[c].phone) = 0 /\ TotalSpent(c, customer[c].phone) = 0)'
<1>1. \A c \in Customers :
        (\A b \in Bills : ~ CountsFor(b, c)) =>
            VisitCount(c, customer[c].phone) = 0 /\ TotalSpent(c, customer[c].phone) = 0
  BY NothingCounted
<1> QED
  BY <1>1, PTL

\* A record made for a number that has none.  Bills of that number wait for the payment
\* that links them, or have another customer already.
LEMMA NewRecordKeeps ==
    ASSUME FInv, RecordTypes', NEW r, NEW c \in Customers, ~ customer[c].present,
           NEW phone \in Typed, Known(phone) = {},
           customer' = [customer EXCEPT ![c].present = TRUE, ![c].phone = phone],
           OnlyMoves(r), UNCHANGED <<bill, ticket, overtaken>>, NoteContested,
           r \in Requests => RequestLinked(r)' /\ RequestStands(r)' /\ request[r].at # "link",
           \A b \in Bills : r \in Requests /\ AsksFamily(r, b) => AsksFamily(r, b)',
           \A x \in Customers \ {c} : r \in Requests /\ customer[x].present => ~ Owes(r, x)
    PROVE  FInv'
<1>1. customer[c] \in CustomerRecord /\ customer[c].visitCount = 0 /\ customer[c].totalSpent = 0
  BY DEF FInv, RecordTypes, OneRecordEach
<1>2. /\ \A x \in Customers \ {c} : customer'[x] = customer[x]
      /\ customer'[c] = [customer[c] EXCEPT !.present = TRUE, !.phone = phone]
  BY <1>1 DEF FInv, RecordTypes, CustomerRecord
<1>3. /\ customer'[c].present /\ customer'[c].phone = phone
      /\ customer'[c].visitCount = 0 /\ customer'[c].totalSpent = 0
  BY <1>1, <1>2 DEF CustomerRecord
<1>4. OneRecordEach'
  <2>1. ASSUME NEW x \in Customers \ {c} PROVE ~ (customer'[x].present /\ customer'[x].phone = phone)
    BY <1>2 DEF Known
  <2>2. ASSUME NEW x \in Customers, NEW y \in Customers, customer'[x].present, customer'[y].present,
               customer'[x].phone = customer'[y].phone, customer'[x].phone # NoPhone
        PROVE  x = y
    <3>1. CASE x = c \/ y = c
      BY <1>3, <2>1, <2>2, <3>1
    <3>2. CASE x # c /\ y # c
      BY <1>2, <2>2, <3>2 DEF FInv, OneRecordEach
    <3> QED
      BY <3>1, <3>2
  <2>3. ASSUME NEW x \in Customers, ~ customer'[x].present
        PROVE  customer'[x].visitCount = 0 /\ customer'[x].totalSpent = 0
    BY <1>2, <1>3, <2>3 DEF FInv, OneRecordEach
  <2> QED
    BY <2>2, <2>3 DEF OneRecordEach
<1>5. FamiliesCome'
  BY FamiliesKeepComing
<1>6. ASSUME ~ Contested(c)', NEW b \in Bills, CountsFor(b, c)'
      PROVE  Attended(c)'
  <2>1. bill[b].customerId # c
    BY NothingIsNoRecord DEF FInv, BillsLinked, There
  <2>2. Counted(b) /\ bill[b].phone # NoPhone /\ bill[b].phone = phone
    BY <1>3, <1>6, <2>1 DEF CountsFor, Counted, BillsOf
  <2>3. bill[b].customerId = Nobody
    <3> SUFFICES ASSUME bill[b].customerId # Nobody PROVE FALSE
      OBVIOUS
    <3>1. PICK d \in Customers \ {c} : d = bill[b].customerId /\ customer[d].present
      BY <2>1, BillIs DEF BillRecord, Linkable, There
    <3>2. b \in BillsOf(d, customer[d].phone)' /\ b \in BillsOf(c, customer[c].phone)'
      BY <1>3, <2>2, <3>1 DEF BillsOf
    <3>3. customer'[d].present
      BY <1>2, <3>1
    <3> QED
      BY <1>6, <3>2, <3>3 DEF Contested
  <2>4. NeedsFamily(b)'
    BY <2>2, <2>3 DEF NeedsFamily, Counted
  <2>5. PICK q \in Requests : AsksFamily(q, b)'
    BY <1>5, <2>4 DEF FamiliesCome
  <2>6. /\ request'[q].family.phone = phone /\ request'[q].family.customerId = Nobody
        /\ request'[q].at \in {"ensure", "link"} /\ request'[q].bill = b
    BY <2>2, <2>3, <2>5 DEF AsksFamily, FamilyOf
  <2>7. Owes(q, c)' \/ WillContest(q, c)'
    BY <1>3, <2>2, <2>3, <2>6 DEF Owes, WillContest, Reaches, WithCustomer
  <2> QED
    BY <2>7 DEF Attended
<1>7. ~ Contested(c)' => Figured(c)' \/ Attended(c)'
  <2>1. CASE \E b \in Bills : CountsFor(b, c)'
    BY <1>6, <2>1
  <2>2. CASE \A b \in Bills : ~ CountsFor(b, c)'
    BY <1>3, <2>2, NothingCountedAfter DEF Figured, UpToDate
  <2> QED
    BY <2>1, <2>2
<1>8. \A x : r \in Requests => ~ WillContest(r, x)
  BY DEF WillContest
<1> QED
  BY <1>2, <1>3, <1>4, <1>7, <1>8, CustomerStep

LEMMA CreateCustomerKeeps ==
    ASSUME FInv, NEW c \in Customers, NEW phone \in Typed, CreateCustomer(c, phone)
    PROVE  FInv'
<1>1. PICK nobody : nobody \notin Requests
  BY NoSetContainsEverything
<1>2. /\ ~ customer[c].present /\ Known(phone) = {}
      /\ customer' = [customer EXCEPT ![c].present = TRUE, ![c].phone = phone]
      /\ made' = made + 1 /\ NoteContested /\ UNCHANGED <<bill, ticket, request, overtaken>>
  BY DEF CreateCustomer
<1>3. RecordTypes'
  <2>1. customer' \in [Customers -> CustomerRecord]
    BY <1>2 DEF FInv, RecordTypes, CustomerRecord
  <2>2. contested' \subseteq Customers /\ made' \in Nat
    BY <1>2 DEF NoteContested, FInv, RecordTypes
  <2> QED
    BY <1>2, <2>1, <2>2 DEF FInv, RecordTypes
<1>4. OnlyMoves(nobody)
  BY <1>2 DEF OnlyMoves
<1> QED
  BY <1>1, <1>2, <1>3, <1>4, NewRecordKeeps

LEMMA EnsureForPaymentKeeps ==
    ASSUME FInv, NEW r \in Requests, NEW c \in Customers, EnsureForPayment(r, c)
    PROVE  FInv'
<1>1. PICK family \in Families : family = request[r].family /\ There(family.customerId)
  BY RequestIs DEF RequestLinked
<1>2. PICK b \in Bills : b = request[r].bill /\ bill[b].status \notin {"NONE", "DRAFT"}
  BY RequestIs DEF EnsureForPayment, RequestStands, WithBill
<1>3. request[r] \in RequestRecord /\ request[r].at = "ensure" /\ request[r].todo = <<>>
  BY RequestIs DEF EnsureForPayment, RequestStands, WithTodo
<1> DEFINE next == [request[r] EXCEPT !.at = "link", !.who = c]
<1>4. /\ next \in RequestRecord /\ next.at = "link" /\ next.who = c /\ next.bill = b
      /\ next.family = family /\ next.todo = <<>>
  BY <1>1, <1>2, <1>3 DEF RequestRecord, Places, Linkable
<1>5. Goto(r, next) /\ UNCHANGED <<bill, ticket, made, overtaken>> /\ EnsureCustomer(family, c)
  BY <1>1 DEF EnsureForPayment
<1> HIDE DEF next
<1>6. /\ request' \in [Requests -> RequestRecord] /\ request'[r] = next /\ OnlyMoves(r)
      /\ NoteContested /\ contested' \subseteq Customers
  BY <1>4, <1>5, GoesOn
<1>7. RequestStands(r)'
  BY <1>2, <1>4, <1>5, <1>6 DEF RequestStands, WithBill, WithCustomer, WithTodo
<1>8. ASSUME There(c)', There(family.customerId)' PROVE RequestLinked(r)'
  BY <1>4, <1>6, <1>8 DEF RequestLinked
<1>9. ASSUME NEW x \in Bills, AsksFamily(r, x) PROVE AsksFamily(r, x)'
  BY <1>1, <1>2, <1>4, <1>5, <1>6, <1>9 DEF AsksFamily, FamilyOf
<1>10. ASSUME NEW x, Owes(r, x) PROVE Reaches(family, x)
  BY <1>1, <1>3, <1>10 DEF Owes, WithCustomer
<1>11. ASSUME UNCHANGED customer, There(c),
              \A x \in Customers : customer[x].present /\ Reaches(family, x) => x = c
       PROVE  FInv'
  <2>1. RecordTypes' /\ TicketsLinked'
    BY <1>5, <1>6, <1>11 DEF FInv, RecordTypes, TicketsLinked, There
  <2>2. RequestLinked(r)'
    BY <1>1, <1>8, <1>11 DEF There
  <2>3. Owes(r, c)'
    BY <1>4, <1>6 DEF Owes, WithCustomer
  <2> QED
    BY <1>1, <1>2, <1>3, <1>4, <1>5, <1>6, <1>7, <1>10, <1>11, <2>1, <2>2, <2>3, QuietStep
<1>12. CASE family.customerId # Nobody
  BY <1>1, <1>5, <1>11, <1>12 DEF EnsureCustomer, Reaches
<1>13. CASE family.customerId = Nobody /\ Known(family.phone) # {}
  <2>1. c \in Known(family.phone) /\ UNCHANGED customer
    BY <1>5, <1>13 DEF EnsureCustomer
  <2>2. \A x \in Customers : customer[x].present /\ Reaches(family, x) => x = c
    BY <1>13, <2>1 DEF Reaches, Known, FInv, OneRecordEach
  <2> QED
    BY <1>11, <2>1, <2>2 DEF Known, There
<1>14. CASE family.customerId = Nobody /\ Known(family.phone) = {}
  <2>1. /\ ~ customer[c].present
        /\ customer' = [customer EXCEPT ![c].present = TRUE, ![c].phone = family.phone]
    BY <1>5, <1>14 DEF EnsureCustomer
  <2>2. customer' \in [Customers -> CustomerRecord] /\ customer'[c].present
    BY <2>1 DEF FInv, RecordTypes, CustomerRecord, Families
  <2>3. RecordTypes'
    BY <1>5, <1>6, <2>2 DEF FInv, RecordTypes
  <2>4. RequestLinked(r)'
    BY <1>8, <1>14, <2>2 DEF There
  <2>5. \A x \in Customers : customer[x].present => ~ Owes(r, x)
    BY <1>10, <1>14 DEF Reaches, Known
  <2>6. family.phone \in Typed /\ request[r].at # "link"
    BY <1>3 DEF Families
  <2> QED
    BY <1>5, <1>6, <1>7, <1>9, <1>14, <2>1, <2>3, <2>4, <2>5, <2>6, NewRecordKeeps
<1> QED
  BY <1>12, <1>13, <1>14

LEMMA EnsureForCorrectionKeeps ==
    ASSUME FInv, NEW r \in Requests, NEW phone \in Typed, NEW c \in Linkable,
           EnsureForCorrection(r, phone, c)
    PROVE  FInv'
<1>1. PICK b \in Bills : b = request[r].bill /\ bill[b].status \notin {"NONE", "DRAFT"}
  BY RequestIs DEF EnsureForCorrection, RequestStands, WithBill
<1>2. PICK family \in Families : family = request[r].family /\ There(family.customerId)
  BY RequestIs DEF RequestLinked
<1>3. /\ request[r] \in RequestRecord /\ request[r].at = "correct" /\ request[r].todo = <<>>
      /\ RequestStands(r)
  BY RequestIs DEF EnsureForCorrection, RequestStands, WithTodo
<1> DEFINE next == [request[r] EXCEPT !.at = "move", !.who = c, !.phone = phone]
<1>4. /\ next \in RequestRecord /\ next.at = "move" /\ next.who = c /\ next.phone = phone
      /\ next.bill = b /\ next.family = family /\ next.todo = <<>>
      /\ next.revision = request[r].revision
  BY <1>1, <1>2, <1>3 DEF RequestRecord, Places
<1>5. /\ Goto(r, next) /\ UNCHANGED <<bill, ticket, made, overtaken>>
      /\ IF phone = NoPhone THEN c = Nobody /\ UNCHANGED customer
         ELSE c # Nobody /\ EnsureCustomer([phone |-> phone, customerId |-> Nobody], c)
  BY DEF EnsureForCorrection
<1> HIDE DEF next
<1>6. /\ request' \in [Requests -> RequestRecord] /\ request'[r] = next /\ OnlyMoves(r)
      /\ NoteContested /\ contested' \subseteq Customers
  BY <1>4, <1>5, GoesOn
<1>7. RequestStands(r)'
  <2>1. Unrevised(r)' <=> Unrevised(r)
    BY <1>1, <1>4, <1>5, <1>6 DEF Unrevised
  <2>2. /\ request[r].revision <= bill[b].revision
        /\ Unrevised(r) => /\ family.phone = bill[b].phone
                           /\ family.customerId \in {Nobody, bill[b].customerId}
    BY <1>1, <1>2, <1>3 DEF RequestStands
  <2>3. phone = NoPhone <=> c = Nobody
    BY <1>5
  <2> QED
    BY <1>1, <1>4, <1>5, <1>6, <2>1, <2>2, <2>3 DEF RequestStands, WithBill, WithCustomer, WithTodo
<1>8. ASSUME There(c)', There(family.customerId)' PROVE RequestLinked(r)'
  BY <1>4, <1>6, <1>8 DEF RequestLinked
<1>9. \A x : ~ Owes(r, x) /\ ~ AsksFamily(r, x)
  BY <1>3 DEF Owes, AsksFamily, WithCustomer
<1>10. ASSUME UNCHANGED customer, There(c) PROVE FInv'
  <2>1. RecordTypes' /\ TicketsLinked'
    BY <1>5, <1>6, <1>10 DEF FInv, RecordTypes, TicketsLinked, There
  <2>2. RequestLinked(r)'
    BY <1>2, <1>8, <1>10 DEF There
  <2> QED
    BY <1>3, <1>5, <1>6, <1>7, <1>9, <1>10, <2>1, <2>2, QuietStep
<1>11. CASE phone = NoPhone
  BY <1>5, <1>10, <1>11 DEF There
<1>12. CASE phone # NoPhone /\ Known(phone) # {}
  <2>1. c \in Known(phone) /\ UNCHANGED customer
    BY <1>5, <1>12 DEF EnsureCustomer
  <2> QED
    BY <1>10, <2>1 DEF Known, There
<1>13. CASE phone # NoPhone /\ Known(phone) = {}
  <2>1. /\ c \in Customers /\ ~ customer[c].present
        /\ customer' = [customer EXCEPT ![c].present = TRUE, ![c].phone = phone]
    BY <1>5, <1>13 DEF EnsureCustomer, Linkable
  <2>2. customer' \in [Customers -> CustomerRecord] /\ customer'[c].present
        /\ \A x \in Customers : customer[x].present => customer'[x].present
    BY <2>1 DEF FInv, RecordTypes, CustomerRecord
  <2>3. RecordTypes'
    BY <1>5, <1>6, <2>2 DEF FInv, RecordTypes
  <2>4. RequestLinked(r)'
    BY <1>2, <1>8, <2>2 DEF There, Families, Linkable
  <2> QED
    BY <1>3, <1>5, <1>6, <1>7, <1>9, <1>13, <2>1, <2>3, <2>4, NewRecordKeeps
<1> QED
  BY <1>11, <1>12, <1>13

-----------------------------------------------------------------------------
(* The invariant, and what it says.                                         *)

LEMMA StutterKeeps ==
    ASSUME FInv, UNCHANGED vars
    PROVE  FInv'
<1>1. RecordTypes' /\ BillsLinked' /\ TicketsLinked' /\ OneRecordEach' /\ BillsStand'
  BY DEF vars, FInv, RecordTypes, BillsLinked, TicketsLinked, OneRecordEach, BillsStand, There, FamilyOf
<1>2. ASSUME NEW r \in Requests PROVE RequestLinked(r)' /\ RequestStands(r)'
  BY DEF vars, FInv, RequestLinked, RequestStands, There, Unrevised
<1>3. FamiliesCome'
  BY DEF vars, FInv, FamiliesCome, NeedsFamily, AsksFamily, Counted, FamilyOf
<1>4. FiguresCome'
  BY SMTT(30) DEF vars, FInv, FiguresCome, Contested, BillsOf, Figured, UpToDate, VisitCount, TotalSpent,
         Attended, Owes, WillContest, Reaches
<1> QED
  BY <1>1, <1>2, <1>3, <1>4 DEF FInv

\* Every step of every request, and every call, keeps the invariant.
LEMMA StepKeepsFInv == FInv /\ [Next]_vars => FInv'
<1> SUFFICES ASSUME FInv, [Next]_vars PROVE FInv'
  OBVIOUS
<1>1. ASSUME NEW b \in Bills, NEW t \in Tickets, NEW family \in TypedAtTheTill, CheckOut(b, t, family)
      PROVE  FInv'
  BY <1>1, CheckOutKeeps
<1>2. ASSUME NEW r \in Requests, NEW b \in Bills, Operate(r, b) PROVE FInv'
  <2>1. CASE Pay(r, b)
    BY <2>1, PayKeeps
  <2>2. CASE RefundBill(r, b)
    BY <2>2, RefundBillKeeps
  <2>3. CASE CancelBill(r, b)
    BY <2>3, CancelBillKeeps
  <2>4. CASE BeginMark(r, b)
    BY <2>4, BeginMarkKeeps
  <2>5. CASE BeginCorrection(r, b)
    BY <2>5, BeginCorrectionKeeps
  <2> QED
    BY <1>2, <2>1, <2>2, <2>3, <2>4, <2>5 DEF Operate
<1>3. ASSUME NEW r \in Requests, Step(r) PROVE FInv'
  <2>1. ASSUME NEW c \in Customers, EnsureForPayment(r, c) PROVE FInv'
    BY <2>1, EnsureForPaymentKeeps
  <2>2. CASE Link(r)
    BY <2>2, LinkKeeps
  <2>3. CASE LinkTickets(r)
    BY <2>3, LinkTicketsKeeps
  <2>4. CASE Reopen(r)
    BY <2>4, ReopenKeeps
  <2>5. CASE SetTestFlagIfSettled(r)
    BY <2>5, SetTestFlagIfSettledKeeps
  <2>6. CASE SetTestFlagByBillId(r)
    BY <2>6, SetTestFlagByBillIdKeeps
  <2>7. CASE CorrectAmount(r)
    BY <2>7, CorrectAmountKeeps
  <2>8. ASSUME NEW phone \in Typed, NEW c \in Linkable, EnsureForCorrection(r, phone, c) PROVE FInv'
    BY <2>8, EnsureForCorrectionKeeps
  <2>9. CASE MoveToFamily(r)
    BY <2>9, MoveToFamilyKeeps
  <2>10. CASE CorrectionRefused(r)
    BY <2>10, CorrectionRefusedKeeps
  <2>11. CASE ReassignTickets(r)
    BY <2>11, ReassignTicketsKeeps
  <2>12. CASE LookUpFamily(r)
    BY <2>12, LookUpFamilyKeeps
  <2>13. CASE Identify(r) \/ CountVisits(r) \/ SumSpent(r)
    BY <2>13, RecomputingKeeps
  <2>14. CASE SetStats(r)
    BY <2>14, SetStatsKeeps
  <2> QED
    BY <1>3, <2>1, <2>2, <2>3, <2>4, <2>5, <2>6, <2>7, <2>8, <2>9, <2>10, <2>11, <2>12, <2>13, <2>14
    DEF Step, Typed, Linkable
<1>4. ASSUME NEW c \in Customers, NEW phone \in Typed,
             CreateCustomer(c, phone) \/ \E r \in Requests : UpdatePhone(r, c, phone)
      PROVE  FInv'
  BY <1>4, CreateCustomerKeeps, UpdatePhoneKeeps
<1>5. CASE UNCHANGED vars
  BY <1>5, StutterKeeps
<1> QED
  BY <1>1, <1>2, <1>3, <1>4, <1>5 DEF Next, Typed

THEOREM FamiliesInvariant == Spec => []FInv
BY InitFInv, StepKeepsFInv, PTL DEF Spec

\* Bills, tickets, customers and requests keep to their records.
THEOREM RecordsTypeCorrect == Spec => []RecordTypes
<1>1. FInv => RecordTypes
  BY DEF FInv
<1> QED
  BY <1>1, FamiliesInvariant, PTL

\* completeBill: once no request is at work, no paid bill with a number is without its
\* customer, however many payments and corrections ran beside one another.
THEOREM EveryPaidBillFindsItsFamily == Spec => []PaidBillsHaveAFamily
<1>1. ASSUME FInv, Quiet PROVE \A b \in Bills : ~ NeedsFamily(b)
  BY <1>1 DEF FInv, Quiet, FamiliesCome, AsksFamily, Idle
<1>2. FInv => PaidBillsHaveAFamily
  BY <1>1 DEF PaidBillsHaveAFamily, NeedsFamily, Counted
<1> QED
  BY <1>2, FamiliesInvariant, PTL

\* recomputeStatsForBill: once no request is at work, visits and spend are those of the bills,
\* for every customer that shares no bill and whose last figures no request overtook.
THEOREM FiguresAreRecomputed == Spec => []FiguresFollowBills
<1>1. ASSUME FInv, Quiet, NEW c \in Customers PROVE ~ Attended(c)
  BY <1>1 DEF Quiet, Attended, Owes, WillContest, Idle, WithCustomer
<1>2. FInv => FiguresFollowBills
  BY <1>1 DEF FInv, FiguresFollowBills, FiguresCome, Figured
<1> QED
  BY <1>2, FamiliesInvariant, PTL

====
