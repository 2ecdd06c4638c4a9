---------------------------- MODULE ScreensProofs ----------------------------
(***************************************************************************)
(* Theorems about what the screens show (IncomeScreens, CustomerScreens),  *)
(* for any sales, customers, moments and number of changes.                *)
(***************************************************************************)
EXTENDS CustomerScreens, SumTheorems, FiniteSetTheorems, TLAPS

-----------------------------------------------------------------------------
(* The ledger.                                                              *)

Statuses == {"NONE", "DRAFT", "PAID", "REFUNDED", "CANCELLED"}
Moment == Times \cup {None}

StoredBill ==
    [status : Statuses, createdAt : Moment, paidAt : Moment, paymentRecordedAt : Moment,
     cancelledAt : Moment, refundedAt : Moment, isTestBill : BOOLEAN, testMarkedAt : Moment,
     paymentMethod : Methods \cup {None}, phoneNumber : Numbers \cup {None},
     customerId : Customers \cup {None}, writeOff : Int,
     revisions : Seq([editedAt : Times, amount : Int])]

StoredTicket ==
    [status : {"NONE", "CLOSED", "ACTIVE", "VOIDED"}, checkInAt : Int \cup {None},
     checkOutAt : Moment, voidedAt : Moment, isTestBill : BOOLEAN]

\* What one bill says of itself at some moment: nothing on it lies in the future, only what was
\* paid has a payment, is marked as a test or was corrected, and its dates are in order.
Sound(b, t) ==
    /\ b \in StoredBill
    /\ \A d \in {b.createdAt, b.paidAt, b.paymentRecordedAt, b.cancelledAt, b.refundedAt,
                 b.testMarkedAt} :
           d = None \/ d <= t
    /\ \A i \in DOMAIN b.revisions : b.revisions[i].editedAt <= t
    /\ b.status \in {"NONE", "DRAFT"} => b.paidAt = None /\ ~ b.isTestBill
    /\ b.status = "DRAFT" => b.createdAt # None
    /\ b.status \in {"PAID", "REFUNDED"} =>
           /\ b.paidAt # None /\ b.paymentMethod \in Methods
           /\ b.phoneNumber # None => b.customerId # None
    /\ b.isTestBill => b.testMarkedAt # None /\ (b.paidAt # None => b.paidAt <= b.testMarkedAt)
    /\ b.paymentRecordedAt # None => b.paidAt # None /\ b.paidAt <= b.paymentRecordedAt

\* What was corrected after the day of the payment.
LaterIn(b) == {i \in DOMAIN b.revisions : After(Day(b.paidAt), b.revisions[i].editedAt)}
Corrections(b) == SumFunctionOnSet([i \in LaterIn(b) |-> b.revisions[i].amount], LaterIn(b))

ReversedLater(b) ==
    \/ b.status = "CANCELLED" /\ After(Day(b.paidAt), b.cancelledAt)
    \/ b.status = "REFUNDED" /\ After(Day(b.paidAt), b.refundedAt)

\* What a bill of an earlier day adds to its takings is what was printed then, corrected and
\* reversed; a bill that was dated back or marked as a test is not held to it.
Explained(s, b, today, was) ==
    b.paidAt # None /\ Day(b.paidAt) < today /\ ~ b.isTestBill /\ b.paymentRecordedAt = None =>
        (IF b.status = "PAID" THEN Charge(s) - b.writeOff ELSE 0)
            = was + Corrections(b) - (IF ReversedLater(b) THEN Charge(s) - b.writeOff ELSE 0)

\* A closed ticket was open for as long as it was billed.
TicketSound(s, k, t) ==
    /\ k \in StoredTicket
    /\ k.checkOutAt = None \/ k.checkOutAt <= t
    /\ k.voidedAt = None \/ k.voidedAt <= t
    /\ k.status = "CLOSED" => k.checkOutAt # None /\ k.checkInAt = k.checkOutAt - s.stay

\* A number has one record.
OneRecord(records) ==
    /\ DOMAIN records \subseteq Customers
    /\ records \in [DOMAIN records -> Numbers \cup {None}]
    /\ \A c, d \in DOMAIN records : records[c] = records[d] => c = d \/ records[c] = None

\* Types; that of a customer is that a number has one.
LedgerTypes ==
    /\ bill \in [Sales -> StoredBill]
    /\ ticket \in [Sales -> StoredTicket]
    /\ OneRecord(customers)
    /\ now \in Times /\ changes \in Nat
    /\ printed \in [Sales -> Int] /\ unmarked \subseteq Sales

\* A row of the audit log is of a correction that was made by then.
AuditSound ==
    \A log \in audit :
        /\ log.of \in Sales /\ log.entry \in DOMAIN bill[log.of].revisions
        /\ log.at \in Times /\ log.at <= now
        /\ bill[log.of].revisions[log.entry].editedAt <= log.at

\* The inductive invariant; a bill is linked to a record there is.
LedgerInv ==
    /\ LedgerTypes
    /\ \A s \in Sales : Sound(bill[s], now) /\ TicketSound(s, ticket[s], now)
    /\ \A s \in Sales : bill[s].customerId \in DOMAIN customers \cup {None}
    /\ \A s \in Sales \ unmarked : Explained(s, bill[s], Day(now), printed[s])

-----------------------------------------------------------------------------
(* Days.                                                                    *)

\* The moments of a day are those from midnight to midnight.
LEMMA DayIs ==
    ASSUME NEW t \in Int
    PROVE  /\ Day(t) \in Int
           /\ \A d \in Int : (t >= (d + 1) * 1440 - Zone) <=> (Day(t) > d)
           /\ \A d \in Int : (d * 1440 - Zone <= t) <=> (d <= Day(t))
<1>1. Zone \in Int
  BY TimesAreMinutes
<1>2. /\ (t + Zone) \div 1440 \in Int
      /\ 1440 * ((t + Zone) \div 1440) <= t + Zone
      /\ t + Zone < 1440 * ((t + Zone) \div 1440) + 1440
  BY <1>1
<1> QED
  BY <1>1, <1>2 DEF Day

\* Days are counted forward.
LEMMA DaysGrow ==
    ASSUME NEW t \in Int, NEW u \in Int, t <= u
    PROVE  Day(t) <= Day(u)
<1>1. Zone \in Int
  BY TimesAreMinutes
<1> QED
  BY <1>1 DEF Day

\* A moment is in a range when its day is, and after a day when its day is.
LEMMA WithinIs ==
    ASSUME NEW t \in Times, NEW r, r.from \in Int, r.to \in Int, NEW d \in Int
    PROVE  /\ t # None /\ t \in Int /\ Day(t) \in Int
           /\ Within(r, t) <=> r.from <= Day(t) /\ Day(t) <= r.to
           /\ After(d, t) <=> d < Day(t)
<1>1. t \in Int /\ t # None
  BY TimesAreMinutes
<1>2. t < (r.to + 1) * 1440 - Zone <=> ~ (t >= (r.to + 1) * 1440 - Zone)
  BY <1>1, TimesAreMinutes
<1>3. Day(t) \in Int
  BY <1>1, DayIs
<1>6. \A x \in Int : (t >= (x + 1) * 1440 - Zone) <=> (Day(t) > x)
  BY <1>1, DayIs
<1>7. \A x \in Int : (x * 1440 - Zone <= t) <=> (x <= Day(t))
  BY <1>1, DayIs
<1>4. Within(r, t) <=> r.from * 1440 - Zone <= t /\ ~ (t >= (r.to + 1) * 1440 - Zone)
  BY <1>1, <1>2 DEF Within
<1>5. After(d, t) <=> (t >= (d + 1) * 1440 - Zone)
  BY <1>1 DEF After
<1> QED
  BY <1>1, <1>3, <1>4, <1>5, <1>6, <1>7

\* A moment is after a day when its day is.
LEMMA AfterIs ==
    ASSUME NEW t \in Times, NEW d \in Int
    PROVE  After(d, t) <=> d < Day(t)
<1> DEFINE r == OneDay(d)
<1>1. r.from \in Int /\ r.to \in Int
  BY DEF OneDay
<1> HIDE DEF r
<1> QED
  BY <1>1, WithinIs

\* What is never falls within anything.
LEMMA NeverWithin == \A r, d : ~ Within(r, None) /\ ~ After(d, None)
BY DEF Within, After

-----------------------------------------------------------------------------
(* One bill.                                                                *)

\* What is charged is a number.
LEMMA ChargeType ==
    ASSUME NEW s \in Sales
    PROVE  Subtotal(s) \in Int /\ Charge(s) \in Int
<1> DEFINE v == [i \in DOMAIN s.lines |-> s.lines[i].total]
<1>1. IsFiniteSet(DOMAIN s.lines) /\ \A i \in DOMAIN s.lines : v[i] \in Int
  BY SalesAreSales DEF IsLine
<1>2. Subtotal(s) = SumFunctionOnSet(v, DOMAIN s.lines)
  BY DEF Subtotal, SumOfLines, SumOver
<1> HIDE DEF v
<1>3. Subtotal(s) \in Int
  BY <1>1, <1>2, SumStep
<1> QED
  BY <1>3, SalesAreSales DEF Charge

\* A sequence has finitely many places, with elements of its set, and one more when one is appended.
LEMMA SeqIs ==
    ASSUME NEW T, NEW q \in Seq(T)
    PROVE  /\ IsFiniteSet(DOMAIN q) /\ DOMAIN q \subseteq Nat \ {0}
           /\ \A i \in DOMAIN q : q[i] \in T
           /\ \A e \in T :
                /\ Append(q, e) \in Seq(T)
                /\ Len(q) + 1 \notin DOMAIN q /\ DOMAIN Append(q, e) = DOMAIN q \cup {Len(q) + 1}
                /\ \A i \in DOMAIN q : Append(q, e)[i] = q[i]
                /\ Append(q, e)[Len(q) + 1] = e
<1>1. DOMAIN q = 1 .. Len(q) /\ Len(q) \in Nat /\ \A i \in 1 .. Len(q) : q[i] \in T
  OBVIOUS
<1>2. IsFiniteSet(1 .. Len(q))
  BY <1>1, FS_Interval
<1>3. ASSUME NEW e \in T
      PROVE  /\ Append(q, e) \in Seq(T)
             /\ Len(q) + 1 \notin DOMAIN q /\ DOMAIN Append(q, e) = DOMAIN q \cup {Len(q) + 1}
             /\ \A i \in DOMAIN q : Append(q, e)[i] = q[i]
             /\ Append(q, e)[Len(q) + 1] = e
  <2>1. Append(q, e) \in Seq(T) /\ Len(Append(q, e)) = Len(q) + 1
    OBVIOUS
  <2>2. DOMAIN Append(q, e) = 1 .. Len(q) + 1
    BY <2>1
  <2> QED
    BY <1>1, <2>1, <2>2
<1> QED
  BY <1>1, <1>2, <1>3

\* So are the corrections.
LEMMA CorrectionsType ==
    ASSUME NEW b \in StoredBill
    PROVE  IsFiniteSet(LaterIn(b)) /\ Corrections(b) \in Int
<1> DEFINE v == [i \in LaterIn(b) |-> b.revisions[i].amount]
<1>1. b.revisions \in Seq([editedAt : Times, amount : Int])
  BY DEF StoredBill
<1>2. IsFiniteSet(DOMAIN b.revisions)
  BY <1>1, SeqIs
<1>3. IsFiniteSet(LaterIn(b))
  BY <1>2, FS_Subset DEF LaterIn
<1>4. \A i \in LaterIn(b) : v[i] \in Int
  <2>1. \A i \in DOMAIN b.revisions : b.revisions[i] \in [editedAt : Times, amount : Int]
    BY <1>1, SeqIs
  <2> QED
    BY <2>1 DEF LaterIn
<1>5. Corrections(b) = SumFunctionOnSet(v, LaterIn(b))
  BY DEF Corrections
<1> HIDE DEF v
<1> QED
  BY <1>3, <1>4, <1>5, SumStep

\* Without corrections on a later day nothing was corrected then.
LEMMA NothingLater ==
    ASSUME NEW b, LaterIn(b) = {}
    PROVE  Corrections(b) = 0
<1>1. IsFiniteSet({}) /\ [i \in {} |-> b.revisions[i].amount] = [i \in {} |-> 0]
  BY FS_EmptySet
<1>2. SumFunctionOnSet([i \in {} |-> b.revisions[i].amount], {}) = 0
  BY FS_EmptySet, SumStep
<1> QED
  BY <1>2 DEF Corrections

\* What happened to a bill is in the past.
LEMMA MomentsAre ==
    ASSUME NEW b, NEW t \in Times, Sound(b, t)
    PROVE  /\ t \in Int /\ Day(t) \in Int
           /\ \A d \in {b.createdAt, b.paidAt, b.paymentRecordedAt, b.cancelledAt, b.refundedAt,
                        b.testMarkedAt} :
                  d # None => d \in Times /\ d \in Int /\ d <= t /\ Day(d) \in Int
                    /\ Day(d) <= Day(t)
           /\ \A i \in DOMAIN b.revisions :
                  /\ b.revisions[i].editedAt \in Times /\ b.revisions[i].editedAt <= t
                  /\ Day(b.revisions[i].editedAt) \in Int /\ Day(b.revisions[i].editedAt) <= Day(t)
                  /\ b.revisions[i].amount \in Int
<1>1. t \in Int /\ Times \subseteq Int
  BY TimesAreMinutes
<1>2. ASSUME NEW d \in Times, d <= t
      PROVE  d \in Int /\ Day(d) \in Int /\ Day(d) <= Day(t)
  BY <1>1, <1>2, DayIs, DaysGrow
<1>3. \A d \in {b.createdAt, b.paidAt, b.paymentRecordedAt, b.cancelledAt, b.refundedAt,
                b.testMarkedAt} :
         d # None => d \in Times /\ d <= t
  BY DEF Sound, StoredBill, Moment
<1>4. \A i \in DOMAIN b.revisions :
         b.revisions[i].editedAt \in Times /\ b.revisions[i].editedAt <= t
           /\ b.revisions[i].amount \in Int
  <2>1. b.revisions \in Seq([editedAt : Times, amount : Int])
    BY DEF Sound, StoredBill
  <2>2. \A i \in DOMAIN b.revisions : b.revisions[i] \in [editedAt : Times, amount : Int]
    BY <2>1, SeqIs
  <2> QED
    BY <2>2 DEF Sound
<1>5. Day(t) \in Int
  BY <1>1, DayIs
<1>6. \A d \in {b.createdAt, b.paidAt, b.paymentRecordedAt, b.cancelledAt, b.refundedAt,
                b.testMarkedAt} :
         d # None => d \in Times /\ d \in Int /\ d <= t /\ Day(d) \in Int /\ Day(d) <= Day(t)
  BY <1>2, <1>3, Zenon
<1>7. \A i \in DOMAIN b.revisions :
         Day(b.revisions[i].editedAt) \in Int /\ Day(b.revisions[i].editedAt) <= Day(t)
  BY <1>2, <1>4, Zenon
<1> QED
  BY <1>1, <1>4, <1>5, <1>6, <1>7, Zenon

\* Time leaves a bill sound.
LEMMA SoundLater ==
    ASSUME NEW b, NEW t \in Times, Sound(b, t), NEW u \in Times, t <= u
    PROVE  Sound(b, u)
<1>1. t \in Int /\ u \in Int
  BY TimesAreMinutes
<1>2. \A d \in {b.createdAt, b.paidAt, b.paymentRecordedAt, b.cancelledAt, b.refundedAt,
                b.testMarkedAt} :
         d = None \/ d <= u
  BY <1>1, MomentsAre
<1>3. \A i \in DOMAIN b.revisions : b.revisions[i].editedAt <= u
  <2>1. \A i \in DOMAIN b.revisions : b.revisions[i].editedAt \in Times
          /\ b.revisions[i].editedAt <= t
    BY MomentsAre
  <2>2. \A d \in Times : d <= t => d <= u
    BY <1>1, TimesAreMinutes
  <2> QED
    BY <2>1, <2>2
<1> QED
  BY <1>2, <1>3 DEF Sound

\* So does it a ticket.
LEMMA TicketLater ==
    ASSUME NEW s, NEW k, NEW t \in Times, TicketSound(s, k, t), NEW u \in Times, t <= u
    PROVE  TicketSound(s, k, u)
<1> DEFINE out == k.checkOutAt
           voided == k.voidedAt
<1>1. t \in Int /\ u \in Int /\ Times \subseteq Int
  BY TimesAreMinutes
<1>2. out \in Times \cup {None} /\ voided \in Times \cup {None}
  BY DEF TicketSound, StoredTicket, Moment
<1>3. (out = None \/ out <= t) /\ (voided = None \/ voided <= t)
  BY DEF TicketSound
<1>4. (out = None \/ out <= u) /\ (voided = None \/ voided <= u)
  <2> HIDE DEF out, voided
  <2> QED
    BY <1>1, <1>2, <1>3
<1> QED
  BY <1>4 DEF TicketSound

\* A refund, or a cancellation, of a bill of an earlier day is what it takes off the takings.
LEMMA ReversalIsSound ==
    ASSUME NEW s \in Sales, NEW b, NEW t \in Times, Sound(b, t), NEW was \in Int, NEW to,
           \/ b.status = "PAID" /\ to = [b EXCEPT !.status = "REFUNDED", !.refundedAt = t]
           \/ b.status \in {"DRAFT", "PAID"}
                /\ to = [b EXCEPT !.status = "CANCELLED", !.cancelledAt = t]
    PROVE  /\ Sound(to, t)
           /\ Explained(s, b, Day(t), was) => Explained(s, to, Day(t), was)
<1>1. /\ to \in StoredBill /\ b \in StoredBill
      /\ to.createdAt = b.createdAt /\ to.paidAt = b.paidAt
      /\ to.paymentRecordedAt = b.paymentRecordedAt
      /\ to.isTestBill = b.isTestBill /\ to.testMarkedAt = b.testMarkedAt
      /\ to.paymentMethod = b.paymentMethod /\ to.phoneNumber = b.phoneNumber
      /\ to.customerId = b.customerId /\ to.writeOff = b.writeOff /\ to.revisions = b.revisions
      /\ \/ to.status = "REFUNDED" /\ b.status = "PAID" /\ to.refundedAt = t
              /\ to.cancelledAt = b.cancelledAt
         \/ to.status = "CANCELLED" /\ to.cancelledAt = t /\ to.refundedAt = b.refundedAt
  <2>1. b \in StoredBill
    BY DEF Sound
  <2>2. CASE b.status = "PAID" /\ to = [b EXCEPT !.status = "REFUNDED", !.refundedAt = t]
    BY <2>1, <2>2 DEF StoredBill, Moment, Statuses
  <2>3. CASE b.status \in {"DRAFT", "PAID"}
               /\ to = [b EXCEPT !.status = "CANCELLED", !.cancelledAt = t]
    BY <2>1, <2>3 DEF StoredBill, Moment, Statuses
  <2> QED
    BY <2>2, <2>3
<1>2. t \in Int /\ t <= t
  BY TimesAreMinutes
<1>3. Sound(to, t)
  BY <1>1, <1>2 DEF Sound
<1>4. ASSUME Explained(s, b, Day(t), was), to.paidAt # None, Day(to.paidAt) < Day(t),
             ~ to.isTestBill,
             to.paymentRecordedAt = None
      PROVE  0 = was + Corrections(to) - (IF ReversedLater(to) THEN Charge(s) - to.writeOff ELSE 0)
  <2>1. b.status = "PAID" /\ ~ ReversedLater(b)
    BY <1>1, <1>4 DEF Sound, ReversedLater
  <2>2. Corrections(to) = Corrections(b)
    BY <1>1 DEF Corrections, LaterIn
  <2>3. After(Day(b.paidAt), t)
    <3>1. Day(b.paidAt) \in Int
      BY <1>1, <1>4, MomentsAre
    <3>2. After(Day(b.paidAt), t) <=> Day(b.paidAt) < Day(t)
      BY <3>1, AfterIs
    <3> QED
      BY <1>1, <1>4, <3>2
  <2>4. ReversedLater(to)
    BY <1>1, <2>3 DEF ReversedLater
  <2>5. Charge(s) - b.writeOff = was + Corrections(b) - 0
    BY <1>1, <1>4, <2>1 DEF Explained
  <2>6. Charge(s) \in Int /\ b.writeOff \in Int /\ Corrections(b) \in Int
    BY <1>1, ChargeType, CorrectionsType DEF StoredBill
  <2> QED
    BY <1>1, <2>2, <2>4, <2>5, <2>6
<1>5. to.status # "PAID"
  BY <1>1
<1> QED
  BY <1>3, <1>4, <1>5 DEF Explained

\* A bill is rung up as a draft, and what was only rung up was not taken.
LEMMA DraftIsSound ==
    ASSUME NEW s \in Sales, NEW b, NEW t \in Times, Sound(b, t), NEW was \in Int, NEW to,
           b.status = "NONE",
           NEW number \in Numbers \cup {None}, NEW c \in Customers \cup {None},
           to = [b EXCEPT !.status = "DRAFT", !.createdAt = t, !.phoneNumber = number,
                 !.customerId = c]
    PROVE  Sound(to, t) /\ Explained(s, to, Day(t), was)
<1>2. t \in Int /\ t <= t /\ t # None
  BY TimesAreMinutes
<1>3. b \in StoredBill /\ b.paidAt = None
  BY DEF Sound
<1>4. /\ to \in StoredBill
      /\ to.paidAt = b.paidAt /\ to.paymentRecordedAt = b.paymentRecordedAt
      /\ to.cancelledAt = b.cancelledAt /\ to.refundedAt = b.refundedAt
      /\ to.testMarkedAt = b.testMarkedAt
      /\ to.isTestBill = b.isTestBill /\ to.revisions = b.revisions
      /\ to.status = "DRAFT" /\ to.createdAt = t
  <2>1. t \in Moment /\ "DRAFT" \in Statuses
    BY DEF Moment, Statuses
  <2> QED
    BY <1>3, <2>1 DEF StoredBill
<1>5. Sound(to, t)
  BY <1>2, <1>4 DEF Sound
<1> QED
  BY <1>3, <1>4, <1>5 DEF Explained

\* A draft b after its payment: what it wrote and what it left alone, field by field.
Settled(b, to, method, c, paidAt, recordedAt) ==
    /\ to \in StoredBill
    /\ to.createdAt = b.createdAt /\ to.cancelledAt = b.cancelledAt
    /\ to.refundedAt = b.refundedAt
    /\ to.isTestBill = b.isTestBill /\ to.testMarkedAt = b.testMarkedAt
    /\ to.phoneNumber = b.phoneNumber /\ to.revisions = b.revisions
    /\ to.status = "PAID" /\ to.paymentMethod = method /\ to.customerId = c
    /\ to.paidAt = paidAt /\ to.paymentRecordedAt = recordedAt

LEMMA PaymentWrites ==
    ASSUME NEW b \in StoredBill, NEW method \in Methods, NEW c \in Customers \cup {None},
           NEW paidAt \in Moment, NEW recordedAt \in Moment, NEW to,
           to = [b EXCEPT !.status = "PAID", !.paymentMethod = method, !.customerId = c,
                          !.paidAt = paidAt, !.paymentRecordedAt = recordedAt]
    PROVE  Settled(b, to, method, c, paidAt, recordedAt)
<1>1. /\ to.createdAt = b.createdAt /\ to.cancelledAt = b.cancelledAt
      /\ to.refundedAt = b.refundedAt
      /\ to.isTestBill = b.isTestBill /\ to.testMarkedAt = b.testMarkedAt
      /\ to.phoneNumber = b.phoneNumber /\ to.revisions = b.revisions
  BY DEF StoredBill
<1>2. /\ to.status = "PAID" /\ to.paymentMethod = method /\ to.customerId = c
      /\ to.paidAt = paidAt /\ to.paymentRecordedAt = recordedAt
  BY DEF StoredBill
<1>3. "PAID" \in Statuses
  BY DEF Statuses
<1>4. to \in StoredBill
  BY <1>3 DEF StoredBill
<1> QED
  BY <1>1, <1>2, <1>4 DEF Settled

\* A payment is of today, or was recorded later than it is dated.
LEMMA PaymentIsSound ==
    ASSUME NEW s \in Sales, NEW b, NEW t \in Times, Sound(b, t), NEW was \in Int, NEW to,
           b.status = "DRAFT", NEW backdated \in BOOLEAN, NEW c \in Customers \cup {None},
           b.phoneNumber # None => c # None,
           to = [b EXCEPT !.status = "PAID", !.paymentMethod = s.method, !.customerId = c,
                          !.paidAt = IF backdated THEN b.createdAt ELSE t,
                          !.paymentRecordedAt = IF backdated THEN t ELSE None]
    PROVE  Sound(to, t) /\ Explained(s, to, Day(t), was)
<1>1. s.method \in Methods
  BY SalesAreSales
<1>2. t \in Int /\ t <= t /\ t # None
  BY TimesAreMinutes
<1>3. b \in StoredBill /\ ~ b.isTestBill /\ b.createdAt # None
  BY DEF Sound
<1>4. b.createdAt \in Times /\ b.createdAt \in Int /\ b.createdAt <= t
  BY <1>3, MomentsAre
<1> DEFINE paidAt == IF backdated THEN b.createdAt ELSE t
           recordedAt == IF backdated THEN t ELSE None
<1>8. /\ paidAt \in Times /\ recordedAt \in Moment
      /\ backdated => paidAt = b.createdAt /\ recordedAt = t
      /\ ~ backdated => paidAt = t /\ recordedAt = None
  BY <1>4 DEF Moment
<1>10. paidAt \in Moment
  BY <1>8 DEF Moment
<1>9. to = [b EXCEPT !.status = "PAID", !.paymentMethod = s.method, !.customerId = c,
                     !.paidAt = paidAt, !.paymentRecordedAt = recordedAt]
  OBVIOUS
<1> HIDE DEF paidAt, recordedAt
<1>5. /\ to \in StoredBill
      /\ to.createdAt = b.createdAt /\ to.cancelledAt = b.cancelledAt
      /\ to.refundedAt = b.refundedAt
      /\ to.isTestBill = b.isTestBill /\ to.testMarkedAt = b.testMarkedAt
      /\ to.phoneNumber = b.phoneNumber /\ to.revisions = b.revisions
      /\ to.status = "PAID" /\ to.paymentMethod = s.method /\ to.customerId = c
      /\ to.paidAt = paidAt /\ to.paymentRecordedAt = recordedAt
  <2>1. Settled(b, to, s.method, c, paidAt, recordedAt)
    BY <1>1, <1>3, <1>8, <1>9, <1>10, PaymentWrites
  <2> QED
    BY <2>1 DEF Settled
<1>6. Sound(to, t)
  <2>1. \A d \in {to.createdAt, to.paidAt, to.paymentRecordedAt, to.cancelledAt, to.refundedAt,
                  to.testMarkedAt} :
           d = None \/ d <= t
    <3>1. \A d \in {b.createdAt, b.paidAt, b.paymentRecordedAt, b.cancelledAt, b.refundedAt,
                    b.testMarkedAt} :
             d = None \/ d <= t
      BY DEF Sound
    <3> QED
      BY <1>2, <1>5, <1>8, <3>1
  <2>2. \A i \in DOMAIN to.revisions : to.revisions[i].editedAt <= t
    BY <1>5 DEF Sound
  <2>3. to.paidAt # None
    BY <1>2, <1>3, <1>5, <1>8
  <2>4. to.paymentRecordedAt # None => to.paidAt <= to.paymentRecordedAt
    BY <1>4, <1>5, <1>8
  <2> QED
    BY <1>1, <1>3, <1>5, <2>1, <2>2, <2>3, <2>4 DEF Sound
<1>7. ~ backdated => ~ (Day(to.paidAt) < Day(t))
  BY <1>2, <1>5, <1>8, DayIs
<1> QED
  BY <1>2, <1>5, <1>6, <1>7, <1>8 DEF Explained

\* A bill as it is after its test mark was set or taken off.
Marked(b, to, t) ==
    /\ to \in StoredBill
    /\ to.createdAt = b.createdAt /\ to.paidAt = b.paidAt
    /\ to.paymentRecordedAt = b.paymentRecordedAt
    /\ to.cancelledAt = b.cancelledAt /\ to.refundedAt = b.refundedAt
    /\ to.status = b.status /\ to.paymentMethod = b.paymentMethod /\ to.phoneNumber = b.phoneNumber
    /\ to.customerId = b.customerId /\ to.revisions = b.revisions
    /\ \/ to.isTestBill = TRUE /\ to.testMarkedAt = t
       \/ to.isTestBill = FALSE /\ to.testMarkedAt = None

\* A test mark explains any difference, and one that is taken off again is not held to be.
LEMMA MarkIsSound ==
    ASSUME NEW s \in Sales, NEW b, NEW t \in Times, Sound(b, t), NEW was \in Int, NEW to,
           b.status \in {"PAID", "CANCELLED", "REFUNDED"}, Marked(b, to, t)
    PROVE  /\ Sound(to, t) /\ to.customerId = b.customerId
           /\ to.isTestBill => Explained(s, to, Day(t), was)
<1>1. t \in Int /\ t <= t /\ t # None
  BY TimesAreMinutes
<1>2. b \in StoredBill
  BY DEF Sound
<1>4. b.paidAt # None => b.paidAt <= t
  BY MomentsAre
<1>5. Sound(to, t)
  <2>1. \A d \in {to.createdAt, to.paidAt, to.paymentRecordedAt, to.cancelledAt, to.refundedAt,
                  to.testMarkedAt} :
           d = None \/ d <= t
    <3>1. \A d \in {b.createdAt, b.paidAt, b.paymentRecordedAt, b.cancelledAt, b.refundedAt,
                    b.testMarkedAt} :
             d = None \/ d <= t
      BY DEF Sound
    <3> QED
      BY <1>1, <3>1 DEF Marked
  <2> QED
    BY <1>1, <1>2, <1>4, <2>1 DEF Sound, Marked
<1> QED
  BY <1>5 DEF Explained, Marked

\* A bill with another amount, method, number or customer, before the correction is written on it.
Altered(b, new) ==
    /\ new \in StoredBill
    /\ new.status = b.status /\ new.createdAt = b.createdAt /\ new.paidAt = b.paidAt
    /\ new.paymentRecordedAt = b.paymentRecordedAt /\ new.cancelledAt = b.cancelledAt
    /\ new.refundedAt = b.refundedAt /\ new.isTestBill = b.isTestBill
    /\ new.testMarkedAt = b.testMarkedAt
    /\ new.revisions = b.revisions
    /\ new.paymentMethod \in Methods /\ (new.phoneNumber # None => new.customerId # None)

\* A correction of a bill of an earlier day is an entry of just what it changes.
LEMMA CorrectionIsSound ==
    ASSUME NEW s \in Sales, NEW b, NEW t \in Times, Sound(b, t), NEW was \in Int, NEW new, NEW to,
           b.status = "PAID", Altered(b, new),
           to = [new EXCEPT !.revisions
                 = Append(@, [editedAt |-> t, amount |-> b.writeOff - new.writeOff])]
    PROVE  /\ Sound(to, t) /\ to.customerId = new.customerId
           /\ Explained(s, b, Day(t), was) => Explained(s, to, Day(t), was)
<1> DEFINE writeOff == new.writeOff
           entry == [editedAt |-> t, amount |-> b.writeOff - writeOff]
           n == Len(b.revisions) + 1
<1>1. t \in Int /\ t <= t
  BY TimesAreMinutes
<1>2. b \in StoredBill /\ b.paidAt # None
  BY DEF Sound
<1>3. /\ b.revisions \in Seq([editedAt : Times, amount : Int]) /\ b.writeOff \in Int
      /\ new \in StoredBill /\ writeOff \in Int
  BY <1>2 DEF StoredBill, Altered
<1>4. entry \in [editedAt : Times, amount : Int]
  BY <1>3
<1>5. /\ Append(b.revisions, entry) \in Seq([editedAt : Times, amount : Int])
      /\ n \notin DOMAIN b.revisions
      /\ DOMAIN Append(b.revisions, entry) = DOMAIN b.revisions \cup {n}
      /\ \A i \in DOMAIN b.revisions : Append(b.revisions, entry)[i] = b.revisions[i]
      /\ Append(b.revisions, entry)[n] = entry
  <2> HIDE DEF entry
  <2> QED
    BY <1>3, <1>4, SeqIs, SMTT(30)
<1> DEFINE revisions == Append(b.revisions, entry)
<1>6. /\ to \in StoredBill
      /\ to.createdAt = b.createdAt /\ to.paidAt = b.paidAt
      /\ to.paymentRecordedAt = b.paymentRecordedAt
      /\ to.cancelledAt = b.cancelledAt /\ to.refundedAt = b.refundedAt
      /\ to.testMarkedAt = b.testMarkedAt
      /\ to.status = b.status /\ to.isTestBill = b.isTestBill
      /\ to.writeOff = writeOff /\ to.paymentMethod \in Methods
      /\ (to.phoneNumber # None => to.customerId # None)
      /\ to.customerId = new.customerId /\ to.revisions = revisions
  <2>1. new \in StoredBill /\ new.revisions = b.revisions
    BY DEF Altered
  <2>2. to = [new EXCEPT !.revisions = revisions]
    BY <2>1
  <2> HIDE DEF revisions
  <2>3. revisions \in Seq([editedAt : Times, amount : Int])
    BY <1>5 DEF revisions
  <2> QED
    BY <2>1, <2>2, <2>3 DEF StoredBill, Altered
<1>7. entry.editedAt = t /\ entry.amount = b.writeOff - writeOff
  OBVIOUS
<1> HIDE DEF entry, n, revisions, writeOff
<1>8. Sound(to, t)
  <2>1. \A d \in {to.createdAt, to.paidAt, to.paymentRecordedAt, to.cancelledAt, to.refundedAt,
                  to.testMarkedAt} :
           d = None \/ d <= t
    BY <1>6 DEF Sound
  <2>2. \A i \in DOMAIN b.revisions : b.revisions[i].editedAt <= t
    BY DEF Sound
  <2>3. \A i \in DOMAIN to.revisions : to.revisions[i].editedAt <= t
    BY <1>1, <1>5, <1>6, <1>7, <2>2 DEF revisions
  <2> QED
    BY <1>2, <1>6, <2>1, <2>3 DEF Sound
<1>10. writeOff \in Int
  BY <1>3
<1>9. ASSUME Explained(s, b, Day(t), was), Day(b.paidAt) < Day(t), ~ b.isTestBill,
             b.paymentRecordedAt = None
      PROVE  /\ Charge(s) - to.writeOff = was + Corrections(to)
             /\ ~ ReversedLater(to) /\ Corrections(to) \in Int
  <2>1. ~ ReversedLater(b) /\ ~ ReversedLater(to)
    BY <1>6 DEF ReversedLater
  <2>2. Charge(s) - b.writeOff = was + Corrections(b)
    <3>1. Corrections(b) \in Int
      BY <1>2, CorrectionsType
    <3> QED
      BY <1>2, <1>9, <2>1, <3>1 DEF Explained
  <2>3. LaterIn(to) = LaterIn(b) \cup {n} /\ n \notin LaterIn(b)
    <3>1. Day(b.paidAt) \in Int
      BY <1>2, MomentsAre
    <3>2. After(Day(b.paidAt), t)
      BY <1>9, <3>1, AfterIs
    <3> QED
      BY <1>5, <1>6, <1>7, <3>2 DEF LaterIn, revisions
  <2>4. Corrections(to) = Corrections(b) + (b.writeOff - writeOff)
    <3> DEFINE v == [i \in LaterIn(to) |-> to.revisions[i].amount]
               w == [i \in LaterIn(b) |-> b.revisions[i].amount]
    <3>1. v[n] = b.writeOff - writeOff /\ \A i \in LaterIn(b) : v[i] = w[i]
      <4>1. LaterIn(b) \subseteq DOMAIN b.revisions
        BY DEF LaterIn
      <4>2. /\ to.revisions[n].amount = b.writeOff - writeOff
            /\ \A i \in DOMAIN b.revisions : to.revisions[i] = b.revisions[i]
        BY <1>5, <1>6, <1>7 DEF revisions
      <4>3. n \in LaterIn(to) /\ LaterIn(b) \subseteq LaterIn(to)
        BY <2>3
      <4>4. \A i \in LaterIn(to) : v[i] = to.revisions[i].amount
        OBVIOUS
      <4>5. \A i \in LaterIn(b) : w[i] = b.revisions[i].amount
        OBVIOUS
      <4> HIDE DEF v, w
      <4> QED
        BY <4>1, <4>2, <4>3, <4>4, <4>5
    <3>2. \A i \in LaterIn(b) : w[i] \in Int
      BY MomentsAre DEF LaterIn
    <3>3. IsFiniteSet(LaterIn(b))
      BY <1>2, CorrectionsType
    <3>4. Corrections(to) = SumFunctionOnSet(v, LaterIn(b) \cup {n})
            /\ Corrections(b) = SumFunctionOnSet(w, LaterIn(b))
      <4>1. Corrections(to) = SumFunctionOnSet(v, LaterIn(to))
        BY DEF Corrections
      <4>2. Corrections(b) = SumFunctionOnSet(w, LaterIn(b))
        BY DEF Corrections
      <4> HIDE DEF v, w
      <4> QED
        BY <2>3, <4>1, <4>2
    <3> HIDE DEF v, w
    <3>5. \A i \in LaterIn(b) \cup {n} : v[i] \in Int
      BY <1>3, <3>1, <3>2
    <3>6. SumFunctionOnSet(v, LaterIn(b) \cup {n}) = SumFunctionOnSet(v, LaterIn(b)) + v[n]
      BY <2>3, <3>3, <3>5, SumAdd, ZenonT(60)
    <3>7. SumFunctionOnSet(v, LaterIn(b)) = SumFunctionOnSet(w, LaterIn(b))
      BY <3>1, <3>2, <3>3, SumSame
    <3> QED
      BY <3>1, <3>4, <3>6, <3>7
  <2>5. Corrections(b) \in Int /\ Charge(s) \in Int
    BY <1>2, CorrectionsType, ChargeType
  <2>6. Charge(s) - writeOff = was + (Corrections(b) + (b.writeOff - writeOff))
    BY <1>3, <2>2, <2>5
  <2>7. Corrections(to) \in Int
    BY <1>3, <2>4, <2>5
  <2>8. Charge(s) - to.writeOff = was + Corrections(to)
    BY <1>6, <2>4, <2>6
  <2> QED
    BY <2>1, <2>7, <2>8
<1> QED
  BY <1>6, <1>8, <1>9 DEF Explained

-----------------------------------------------------------------------------
(* The invariant of the ledger.                                             *)

\* A customer that is found or made is one there is then, and a number has one record again.
LEMMA EnsureKeeps ==
    ASSUME OneRecord(customers), NEW id \in DOMAIN customers \cup {None},
           NEW number \in Numbers \cup {None},
           NEW c \in Customers \cup {None}, EnsureCustomer(id, number, c)
    PROVE  /\ OneRecord(customers') /\ DOMAIN customers \subseteq DOMAIN customers'
           /\ c \in DOMAIN customers' \cup {None} /\ (number # None => c # None)
<1>1. None \notin Customers
  BY CustomersAreRecords
<1>2. CASE UNCHANGED customers
  <2>1. OneRecord(customers') /\ DOMAIN customers \subseteq DOMAIN customers'
    BY <1>2
  <2>2. DOMAIN customers \subseteq Customers
    BY DEF OneRecord
  <2>3. \A d \in Known(number) : d \in DOMAIN customers
    BY DEF Known
  <2>4. CASE id # None
    BY <1>1, <1>2, <2>1, <2>2, <2>4 DEF EnsureCustomer
  <2>5. CASE id = None /\ number = None
    BY <1>1, <1>2, <2>1, <2>5 DEF EnsureCustomer
  <2>6. CASE id = None /\ number # None /\ Known(number) # {}
    BY <1>1, <1>2, <2>1, <2>2, <2>3, <2>6 DEF EnsureCustomer
  <2>7. CASE id = None /\ number # None /\ Known(number) = {}
    <3>1. c \in Customers \ DOMAIN customers /\ customers' = Added(c, number)
      BY <2>7 DEF EnsureCustomer
    <3>2. DOMAIN customers' = DOMAIN customers \cup {c}
      BY <3>1 DEF Added
    <3> QED
      BY <1>2, <3>1, <3>2
  <2> QED
    BY <2>4, <2>5, <2>6, <2>7
<1>3. CASE /\ number # None /\ Known(number) = {}
           /\ c \in Customers \ DOMAIN customers /\ customers' = Added(c, number)
  <2>1. DOMAIN customers' = DOMAIN customers \cup {c} /\ customers'[c] = number
        /\ \A d \in DOMAIN customers : customers'[d] = customers[d] /\ customers[d] # number
    BY <1>3 DEF Added, Known
  <2>2. customers' \in [DOMAIN customers' -> Numbers \cup {None}]
    BY <1>3 DEF Added, OneRecord
  <2>3. DOMAIN customers' \subseteq Customers
    BY <1>3, <2>1 DEF OneRecord
  <2>4. \A x, y \in DOMAIN customers' : customers'[x] = customers'[y]
          => x = y \/ customers'[x] = None
    BY <2>1 DEF OneRecord
  <2> QED
    BY <1>1, <1>3, <2>1, <2>2, <2>3, <2>4 DEF OneRecord
<1> QED
  BY <1>2, <1>3 DEF EnsureCustomer

\* A request that changes one bill keeps the invariant if it leaves that bill as it should be.
LEMMA ChangeKeeps ==
    ASSUME LedgerInv, NEW s \in Sales, NEW to, Change(s, to), Sound(to, now),
           s \notin unmarked' => Explained(s, to, Day(now), printed[s]),
           unmarked \subseteq unmarked', unmarked' \subseteq Sales,
           ticket' \in [Sales -> StoredTicket], \A x \in Sales : TicketSound(x, ticket'[x], now),
           OneRecord(customers'), DOMAIN customers \subseteq DOMAIN customers',
           to.customerId \in DOMAIN customers' \cup {None}
    PROVE  LedgerInv'
<1>1. now' = now /\ printed' = printed /\ changes' = changes + 1 /\ bill' = [bill EXCEPT ![s] = to]
  BY DEF Change
<1>2. to \in StoredBill
  BY DEF Sound
<1>3. bill' \in [Sales -> StoredBill] /\ bill'[s] = to /\ \A x \in Sales \ {s} : bill'[x] = bill[x]
  BY <1>1, <1>2 DEF LedgerInv, LedgerTypes
<1>4. LedgerTypes'
  BY <1>1, <1>3 DEF LedgerInv, LedgerTypes
<1>5. \A x \in Sales : Sound(bill'[x], now') /\ TicketSound(x, ticket'[x], now')
  BY <1>1, <1>3 DEF LedgerInv
<1>6. \A x \in Sales : bill'[x].customerId \in DOMAIN customers' \cup {None}
  BY <1>3 DEF LedgerInv
<1>7. \A x \in Sales \ unmarked' : Explained(x, bill'[x], Day(now'), printed'[x])
  BY <1>1, <1>3 DEF LedgerInv
<1>8. Day(now)' = Day(now')
  BY DEF Day
<1>9. \A x \in Sales \ unmarked' : Explained(x, bill[x], Day(now), printed[x])'
        <=> Explained(x, bill'[x], Day(now'), printed'[x])
  BY DEF Explained, Day, Charge, Subtotal, SumOfLines, SumOver, Corrections, LaterIn,
       ReversedLater, After
<1> QED
  BY <1>4, <1>5, <1>6, <1>7, <1>9 DEF LedgerInv, Sound, TicketSound

\* Ringing a bill up keeps the invariant: the ticket it closes was open until now.
LEMMA RingUpKeeps ==
    ASSUME LedgerInv, NEW s \in Sales, RingUp(s)
    PROVE  LedgerInv'
<1> DEFINE b == bill[s]
           to == [b EXCEPT !.status = "DRAFT", !.createdAt = now, !.phoneNumber = s.number,
                           !.customerId = s.customer]
           closed == [ticket[s] EXCEPT !.status = "CLOSED", !.checkInAt = now - s.stay,
                      !.checkOutAt = now]
<1>1. Change(s, to) /\ unmarked' = unmarked /\ customers' = customers /\ b.status = "NONE"
      /\ s.customer \in DOMAIN customers \cup {None}
  BY SalesAreSales DEF RingUp
<1>2. now \in Times /\ now \in Int /\ now # None /\ s.stay \in Int
      /\ Sound(b, now) /\ printed[s] \in Int /\ OneRecord(customers) /\ unmarked \subseteq Sales
  BY SalesAreSales, TimesAreMinutes DEF LedgerInv, LedgerTypes
<1>3. b \in StoredBill
  BY <1>2 DEF Sound
<1> DEFINE number == s.number
           c == s.customer
<1>10. number \in Numbers \cup {None} /\ c \in Customers \cup {None}
  BY SalesAreSales
<1>11. to = [b EXCEPT !.status = "DRAFT", !.createdAt = now, !.phoneNumber = number,
             !.customerId = c]
  BY Zenon
<1> HIDE DEF b, number, c, to
<1>4. Sound(to, now) /\ Explained(s, to, Day(now), printed[s])
  BY <1>1, <1>2, <1>10, <1>11, DraftIsSound
<1>5. to.customerId = s.customer
  BY <1>3, <1>11 DEF StoredBill, c
<1>6. ticket \in [Sales -> StoredTicket] /\ \A x \in Sales : TicketSound(x, ticket[x], now)
  BY DEF LedgerInv, LedgerTypes
<1>7. closed \in StoredTicket /\ TicketSound(s, closed, now)
  <2>1. ticket[s] \in StoredTicket /\ TicketSound(s, ticket[s], now) /\ now <= now
    BY <1>2, <1>6
  <2> DEFINE since == now - s.stay
  <2>2. closed \in StoredTicket /\ closed.status = "CLOSED" /\ closed.checkInAt = since
        /\ closed.checkOutAt = now /\ closed.voidedAt = ticket[s].voidedAt
    <3>1. since \in Int
      BY <1>2
    <3>2. closed = [ticket[s] EXCEPT !.status = "CLOSED", !.checkInAt = since, !.checkOutAt = now]
      BY Zenon
    <3> HIDE DEF since, closed
    <3> QED
      BY <1>2, <2>1, <3>1, <3>2 DEF StoredTicket, Moment
  <2> HIDE DEF closed
  <2> QED
    BY <1>2, <2>1, <2>2 DEF TicketSound
<1>8. ticket' = IF s.stay = 0 THEN ticket ELSE [ticket EXCEPT ![s] = closed]
  BY <1>6 DEF RingUp
<1> HIDE DEF closed
<1>9. ticket' \in [Sales -> StoredTicket] /\ \A x \in Sales : TicketSound(x, ticket'[x], now)
  BY <1>6, <1>7, <1>8
<1> QED
  BY <1>1, <1>2, <1>4, <1>5, <1>9, ChangeKeeps

\* Payment keeps the invariant.
LEMMA CompleteKeeps ==
    ASSUME LedgerInv, NEW s \in Sales, NEW backdated \in BOOLEAN, NEW c \in Customers \cup {None},
           CompleteBill(s, backdated, c)
    PROVE  LedgerInv'
<1> DEFINE b == bill[s]
           to == [b EXCEPT !.status = "PAID", !.paymentMethod = s.method, !.customerId = c,
                           !.paidAt = IF backdated THEN b.createdAt ELSE now,
                           !.paymentRecordedAt = IF backdated THEN now ELSE None]
<1>1. Change(s, to) /\ unmarked' = unmarked /\ ticket' = ticket /\ b.status = "DRAFT"
      /\ EnsureCustomer(b.customerId, b.phoneNumber, c)
  BY DEF CompleteBill
<1>2. now \in Times /\ Sound(b, now) /\ printed[s] \in Int
        /\ b.customerId \in DOMAIN customers \cup {None}
      /\ OneRecord(customers) /\ unmarked \subseteq Sales
  BY DEF LedgerInv, LedgerTypes
<1>3. b.phoneNumber \in Numbers \cup {None} /\ b \in StoredBill
  BY <1>2 DEF Sound, StoredBill
<1> HIDE DEF b
<1>4. /\ OneRecord(customers') /\ DOMAIN customers \subseteq DOMAIN customers'
      /\ c \in DOMAIN customers' \cup {None} /\ (b.phoneNumber # None => c # None)
  BY <1>1, <1>2, <1>3, EnsureKeeps
<1>5. Sound(to, now) /\ Explained(s, to, Day(now), printed[s])
  BY <1>1, <1>2, <1>4, PaymentIsSound
<1>6. to.customerId = c
  BY <1>3 DEF StoredBill
<1> HIDE DEF to
<1>7. ticket' \in [Sales -> StoredTicket] /\ \A x \in Sales : TicketSound(x, ticket'[x], now)
  BY <1>1 DEF LedgerInv, LedgerTypes
<1> QED
  BY <1>1, <1>2, <1>4, <1>5, <1>6, <1>7, ChangeKeeps

\* A refund keeps the invariant.
LEMMA RefundKeeps ==
    ASSUME LedgerInv, NEW s \in Sales, RefundBill(s)
    PROVE  LedgerInv'
<1> DEFINE b == bill[s]
           to == [b EXCEPT !.status = "REFUNDED", !.refundedAt = now]
<1>1. Change(s, to) /\ unmarked' = unmarked /\ ticket' = ticket /\ customers' = customers
        /\ b.status = "PAID"
  BY DEF RefundBill
<1>2. now \in Times /\ Sound(b, now) /\ printed[s] \in Int
        /\ b.customerId \in DOMAIN customers \cup {None}
      /\ OneRecord(customers) /\ unmarked \subseteq Sales
      /\ (s \notin unmarked => Explained(s, b, Day(now), printed[s]))
  BY DEF LedgerInv, LedgerTypes
<1>3. b \in StoredBill
  BY <1>2 DEF Sound
<1> HIDE DEF b
<1>4. Sound(to, now)
        /\ (Explained(s, b, Day(now), printed[s]) => Explained(s, to, Day(now), printed[s]))
  BY <1>1, <1>2, ReversalIsSound
<1>5. to.customerId = b.customerId
  BY <1>3 DEF StoredBill
<1> HIDE DEF to
<1>6. ticket' \in [Sales -> StoredTicket] /\ \A x \in Sales : TicketSound(x, ticket'[x], now)
  BY <1>1 DEF LedgerInv, LedgerTypes
<1> QED
  BY <1>1, <1>2, <1>4, <1>5, <1>6, ChangeKeeps

\* A cancellation keeps the invariant, and its ticket is open again.
LEMMA CancelKeeps ==
    ASSUME LedgerInv, NEW s \in Sales, CancelBill(s)
    PROVE  LedgerInv'
<1> DEFINE b == bill[s]
           to == [b EXCEPT !.status = "CANCELLED", !.cancelledAt = now]
           reopened == [ticket[s] EXCEPT !.status = "ACTIVE", !.checkOutAt = None]
<1>1. Change(s, to) /\ unmarked' = unmarked /\ customers' = customers
        /\ b.status \in {"DRAFT", "PAID"}
  BY SMTT(30) DEF CancelBill
<1>2. now \in Times /\ Sound(b, now) /\ printed[s] \in Int
        /\ b.customerId \in DOMAIN customers \cup {None}
      /\ OneRecord(customers) /\ unmarked \subseteq Sales
      /\ (s \notin unmarked => Explained(s, b, Day(now), printed[s]))
  BY DEF LedgerInv, LedgerTypes
<1>3. b \in StoredBill
  BY <1>2 DEF Sound
<1> HIDE DEF b
<1>4. Sound(to, now)
        /\ (Explained(s, b, Day(now), printed[s]) => Explained(s, to, Day(now), printed[s]))
  BY <1>1, <1>2, ReversalIsSound
<1>5. to.customerId = b.customerId
  BY <1>3 DEF StoredBill
<1> HIDE DEF to
<1>6. ticket \in [Sales -> StoredTicket] /\ \A x \in Sales : TicketSound(x, ticket[x], now)
  BY DEF LedgerInv, LedgerTypes
<1>7. reopened \in StoredTicket /\ TicketSound(s, reopened, now)
  BY <1>6 DEF StoredTicket, TicketSound, Moment
<1>8. ticket' = IF ticket[s].status # "CLOSED" THEN ticket ELSE [ticket EXCEPT ![s] = reopened]
  BY <1>6 DEF CancelBill
<1> HIDE DEF reopened
<1>9. ticket' \in [Sales -> StoredTicket] /\ \A x \in Sales : TicketSound(x, ticket'[x], now)
  BY <1>6, <1>7, <1>8
<1> QED
  BY <1>1, <1>2, <1>4, <1>5, <1>9, ChangeKeeps

\* A void keeps the invariant: it leaves the bill as it is.
LEMMA VoidKeeps ==
    ASSUME LedgerInv, NEW s \in Sales, VoidSession(s)
    PROVE  LedgerInv'
<1> DEFINE voided == [ticket[s] EXCEPT !.status = "VOIDED", !.voidedAt = now]
<1>1. Change(s, bill[s]) /\ unmarked' = unmarked /\ customers' = customers
  BY DEF VoidSession
<1>2. now \in Times /\ now \in Int /\ Sound(bill[s], now)
        /\ bill[s].customerId \in DOMAIN customers \cup {None}
      /\ OneRecord(customers) /\ unmarked \subseteq Sales
      /\ (s \notin unmarked => Explained(s, bill[s], Day(now), printed[s]))
  BY TimesAreMinutes DEF LedgerInv, LedgerTypes
<1>3. ticket \in [Sales -> StoredTicket] /\ \A x \in Sales : TicketSound(x, ticket[x], now)
  BY DEF LedgerInv, LedgerTypes
<1>4. voided \in StoredTicket /\ TicketSound(s, voided, now)
  <2>1. ticket[s] \in StoredTicket /\ TicketSound(s, ticket[s], now) /\ now <= now
    BY <1>2, <1>3
  <2>2. voided \in StoredTicket /\ voided.status = "VOIDED" /\ voided.voidedAt = now
        /\ voided.checkOutAt = ticket[s].checkOutAt
    BY <1>2, <2>1 DEF StoredTicket, Moment
  <2> HIDE DEF voided
  <2> QED
    BY <2>1, <2>2 DEF TicketSound
<1>5. ticket' = [ticket EXCEPT ![s] = voided]
  BY <1>3 DEF VoidSession
<1> HIDE DEF voided
<1>6. ticket' \in [Sales -> StoredTicket] /\ \A x \in Sales : TicketSound(x, ticket'[x], now)
  BY <1>3, <1>4, <1>5
<1> QED
  BY <1>1, <1>2, <1>6, ChangeKeeps

\* A test mark keeps the invariant.
LEMMA MarkKeeps ==
    ASSUME LedgerInv, NEW s \in Sales, NEW flag \in BOOLEAN, SetTestFlag(s, flag)
    PROVE  LedgerInv'
<1> DEFINE b == bill[s]
           markedAt == IF flag THEN now ELSE None
           to == [b EXCEPT !.isTestBill = flag, !.testMarkedAt = markedAt]
           marked == [ticket[s] EXCEPT !.isTestBill = flag]
<1>1. Change(s, to) /\ customers' = customers /\ b.status \in {"PAID", "CANCELLED", "REFUNDED"}
      /\ unmarked' = IF flag THEN unmarked ELSE unmarked \cup {s}
  BY DEF SetTestFlag
<1>2. now \in Times /\ Sound(b, now) /\ printed[s] \in Int
        /\ b.customerId \in DOMAIN customers \cup {None}
      /\ OneRecord(customers) /\ unmarked \subseteq Sales
  BY DEF LedgerInv, LedgerTypes
<1>3. \/ flag = TRUE /\ to = [b EXCEPT !.isTestBill = TRUE, !.testMarkedAt = now]
      \/ flag = FALSE /\ to = [b EXCEPT !.isTestBill = FALSE, !.testMarkedAt = None]
  <2>1. CASE flag = TRUE
    BY <2>1
  <2>2. CASE flag = FALSE
    BY <2>2
  <2> QED
    BY <2>1, <2>2
<1> HIDE DEF b, to
<1>4. Marked(b, to, now) /\ (flag => to.isTestBill)
  <2>1. b \in StoredBill /\ now \in Moment /\ None \in Moment
    BY <1>2 DEF Sound, Moment
  <2>2. CASE flag = TRUE /\ to = [b EXCEPT !.isTestBill = TRUE, !.testMarkedAt = now]
    BY <2>1, <2>2 DEF StoredBill, Marked
  <2>3. CASE flag = FALSE /\ to = [b EXCEPT !.isTestBill = FALSE, !.testMarkedAt = None]
    BY <2>1, <2>3 DEF StoredBill, Marked
  <2> QED
    BY <1>3, <2>2, <2>3
<1>5. /\ Sound(to, now) /\ to.customerId = b.customerId
      /\ to.isTestBill => Explained(s, to, Day(now), printed[s])
  BY <1>1, <1>2, <1>4, MarkIsSound
<1>6. ticket \in [Sales -> StoredTicket] /\ \A x \in Sales : TicketSound(x, ticket[x], now)
  BY DEF LedgerInv, LedgerTypes
<1>7. marked \in StoredTicket /\ TicketSound(s, marked, now)
  BY <1>6 DEF StoredTicket, TicketSound, Moment
<1>8. ticket' = IF ticket[s].status # "CLOSED" THEN ticket ELSE [ticket EXCEPT ![s] = marked]
  BY <1>6 DEF SetTestFlag
<1> HIDE DEF marked
<1>9. ticket' \in [Sales -> StoredTicket] /\ \A x \in Sales : TicketSound(x, ticket'[x], now)
  BY <1>6, <1>7, <1>8
<1>10. /\ s \notin unmarked' => Explained(s, to, Day(now), printed[s])
       /\ unmarked \subseteq unmarked' /\ unmarked' \subseteq Sales
  BY <1>1, <1>2, <1>4, <1>5
<1> QED
  BY <1>1, <1>2, <1>5, <1>9, <1>10, ChangeKeeps

\* A correction of the amount or the method keeps the invariant.
LEMMA CorrectAmountKeeps ==
    ASSUME LedgerInv, NEW s \in Sales, NEW received \in Int, NEW method \in Methods,
           CorrectAmount(s, received, method)
    PROVE  LedgerInv'
<1> DEFINE b == bill[s]
           writeOff == Charge(s) - received
           new == [b EXCEPT !.writeOff = writeOff, !.paymentMethod = method]
           to == [new EXCEPT !.revisions
                  = Append(@, [editedAt |-> now, amount |-> b.writeOff - new.writeOff])]
<1>1. Change(s, to) /\ unmarked' = unmarked /\ ticket' = ticket /\ customers' = customers
        /\ b.status = "PAID"
  BY DEF CorrectAmount, Correction
<1>2. now \in Times /\ Sound(b, now) /\ printed[s] \in Int
        /\ b.customerId \in DOMAIN customers \cup {None}
      /\ OneRecord(customers) /\ unmarked \subseteq Sales
      /\ (s \notin unmarked => Explained(s, b, Day(now), printed[s]))
  BY DEF LedgerInv, LedgerTypes
<1>3. writeOff \in Int
  BY ChargeType
<1>4. b \in StoredBill /\ (b.phoneNumber # None => b.customerId # None)
  BY <1>1, <1>2 DEF Sound
<1> HIDE DEF b, writeOff
<1>5. Altered(b, new) /\ new.customerId = b.customerId
  BY <1>3, <1>4 DEF StoredBill, Altered
<1> HIDE DEF new
<1>6. /\ Sound(to, now) /\ to.customerId = new.customerId
      /\ Explained(s, b, Day(now), printed[s]) => Explained(s, to, Day(now), printed[s])
  BY <1>1, <1>2, <1>5, CorrectionIsSound
<1> HIDE DEF to
<1>7. ticket' \in [Sales -> StoredTicket] /\ \A x \in Sales : TicketSound(x, ticket'[x], now)
  BY <1>1 DEF LedgerInv, LedgerTypes
<1> QED
  BY <1>1, <1>2, <1>5, <1>6, <1>7, ChangeKeeps

\* A correction of the number keeps the invariant: the bill follows its customer.
LEMMA CorrectNumberKeeps ==
    ASSUME LedgerInv, NEW s \in Sales, NEW number \in Numbers \cup {None},
           NEW c \in Customers \cup {None},
           CorrectNumber(s, number, c)
    PROVE  LedgerInv'
<1> DEFINE b == bill[s]
           new == [b EXCEPT !.phoneNumber = number, !.customerId = c]
           to == [new EXCEPT !.revisions
                  = Append(@, [editedAt |-> now, amount |-> b.writeOff - new.writeOff])]
<1>1. Change(s, to) /\ unmarked' = unmarked /\ ticket' = ticket /\ b.status = "PAID"
      /\ EnsureCustomer(None, number, c)
  BY DEF CorrectNumber, Correction
<1>2. now \in Times /\ Sound(b, now) /\ printed[s] \in Int
      /\ OneRecord(customers) /\ unmarked \subseteq Sales
      /\ (s \notin unmarked => Explained(s, b, Day(now), printed[s]))
  BY DEF LedgerInv, LedgerTypes
<1>3. /\ OneRecord(customers') /\ DOMAIN customers \subseteq DOMAIN customers'
      /\ c \in DOMAIN customers' \cup {None} /\ (number # None => c # None)
  BY <1>1, <1>2, EnsureKeeps
<1>4. b \in StoredBill /\ b.paymentMethod \in Methods
  BY <1>1, <1>2 DEF Sound
<1> HIDE DEF b
<1>5. Altered(b, new) /\ new.customerId = c
  BY <1>3, <1>4 DEF StoredBill, Altered
<1> HIDE DEF new
<1>6. /\ Sound(to, now) /\ to.customerId = new.customerId
      /\ Explained(s, b, Day(now), printed[s]) => Explained(s, to, Day(now), printed[s])
  BY <1>1, <1>2, <1>5, CorrectionIsSound
<1> HIDE DEF to
<1>7. ticket' \in [Sales -> StoredTicket] /\ \A x \in Sales : TicketSound(x, ticket'[x], now)
  BY <1>1 DEF LedgerInv, LedgerTypes
<1> QED
  BY <1>1, <1>2, <1>3, <1>5, <1>6, <1>7, ChangeKeeps

\* What does not touch the bills and the clock leaves them sound and explained.
LEMMA SameBills ==
    ASSUME LedgerInv, bill' = bill, ticket' = ticket, now' = now, printed' = printed,
           unmarked' = unmarked,
           changes' \in Nat, OneRecord(customers'), DOMAIN customers \subseteq DOMAIN customers'
    PROVE  LedgerInv'
<1>1. LedgerTypes'
  BY DEF LedgerInv, LedgerTypes
<1>2. \A x \in Sales : Sound(bill[x], now) /\ TicketSound(x, ticket[x], now)
  BY DEF LedgerInv
<1>3. \A x \in Sales : bill[x].customerId \in DOMAIN customers' \cup {None}
  BY DEF LedgerInv
<1>4. \A x \in Sales \ unmarked : Explained(x, bill[x], Day(now), printed[x])
  BY DEF LedgerInv
<1>5. \A x \in Sales : /\ Sound(bill[x], now)' <=> Sound(bill[x], now)
                       /\ TicketSound(x, ticket[x], now)' <=> TicketSound(x, ticket[x], now)
  BY DEF Sound, TicketSound
<1>6. \A x \in Sales : Explained(x, bill[x], Day(now), printed[x])'
        <=> Explained(x, bill[x], Day(now), printed[x])
  BY DEF Explained, Day, Charge, Subtotal, SumOfLines, SumOver, Corrections, LaterIn,
       ReversedLater, After
<1> QED
  BY <1>1, <1>2, <1>3, <1>4, <1>5, <1>6 DEF LedgerInv

\* A customer that is added or changes the number keeps the invariant.
LEMMA SetNumberKeeps ==
    ASSUME LedgerInv, NEW c \in Customers, NEW number \in Numbers \cup {None}, SetNumber(c, number)
    PROVE  LedgerInv'
<1>1. /\ customers' = Added(c, number) /\ changes' \in Nat
      /\ number # None => \A d \in DOMAIN customers : customers[d] # number
  BY DEF SetNumber, LedgerInv, LedgerTypes, Known
<1>2. OneRecord(customers)
  BY DEF LedgerInv, LedgerTypes
<1>3. DOMAIN customers' = DOMAIN customers \cup {c} /\ customers'[c] = number
      /\ \A d \in DOMAIN customers \ {c} : customers'[d] = customers[d]
  BY <1>1 DEF Added
<1>4. customers' \in [DOMAIN customers' -> Numbers \cup {None}]
  BY <1>1, <1>2 DEF Added, OneRecord
<1>5. \A x, y \in DOMAIN customers' : customers'[x] = customers'[y] => x = y \/ customers'[x] = None
  BY <1>1, <1>2, <1>3 DEF OneRecord
<1>6. OneRecord(customers') /\ DOMAIN customers \subseteq DOMAIN customers'
  BY <1>2, <1>3, <1>4, <1>5 DEF OneRecord
<1> QED
  BY <1>1, <1>6, SameBills DEF SetNumber

\* When a day is over, what is printed is what each of its bills adds then.
LEMMA TimeKeeps ==
    ASSUME LedgerInv, NEW to \in Times, TimePasses(to)
    PROVE  LedgerInv'
<1>1. now' = to /\ now <= to /\ now \in Times
      /\ bill' = bill /\ ticket' = ticket /\ customers' = customers /\ changes' = changes
      /\ unmarked' = unmarked
  <2>1. now \in Times /\ now > now - 1
    BY TimesAreMinutes DEF LedgerInv, LedgerTypes
  <2> QED
    BY <2>1, TimesAreMinutes DEF TimePasses
<1>2. now \in Int /\ to \in Int /\ Day(now) \in Int /\ Day(to) \in Int
  BY <1>1, TimesAreMinutes, DayIs
<1>3. \A s \in Sales : bill[s] \in StoredBill /\ Sound(bill[s], now)
        /\ TicketSound(s, ticket[s], now)
  BY DEF LedgerInv, LedgerTypes
<1>4. \A s \in Sales : Takings(s) \in Int
  BY <1>3, ChargeType DEF Takings, GrandTotal, StoredBill
<1>5. printed' = [s \in Sales |->
          IF bill[s].paidAt # None /\ Day(bill[s].paidAt) = Day(now) /\ Day(now) < Day(to)
          THEN Takings(s) ELSE printed[s]]
  BY DEF TimePasses
<1>6. printed' \in [Sales -> Int]
  BY <1>4, <1>5 DEF LedgerInv, LedgerTypes
<1>7. LedgerTypes'
  BY <1>1, <1>6 DEF LedgerInv, LedgerTypes
<1>8. \A s \in Sales : Sound(bill[s], to) /\ TicketSound(s, ticket[s], to)
  <2> TAKE s \in Sales
  <2>1. Sound(bill[s], to)
    BY <1>1, <1>3, SoundLater
  <2>2. TicketSound(s, ticket[s], to)
    BY <1>1, <1>3, TicketLater
  <2> QED
    BY <2>1, <2>2
<1>9. \A s \in Sales \ unmarked : Explained(s, bill[s], Day(to), printed'[s])
  <2> SUFFICES ASSUME NEW s \in Sales \ unmarked, bill[s].paidAt # None,
                      Day(bill[s].paidAt) < Day(to),
                      ~ bill[s].isTestBill, bill[s].paymentRecordedAt = None
               PROVE  (IF bill[s].status = "PAID" THEN Charge(s) - bill[s].writeOff ELSE 0)
                          = printed'[s] + Corrections(bill[s])
                            - (IF ReversedLater(bill[s]) THEN Charge(s) - bill[s].writeOff ELSE 0)
    BY DEF Explained
  <2> DEFINE b == bill[s]
  <2>1. /\ Sound(b, now) /\ b \in StoredBill /\ b.paidAt \in Times /\ Day(b.paidAt) \in Int
        /\ Day(b.paidAt) <= Day(now)
    BY <1>1, <1>3, MomentsAre
  <2>2. CASE Day(b.paidAt) < Day(now)
    <3>1. printed'[s] = printed[s]
      BY <1>2, <1>5, <2>1, <2>2
    <3>2. Explained(s, b, Day(now), printed[s])
      BY DEF LedgerInv
    <3> QED
      BY <2>2, <3>1, <3>2 DEF Explained
  <2>3. CASE Day(b.paidAt) = Day(now)
    <3>1. printed'[s] = IF b.status = "PAID" THEN Charge(s) - b.writeOff ELSE 0
      BY <1>5, <2>3 DEF Takings, GrandTotal
    <3>2. \A d \in Times : d <= now => ~ After(Day(b.paidAt), d)
      <4> TAKE d \in Times
      <4> HAVE d <= now
      <4>1. d \in Int /\ Day(d) \in Int /\ Day(d) <= Day(now)
        BY <1>2, TimesAreMinutes, DayIs, DaysGrow
      <4>2. After(Day(b.paidAt), d) <=> Day(b.paidAt) < Day(d)
        BY <2>1, AfterIs
      <4> QED
        BY <1>2, <2>3, <4>1, <4>2
    <3>3. LaterIn(b) = {}
      <4>1. \A i \in DOMAIN b.revisions : b.revisions[i].editedAt \in Times
              /\ b.revisions[i].editedAt <= now
        BY <1>1, <2>1, MomentsAre
      <4> QED
        BY <3>2, <4>1 DEF LaterIn
    <3>4. ~ ReversedLater(b)
      <4>1. \A d \in {b.cancelledAt, b.refundedAt} : d # None => d \in Times /\ d <= now
        BY <1>1, <2>1, MomentsAre
      <4> QED
        BY <3>2, <4>1, NeverWithin DEF ReversedLater
    <3>5. Corrections(b) = 0
      BY <3>3, NothingLater
    <3>6. Charge(s) - b.writeOff \in Int
      BY <2>1, ChargeType DEF StoredBill
    <3> HIDE DEF b
    <3>7. (IF b.status = "PAID" THEN Charge(s) - b.writeOff ELSE 0) \in Int
      BY <3>6
    <3> QED
      BY <3>1, <3>4, <3>5, <3>7 DEF b
  <2> QED
    BY <1>2, <2>1, <2>2, <2>3
<1>10. \A s \in Sales : bill[s].customerId \in DOMAIN customers \cup {None}
  BY DEF LedgerInv
<1>11. \A s \in Sales : /\ Sound(bill[s], now)' <=> Sound(bill[s], to)
                        /\ TicketSound(s, ticket[s], now)' <=> TicketSound(s, ticket[s], to)
  BY <1>1 DEF Sound, TicketSound
<1>12. \A s \in Sales : Explained(s, bill[s], Day(now), printed[s])'
         <=> Explained(s, bill[s], Day(to), printed'[s])
  BY <1>1 DEF Explained, Day, Charge, Subtotal, SumOfLines, SumOver, Corrections, LaterIn,
       ReversedLater, After
<1> QED
  BY <1>1, <1>7, <1>8, <1>9, <1>10, <1>11, <1>12 DEF LedgerInv

\* In every state the ledger reaches, each bill and each ticket is sound, every bill is linked to a
\* record there is, and what a bill of an earlier day adds to its takings differs from what was
\* printed only by the corrections and the reversal that are written on it.
THEOREM LedgerInvariant == Spec => []LedgerInv
<1>1. Init => LedgerInv
  <2> SUFFICES ASSUME Init PROVE LedgerInv
    OBVIOUS
  <2> DEFINE nothing == <<>>
  <2>1. NoBill \in StoredBill
    <3>1. nothing \in Seq([editedAt : Times, amount : Int])
      OBVIOUS
    <3> QED
      BY <3>1 DEF NoBill, StoredBill, Moment, Statuses
  <2>2. NoBill.status = "NONE" /\ NoBill.createdAt = None /\ NoBill.paidAt = None
        /\ NoBill.paymentRecordedAt = None /\ NoBill.cancelledAt = None /\ NoBill.refundedAt = None
        /\ NoBill.testMarkedAt = None /\ ~ NoBill.isTestBill /\ NoBill.customerId = None
        /\ DOMAIN NoBill.revisions = {}
    BY DEF NoBill
  <2>3. Sound(NoBill, now)
    BY <2>1, <2>2 DEF Sound
  <2>4. NoTicket \in StoredTicket /\ TicketSound(NoTicket, NoTicket, now)
    BY DEF NoTicket, StoredTicket, TicketSound, Moment
  <2>5. \A s \in Sales : bill[s] = NoBill /\ ticket[s] = NoTicket /\ TicketSound(s, NoTicket, now)
    BY <2>4 DEF Init, NoTicket, StoredTicket, TicketSound, Moment
  <2>6. \A s \in Sales : Explained(s, NoBill, Day(now), printed[s])
    BY <2>2 DEF Explained
  <2>7. LedgerTypes
    BY <2>1, <2>4, CustomersAreRecords DEF Init, LedgerTypes, OneRecord
  <2> QED
    BY <2>2, <2>3, <2>5, <2>6, <2>7 DEF LedgerInv
<1>2. LedgerInv /\ [Next]_vars => LedgerInv'
  <2> SUFFICES ASSUME LedgerInv, [Next]_vars PROVE LedgerInv'
    OBVIOUS
  <2>1. ASSUME NEW s \in Sales, SaleStep(s) PROVE LedgerInv'
    <3>1. CASE \E received \in {0, Charge(s)}, method \in {s.method, "CARD"} :
                 CorrectAmount(s, received, method)
      BY <3>1, ChargeType, SalesAreSales, CorrectAmountKeeps DEF Methods
    <3>2. CASE \E number \in Numbers \cup {None}, c \in Customers \cup {None} :
                 CorrectNumber(s, number, c)
      BY <3>2, CorrectNumberKeeps
    <3>3. CASE \E backdated \in BOOLEAN, c \in Customers \cup {None} : CompleteBill(s, backdated, c)
      BY <3>3, CompleteKeeps
    <3>4. CASE \E flag \in BOOLEAN : SetTestFlag(s, flag)
      BY <3>4, MarkKeeps
    <3>5. CASE \E entry \in DOMAIN bill[s].revisions : RecordCorrection(s, entry)
      <4>1. OneRecord(customers) /\ changes \in Nat
        BY DEF LedgerInv, LedgerTypes
      <4> QED
        BY <3>5, <4>1, SameBills DEF RecordCorrection
    <3> QED
      BY <2>1, <3>1, <3>2, <3>3, <3>4, <3>5, RingUpKeeps, RefundKeeps, CancelKeeps, VoidKeeps
      DEF SaleStep
  <2>2. ASSUME NEW c \in Customers, NEW number \in Numbers \cup {None}, SetNumber(c, number)
        PROVE  LedgerInv'
    BY <2>2, SetNumberKeeps
  <2>3. ASSUME NEW to \in Times, TimePasses(to) PROVE LedgerInv'
    BY <2>3, TimeKeeps
  <2>4. CASE UNCHANGED vars
    <3>1. OneRecord(customers) /\ changes \in Nat
      BY DEF LedgerInv, LedgerTypes
    <3> QED
      BY <2>4, <3>1, SameBills DEF vars
  <2> QED
    BY <2>1, <2>2, <2>3, <2>4 DEF Next
<1> QED
  BY <1>1, <1>2, PTL DEF Spec

\* A bill keeps the corrections that are written on it.
Grown(old, new) == DOMAIN old \subseteq DOMAIN new /\ \A i \in DOMAIN old : new[i] = old[i]

\* Then the rows about them stay sound.
LEMMA ChangeKeepsAudit ==
    ASSUME LedgerInv, AuditSound, NEW s \in Sales, NEW to, Change(s, to),
           Grown(bill[s].revisions, to.revisions)
    PROVE  AuditSound'
<1>1. audit' = audit /\ now' = now /\ bill' = [bill EXCEPT ![s] = to] /\ DOMAIN bill = Sales
  BY DEF Change, LedgerInv, LedgerTypes
<1>2. \A x \in Sales : Grown(bill[x].revisions, bill'[x].revisions)
  BY <1>1 DEF Grown
<1> QED
  BY <1>1, <1>2 DEF AuditSound, Grown

\* A correction is appended to those there are.
LEMMA CorrectionGrows ==
    ASSUME NEW b \in StoredBill, NEW new \in StoredBill, new.revisions = b.revisions,
           NEW entry \in [editedAt : Times, amount : Int]
    PROVE  Grown(b.revisions, [new EXCEPT !.revisions = Append(@, entry)].revisions)
<1>1. b.revisions \in Seq([editedAt : Times, amount : Int])
  BY DEF StoredBill
<1>2. [new EXCEPT !.revisions = Append(@, entry)].revisions = Append(b.revisions, entry)
  BY DEF StoredBill
<1>3. /\ DOMAIN Append(b.revisions, entry) = DOMAIN b.revisions \cup {Len(b.revisions) + 1}
      /\ \A i \in DOMAIN b.revisions : Append(b.revisions, entry)[i] = b.revisions[i]
  BY <1>1, SeqIs, SMTT(30)
<1> QED
  BY <1>2, <1>3 DEF Grown

\* No request drops a correction, or a row about one; and a row is written after the correction.
LEMMA AuditKeeps ==
    ASSUME LedgerInv, AuditSound, NEW s \in Sales, SaleStep(s)
    PROVE  AuditSound'
<1> DEFINE b == bill[s]
<1>1. b \in StoredBill /\ now \in Times /\ b.writeOff \in Int /\ Charge(s) \in Int
  BY ChargeType DEF LedgerInv, LedgerTypes, StoredBill
<1>2. ASSUME NEW to, Change(s, to), to.revisions = b.revisions PROVE AuditSound'
  BY <1>2, ChangeKeepsAudit DEF Grown
<1>3. ASSUME NEW new \in StoredBill, new.revisions = b.revisions, Change(s, Correction(s, new))
      PROVE  AuditSound'
  <2> DEFINE entry == [editedAt |-> now, amount |-> bill[s].writeOff - new.writeOff]
  <2>1. entry \in [editedAt : Times, amount : Int]
    BY <1>1 DEF StoredBill
  <2>2. Correction(s, new) = [new EXCEPT !.revisions = Append(@, entry)]
    BY DEF Correction
  <2> HIDE DEF entry
  <2> QED
    BY <1>1, <1>3, <2>1, <2>2, CorrectionGrows, ChangeKeepsAudit
<1>4. CASE RingUp(s)
  <2> DEFINE number == s.number
             c == s.customer
             to == [b EXCEPT !.status = "DRAFT", !.createdAt = now, !.phoneNumber = number,
                             !.customerId = c]
  <2>1. Change(s, to)
    BY <1>4 DEF RingUp
  <2> HIDE DEF b, number, c
  <2>2. to.revisions = b.revisions
    BY <1>1 DEF StoredBill
  <2> QED
    BY <1>2, <2>1, <2>2
<1>5. ASSUME NEW backdated \in BOOLEAN, NEW c \in Customers \cup {None},
             CompleteBill(s, backdated, c)
      PROVE  AuditSound'
  <2> DEFINE method == s.method
             at == IF backdated THEN b.createdAt ELSE now
             recorded == IF backdated THEN now ELSE None
             to == [b EXCEPT !.status = "PAID", !.paymentMethod = method, !.customerId = c,
                             !.paidAt = at, !.paymentRecordedAt = recorded]
  <2>1. Change(s, to)
    BY <1>5 DEF CompleteBill
  <2> HIDE DEF b, method, at, recorded
  <2>2. to.revisions = b.revisions
    BY <1>1 DEF StoredBill
  <2> QED
    BY <1>2, <2>1, <2>2
<1>6. CASE RefundBill(s)
  <2>1. [b EXCEPT !.status = "REFUNDED", !.refundedAt = now].revisions = b.revisions
    BY <1>1 DEF StoredBill
  <2> QED
    BY <1>2, <1>6, <2>1 DEF RefundBill
<1>7. CASE CancelBill(s)
  <2>1. [b EXCEPT !.status = "CANCELLED", !.cancelledAt = now].revisions = b.revisions
    BY <1>1 DEF StoredBill
  <2>2. Change(s, [b EXCEPT !.status = "CANCELLED", !.cancelledAt = now])
    BY <1>7, Zenon DEF CancelBill
  <2> QED
    BY <1>2, <2>1, <2>2
<1>8. CASE VoidSession(s)
  BY <1>2, <1>8 DEF VoidSession
<1>9. ASSUME NEW flag \in BOOLEAN, SetTestFlag(s, flag) PROVE AuditSound'
  <2> DEFINE at == IF flag THEN now ELSE None
             to == [b EXCEPT !.isTestBill = flag, !.testMarkedAt = at]
  <2>1. Change(s, to)
    BY <1>9 DEF SetTestFlag
  <2> HIDE DEF b, at
  <2>2. to.revisions = b.revisions
    BY <1>1 DEF StoredBill
  <2> QED
    BY <1>2, <2>1, <2>2
<1>10. ASSUME NEW received \in Int, NEW method \in Methods, CorrectAmount(s, received, method)
       PROVE  AuditSound'
  <2> DEFINE writeOff == Charge(s) - received
             new == [b EXCEPT !.writeOff = writeOff, !.paymentMethod = method]
  <2>1. Change(s, Correction(s, new)) /\ writeOff \in Int
    BY <1>1, <1>10 DEF CorrectAmount
  <2> HIDE DEF b, writeOff
  <2>2. new \in StoredBill /\ new.revisions = b.revisions
    BY <1>1, <2>1 DEF StoredBill
  <2> QED
    BY <1>3, <2>1, <2>2
<1>11. ASSUME NEW number \in Numbers \cup {None}, NEW c \in Customers \cup {None},
              CorrectNumber(s, number, c)
       PROVE  AuditSound'
  <2> DEFINE new == [b EXCEPT !.phoneNumber = number, !.customerId = c]
  <2>1. Change(s, Correction(s, new))
    BY <1>11 DEF CorrectNumber
  <2>2. new \in StoredBill /\ new.revisions = b.revisions
    BY <1>1 DEF StoredBill
  <2> QED
    BY <1>3, <2>1, <2>2
<1>12. ASSUME NEW entry \in DOMAIN b.revisions, RecordCorrection(s, entry) PROVE AuditSound'
  <2> DEFINE log == [of |-> s, entry |-> entry, at |-> now]
  <2>1. audit' = audit \cup {log} /\ bill' = bill /\ now' = now
    BY <1>12 DEF RecordCorrection
  <2>2. b.revisions[entry].editedAt <= now /\ now <= now
    BY <1>1, TimesAreMinutes DEF LedgerInv, Sound
  <2>3. log.of = s /\ log.entry = entry /\ log.at = now
    OBVIOUS
  <2> HIDE DEF log
  <2> QED
    BY <1>1, <2>1, <2>2, <2>3 DEF AuditSound
<1> HIDE DEF b
<1>13. CASE \E received \in {0, Charge(s)}, method \in {s.method, "CARD"} :
               CorrectAmount(s, received, method)
  BY <1>1, <1>10, <1>13, SalesAreSales DEF Methods
<1> QED
  BY <1>4, <1>5, <1>6, <1>7, <1>8, <1>9, <1>11, <1>12, <1>13 DEF SaleStep, b

\* In every state the rows of the audit log are of corrections made by then.
THEOREM AuditIsSound == Spec => []AuditSound
<1>1. Init => AuditSound
  BY DEF Init, AuditSound
<1>2. LedgerInv /\ AuditSound /\ [Next]_vars => AuditSound'
  <2> SUFFICES ASSUME LedgerInv, AuditSound, [Next]_vars PROVE AuditSound'
    OBVIOUS
  <2>1. ASSUME NEW to \in Times, TimePasses(to) PROVE AuditSound'
    <3>1. bill' = bill /\ audit' = audit /\ now' = to
      BY <2>1 DEF TimePasses
    <3>2. now \in Int /\ to \in Int /\ to > now
      BY <2>1, TimesAreMinutes DEF TimePasses, LedgerInv, LedgerTypes
    <3>3. \A t \in Times : t <= now => t <= to
      BY <3>2, TimesAreMinutes
    <3> QED
      BY <3>1, <3>3 DEF AuditSound
  <2>2. ASSUME NEW c \in Customers, NEW number \in Numbers \cup {None}, SetNumber(c, number)
        PROVE  AuditSound'
    BY <2>2 DEF SetNumber, AuditSound
  <2>3. CASE UNCHANGED vars
    BY <2>3 DEF vars, AuditSound
  <2> QED
    BY <2>1, <2>2, <2>3, AuditKeeps DEF Next
<1> QED
  BY <1>1, <1>2, LedgerInvariant, PTL DEF Spec

\* The types of the ledger, and that a number has one record.
THEOREM LedgerTypesHold == Spec => []LedgerTypes
<1>1. LedgerInv => LedgerTypes
  BY DEF LedgerInv
<1> QED
  BY <1>1, LedgerInvariant, PTL

-----------------------------------------------------------------------------
(* The daily close printed again.                                           *)

Entry(s, i) ==
    [of |-> s, action |-> "CORRECTED", amount |-> bill[s].revisions[i].amount,
     at |-> bill[s].revisions[i].editedAt, entry |-> i]
Reversal(s) ==
    [of |-> s, action |-> bill[s].status, amount |-> GrandTotal(s),
     at |-> IF bill[s].status = "CANCELLED" THEN bill[s].cancelledAt ELSE bill[s].refundedAt,
     entry |-> 0]
Signed(a) == IF a.action = "CORRECTED" THEN a.amount ELSE -a.amount

\* What the daily close of the day it was paid says of a bill.
ListedOf(s) == {a \in Adjustments(Day(bill[s].paidAt)) : a.of = s}

\* A bill is on the daily close of its day with each of its later corrections and its later
\* reversal.
LEMMA ListedIs ==
    ASSUME LedgerInv, NEW s \in Sales, bill[s].paidAt # None, ~ bill[s].isTestBill
    PROVE  ListedOf(s)
            = {Entry(s, i) : i \in LaterIn(bill[s])}
              \cup (IF ReversedLater(bill[s]) THEN {Reversal(s)} ELSE {})
<1> DEFINE b == bill[s]
           day == Day(b.paidAt)
<1>1. now \in Times /\ Sound(b, now)
  BY DEF LedgerInv, LedgerTypes
<1>2. b.paidAt \in Times /\ day \in Int
  BY <1>1, MomentsAre
<1>3. Within(OneDay(day), b.paidAt)
  BY <1>2, WithinIs DEF OneDay
<1>4. s \in Reversed(day) <=> ReversedLater(b)
  BY <1>3 DEF Reversed, ReversedLater
<1>5. s \in CorrectedLater(day) <=> LaterIn(b) # {}
  BY <1>3 DEF CorrectedLater, LaterIn
<1>6. \A x \in Sales : Reversal(x).of = x /\ \A i : Entry(x, i).of = x
  BY DEF Reversal, Entry
<1>7. Adjustments(day) = {Reversal(x) : x \in Reversed(day)}
        \cup UNION {{Entry(x, i) :
                     i \in {i \in DOMAIN bill[x].revisions :
                            After(day, bill[x].revisions[i].editedAt)}} :
                        x \in CorrectedLater(day)}
  BY Zenon DEF Adjustments, Reversal, Entry
<1>8. Reversed(day) \subseteq Sales /\ CorrectedLater(day) \subseteq Sales
  BY DEF Reversed, CorrectedLater
<1>9. LaterIn(b) = {i \in DOMAIN bill[s].revisions : After(day, bill[s].revisions[i].editedAt)}
  BY DEF LaterIn
<1> HIDE DEF b
<1>10. ASSUME NEW a \in Adjustments(day), a.of = s
       PROVE  a \in {Entry(s, i) : i \in LaterIn(b)} \/ (ReversedLater(b) /\ a = Reversal(s))
  <2>1. CASE \E x \in Reversed(day) : a = Reversal(x)
    BY <1>4, <1>6, <1>8, <1>10, <2>1
  <2>2. CASE \E x \in CorrectedLater(day) :
                \E i \in {i \in DOMAIN bill[x].revisions :
                          After(day, bill[x].revisions[i].editedAt)} : a = Entry(x, i)
    BY <1>6, <1>8, <1>9, <1>10, <2>2
  <2> QED
    BY <1>7, <2>1, <2>2
<1>11. \A i \in LaterIn(b) : Entry(s, i) \in Adjustments(day)
  BY <1>5, <1>7, <1>9
<1>12. ReversedLater(b) => Reversal(s) \in Adjustments(day)
  BY <1>4, <1>7
<1> QED
  BY <1>6, <1>10, <1>11, <1>12 DEF b, ListedOf

\* Together they come to the corrections less what was reversed.
LEMMA ListedAddUp ==
    ASSUME LedgerInv, NEW s \in Sales, bill[s].paidAt # None, ~ bill[s].isTestBill
    PROVE  LET amounts == SumFunctionOnSet([a \in ListedOf(s) |-> Signed(a)], ListedOf(s))
           IN  /\ Corrections(bill[s]) \in Int /\ GrandTotal(s) \in Int
               /\ ReversedLater(bill[s]) => amounts = Corrections(bill[s]) - GrandTotal(s)
               /\ ~ ReversedLater(bill[s]) => amounts = Corrections(bill[s])
<1> DEFINE b == bill[s]
           listed == ListedOf(s)
           entries == {Entry(s, i) : i \in LaterIn(b)}
           v == [a \in listed |-> Signed(a)]
           e == [i \in LaterIn(b) |-> Entry(s, i)]
           w == [i \in LaterIn(b) |-> b.revisions[i].amount]
<1>1. listed = entries \cup (IF ReversedLater(b) THEN {Reversal(s)} ELSE {})
  BY ListedIs
<1>2. now \in Times /\ Sound(b, now) /\ b \in StoredBill
  BY DEF LedgerInv, LedgerTypes
<1>3. IsFiniteSet(LaterIn(b)) /\ Corrections(b) \in Int /\ GrandTotal(s) \in Int
  <2>1. b.writeOff \in Int /\ GrandTotal(s) = Charge(s) - b.writeOff
    BY <1>2 DEF StoredBill, GrandTotal
  <2>2. IsFiniteSet(LaterIn(b)) /\ Corrections(b) \in Int
    BY <1>2, CorrectionsType
  <2> QED
    BY <2>1, <2>2, ChargeType
<1>4. \A i \in LaterIn(b) : w[i] \in Int
  BY <1>2, MomentsAre DEF LaterIn
<1>5. \A i \in LaterIn(b) : e[i] = Entry(s, i) /\ Signed(e[i]) = w[i] /\ e[i].entry = i
        /\ e[i].action = "CORRECTED"
  BY DEF Entry, Signed
<1>6. entries = {e[i] : i \in LaterIn(b)}
  BY <1>5
<1>7. Corrections(b) = SumFunctionOnSet(w, LaterIn(b))
  BY DEF Corrections
<1>8. \A a \in listed : v[a] = Signed(a)
  OBVIOUS
<1>9. \A i, j \in LaterIn(b) : e[i] = e[j] => i = j
  BY <1>5
<1>10. IsFiniteSet(entries)
  <2> HIDE DEF e
  <2> QED
    BY <1>3, <1>6, NamesAreFinite
<1> HIDE DEF v, w, e
<1>11. \A i \in LaterIn(b) : v[e[i]] = w[i]
  BY <1>1, <1>5, <1>6, <1>8
<1>12. SumFunctionOnSet(v, entries) = Corrections(b)
  <2>1. SumFunctionOnSet(v, {e[i] : i \in LaterIn(b)}) = SumFunctionOnSet(w, LaterIn(b))
    <3> DEFINE places == LaterIn(b)
    <3>1. IsFiniteSet(places) /\ (\A i \in places : w[i] \in Int /\ v[e[i]] = w[i])
          /\ (\A i, j \in places : e[i] = e[j] => i = j)
      BY <1>3, <1>4, <1>9, <1>11
    <3> HIDE DEF places
    <3>2. SumFunctionOnSet(v, {e[i] : i \in places}) = SumFunctionOnSet(w, places)
      BY <3>1, SumRenamed
    <3> QED
      BY <3>2 DEF places
  <2> HIDE DEF entries
  <2> QED
    BY <1>6, <1>7, <2>1
<1>13. ~ ReversedLater(b) => SumFunctionOnSet(v, listed) = Corrections(b)
  <2> HIDE DEF entries, listed
  <2> QED
    BY <1>1, <1>12
<1>14. ASSUME ReversedLater(b)
       PROVE  SumFunctionOnSet(v, listed) = Corrections(b) - GrandTotal(s)
  <2>1. Reversal(s).action = b.status /\ Reversal(s).amount = GrandTotal(s)
          /\ b.status # "CORRECTED"
    BY <1>14 DEF Reversal, ReversedLater
  <2>2. Reversal(s) \notin entries
    BY <1>5, <1>6, <2>1
  <2>3. listed = entries \cup {Reversal(s)} /\ v[Reversal(s)] = - GrandTotal(s)
    BY <1>1, <1>8, <1>14, <2>1 DEF Signed
  <2>4. \A a \in entries \cup {Reversal(s)} : v[a] \in Int
    BY <1>3, <1>4, <1>6, <1>11, <2>3
  <2> HIDE DEF entries, listed
  <2>5. SumFunctionOnSet(v, entries \cup {Reversal(s)})
          = SumFunctionOnSet(v, entries) + v[Reversal(s)]
    BY <1>10, <2>2, <2>4, SumAdd
  <2> QED
    BY <1>3, <1>12, <2>3, <2>5
<1> QED
  BY <1>3, <1>13, <1>14 DEF v

\* A moment after the day is in the range up to today.
LEMMA AfterIsWithin ==
    ASSUME LedgerInv, NEW s \in Sales, bill[s].paidAt # None, NEW t \in Times, t <= now,
           After(Day(bill[s].paidAt), t)
    PROVE  Within([from |-> Day(bill[s].paidAt), to |-> Day(now)], t)
<1> DEFINE day == Day(bill[s].paidAt)
           r == [from |-> day, to |-> Day(now)]
<1>1. now \in Times /\ Sound(bill[s], now)
  BY DEF LedgerInv, LedgerTypes
<1>2. day \in Int /\ Day(now) \in Int /\ r.from = day /\ r.to = Day(now)
  BY <1>1, MomentsAre
<1>3. Day(t) \in Int /\ Day(t) <= Day(now)
  BY <1>1, TimesAreMinutes, DayIs, DaysGrow
<1>4. day < Day(t)
  BY <1>2, AfterIs
<1> HIDE DEF r
<1>5. Within(r, t) <=> r.from <= Day(t) /\ Day(t) <= r.to
  BY <1>2, WithinIs
<1>6. Within(r, t)
  BY <1>2, <1>3, <1>4, <1>5
<1> QED
  BY <1>6 DEF r

\* Every reversal has its row in the exceptions.
LEMMA ReversalsHaveRows ==
    ASSUME LedgerInv, NEW s \in Sales, bill[s].paidAt # None,
           NEW a \in ListedOf(s), a.action # "CORRECTED"
    PROVE  \E row \in {row \in Exceptions([from |-> Day(bill[s].paidAt), to |-> Day(now)]) :
                       row.of = s} :
               /\ row.at = a.at
               /\ row.type = IF a.action = "CANCELLED" THEN "CANCELLATION" ELSE "REFUND"
<1> DEFINE b == bill[s]
           day == Day(b.paidAt)
           r == [from |-> day, to |-> Day(now)]
           row(type, at) == [type |-> type, of |-> s, at |-> at, entry |-> 0]
<1>1. now \in Times /\ Sound(b, now) /\ ~ b.isTestBill
  BY DEF LedgerInv, LedgerTypes, ListedOf, Adjustments, Reversed, CorrectedLater
<1>2. a \in {Entry(s, i) : i \in LaterIn(b)} \cup (IF ReversedLater(b) THEN {Reversal(s)} ELSE {})
  BY <1>1, ListedIs
<1>3. \A i : Entry(s, i).action = "CORRECTED"
  BY DEF Entry
<1>4. a = Reversal(s) /\ ReversedLater(b)
  BY <1>2, <1>3
<1>5. \A t \in Times : t <= now /\ After(day, t) => Within(r, t)
  BY AfterIsWithin
<1> HIDE DEF r
<1>6. CASE b.status = "CANCELLED"
  <2>1. a.at = b.cancelledAt /\ a.action = "CANCELLED"
    BY <1>4, <1>6 DEF Reversal
  <2>2. After(day, b.cancelledAt) /\ b.cancelledAt # None
    BY <1>4, <1>6, NeverWithin DEF ReversedLater
  <2>3. Within(r, b.cancelledAt)
    BY <1>1, <1>5, <2>2, MomentsAre
  <2>4. s \in CancelledIn(r)
    BY <1>1, <1>6, <2>3 DEF CancelledIn
  <2>5. row("CANCELLATION", a.at) \in Exceptions(r)
    BY <2>1, <2>4, Zenon DEF Exceptions
  <2> QED
    BY <2>1, <2>5 DEF r
<1>7. CASE b.status = "REFUNDED"
  <2>1. a.at = b.refundedAt /\ a.action = "REFUNDED"
    BY <1>4, <1>7 DEF Reversal
  <2>2. After(day, b.refundedAt) /\ b.refundedAt # None
    BY <1>4, <1>7, NeverWithin DEF ReversedLater
  <2>3. Within(r, b.refundedAt)
    BY <1>1, <1>5, <2>2, MomentsAre
  <2>4. s \in {x \in Refunded({x \in Sales : ~ bill[x].isTestBill}) : Within(r, bill[x].refundedAt)}
    BY <1>1, <1>7, <2>3 DEF Refunded
  <2>5. row("REFUND", a.at) \in Exceptions(r)
    BY <2>1, <2>4, Zenon DEF Exceptions
  <2> QED
    BY <2>1, <2>5 DEF r
<1> QED
  BY <1>4, <1>6, <1>7 DEF ReversedLater

\* And so has every correction that the audit log has a row of, when it was made or later.
LEMMA CorrectionsHaveRows ==
    ASSUME LedgerInv, AuditSound, NEW s \in Sales, bill[s].paidAt # None,
           NEW a \in ListedOf(s), a.action = "CORRECTED",
           NEW log \in audit, log.of = s, log.entry = a.entry
    PROVE  \E row \in {row \in Exceptions([from |-> Day(bill[s].paidAt), to |-> Day(now)]) :
                       row.of = s} :
               row.type = "BILL_CORRECTION" /\ row.entry = a.entry /\ row.at >= a.at
<1> DEFINE b == bill[s]
           day == Day(b.paidAt)
           r == [from |-> day, to |-> Day(now)]
           row == [type |-> "BILL_CORRECTION", of |-> log.of, at |-> log.at, entry |-> log.entry]
<1>1. now \in Times /\ Sound(b, now) /\ ~ b.isTestBill
  BY DEF LedgerInv, LedgerTypes, ListedOf, Adjustments, Reversed, CorrectedLater
<1>2. a \in {Entry(s, i) : i \in LaterIn(b)} \cup (IF ReversedLater(b) THEN {Reversal(s)} ELSE {})
  BY <1>1, ListedIs
<1>3. ReversedLater(b) => Reversal(s).action # "CORRECTED"
  BY DEF Reversal, ReversedLater
<1>4. PICK i \in LaterIn(b) : a = Entry(s, i)
  BY <1>2, <1>3
<1>5. a.at = b.revisions[i].editedAt /\ a.entry = i
  BY <1>4 DEF Entry
<1>6. /\ i \in DOMAIN b.revisions /\ After(day, a.at) /\ a.at \in Times
  BY <1>1, <1>4, <1>5, MomentsAre DEF LaterIn
<1>7. log.at \in Times /\ log.at <= now /\ a.at <= log.at
  BY <1>5 DEF AuditSound
<1>8. day \in Int /\ a.at \in Int /\ log.at \in Int
  BY <1>1, <1>6, <1>7, MomentsAre, TimesAreMinutes
<1>9. After(day, log.at)
  <2> DEFINE at == a.at
             loggedAt == log.at
  <2>3. at \in Times /\ After(day, at) /\ at \in Int /\ loggedAt \in Int /\ at <= loggedAt
    BY <1>6, <1>7, <1>8
  <2> HIDE DEF at, loggedAt, day
  <2>4. day < Day(at)
    BY <1>8, <2>3, AfterIs
  <2>5. Day(at) \in Int /\ Day(loggedAt) \in Int
    BY <2>3, DayIs
  <2>6. Day(at) <= Day(loggedAt)
    BY <2>3, DaysGrow
  <2>1. day < Day(a.at) /\ Day(a.at) <= Day(log.at) /\ Day(a.at) \in Int /\ Day(log.at) \in Int
    BY <2>4, <2>5, <2>6 DEF at, loggedAt
  <2>2. day < Day(log.at)
    BY <1>8, <2>1
  <2> QED
    BY <1>7, <1>8, <2>2, AfterIs
<1>10. Within(r, log.at)
  BY <1>7, <1>9, AfterIsWithin
<1> HIDE DEF r
<1>11. row \in Exceptions(r)
  <2>1. log \in {l \in audit : Within(r, l.at)}
    BY <1>10
  <2>2. {[type |-> "BILL_CORRECTION", of |-> l.of, at |-> l.at, entry |-> l.entry] :
            l \in {l \in audit : Within(r, l.at)}} \subseteq Exceptions(r)
    BY Zenon DEF Exceptions
  <2> QED
    BY <2>1, <2>2
<1> QED
  BY <1>7, <1>8, <1>11 DEF r

\* The exceptions name a correction only by its row in the audit log.
LEMMA CorrectionRowsAreLogged ==
    ASSUME NEW r, NEW row \in Exceptions(r), row.type = "BILL_CORRECTION"
    PROVE  \E log \in audit : log.of = row.of /\ log.entry = row.entry /\ log.at = row.at
<1> DEFINE of(type, s, at) == [type |-> type, of |-> s, at |-> at, entry |-> 0]
           logged == {[type |-> "BILL_CORRECTION", of |-> log.of, at |-> log.at,
                       entry |-> log.entry] : log \in {log \in audit : Within(r, log.at)}}
           kinds == {"DISCOUNT", "REFUND", "CANCELLATION", "TEST_FLAG", "VOID", "LATE_PAYMENT"}
<1>1. row \in logged \/ \E type \in kinds : \E s, at : row = of(type, s, at)
  BY Zenon DEF Exceptions
<1>2. \A type \in kinds : \A s, at : of(type, s, at).type # "BILL_CORRECTION"
  OBVIOUS
<1> HIDE DEF of
<1>3. row \in logged
  BY <1>1, <1>2
<1> QED
  BY <1>3

\* What is paid late, or marked as a test, has its row there too.
LEMMA MarksHaveRows ==
    ASSUME LedgerInv, NEW s \in Sales, bill[s].paidAt # None, Day(bill[s].paidAt) < Day(now),
           bill[s].isTestBill \/ bill[s].paymentRecordedAt # None
    PROVE  \E row \in {row \in Exceptions([from |-> Day(bill[s].paidAt), to |-> Day(now)]) :
                       row.of = s} :
               row.type \in {"LATE_PAYMENT", "TEST_FLAG"}
<1> DEFINE b == bill[s]
           r == [from |-> Day(b.paidAt), to |-> Day(now)]
           row(type, at) == [type |-> type, of |-> s, at |-> at, entry |-> 0]
<1>1. now \in Times /\ Sound(b, now)
  BY DEF LedgerInv, LedgerTypes
<1>2. r.from = Day(b.paidAt) /\ r.to = Day(now) /\ r.from \in Int /\ r.to \in Int
      /\ b.paidAt \in Int
  BY <1>1, MomentsAre
<1>3. \A t \in Times : t <= now /\ b.paidAt <= t => Within(r, t)
  <2> TAKE t \in Times
  <2> HAVE t <= now /\ b.paidAt <= t
  <2>1. Day(t) \in Int /\ Day(t) <= Day(now) /\ Day(b.paidAt) <= Day(t)
    BY <1>1, <1>2, TimesAreMinutes, DayIs, DaysGrow
  <2> HIDE DEF r
  <2>2. Within(r, t) <=> r.from <= Day(t) /\ Day(t) <= r.to
    BY <1>2, WithinIs
  <2> QED
    BY <1>2, <2>1, <2>2
<1> HIDE DEF r
<1>4. CASE b.isTestBill
  <2>1. b.testMarkedAt # None /\ b.paidAt <= b.testMarkedAt
    BY <1>1, <1>4 DEF Sound
  <2>2. Within(r, b.testMarkedAt)
    BY <1>1, <1>3, <2>1, MomentsAre
  <2>3. row("TEST_FLAG", b.testMarkedAt) \in Exceptions(r)
    BY <1>4, <2>2, Zenon DEF Exceptions
  <2> QED
    BY <2>3 DEF r
<1>5. CASE ~ b.isTestBill /\ b.paymentRecordedAt # None
  <2>1. b.paidAt <= b.paymentRecordedAt
    BY <1>1, <1>5 DEF Sound
  <2>2. Within(r, b.paymentRecordedAt)
    BY <1>1, <1>3, <1>5, <2>1, MomentsAre
  <2>3. row("LATE_PAYMENT", b.paymentRecordedAt) \in Exceptions(r)
    BY <1>5, <2>2, Zenon DEF Exceptions
  <2> QED
    BY <2>3 DEF r
<1> QED
  BY <1>4, <1>5

\* A daily close printed again differs from the first only by what it, or the exceptions, accounts
\* for: a bill that adds something else is an adjustment of just that amount, or was paid late or
\* marked as a test.  Every reversal among the adjustments has its row in the exceptions at its
\* moment, every correction whose row in the audit log was written has it at that moment or later,
\* and no row is of a correction that was not made by then.
THEOREM ReprintsAreExplained == Spec => []ReprintExplained
<1>1. LedgerInv /\ AuditSound => ReprintExplained
  <2> SUFFICES ASSUME LedgerInv, AuditSound, NEW s \in Sales, bill[s].paidAt # None,
                      Day(bill[s].paidAt) < Day(now)
               PROVE  LET day == Day(bill[s].paidAt)
                          listed == {a \in Adjustments(day) : a.of = s}
                          amounts == SumOver(LAMBDA a :
                                             IF a.action = "CORRECTED" THEN a.amount
                                               ELSE -a.amount, listed)
                          rows == {row \in Exceptions([from |-> day, to |-> Day(now)]) : row.of = s}
                      IN  /\ \/ Takings(s) = printed[s] + amounts
                             \/ \E row \in rows : row.type \in {"LATE_PAYMENT", "TEST_FLAG"}
                             \/ s \in unmarked
                          /\ \A a \in listed : a.action # "CORRECTED" => \E row \in rows :
                                 /\ row.at = a.at
                                 /\ row.type = IF a.action = "CANCELLED" THEN "CANCELLATION"
                                               ELSE "REFUND"
                          /\ \A a \in listed : a.action = "CORRECTED" =>
                                 \/ \E row \in rows :
                                        /\ row.type = "BILL_CORRECTION" /\ row.entry = a.entry
                                        /\ row.at >= a.at
                                 \/ ~ \E log \in audit : log.of = s /\ log.entry = a.entry
                          /\ \A row \in rows : row.type = "BILL_CORRECTION" =>
                                 /\ row.entry \in DOMAIN bill[s].revisions
                                 /\ bill[s].revisions[row.entry].editedAt <= row.at
    BY Zenon DEF ReprintExplained
  <2> DEFINE rows == {row \in Exceptions([from |-> Day(bill[s].paidAt), to |-> Day(now)]) :
                      row.of = s}
             amounts == SumOver(LAMBDA a : IF a.action = "CORRECTED" THEN a.amount ELSE -a.amount,
                                ListedOf(s))
  <2>1. \/ Takings(s) = printed[s] + amounts
        \/ \E row \in rows : row.type \in {"LATE_PAYMENT", "TEST_FLAG"}
        \/ s \in unmarked
    <3>1. CASE bill[s].isTestBill \/ bill[s].paymentRecordedAt # None
      BY <3>1, MarksHaveRows
    <3>2. CASE ~ bill[s].isTestBill /\ bill[s].paymentRecordedAt = None /\ s \notin unmarked
      <4>1. Explained(s, bill[s], Day(now), printed[s]) /\ printed[s] \in Int
        BY <3>2 DEF LedgerInv, LedgerTypes
      <4>2. Takings(s)
              = printed[s]
                + Corrections(bill[s]) - (IF ReversedLater(bill[s]) THEN GrandTotal(s) ELSE 0)
        BY <3>2, <4>1 DEF Explained, Takings, GrandTotal
      <4>3. amounts = SumFunctionOnSet([a \in ListedOf(s) |-> Signed(a)], ListedOf(s))
        BY DEF SumOver, Signed
      <4>4. /\ Corrections(bill[s]) \in Int /\ GrandTotal(s) \in Int
            /\ ReversedLater(bill[s]) => amounts = Corrections(bill[s]) - GrandTotal(s)
            /\ ~ ReversedLater(bill[s]) => amounts = Corrections(bill[s])
        BY <3>2, <4>3, ListedAddUp
      <4> HIDE DEF amounts
      <4>5. CASE ReversedLater(bill[s])
        BY <4>1, <4>2, <4>4, <4>5
      <4>6. CASE ~ ReversedLater(bill[s])
        BY <4>1, <4>2, <4>4, <4>6
      <4> QED
        BY <4>5, <4>6
    <3> QED
      BY <3>1, <3>2
  <2>2. \A a \in ListedOf(s) : a.action # "CORRECTED" => \E row \in rows :
            /\ row.at = a.at
            /\ row.type = IF a.action = "CANCELLED" THEN "CANCELLATION" ELSE "REFUND"
    BY ReversalsHaveRows
  <2>3. \A a \in ListedOf(s) : a.action = "CORRECTED" =>
            \/ \E row \in rows :
                   row.type = "BILL_CORRECTION" /\ row.entry = a.entry /\ row.at >= a.at
            \/ ~ \E log \in audit : log.of = s /\ log.entry = a.entry
    BY CorrectionsHaveRows
  <2>4. \A row \in rows : row.type = "BILL_CORRECTION" =>
            /\ row.entry \in DOMAIN bill[s].revisions
            /\ bill[s].revisions[row.entry].editedAt <= row.at
    <3> TAKE row \in rows
    <3> HAVE row.type = "BILL_CORRECTION"
    <3>1. PICK log \in audit : log.of = s /\ log.entry = row.entry /\ log.at = row.at
      BY CorrectionRowsAreLogged
    <3> QED
      BY <3>1 DEF AuditSound
  <2> QED
    BY <2>1, <2>2, <2>3, <2>4, Zenon DEF ListedOf
<1> QED
  BY <1>1, LedgerInvariant, AuditIsSound, PTL

-----------------------------------------------------------------------------
(* Periods.                                                                 *)

\* A finite set of numbers has a greatest and a least.
LEMMA MaxIs ==
    ASSUME NEW S, S \subseteq Int, IsFiniteSet(S), S # {}
    PROVE  Max(S) \in S /\ Max(S) \in Int /\ \A x \in S : x <= Max(S)
<1> DEFINE key == [x \in S |-> x]
<1>1. \A x \in S : key[x] \in Int /\ key[x] = x
  OBVIOUS
<1> HIDE DEF key
<1>2. \E x \in S : \A y \in S : key[y] <= key[x]
  BY <1>1, FiniteMaximum
<1>3. \E x \in S : \A y \in S : x >= y
  BY <1>1, <1>2
<1>4. Max(S) = CHOOSE x \in S : \A y \in S : x >= y
  BY DEF Max
<1>5. Max(S) \in S /\ \A y \in S : Max(S) >= y
  BY <1>3, <1>4, Zenon
<1> QED
  BY <1>5

\* The same for the least.
LEMMA MinIs ==
    ASSUME NEW S, S \subseteq Int, IsFiniteSet(S), S # {}
    PROVE  Min(S) \in S /\ Min(S) \in Int /\ \A x \in S : Min(S) <= x
<1> DEFINE key == [x \in S |-> -x]
<1>1. \A x \in S : key[x] \in Int /\ key[x] = -x
  OBVIOUS
<1> HIDE DEF key
<1>2. \E x \in S : \A y \in S : key[y] <= key[x]
  BY <1>1, FiniteMaximum
<1>3. \E x \in S : \A y \in S : x <= y
  BY <1>1, <1>2
<1>4. Min(S) = CHOOSE x \in S : \A y \in S : x <= y
  BY DEF Min
<1>5. Min(S) \in S /\ \A y \in S : Min(S) <= y
  BY <1>3, <1>4, Zenon
<1> QED
  BY <1>5

\* The months around a day are known.
Covered(by, day) == by = "month" => \E first, last \in MonthStarts : first <= day /\ day < last

\* A day lies in its period, and the days of a period are those that have it.
LEMMA PeriodsAre ==
    ASSUME NEW by \in Groupings, NEW day \in Int, Covered(by, day)
    PROVE  /\ PeriodStart(by, day) \in Int /\ PeriodEnd(by, day) \in Int
           /\ PeriodStart(by, day) <= day /\ day <= PeriodEnd(by, day)
           /\ \A d \in Int : PeriodStart(by, day) <= d /\ d <= PeriodEnd(by, day)
                => /\ Covered(by, d)
                   /\ PeriodStart(by, d) = PeriodStart(by, day)
                   /\ PeriodEnd(by, d) = PeriodEnd(by, day)
<1>1. CASE by = "day"
  BY <1>1 DEF PeriodStart, PeriodEnd, Covered
<1>2. CASE by = "week"
  <2>1. \A d \in Int : PeriodStart(by, d) = d - (d % 7) /\ PeriodEnd(by, d) = PeriodStart(by, d) + 6
    BY <1>2 DEF PeriodStart, PeriodEnd
  <2>2. day % 7 \in 0 .. 6 /\ PeriodStart(by, day) = day - (day % 7)
          /\ PeriodEnd(by, day) = day - (day % 7) + 6
    BY <2>1
  <2>3. ASSUME NEW d \in Int, day - (day % 7) <= d, d <= day - (day % 7) + 6
        PROVE  d - (d % 7) = day - (day % 7)
    BY <2>3
  <2>4. \A d \in Int : Covered(by, d)
    BY <1>2 DEF Covered
  <2>5. \A d \in Int : PeriodStart(by, day) <= d /\ d <= PeriodEnd(by, day)
          => PeriodStart(by, d) = PeriodStart(by, day) /\ PeriodEnd(by, d) = PeriodEnd(by, day)
    BY <2>1, <2>2, <2>3
  <2> QED
    BY <2>2, <2>4, <2>5
<1>3. CASE by = "month"
  <2> DEFINE sofar(d) == {m \in MonthStarts : m <= d}
             later(d) == {m \in MonthStarts : m > d}
  <2>1. \A d \in Int : PeriodStart(by, d) = Max(sofar(d)) /\ PeriodEnd(by, d) = Min(later(d)) - 1
    BY <1>3 DEF PeriodStart, PeriodEnd
  <2>2. ASSUME NEW d \in Int, Covered(by, d)
        PROVE  /\ Max(sofar(d)) \in MonthStarts /\ Max(sofar(d)) <= d /\ Max(sofar(d)) \in Int
               /\ \A m \in MonthStarts : m <= d => m <= Max(sofar(d))
               /\ Min(later(d)) \in MonthStarts /\ d < Min(later(d)) /\ Min(later(d)) \in Int
               /\ \A m \in MonthStarts : d < m => Min(later(d)) <= m
    <3>1. sofar(d) # {} /\ later(d) # {} /\ sofar(d) \subseteq Int /\ later(d) \subseteq Int
      BY <1>3, <2>2, MonthsAreKnown DEF Covered
    <3>2. IsFiniteSet(sofar(d)) /\ IsFiniteSet(later(d))
      BY MonthsAreKnown, FS_Subset
    <3>3. Max(sofar(d)) \in sofar(d) /\ Max(sofar(d)) \in Int
            /\ \A x \in sofar(d) : x <= Max(sofar(d))
      <4> HIDE DEF sofar
      <4> QED
        BY <3>1, <3>2, MaxIs
    <3>4. Min(later(d)) \in later(d) /\ Min(later(d)) \in Int
            /\ \A x \in later(d) : Min(later(d)) <= x
      <4> HIDE DEF later
      <4> QED
        BY <3>1, <3>2, MinIs
    <3>5. \A m \in MonthStarts : m \in Int
      BY MonthsAreKnown
    <3> QED
      BY <3>3, <3>4, <3>5
  <2> DEFINE a == Max(sofar(day))
             b == Min(later(day))
  <2>3. /\ a \in MonthStarts /\ a <= day /\ a \in Int /\ \A m \in MonthStarts : m <= day => m <= a
        /\ b \in MonthStarts /\ day < b /\ b \in Int /\ \A m \in MonthStarts : day < m => b <= m
    BY <2>2
  <2>4. PeriodStart(by, day) = a /\ PeriodEnd(by, day) = b - 1
    BY <2>1
  <2> HIDE DEF sofar, later, a, b
  <2>5. ASSUME NEW d \in Int, a <= d, d <= b - 1
        PROVE  Covered(by, d) /\ PeriodStart(by, d) = a /\ PeriodEnd(by, d) = b - 1
    <3>1. Covered(by, d)
      BY <2>3, <2>5 DEF Covered
    <3> DEFINE c == Max(sofar(d))
    <3>2. c \in MonthStarts /\ c <= d /\ c \in Int /\ a <= c
      BY <2>2, <2>3, <2>5, <3>1
    <3> DEFINE e == Min(later(d))
    <3>3. PeriodStart(by, d) = c /\ PeriodEnd(by, d) = e - 1
      BY <2>1
    <3>6. e \in MonthStarts /\ d < e /\ e \in Int /\ e <= b
      BY <2>2, <2>3, <2>5, <3>1
    <3> HIDE DEF c, e
    <3>4. c <= day
      BY <2>3, <2>5, <3>2
    <3>5. c <= a
      BY <2>3, <3>2, <3>4
    <3>7. day < e
      BY <2>3, <2>5, <3>6
    <3>8. b <= e
      BY <2>3, <3>6, <3>7
    <3> QED
      BY <2>3, <3>1, <3>2, <3>3, <3>5, <3>6, <3>8
  <2> QED
    BY <2>3, <2>4, <2>5
<1> QED
  BY <1>1, <1>2, <1>3 DEF Groupings

\* Periods follow one another.
LEMMA PeriodsGrow ==
    ASSUME NEW by \in Groupings, NEW day \in Int, Covered(by, day), NEW d \in Int, Covered(by, d),
           day <= d
    PROVE  PeriodStart(by, day) <= PeriodStart(by, d)
<1>1. /\ PeriodStart(by, day) \in Int /\ PeriodStart(by, day) <= day
      /\ PeriodStart(by, d) \in Int /\ PeriodStart(by, d) <= d /\ d <= PeriodEnd(by, d)
      /\ PeriodEnd(by, d) \in Int
  BY PeriodsAre
<1>2. CASE day < PeriodStart(by, d)
  BY <1>1, <1>2
<1>3. CASE PeriodStart(by, d) <= day
  <2>1. day <= PeriodEnd(by, d)
    BY <1>1
  <2>2. PeriodStart(by, day) = PeriodStart(by, d)
    BY <1>3, <2>1, PeriodsAre
  <2> QED
    BY <1>1, <2>2
<1> QED
  BY <1>1, <1>2, <1>3

\* A range is between known months.
LEMMA RangesAre ==
    ASSUME now \in Times, NEW r \in Ranges, NEW by \in Groupings
    PROVE  /\ r.from \in Int /\ r.to \in Int /\ r.from <= r.to
           /\ \A day \in Int : r.from <= day /\ day <= r.to => Covered(by, day)
<1>1. /\ r.from \in Int /\ r.to \in Int /\ r.from <= r.to
      /\ \E first, last \in MonthStarts : first <= r.from /\ r.to < last
  BY MonthsAreKnown DEF Ranges
<1>2. \A m \in MonthStarts : m \in Int
  BY MonthsAreKnown
<1>3. ASSUME NEW day \in Int, r.from <= day, day <= r.to
      PROVE  Covered(by, day)
  <2>1. PICK first, last \in MonthStarts : first <= r.from /\ r.to < last
    BY <1>1
  <2>2. first <= day /\ day < last
    BY <1>1, <1>2, <1>3, <2>1
  <2> QED
    BY <2>2 DEF Covered
<1> QED
  BY <1>1, <1>3

\* The label of the bucket of a day in the range is one of its buckets.
LEMMA LabelsAre ==
    ASSUME now \in Times, NEW r \in Ranges, NEW by \in Groupings
    PROVE  /\ IsFiniteSet(BucketLabels(r, by)) /\ BucketLabels(r, by) \subseteq Int
           /\ \A day \in Int : r.from <= day /\ day <= r.to
                => PeriodStart(by, day) \in BucketLabels(r, by)
           /\ \A label \in BucketLabels(r, by) :
                  Covered(by, label) /\ PeriodStart(by, label) = label /\ label <= r.to
<1>1. /\ r.from \in Int /\ r.to \in Int /\ r.from <= r.to
      /\ \A day \in Int : r.from <= day /\ day <= r.to => Covered(by, day)
  BY RangesAre
<1> DEFINE first == PeriodStart(by, r.from)
<1>2. /\ first \in Int /\ first <= r.from /\ r.from <= PeriodEnd(by, r.from)
      /\ PeriodEnd(by, r.from) \in Int
      /\ \A d \in Int : first <= d /\ d <= PeriodEnd(by, r.from) => Covered(by, d)
  BY <1>1, PeriodsAre
<1>3. BucketLabels(r, by) = {day \in first .. r.to : PeriodStart(by, day) = day}
  BY DEF BucketLabels
<1> HIDE DEF first
<1>4. IsFiniteSet(first .. r.to) /\ BucketLabels(r, by) \subseteq first .. r.to
  BY <1>1, <1>2, <1>3, FS_Interval
<1>5. IsFiniteSet(BucketLabels(r, by)) /\ BucketLabels(r, by) \subseteq Int
  BY <1>1, <1>2, <1>4, FS_Subset
<1>6. ASSUME NEW day \in Int, r.from <= day, day <= r.to
      PROVE  PeriodStart(by, day) \in BucketLabels(r, by)
  <2> DEFINE label == PeriodStart(by, day)
  <2>1. Covered(by, day) /\ Covered(by, r.from)
    BY <1>1, <1>6
  <2>2. first <= label
    BY <1>1, <1>6, <2>1, PeriodsGrow DEF first
  <2>3. label \in Int /\ label <= day /\ PeriodStart(by, label) = label
    BY <2>1, PeriodsAre
  <2> HIDE DEF label
  <2>4. label \in first .. r.to
    BY <1>1, <1>2, <1>6, <2>2, <2>3
  <2> QED
    BY <1>3, <2>3, <2>4 DEF label
<1>7. ASSUME NEW label \in BucketLabels(r, by)
      PROVE  Covered(by, label) /\ PeriodStart(by, label) = label /\ label <= r.to
  <2>1. label \in Int /\ first <= label /\ label <= r.to /\ PeriodStart(by, label) = label
    BY <1>1, <1>2, <1>3, <1>7
  <2>2. CASE label <= r.from
    BY <1>1, <1>2, <2>1, <2>2
  <2>3. CASE r.from <= label
    BY <1>1, <2>1, <2>3
  <2> QED
    BY <1>1, <2>1, <2>2, <2>3
<1> QED
  BY <1>5, <1>6, <1>7

-----------------------------------------------------------------------------
(* Amounts and buckets.                                                     *)

\* Sums over the lines of a sale are numbers.
LEMMA LinesType ==
    ASSUME NEW s \in Sales
    PROVE  /\ IsFiniteSet(DOMAIN s.lines)
           /\ \A i \in DOMAIN s.lines : s.lines[i].kind \in Kinds /\ s.lines[i].quantity \in Int
                                        /\ s.lines[i].total \in Int
           /\ \A v : (\A i \in DOMAIN s.lines : v[i] \in Int)
                => SumFunctionOnSet(v, DOMAIN s.lines) \in Int
<1>1. IsFiniteSet(DOMAIN s.lines) /\ \A i \in DOMAIN s.lines : IsLine(s.lines[i])
  BY SalesAreSales
<1>2. ASSUME NEW v, \A i \in DOMAIN s.lines : v[i] \in Int
      PROVE  SumFunctionOnSet(v, DOMAIN s.lines) \in Int
  BY <1>1, <1>2, SumStep
<1> QED
  BY <1>1, <1>2 DEF IsLine

\* What the screens add up are numbers.
LEMMA AmountsAre ==
    ASSUME LedgerTypes, NEW s \in Sales
    PROVE  /\ Subtotal(s) \in Int /\ Charge(s) \in Int /\ GrandTotal(s) \in Int
           /\ ChildrenOnBill(s) \in Int /\ SessionChildCount(s) \in Int /\ ChildMinutes(s) \in Int
           /\ \A kind : LineRevenueOfKind(s, kind) \in Int
           /\ \A method : PaidAmountWithMethod(s, method) \in Int
           /\ s.discount \in Int /\ s.tax \in Int /\ bill[s].writeOff \in Int
<1>1. s.discount \in Int /\ s.tax \in Int /\ s.stay \in Int
  BY SalesAreSales
<1>2. bill[s].writeOff \in Int
  BY DEF LedgerTypes, StoredBill
<1>3. Subtotal(s) \in Int /\ Charge(s) \in Int
  BY ChargeType
<1>4. GrandTotal(s) \in Int
  BY <1>2, <1>3 DEF GrandTotal
<1>5. \A method : PaidAmountWithMethod(s, method) \in Int
  BY <1>4 DEF PaidAmountWithMethod
<1>6. \A kind : LineRevenueOfKind(s, kind) \in Int
  <2> TAKE kind
  <2> DEFINE v == [i \in DOMAIN s.lines |-> IF s.lines[i].kind = kind THEN s.lines[i].total ELSE 0]
  <2>1. \A i \in DOMAIN s.lines : v[i] \in Int
    BY LinesType
  <2>2. LineRevenueOfKind(s, kind) = SumFunctionOnSet(v, DOMAIN s.lines)
    BY DEF LineRevenueOfKind, SumOfLines, SumOver
  <2> HIDE DEF v
  <2> QED
    BY <2>1, <2>2, LinesType
<1>7. SessionChildCount(s) \in Int
  <2> DEFINE v == [i \in DOMAIN s.lines |-> IF s.lines[i].ticket THEN s.lines[i].quantity ELSE 0]
  <2>1. \A i \in DOMAIN s.lines : v[i] \in Int
    BY LinesType
  <2>2. SessionChildCount(s) = SumFunctionOnSet(v, DOMAIN s.lines)
    BY DEF SessionChildCount, SumOfLines, SumOver
  <2> HIDE DEF v
  <2> QED
    BY <2>1, <2>2, LinesType
<1>8. ChildMinutes(s) \in Int
  BY <1>1, <1>7 DEF ChildMinutes
<1>9. ChildrenOnBill(s) \in Int
  <2> DEFINE v == [i \in DOMAIN s.lines |->
                      CASE s.lines[i].kind = "GROUP" -> s.lines[i].quantity
                        [] s.lines[i].kind = "PRODUCT" -> 0
                        [] s.lines[i].kind = "PLAY" /\ s.lines[i].ticket -> s.lines[i].quantity
                        [] OTHER -> 1]
  <2>1. \A i \in DOMAIN s.lines : v[i] \in Int
    BY LinesType
  <2>2. ChildrenOnBill(s) = SumFunctionOnSet(v, DOMAIN s.lines)
    BY DEF ChildrenOnBill, SumOfLines, SumOver
  <2> HIDE DEF v
  <2> QED
    BY <2>1, <2>2, LinesType
<1> QED
  BY <1>1, <1>2, <1>3, <1>4, <1>5, <1>6, <1>7, <1>8, <1>9

\* What happened within a range is finite, and its day is a day of the range.
LEMMA MatchesAre ==
    ASSUME LedgerTypes, NEW r, r.from \in Int, r.to \in Int
    PROVE  /\ IsFiniteSet(Sales)
           /\ Recognized(r) \subseteq Sales /\ CancelledIn(r) \subseteq Sales
           /\ ClosedIn(r) \subseteq Sales /\ VoidedIn(r) \subseteq Sales
           /\ \A s \in Recognized(r) : bill[s].paidAt \in Times /\ Within(r, bill[s].paidAt)
           /\ \A s \in CancelledIn(r) : bill[s].cancelledAt \in Times
                /\ Within(r, bill[s].cancelledAt)
           /\ \A s \in ClosedIn(r) : ticket[s].checkOutAt \in Times
                /\ Within(r, ticket[s].checkOutAt)
           /\ \A s \in VoidedIn(r) : ticket[s].voidedAt \in Times /\ Within(r, ticket[s].voidedAt)
<1>1. \A s \in Sales : bill[s] \in StoredBill /\ ticket[s] \in StoredTicket
  BY DEF LedgerTypes
<1>2. \A s \in Sales : bill[s].paidAt \in Moment /\ bill[s].cancelledAt \in Moment
                       /\ ticket[s].checkOutAt \in Moment /\ ticket[s].voidedAt \in Moment
  BY <1>1 DEF StoredBill, StoredTicket
<1>3. \A t \in Moment : Within(r, t) => t \in Times
  BY NeverWithin DEF Moment
<1> QED
  BY <1>2, <1>3, SalesAreSales DEF Recognized, CancelledIn, ClosedIn, VoidedIn

\* What happened within a range is in the bucket of its day.
LEMMA BucketKnown ==
    ASSUME now \in Times, NEW r \in Ranges, NEW by \in Groupings, NEW t \in Times, Within(r, t)
    PROVE  BucketOf(by, t) \in BucketLabels(r, by)
<1>1. r.from \in Int /\ r.to \in Int
  BY RangesAre
<1>2. Day(t) \in Int /\ r.from <= Day(t) /\ Day(t) <= r.to
  BY <1>1, WithinIs
<1> QED
  BY <1>2, LabelsAre DEF BucketOf

\* Every bucket is a row of its own.
LEMMA SumOfBuckets ==
    ASSUME NEW r, NEW by, IsFiniteSet(BucketLabels(r, by)), NEW column, NEW w,
           \A label \in BucketLabels(r, by) : w[label] \in Int
             /\ PeriodBucket(r, by, label)[column] = w[label]
    PROVE  SumFunctionOnSet([bucket \in Buckets(r, by) |-> bucket[column]], Buckets(r, by))
            = SumFunctionOnSet(w, BucketLabels(r, by))
<1> DEFINE labels == BucketLabels(r, by)
           e == [label \in labels |-> PeriodBucket(r, by, label)]
           v == [bucket \in Buckets(r, by) |-> bucket[column]]
<1>1. \A label \in labels : e[label] = PeriodBucket(r, by, label) /\ e[label].label = label
  BY DEF PeriodBucket
<1>2. Buckets(r, by) = {e[label] : label \in labels}
  BY <1>1 DEF Buckets
<1>3. \A x, y \in labels : e[x] = e[y] => x = y
  BY <1>1
<1>4. \A label \in labels : w[label] \in Int /\ v[e[label]] = w[label]
  BY <1>1, <1>2
<1> HIDE DEF labels, e, v
<1>5. SumFunctionOnSet(v, {e[label] : label \in labels}) = SumFunctionOnSet(w, labels)
  BY <1>3, <1>4, SumRenamed DEF labels
<1> QED
  BY <1>2, <1>5 DEF v, labels

ColumnSum(r, by, column) == SumFunctionOnSet([bucket \in Buckets(r, by) |-> bucket[column]],
                                             Buckets(r, by))

\* A column whose every cell adds up what belongs in its bucket adds up everything.
LEMMA ColumnAddsUp ==
    ASSUME now \in Times, NEW r \in Ranges, NEW by \in Groupings, NEW S, IsFiniteSet(S),
           NEW at, \A s \in S : at[s] \in BucketLabels(r, by), NEW v, \A s \in S : v[s] \in Int,
           NEW column,
           \A label \in BucketLabels(r, by) :
               PeriodBucket(r, by, label)[column] = SumFunctionOnSet(v, KeyedBy(S, at, label))
    PROVE  ColumnSum(r, by, column) = SumFunctionOnSet(v, S)
<1> DEFINE labels == BucketLabels(r, by)
           w == [label \in labels |-> SumFunctionOnSet(v, KeyedBy(S, at, label))]
<1>1. IsFiniteSet(labels)
  BY LabelsAre
<1>2. \A label \in labels : w[label] \in Int
  <2>1. \A label \in labels : KeyedBy(S, at, label) \in SUBSET S
    BY DEF KeyedBy
  <2> QED
    BY <2>1, SumOfParts
<1>3. \A label \in labels : w[label] = SumFunctionOnSet(v, KeyedBy(S, at, label))
  OBVIOUS
<1>4. \A label \in labels : PeriodBucket(r, by, label)[column] = w[label]
  BY <1>3
<1> HIDE DEF w
<1>5. ColumnSum(r, by, column) = SumFunctionOnSet(w, labels)
  BY <1>1, <1>2, <1>4, SumOfBuckets DEF ColumnSum
<1> HIDE DEF labels
<1>6. SumFunctionOnSet(v, S) = SumFunctionOnSet(w, labels)
  <2>1. \A s \in S : at[s] \in labels
    BY DEF labels
  <2> QED
    BY <1>1, <1>3, <2>1, SumByKey
<1> QED
  BY <1>5, <1>6

\* The same for a column that counts.
LEMMA ColumnCounts ==
    ASSUME now \in Times, NEW r \in Ranges, NEW by \in Groupings, NEW S, IsFiniteSet(S),
           NEW at, \A s \in S : at[s] \in BucketLabels(r, by), NEW column,
           \A label \in BucketLabels(r, by) :
               PeriodBucket(r, by, label)[column] = Cardinality(KeyedBy(S, at, label))
    PROVE  ColumnSum(r, by, column) = Cardinality(S)
<1> DEFINE labels == BucketLabels(r, by)
           w == [label \in labels |-> Cardinality(KeyedBy(S, at, label))]
<1>1. IsFiniteSet(labels)
  BY LabelsAre
<1>2. \A label \in labels : w[label] \in Int
  <2>1. \A label \in labels : KeyedBy(S, at, label) \in SUBSET S
    BY DEF KeyedBy
  <2> QED
    BY <2>1, FS_Subset, FS_CardinalityType
<1>3. \A label \in labels : w[label] = Cardinality(KeyedBy(S, at, label))
  OBVIOUS
<1>4. \A label \in labels : PeriodBucket(r, by, label)[column] = w[label]
  BY <1>3
<1> HIDE DEF w
<1>5. ColumnSum(r, by, column) = SumFunctionOnSet(w, labels)
  BY <1>1, <1>2, <1>4, SumOfBuckets DEF ColumnSum
<1> HIDE DEF labels
<1>6. Cardinality(S) = SumFunctionOnSet(w, labels)
  <2>1. \A s \in S : at[s] \in labels
    BY DEF labels
  <2> QED
    BY <1>1, <1>3, <2>1, CountByKey
<1> QED
  BY <1>5, <1>6

\* What each sale adds to the columns of the screens.
OfChildren == [s \in Sales |-> ChildrenOnBill(s)]
OfSubtotal == [s \in Sales |-> Subtotal(s)]
OfDiscount == [s \in Sales |-> s.discount]
OfWriteOff == [s \in Sales |-> bill[s].writeOff]
OfTotal == [s \in Sales |-> GrandTotal(s)]
OfTax == [s \in Sales |-> s.tax]
OfRefund == [s \in Sales |-> IF bill[s].status = "REFUNDED" THEN GrandTotal(s) ELSE 0]
OfNet == [s \in Sales |-> Subtotal(s) - s.discount - bill[s].writeOff - OfRefund[s]]
OfMethod(method) == [s \in Sales |-> PaidAmountWithMethod(s, method)]
OfKind(kind) == [s \in Sales |-> LineRevenueOfKind(s, kind)]
OfMinutes == [s \in Sales |-> ChildMinutes(s)]

\* These are numbers.
LEMMA SharesAre ==
    ASSUME LedgerTypes, NEW s \in Sales
    PROVE  /\ OfChildren[s] \in Int /\ OfSubtotal[s] \in Int /\ OfDiscount[s] \in Int
           /\ OfWriteOff[s] \in Int /\ OfTotal[s] \in Int /\ OfTax[s] \in Int /\ OfRefund[s] \in Int
           /\ OfNet[s] \in Int /\ OfMinutes[s] \in Int
           /\ \A method : OfMethod(method)[s] \in Int
           /\ \A kind : OfKind(kind)[s] \in Int
<1>1. OfRefund[s] \in Int
  BY AmountsAre DEF OfRefund
<1>2. OfNet[s] \in Int
  BY <1>1, AmountsAre DEF OfNet
<1> QED
  BY <1>1, <1>2, AmountsAre
     DEF OfChildren, OfSubtotal, OfDiscount, OfWriteOff, OfTotal, OfTax, OfMethod, OfKind, OfMinutes

\* A sum over some sales is the sum of what each of them adds.
LEMMA FiguresAre ==
    ASSUME LedgerTypes, NEW T \in SUBSET Sales
    PROVE  /\ IsFiniteSet(T)
           /\ SumOver(ChildrenOnBill, T) = SumFunctionOnSet(OfChildren, T)
           /\ SumOver(Subtotal, T) = SumFunctionOnSet(OfSubtotal, T)
           /\ Discounts(T) = SumFunctionOnSet(OfDiscount, T)
           /\ WriteOffs(T) = SumFunctionOnSet(OfWriteOff, T)
           /\ SumOver(GrandTotal, T) = SumFunctionOnSet(OfTotal, T)
           /\ SumOver(LAMBDA s : s.tax, T) = SumFunctionOnSet(OfTax, T)
           /\ SumOver(ChildMinutes, T) = SumFunctionOnSet(OfMinutes, T)
           /\ \A method : SumOver(LAMBDA s : PaidAmountWithMethod(s, method), T)
                            = SumFunctionOnSet(OfMethod(method), T)
           /\ \A kind :
                SumOver(LAMBDA s : LineRevenueOfKind(s, kind), T)
                  = SumFunctionOnSet(OfKind(kind), T)
<1>1. IsFiniteSet(T)
  BY SalesAreSales, FS_Subset
<1>2. SumOver(ChildrenOnBill, T) = SumFunctionOnSet(OfChildren, T)
  <2> DEFINE v == [s \in T |-> ChildrenOnBill(s)]
  <2>1. \A s \in T : OfChildren[s] \in Int /\ v[s] = OfChildren[s]
    BY SharesAre DEF OfChildren
  <2>2. SumOver(ChildrenOnBill, T) = SumFunctionOnSet(v, T)
    BY DEF SumOver
  <2> HIDE DEF v
  <2> QED
    BY <1>1, <2>1, <2>2, SumSame
<1>3. SumOver(Subtotal, T) = SumFunctionOnSet(OfSubtotal, T)
  <2> DEFINE v == [s \in T |-> Subtotal(s)]
  <2>1. \A s \in T : OfSubtotal[s] \in Int /\ v[s] = OfSubtotal[s]
    BY SharesAre DEF OfSubtotal
  <2>2. SumOver(Subtotal, T) = SumFunctionOnSet(v, T)
    BY DEF SumOver
  <2> HIDE DEF v
  <2> QED
    BY <1>1, <2>1, <2>2, SumSame
<1>4. Discounts(T) = SumFunctionOnSet(OfDiscount, T)
  <2> DEFINE v == [s \in T |-> s.discount]
  <2>1. \A s \in T : OfDiscount[s] \in Int /\ v[s] = OfDiscount[s]
    BY SharesAre DEF OfDiscount
  <2>2. Discounts(T) = SumFunctionOnSet(v, T)
    BY DEF Discounts, SumOver
  <2> HIDE DEF v
  <2> QED
    BY <1>1, <2>1, <2>2, SumSame
<1>5. WriteOffs(T) = SumFunctionOnSet(OfWriteOff, T)
  <2> DEFINE v == [s \in T |-> bill[s].writeOff]
  <2>1. \A s \in T : OfWriteOff[s] \in Int /\ v[s] = OfWriteOff[s]
    BY SharesAre DEF OfWriteOff
  <2>2. WriteOffs(T) = SumFunctionOnSet(v, T)
    BY DEF WriteOffs, SumOver
  <2> HIDE DEF v
  <2> QED
    BY <1>1, <2>1, <2>2, SumSame
<1>6. SumOver(GrandTotal, T) = SumFunctionOnSet(OfTotal, T)
  <2> DEFINE v == [s \in T |-> GrandTotal(s)]
  <2>1. \A s \in T : OfTotal[s] \in Int /\ v[s] = OfTotal[s]
    BY SharesAre DEF OfTotal
  <2>2. SumOver(GrandTotal, T) = SumFunctionOnSet(v, T)
    BY DEF SumOver
  <2> HIDE DEF v
  <2> QED
    BY <1>1, <2>1, <2>2, SumSame
<1>7. SumOver(LAMBDA s : s.tax, T) = SumFunctionOnSet(OfTax, T)
  <2> DEFINE v == [s \in T |-> s.tax]
  <2>1. \A s \in T : OfTax[s] \in Int /\ v[s] = OfTax[s]
    BY SharesAre DEF OfTax
  <2>2. SumOver(LAMBDA s : s.tax, T) = SumFunctionOnSet(v, T)
    BY DEF SumOver
  <2> HIDE DEF v
  <2> QED
    BY <1>1, <2>1, <2>2, SumSame
<1>8. SumOver(ChildMinutes, T) = SumFunctionOnSet(OfMinutes, T)
  <2> DEFINE v == [s \in T |-> ChildMinutes(s)]
  <2>1. \A s \in T : OfMinutes[s] \in Int /\ v[s] = OfMinutes[s]
    BY SharesAre DEF OfMinutes
  <2>2. SumOver(ChildMinutes, T) = SumFunctionOnSet(v, T)
    BY DEF SumOver
  <2> HIDE DEF v
  <2> QED
    BY <1>1, <2>1, <2>2, SumSame
<1>9. ASSUME NEW method
      PROVE  SumOver(LAMBDA s : PaidAmountWithMethod(s, method), T)
               = SumFunctionOnSet(OfMethod(method), T)
  <2> DEFINE v == [s \in T |-> PaidAmountWithMethod(s, method)]
             w == OfMethod(method)
  <2>1. \A s \in T : w[s] \in Int /\ v[s] = w[s]
    <3>1. \A s \in T : w[s] \in Int
      BY SharesAre
    <3> QED
      BY <3>1 DEF OfMethod
  <2>2. SumOver(LAMBDA s : PaidAmountWithMethod(s, method), T) = SumFunctionOnSet(v, T)
    BY DEF SumOver
  <2> HIDE DEF v, w
  <2>3. SumFunctionOnSet(w, T) = SumFunctionOnSet(v, T)
    BY <1>1, <2>1, SumSame
  <2> QED
    BY <2>2, <2>3 DEF w
<1>10. ASSUME NEW kind
       PROVE  SumOver(LAMBDA s : LineRevenueOfKind(s, kind), T) = SumFunctionOnSet(OfKind(kind), T)
  <2> DEFINE v == [s \in T |-> LineRevenueOfKind(s, kind)]
             w == OfKind(kind)
  <2>1. \A s \in T : w[s] \in Int /\ v[s] = w[s]
    <3>1. \A s \in T : w[s] \in Int
      BY SharesAre
    <3> QED
      BY <3>1 DEF OfKind
  <2>2. SumOver(LAMBDA s : LineRevenueOfKind(s, kind), T) = SumFunctionOnSet(v, T)
    BY DEF SumOver
  <2> HIDE DEF v, w
  <2>3. SumFunctionOnSet(w, T) = SumFunctionOnSet(v, T)
    BY <1>1, <2>1, SumSame
  <2> QED
    BY <2>2, <2>3 DEF w
<1> QED
  BY <1>1, <1>2, <1>3, <1>4, <1>5, <1>6, <1>7, <1>8, <1>9, <1>10

\* Refunds are added up over the refunded bills, the net revenue over all of them.
LEMMA NetIs ==
    ASSUME LedgerTypes, NEW T \in SUBSET Sales
    PROVE  /\ SumOver(GrandTotal, Refunded(T)) = SumFunctionOnSet(OfRefund, T)
           /\ NetRevenue(T) = SumFunctionOnSet(OfNet, T)
<1>1. Refunded(T) \in SUBSET T /\ Refunded(T) \in SUBSET Sales
  BY DEF Refunded
<1>2. SumFunctionOnSet(OfRefund, T) = SumFunctionOnSet(OfTotal, Refunded(T))
  <2>1. \A s \in T : OfTotal[s] \in Int /\ OfRefund[s] = IF s \in Refunded(T) THEN OfTotal[s] ELSE 0
    BY SharesAre DEF Refunded, OfRefund, OfTotal
  <2>2. IsFiniteSet(T)
    BY FiguresAre
  <2> DEFINE T2 == Refunded(T)
             v == OfTotal
             w == OfRefund
  <2>3. T2 \in SUBSET T /\ \A s \in T : v[s] \in Int /\ w[s] = IF s \in T2 THEN v[s] ELSE 0
    BY <1>1, <2>1
  <2> HIDE DEF T2, v, w
  <2>4. SumFunctionOnSet(w, T) = SumFunctionOnSet(v, T2)
    BY <2>2, <2>3, SumSelected
  <2> QED
    BY <2>4 DEF T2, v, w
<1>3. SumOver(GrandTotal, Refunded(T)) = SumFunctionOnSet(OfRefund, T)
  BY <1>1, <1>2, FiguresAre
<1> DEFINE u == [s \in T |-> OfDiscount[s] + OfWriteOff[s]]
           w == [s \in T |-> u[s] + OfRefund[s]]
<1>4. \A s \in T : /\ OfSubtotal[s] \in Int /\ OfDiscount[s] \in Int /\ OfWriteOff[s] \in Int
                   /\ OfRefund[s] \in Int /\ OfNet[s] \in Int
                   /\ OfNet[s] = OfSubtotal[s] - OfDiscount[s] - OfWriteOff[s] - OfRefund[s]
  BY SharesAre DEF OfNet, OfSubtotal, OfDiscount, OfWriteOff
<1>5. \A s \in T : /\ u[s] = OfDiscount[s] + OfWriteOff[s] /\ u[s] \in Int
                   /\ w[s] = u[s] + OfRefund[s] /\ w[s] \in Int
                   /\ OfSubtotal[s] = OfNet[s] + w[s]
  BY <1>4
<1> HIDE DEF u, w
<1>6. IsFiniteSet(T)
  BY FiguresAre
<1>7. SumFunctionOnSet(u, T) = SumFunctionOnSet(OfDiscount, T) + SumFunctionOnSet(OfWriteOff, T)
  BY <1>4, <1>5, <1>6, SumOfSums
<1>8. SumFunctionOnSet(w, T) = SumFunctionOnSet(u, T) + SumFunctionOnSet(OfRefund, T)
  <2>1. \A s \in T : u[s] \in Int /\ OfRefund[s] \in Int /\ w[s] = u[s] + OfRefund[s]
    BY <1>4, <1>5
  <2> QED
    BY <1>6, <2>1, SumOfSums
<1>9. SumFunctionOnSet(OfSubtotal, T) = SumFunctionOnSet(OfNet, T) + SumFunctionOnSet(w, T)
  <2>1. \A s \in T : OfNet[s] \in Int /\ w[s] \in Int /\ OfSubtotal[s] = OfNet[s] + w[s]
    BY <1>4, <1>5
  <2> QED
    BY <1>6, <2>1, SumOfSums
<1>10. /\ SumFunctionOnSet(OfNet, T) \in Int /\ SumFunctionOnSet(OfDiscount, T) \in Int
       /\ SumFunctionOnSet(OfWriteOff, T) \in Int /\ SumFunctionOnSet(OfRefund, T) \in Int
       /\ SumFunctionOnSet(u, T) \in Int /\ SumFunctionOnSet(w, T) \in Int
  BY <1>4, <1>5, <1>6, SumStep
<1>11. NetRevenue(T) = SumFunctionOnSet(OfSubtotal, T) - SumFunctionOnSet(OfDiscount, T)
                        - SumFunctionOnSet(OfWriteOff, T) - SumFunctionOnSet(OfRefund, T)
  BY <1>3, FiguresAre DEF NetRevenue
<1> QED
  BY <1>3, <1>7, <1>8, <1>9, <1>10, <1>11

\* Each bill was paid by one method; a refunded one by none.
LEMMA MethodIs ==
    ASSUME LedgerTypes, NEW T \in SUBSET Sales, NEW method
    PROVE  SumOver(GrandTotal, {s \in StillPaid(T) : bill[s].paymentMethod = method})
            = SumFunctionOnSet(OfMethod(method), T)
<1> DEFINE by == {s \in StillPaid(T) : bill[s].paymentMethod = method}
           v == OfTotal
           w == OfMethod(method)
<1>1. by \in SUBSET T /\ by \in SUBSET Sales
  BY DEF StillPaid
<1>2. \A s \in T : v[s] \in Int /\ w[s] = IF s \in by THEN v[s] ELSE 0
  BY SharesAre DEF StillPaid, OfMethod, OfTotal, PaidAmountWithMethod
<1>3. SumOver(GrandTotal, by) = SumFunctionOnSet(v, by)
  BY <1>1, FiguresAre
<1>4. IsFiniteSet(T)
  BY FiguresAre
<1> HIDE DEF by, v, w
<1>5. SumFunctionOnSet(w, T) = SumFunctionOnSet(v, by)
  BY <1>1, <1>2, <1>4, SumSelected
<1> QED
  BY <1>3, <1>5 DEF by, w

\* Four sums over the same sales are the sum of the four amounts.
LEMMA SumOfFour ==
    ASSUME NEW S, IsFiniteSet(S), NEW u, NEW v, NEW w, NEW x, NEW y,
           \A s \in S : /\ v[s] \in Int /\ w[s] \in Int /\ x[s] \in Int /\ y[s] \in Int
                        /\ u[s] = v[s] + w[s] + x[s] + y[s]
    PROVE  SumFunctionOnSet(u, S) = SumFunctionOnSet(v, S) + SumFunctionOnSet(w, S)
                                     + SumFunctionOnSet(x, S) + SumFunctionOnSet(y, S)
<1> DEFINE left == [s \in S |-> v[s] + w[s]]
           right == [s \in S |-> x[s] + y[s]]
<1>1. \A s \in S : /\ v[s] \in Int /\ w[s] \in Int /\ left[s] = v[s] + w[s]
                   /\ x[s] \in Int /\ y[s] \in Int /\ right[s] = x[s] + y[s]
                   /\ left[s] \in Int /\ right[s] \in Int /\ u[s] = left[s] + right[s]
  OBVIOUS
<1> HIDE DEF left, right
<1>2. SumFunctionOnSet(left, S) = SumFunctionOnSet(v, S) + SumFunctionOnSet(w, S)
  <2>1. \A s \in S : v[s] \in Int /\ w[s] \in Int /\ left[s] = v[s] + w[s]
    BY <1>1
  <2> QED
    BY <2>1, SumOfSums
<1>3. SumFunctionOnSet(right, S) = SumFunctionOnSet(x, S) + SumFunctionOnSet(y, S)
  <2>1. \A s \in S : x[s] \in Int /\ y[s] \in Int /\ right[s] = x[s] + y[s]
    BY <1>1
  <2> QED
    BY <2>1, SumOfSums
<1>4. SumFunctionOnSet(u, S) = SumFunctionOnSet(left, S) + SumFunctionOnSet(right, S)
  BY <1>1, SumOfSums
<1>5. /\ SumFunctionOnSet(v, S) \in Int /\ SumFunctionOnSet(w, S) \in Int
      /\ SumFunctionOnSet(x, S) \in Int /\ SumFunctionOnSet(y, S) \in Int
  BY <1>1, SumStep
<1> QED
  BY <1>2, <1>3, <1>4, <1>5

\* What was paid by each method is the net revenue and the tax.
LEMMA MethodsAddUp ==
    ASSUME LedgerTypes, NEW T \in SUBSET Sales,
           \A s \in T : bill[s].status \in {"PAID", "REFUNDED"} /\ bill[s].paymentMethod \in Methods
    PROVE  SumFunctionOnSet(OfMethod("CASH"), T) + SumFunctionOnSet(OfMethod("CARD"), T)
             + SumFunctionOnSet(OfMethod("BANK_TRANSFER"), T) + SumFunctionOnSet(OfMethod("OTHER"), T)
            = SumFunctionOnSet(OfNet, T) + SumFunctionOnSet(OfTax, T)
<1> DEFINE cash == OfMethod("CASH")
           card == OfMethod("CARD")
           transfer == OfMethod("BANK_TRANSFER")
           other == OfMethod("OTHER")
           all == [s \in T |-> OfNet[s] + OfTax[s]]
<1>1. \A s \in T : /\ cash[s] \in Int /\ card[s] \in Int /\ transfer[s] \in Int /\ other[s] \in Int
                   /\ OfNet[s] \in Int /\ OfTax[s] \in Int
  BY SharesAre
<1>2. \A s \in T : cash[s] + card[s] + transfer[s] + other[s] = OfNet[s] + OfTax[s]
  <2> SUFFICES ASSUME NEW s \in T
               PROVE  cash[s] + card[s] + transfer[s] + other[s] = OfNet[s] + OfTax[s]
    OBVIOUS
  <2>1. /\ Subtotal(s) \in Int /\ s.discount \in Int /\ s.tax \in Int /\ bill[s].writeOff \in Int
        /\ GrandTotal(s) = Subtotal(s) - s.discount + s.tax - bill[s].writeOff
    BY AmountsAre DEF GrandTotal, Charge
  <2>2. OfNet[s] = Subtotal(s) - s.discount - bill[s].writeOff - OfRefund[s] /\ OfTax[s] = s.tax
    BY DEF OfNet, OfTax
  <2>3. \A method : OfMethod(method)[s]
                      = IF bill[s].status = "PAID" /\ bill[s].paymentMethod = method
                        THEN GrandTotal(s) ELSE 0
    BY DEF OfMethod, PaidAmountWithMethod
  <2>4. bill[s].paymentMethod \in {"CASH", "CARD", "BANK_TRANSFER", "OTHER"}
    BY DEF Methods
  <2>5. CASE bill[s].status = "PAID"
    <3>1. OfRefund[s] = 0
      BY <2>5 DEF OfRefund
    <3>2. cash[s] + card[s] + transfer[s] + other[s] = GrandTotal(s)
      BY <2>1, <2>3, <2>4, <2>5
    <3> QED
      BY <2>1, <2>2, <3>1, <3>2
  <2>6. CASE bill[s].status = "REFUNDED"
    <3>1. OfRefund[s] = GrandTotal(s)
      BY <2>6 DEF OfRefund
    <3>2. cash[s] = 0 /\ card[s] = 0 /\ transfer[s] = 0 /\ other[s] = 0
      BY <2>3, <2>6
    <3> QED
      BY <2>1, <2>2, <3>1, <3>2
  <2> QED
    BY <2>5, <2>6
<1>3. \A s \in T : all[s] = OfNet[s] + OfTax[s]
  OBVIOUS
<1>4. IsFiniteSet(T)
  BY FiguresAre
<1> HIDE DEF cash, card, transfer, other, all
<1>5. SumFunctionOnSet(all, T) = SumFunctionOnSet(cash, T) + SumFunctionOnSet(card, T)
                                  + SumFunctionOnSet(transfer, T) + SumFunctionOnSet(other, T)
  <2>1. \A s \in T : /\ cash[s] \in Int /\ card[s] \in Int /\ transfer[s] \in Int /\ other[s] \in Int
                     /\ all[s] = cash[s] + card[s] + transfer[s] + other[s]
    BY <1>1, <1>2, <1>3
  <2> QED
    BY <1>4, <2>1, SumOfFour
<1>6. SumFunctionOnSet(all, T) = SumFunctionOnSet(OfNet, T) + SumFunctionOnSet(OfTax, T)
  BY <1>1, <1>3, <1>4, SumOfSums
<1> QED
  BY <1>5, <1>6 DEF cash, card, transfer, other

\* The lines of some sales are so many lines of each.
LEMMA LinesAre ==
    ASSUME NEW T \in SUBSET Sales, NEW kind
    PROVE  /\ IsFiniteSet(LinesOfKind(T, kind))
           /\ \A p \in LinesOfKind(T, kind) :
                  p[1] \in T /\ p[2] \in DOMAIN p[1].lines /\ LineAt(p) = p[1].lines[p[2]]
                  /\ p[1].lines[p[2]].kind = kind /\ p = <<p[1], p[2]>> /\ LineAt(p).total \in Int
           /\ \A s \in T : \A i \in DOMAIN s.lines : s.lines[i].kind = kind
                => <<s, i>> \in LinesOfKind(T, kind)
<1> DEFINE D(s) == {i \in DOMAIN s.lines : s.lines[i].kind = kind}
           e == [s \in T |-> {<<s, i>> : i \in D(s)}]
<1>1. LinesOfKind(T, kind) = UNION {e[s] : s \in T}
  BY DEF LinesOfKind
<1>2. ASSUME NEW s \in T PROVE IsFiniteSet(e[s])
  <2>1. IsFiniteSet(D(s))
    BY LinesType, FS_Subset
  <2> DEFINE pair == [i \in D(s) |-> <<s, i>>]
  <2>2. e[s] = {pair[i] : i \in D(s)}
    OBVIOUS
  <2> HIDE DEF pair, D, e
  <2> QED
    BY <2>1, <2>2, NamesAreFinite
<1>3. IsFiniteSet({e[s] : s \in T})
  <2>1. IsFiniteSet(T)
    BY SalesAreSales, FS_Subset
  <2> HIDE DEF e
  <2> QED
    BY <2>1, NamesAreFinite
<1>4. IsFiniteSet(UNION {e[s] : s \in T})
  <2> HIDE DEF e
  <2> QED
    BY <1>2, <1>3, FS_UNION
<1>5. \A p \in LinesOfKind(T, kind) : \E s \in T : \E i \in D(s) : p = <<s, i>>
  BY DEF LinesOfKind
<1>6. \A p \in LinesOfKind(T, kind) :
        p[1] \in T /\ p[2] \in DOMAIN p[1].lines /\ LineAt(p) = p[1].lines[p[2]]
        /\ p[1].lines[p[2]].kind = kind /\ p = <<p[1], p[2]>> /\ LineAt(p).total \in Int
  <2> TAKE p \in LinesOfKind(T, kind)
  <2>1. PICK s \in T : \E i \in D(s) : p = <<s, i>>
    BY <1>5
  <2>2. PICK i \in D(s) : p = <<s, i>>
    BY <2>1
  <2>3. i \in DOMAIN s.lines /\ s.lines[i].kind = kind /\ s.lines[i].total \in Int
    BY LinesType
  <2>4. p[1] = s /\ p[2] = i
    BY <2>2
  <2> QED
    BY <2>2, <2>3, <2>4 DEF LineAt
<1>7. \A s \in T : \A i \in DOMAIN s.lines : s.lines[i].kind = kind
        => <<s, i>> \in LinesOfKind(T, kind)
  BY DEF LinesOfKind
<1> QED
  BY <1>1, <1>4, <1>6, <1>7

\* The lines of a kind add up to what each sale sold of it.
LEMMA KindIs ==
    ASSUME LedgerTypes, NEW T \in SUBSET Sales, NEW kind
    PROVE  SumOver(LAMBDA at : LineAt(at).total, LinesOfKind(T, kind))
             = SumFunctionOnSet(OfKind(kind), T)
<1> DEFINE P == LinesOfKind(T, kind)
           v == [p \in P |-> LineAt(p).total]
           at == [p \in P |-> p[1]]
           w == OfKind(kind)
           D(s) == {i \in DOMAIN s.lines : s.lines[i].kind = kind}
<1>1. IsFiniteSet(T) /\ IsFiniteSet(P)
  BY FiguresAre, LinesAre
<1>2. \A p \in P : at[p] \in T /\ v[p] \in Int
  BY LinesAre
<1>3. ASSUME NEW s \in T
      PROVE  w[s] = SumFunctionOnSet(v, KeyedBy(P, at, s))
  <2> DEFINE pair == [i \in D(s) |-> <<s, i>>]
             u == [i \in DOMAIN s.lines |-> s.lines[i].total]
             x == [i \in DOMAIN s.lines |-> IF s.lines[i].kind = kind THEN s.lines[i].total ELSE 0]
  <2>1. IsFiniteSet(DOMAIN s.lines) /\ D(s) \in SUBSET DOMAIN s.lines /\ IsFiniteSet(D(s))
    BY LinesType, FS_Subset
  <2>2. \A i \in DOMAIN s.lines : u[i] \in Int /\ x[i] = IF i \in D(s) THEN u[i] ELSE 0
    BY LinesType
  <2>3. w[s] = SumFunctionOnSet(x, DOMAIN s.lines)
    BY DEF OfKind, LineRevenueOfKind, SumOfLines, SumOver
  <2>4. KeyedBy(P, at, s) = {pair[i] : i \in D(s)}
    <3>1. \A i \in D(s) : <<s, i>> \in P /\ at[<<s, i>>] = s /\ pair[i] = <<s, i>>
      BY LinesAre
    <3>2. \A p \in P : at[p] = s => p[2] \in D(s) /\ p = <<s, p[2]>>
      BY LinesAre
    <3> HIDE DEF P, at, D, pair
    <3>3. \A p \in P : at[p] = s => \E i \in D(s) : p = pair[i]
      BY <3>1, <3>2
    <3>4. ASSUME NEW p \in KeyedBy(P, at, s) PROVE p \in {pair[i] : i \in D(s)}
      BY <3>3, <3>4 DEF KeyedBy
    <3>5. ASSUME NEW i \in D(s) PROVE pair[i] \in KeyedBy(P, at, s)
      BY <3>1, <3>5 DEF KeyedBy
    <3>6. {pair[i] : i \in D(s)} \subseteq KeyedBy(P, at, s)
      BY <3>5
    <3> QED
      BY <3>4, <3>6
  <2>5. \A i, j \in D(s) : pair[i] = pair[j] => i = j
    OBVIOUS
  <2>6. \A i \in D(s) : u[i] \in Int /\ v[pair[i]] = u[i]
    <3>1. \A i \in D(s) : <<s, i>> \in P /\ LineAt(<<s, i>>) = s.lines[i] /\ pair[i] = <<s, i>>
      BY LinesAre DEF LineAt
    <3>2. \A i \in D(s) : u[i] = s.lines[i].total /\ u[i] \in Int
      BY <2>1, <2>2
    <3> QED
      BY <3>1, <3>2
  <2> HIDE DEF pair, u, x, D, v, w, at, P
  <2>7. SumFunctionOnSet(v, {pair[i] : i \in D(s)}) = SumFunctionOnSet(u, D(s))
    BY <2>1, <2>5, <2>6, SumRenamed
  <2>8. SumFunctionOnSet(x, DOMAIN s.lines) = SumFunctionOnSet(u, D(s))
    BY <2>1, <2>2, SumSelected
  <2> QED
    BY <2>3, <2>4, <2>7, <2>8
<1>4. SumOver(LAMBDA at_ : LineAt(at_).total, P) = SumFunctionOnSet(v, P)
  BY DEF SumOver
<1> HIDE DEF P, v, at, w, D
<1>5. SumFunctionOnSet(v, P) = SumFunctionOnSet(w, T)
  BY <1>1, <1>2, <1>3, SumByKey
<1> QED
  BY <1>4, <1>5 DEF P, w

\* The bucket each bill and ticket belongs in, for what happened to it.
PaidOn(by) == [s \in Sales |-> BucketOf(by, bill[s].paidAt)]
CancelledOn(by) == [s \in Sales |-> BucketOf(by, bill[s].cancelledAt)]
ClosedOn(by) == [s \in Sales |-> BucketOf(by, ticket[s].checkOutAt)]
VoidedOn(by) == [s \in Sales |-> BucketOf(by, ticket[s].voidedAt)]

\* Those are buckets of the range.
LEMMA OnBuckets ==
    ASSUME LedgerTypes, NEW r \in Ranges, NEW by \in Groupings
    PROVE  /\ \A s \in Recognized(r) : PaidOn(by)[s] \in BucketLabels(r, by)
           /\ \A s \in CancelledIn(r) : CancelledOn(by)[s] \in BucketLabels(r, by)
           /\ \A s \in ClosedIn(r) : ClosedOn(by)[s] \in BucketLabels(r, by)
           /\ \A s \in VoidedIn(r) : VoidedOn(by)[s] \in BucketLabels(r, by)
<1>1. now \in Times
  BY DEF LedgerTypes
<1>2. r.from \in Int /\ r.to \in Int
  BY <1>1, RangesAre
<1>3. /\ Recognized(r) \subseteq Sales /\ CancelledIn(r) \subseteq Sales
      /\ ClosedIn(r) \subseteq Sales /\ VoidedIn(r) \subseteq Sales
      /\ \A s \in Recognized(r) : bill[s].paidAt \in Times /\ Within(r, bill[s].paidAt)
      /\ \A s \in CancelledIn(r) : bill[s].cancelledAt \in Times /\ Within(r, bill[s].cancelledAt)
      /\ \A s \in ClosedIn(r) : ticket[s].checkOutAt \in Times /\ Within(r, ticket[s].checkOutAt)
      /\ \A s \in VoidedIn(r) : ticket[s].voidedAt \in Times /\ Within(r, ticket[s].voidedAt)
  BY <1>2, MatchesAre
<1>4. \A t \in Times : Within(r, t) => BucketOf(by, t) \in BucketLabels(r, by)
  BY <1>1, BucketKnown
<1> QED
  BY <1>3, <1>4 DEF PaidOn, CancelledOn, ClosedOn, VoidedOn

Columns ==
    {"billCount", "childrenCount", "grossRevenue", "discounts", "writeOffs", "refunds",
     "netRevenue", "tax", "cashAmount", "cardAmount", "bankTransferAmount", "otherAmount",
     "playRevenue", "groupRevenue", "productRevenue", "cancelledCount", "sessionCount",
     "playMinutes", "minimumAppliedCount", "voidedCount"}

\* A row with the figures of these bills and tickets: each is a sum or a count over them.
RowOf(row, bills, closed, cancelled, voided) ==
    /\ row.billCount = Cardinality(bills)
    /\ row.childrenCount = SumFunctionOnSet(OfChildren, bills)
    /\ row.grossRevenue = SumFunctionOnSet(OfSubtotal, bills)
    /\ row.discounts = SumFunctionOnSet(OfDiscount, bills)
    /\ row.writeOffs = SumFunctionOnSet(OfWriteOff, bills)
    /\ row.refunds = SumFunctionOnSet(OfRefund, bills)
    /\ row.netRevenue = SumFunctionOnSet(OfNet, bills)
    /\ row.tax = SumFunctionOnSet(OfTax, bills)
    /\ row.cashAmount = SumFunctionOnSet(OfMethod("CASH"), bills)
    /\ row.cardAmount = SumFunctionOnSet(OfMethod("CARD"), bills)
    /\ row.bankTransferAmount = SumFunctionOnSet(OfMethod("BANK_TRANSFER"), bills)
    /\ row.otherAmount = SumFunctionOnSet(OfMethod("OTHER"), bills)
    /\ row.playRevenue = SumFunctionOnSet(OfKind("PLAY"), bills)
    /\ row.groupRevenue = SumFunctionOnSet(OfKind("GROUP"), bills)
    /\ row.productRevenue = SumFunctionOnSet(OfKind("PRODUCT"), bills)
    /\ row.cancelledCount = Cardinality(cancelled)
    /\ row.sessionCount = Cardinality(closed)
    /\ row.playMinutes = SumFunctionOnSet(OfMinutes, closed)
    /\ row.minimumAppliedCount = Cardinality({s \in closed : MinimumApplied(s)})
    /\ row.voidedCount = Cardinality(voided)

\* A bucket is the row of what belongs in it.
LEMMA CellsAre ==
    ASSUME LedgerTypes, NEW r \in Ranges, NEW by \in Groupings, NEW label
    PROVE  RowOf(PeriodBucket(r, by, label), KeyedBy(Recognized(r), PaidOn(by), label),
                 KeyedBy(ClosedIn(r), ClosedOn(by), label),
                 KeyedBy(CancelledIn(r), CancelledOn(by), label),
                 KeyedBy(VoidedIn(r), VoidedOn(by), label))
<1> DEFINE row == PeriodBucket(r, by, label)
           bills == KeyedBy(Recognized(r), PaidOn(by), label)
           closed == KeyedBy(ClosedIn(r), ClosedOn(by), label)
<1>1. /\ Recognized(r) \subseteq Sales /\ CancelledIn(r) \subseteq Sales
      /\ ClosedIn(r) \subseteq Sales /\ VoidedIn(r) \subseteq Sales
  BY DEF Recognized, CancelledIn, ClosedIn, VoidedIn
<1>2. bills = {s \in Recognized(r) : BucketOf(by, bill[s].paidAt) = label}
  BY <1>1 DEF KeyedBy, PaidOn
<1>3. closed = {s \in ClosedIn(r) : BucketOf(by, ticket[s].checkOutAt) = label}
  BY <1>1 DEF KeyedBy, ClosedOn
<1>4. KeyedBy(CancelledIn(r), CancelledOn(by), label)
        = {s \in CancelledIn(r) : BucketOf(by, bill[s].cancelledAt) = label}
  BY <1>1 DEF KeyedBy, CancelledOn
<1>5. KeyedBy(VoidedIn(r), VoidedOn(by), label)
        = {s \in VoidedIn(r) : BucketOf(by, ticket[s].voidedAt) = label}
  BY <1>1 DEF KeyedBy, VoidedOn
<1>6. bills \in SUBSET Sales /\ closed \in SUBSET Sales
  BY <1>1 DEF KeyedBy
<1>7. /\ row.billCount = Cardinality(bills)
      /\ row.childrenCount = SumOver(ChildrenOnBill, bills)
      /\ row.grossRevenue = SumOver(Subtotal, bills)
      /\ row.discounts = Discounts(bills)
      /\ row.writeOffs = WriteOffs(bills)
      /\ row.refunds = SumOver(GrandTotal, Refunded(bills))
      /\ row.netRevenue = NetRevenue(bills)
  BY <1>2 DEF PeriodBucket
<1>8. /\ row.tax = SumOver(LAMBDA s : s.tax, bills)
      /\ row.cashAmount = SumOver(LAMBDA s : PaidAmountWithMethod(s, "CASH"), bills)
      /\ row.cardAmount = SumOver(LAMBDA s : PaidAmountWithMethod(s, "CARD"), bills)
      /\ row.bankTransferAmount = SumOver(LAMBDA s : PaidAmountWithMethod(s, "BANK_TRANSFER"), bills)
      /\ row.otherAmount = SumOver(LAMBDA s : PaidAmountWithMethod(s, "OTHER"), bills)
      /\ row.playRevenue = SumOver(LAMBDA s : LineRevenueOfKind(s, "PLAY"), bills)
      /\ row.groupRevenue = SumOver(LAMBDA s : LineRevenueOfKind(s, "GROUP"), bills)
      /\ row.productRevenue = SumOver(LAMBDA s : LineRevenueOfKind(s, "PRODUCT"), bills)
  BY <1>2 DEF PeriodBucket
<1>9. /\ row.cancelledCount = Cardinality(KeyedBy(CancelledIn(r), CancelledOn(by), label))
       /\ row.sessionCount = Cardinality(closed)
       /\ row.playMinutes = SumOver(ChildMinutes, closed)
       /\ row.minimumAppliedCount = Cardinality({s \in closed : MinimumApplied(s)})
       /\ row.voidedCount = Cardinality(KeyedBy(VoidedIn(r), VoidedOn(by), label))
  BY <1>3, <1>4, <1>5 DEF PeriodBucket
<1> HIDE DEF row, bills, closed
<1>10. /\ row.billCount = Cardinality(bills)
       /\ row.childrenCount = SumFunctionOnSet(OfChildren, bills)
       /\ row.grossRevenue = SumFunctionOnSet(OfSubtotal, bills)
       /\ row.discounts = SumFunctionOnSet(OfDiscount, bills)
       /\ row.writeOffs = SumFunctionOnSet(OfWriteOff, bills)
       /\ row.refunds = SumFunctionOnSet(OfRefund, bills)
       /\ row.netRevenue = SumFunctionOnSet(OfNet, bills)
  BY <1>6, <1>7, FiguresAre, NetIs
<1>11. /\ row.tax = SumFunctionOnSet(OfTax, bills)
       /\ row.cashAmount = SumFunctionOnSet(OfMethod("CASH"), bills)
       /\ row.cardAmount = SumFunctionOnSet(OfMethod("CARD"), bills)
       /\ row.bankTransferAmount = SumFunctionOnSet(OfMethod("BANK_TRANSFER"), bills)
       /\ row.otherAmount = SumFunctionOnSet(OfMethod("OTHER"), bills)
       /\ row.playRevenue = SumFunctionOnSet(OfKind("PLAY"), bills)
       /\ row.groupRevenue = SumFunctionOnSet(OfKind("GROUP"), bills)
       /\ row.productRevenue = SumFunctionOnSet(OfKind("PRODUCT"), bills)
  BY <1>6, <1>8, FiguresAre
<1>12. row.playMinutes = SumFunctionOnSet(OfMinutes, closed)
  BY <1>6, <1>9, FiguresAre
<1> QED
  BY <1>9, <1>10, <1>11, <1>12 DEF RowOf, row, bills, closed

\* A bill that counts was paid, by one of the methods; it is either refunded or not.
LEMMA RecognizedAre ==
    ASSUME LedgerInv, NEW r, r.from \in Int, r.to \in Int
    PROVE  /\ Recognized(r) \in SUBSET Sales /\ IsFiniteSet(Recognized(r))
           /\ \A s \in Recognized(r) : bill[s].status \in {"PAID", "REFUNDED"}
                /\ bill[s].paymentMethod \in Methods
           /\ Cardinality(Recognized(r))
                = Cardinality(StillPaid(Recognized(r))) + Cardinality(Refunded(Recognized(r)))
<1> DEFINE R == Recognized(r)
<1>1. R \in SUBSET Sales /\ IsFiniteSet(R)
  BY SalesAreSales, FS_Subset DEF Recognized
<1>2. \A s \in R : bill[s].status \in {"PAID", "REFUNDED"}
  BY DEF Recognized
<1>3. \A s \in R : bill[s].paymentMethod \in Methods
  BY <1>1, <1>2 DEF LedgerInv, Sound
<1>4. /\ R = StillPaid(R) \cup Refunded(R)
      /\ StillPaid(R) \cap Refunded(R) = {}
      /\ StillPaid(R) \subseteq R /\ Refunded(R) \subseteq R
  BY <1>2 DEF StillPaid, Refunded
<1> HIDE DEF R
<1>5. IsFiniteSet(StillPaid(R)) /\ IsFiniteSet(Refunded(R))
  BY <1>1, <1>4, FS_Subset
<1>6. Cardinality(StillPaid(R) \cup Refunded(R))
        = Cardinality(StillPaid(R)) + Cardinality(Refunded(R)) - 0
  BY <1>4, <1>5, FS_Union, FS_EmptySet
<1>7. Cardinality(StillPaid(R)) \in Nat /\ Cardinality(Refunded(R)) \in Nat
  BY <1>5, FS_CardinalityType
<1>8. Cardinality(R) = Cardinality(StillPaid(R)) + Cardinality(Refunded(R))
  <2>1. Cardinality(R) = Cardinality(StillPaid(R) \cup Refunded(R))
    BY <1>4, Zenon
  <2> HIDE <1>4
  <2> QED
    BY <1>6, <1>7, <2>1
<1> QED
  BY <1>1, <1>2, <1>3, <1>8 DEF R

\* So are the sums of the columns, of everything in the range.
LEMMA ColumnsAre ==
    ASSUME LedgerInv, NEW r \in Ranges, NEW by \in Groupings
    PROVE  RowOf([column \in Columns |-> ColumnSum(r, by, column)], Recognized(r), ClosedIn(r),
                 CancelledIn(r), VoidedIn(r))
<1> DEFINE bills == Recognized(r)
           closed == ClosedIn(r)
           shortened == {s \in closed : MinimumApplied(s)}
           labels == BucketLabels(r, by)
           cell(label, column) == PeriodBucket(r, by, label)[column]
           paid(label) == KeyedBy(bills, PaidOn(by), label)
           done(label) == KeyedBy(closed, ClosedOn(by), label)
           sums == [column \in Columns |-> ColumnSum(r, by, column)]
<1>1. LedgerTypes /\ now \in Times /\ r.from \in Int /\ r.to \in Int
  BY RangesAre DEF LedgerInv, LedgerTypes
<1>2. /\ bills \in SUBSET Sales /\ closed \in SUBSET Sales /\ shortened \in SUBSET closed
      /\ CancelledIn(r) \in SUBSET Sales /\ VoidedIn(r) \in SUBSET Sales
  BY DEF Recognized, ClosedIn, CancelledIn, VoidedIn
<1>3. /\ IsFiniteSet(bills) /\ IsFiniteSet(closed) /\ IsFiniteSet(shortened)
      /\ IsFiniteSet(CancelledIn(r)) /\ IsFiniteSet(VoidedIn(r))
  <2>1. IsFiniteSet(Sales)
    BY SalesAreSales
  <2> HIDE DEF bills, closed, shortened
  <2> QED
    BY <1>2, <2>1, FS_Subset
<1>4. /\ \A s \in bills : PaidOn(by)[s] \in labels
      /\ \A s \in CancelledIn(r) : CancelledOn(by)[s] \in labels
      /\ \A s \in closed : ClosedOn(by)[s] \in labels
      /\ \A s \in shortened : ClosedOn(by)[s] \in labels
      /\ \A s \in VoidedIn(r) : VoidedOn(by)[s] \in labels
  BY <1>1, OnBuckets
<1>5. \A label \in labels :
        RowOf(PeriodBucket(r, by, label), paid(label), done(label),
              KeyedBy(CancelledIn(r), CancelledOn(by), label),
              KeyedBy(VoidedIn(r), VoidedOn(by), label))
  BY <1>1, CellsAre
<1>6. \A label \in labels :
         KeyedBy(shortened, ClosedOn(by), label) = {s \in done(label) : MinimumApplied(s)}
  BY DEF KeyedBy
<1> HIDE DEF bills, closed, shortened, paid, done
<1>7. \A label \in labels :
         /\ cell(label, "billCount") = Cardinality(paid(label))
         /\ cell(label, "cancelledCount")
              = Cardinality(KeyedBy(CancelledIn(r), CancelledOn(by), label))
         /\ cell(label, "sessionCount") = Cardinality(done(label))
         /\ cell(label, "playMinutes") = SumFunctionOnSet(OfMinutes, done(label))
         /\ cell(label, "minimumAppliedCount") = Cardinality(KeyedBy(shortened, ClosedOn(by), label))
         /\ cell(label, "voidedCount") = Cardinality(KeyedBy(VoidedIn(r), VoidedOn(by), label))
  BY <1>5, <1>6 DEF RowOf
<1>8. \A label \in labels : cell(label, "childrenCount") = SumFunctionOnSet(OfChildren, paid(label))
  BY <1>5 DEF RowOf
<1>9. \A label \in labels : cell(label, "grossRevenue") = SumFunctionOnSet(OfSubtotal, paid(label))
  BY <1>5 DEF RowOf
<1>10. \A label \in labels : cell(label, "discounts") = SumFunctionOnSet(OfDiscount, paid(label))
  BY <1>5 DEF RowOf
<1>11. \A label \in labels : cell(label, "writeOffs") = SumFunctionOnSet(OfWriteOff, paid(label))
  BY <1>5 DEF RowOf
<1>12. \A label \in labels : cell(label, "refunds") = SumFunctionOnSet(OfRefund, paid(label))
  BY <1>5 DEF RowOf
<1>13. \A label \in labels : cell(label, "netRevenue") = SumFunctionOnSet(OfNet, paid(label))
  BY <1>5 DEF RowOf
<1>14. \A label \in labels : cell(label, "tax") = SumFunctionOnSet(OfTax, paid(label))
  BY <1>5 DEF RowOf
<1>15. \A label \in labels :
         cell(label, "cashAmount") = SumFunctionOnSet(OfMethod("CASH"), paid(label))
  BY <1>5 DEF RowOf
<1>16. \A label \in labels :
         cell(label, "cardAmount") = SumFunctionOnSet(OfMethod("CARD"), paid(label))
  BY <1>5 DEF RowOf
<1>17. \A label \in labels :
         cell(label, "bankTransferAmount") = SumFunctionOnSet(OfMethod("BANK_TRANSFER"), paid(label))
  BY <1>5 DEF RowOf
<1>18. \A label \in labels :
         cell(label, "otherAmount") = SumFunctionOnSet(OfMethod("OTHER"), paid(label))
  BY <1>5 DEF RowOf
<1>19. \A label \in labels :
         cell(label, "playRevenue") = SumFunctionOnSet(OfKind("PLAY"), paid(label))
  BY <1>5 DEF RowOf
<1>20. \A label \in labels :
         cell(label, "groupRevenue") = SumFunctionOnSet(OfKind("GROUP"), paid(label))
  BY <1>5 DEF RowOf
<1>21. \A label \in labels :
         cell(label, "productRevenue") = SumFunctionOnSet(OfKind("PRODUCT"), paid(label))
  BY <1>5 DEF RowOf
<1>22. /\ \A s \in bills : /\ OfChildren[s] \in Int /\ OfSubtotal[s] \in Int
                                /\ OfDiscount[s] \in Int
                           /\ OfWriteOff[s] \in Int /\ OfRefund[s] \in Int /\ OfNet[s] \in Int
                           /\ OfTax[s] \in Int
                           /\ OfMethod("CASH")[s] \in Int /\ OfMethod("CARD")[s] \in Int
                           /\ OfMethod("BANK_TRANSFER")[s] \in Int /\ OfMethod("OTHER")[s] \in Int
                           /\ OfKind("PLAY")[s] \in Int
                           /\ OfKind("GROUP")[s] \in Int /\ OfKind("PRODUCT")[s] \in Int
       /\ \A s \in closed : OfMinutes[s] \in Int
  BY <1>1, <1>2, SharesAre
<1> USE DEF paid, done
<1>23. ColumnSum(r, by, "childrenCount") = SumFunctionOnSet(OfChildren, bills)
  BY <1>1, <1>3, <1>4, <1>8, <1>22, ColumnAddsUp
<1>24. ColumnSum(r, by, "grossRevenue") = SumFunctionOnSet(OfSubtotal, bills)
  BY <1>1, <1>3, <1>4, <1>9, <1>22, ColumnAddsUp
<1>25. ColumnSum(r, by, "discounts") = SumFunctionOnSet(OfDiscount, bills)
  BY <1>1, <1>3, <1>4, <1>10, <1>22, ColumnAddsUp
<1>26. ColumnSum(r, by, "writeOffs") = SumFunctionOnSet(OfWriteOff, bills)
  BY <1>1, <1>3, <1>4, <1>11, <1>22, ColumnAddsUp
<1>27. ColumnSum(r, by, "refunds") = SumFunctionOnSet(OfRefund, bills)
  BY <1>1, <1>3, <1>4, <1>12, <1>22, ColumnAddsUp
<1>28. ColumnSum(r, by, "netRevenue") = SumFunctionOnSet(OfNet, bills)
  BY <1>1, <1>3, <1>4, <1>13, <1>22, ColumnAddsUp
<1>29. ColumnSum(r, by, "tax") = SumFunctionOnSet(OfTax, bills)
  BY <1>1, <1>3, <1>4, <1>14, <1>22, ColumnAddsUp
<1>30. ColumnSum(r, by, "cashAmount") = SumFunctionOnSet(OfMethod("CASH"), bills)
  BY <1>1, <1>3, <1>4, <1>15, <1>22, ColumnAddsUp
<1>31. ColumnSum(r, by, "cardAmount") = SumFunctionOnSet(OfMethod("CARD"), bills)
  BY <1>1, <1>3, <1>4, <1>16, <1>22, ColumnAddsUp
<1>32. ColumnSum(r, by, "bankTransferAmount") = SumFunctionOnSet(OfMethod("BANK_TRANSFER"), bills)
  BY <1>1, <1>3, <1>4, <1>17, <1>22, ColumnAddsUp
<1>33. ColumnSum(r, by, "otherAmount") = SumFunctionOnSet(OfMethod("OTHER"), bills)
  BY <1>1, <1>3, <1>4, <1>18, <1>22, ColumnAddsUp
<1>34. ColumnSum(r, by, "playRevenue") = SumFunctionOnSet(OfKind("PLAY"), bills)
  BY <1>1, <1>3, <1>4, <1>19, <1>22, ColumnAddsUp
<1>35. ColumnSum(r, by, "groupRevenue") = SumFunctionOnSet(OfKind("GROUP"), bills)
  BY <1>1, <1>3, <1>4, <1>20, <1>22, ColumnAddsUp
<1>36. ColumnSum(r, by, "productRevenue") = SumFunctionOnSet(OfKind("PRODUCT"), bills)
  BY <1>1, <1>3, <1>4, <1>21, <1>22, ColumnAddsUp
<1>37. ColumnSum(r, by, "billCount") = Cardinality(bills)
  BY <1>1, <1>3, <1>4, <1>7, ColumnCounts
<1>38. ColumnSum(r, by, "cancelledCount") = Cardinality(CancelledIn(r))
  BY <1>1, <1>3, <1>4, <1>7, ColumnCounts
<1>39. ColumnSum(r, by, "sessionCount") = Cardinality(closed)
  BY <1>1, <1>3, <1>4, <1>7, ColumnCounts
<1>40. ColumnSum(r, by, "minimumAppliedCount") = Cardinality(shortened)
  BY <1>1, <1>3, <1>4, <1>7, ColumnCounts
<1>41. ColumnSum(r, by, "voidedCount") = Cardinality(VoidedIn(r))
  BY <1>1, <1>3, <1>4, <1>7, ColumnCounts
<1>42. ColumnSum(r, by, "playMinutes") = SumFunctionOnSet(OfMinutes, closed)
  BY <1>1, <1>3, <1>4, <1>7, <1>22, ColumnAddsUp
<1>43. \A column \in Columns : sums[column] = ColumnSum(r, by, column)
  OBVIOUS
<1> HIDE DEF sums
<1>44. RowOf(sums, bills, closed, CancelledIn(r), VoidedIn(r))
  BY <1>23, <1>24, <1>25, <1>26, <1>27, <1>28, <1>29, <1>30, <1>31, <1>32, <1>33, <1>34, <1>35, <1>36, <1>37,
       <1>38, <1>39, <1>40, <1>41, <1>42, <1>43
     DEF RowOf, Columns, shortened
<1> QED
  BY <1>44 DEF sums, bills, closed

\* And so is the TOTAL row, which the dashboard adds up over the whole range.
LEMMA TotalsAre ==
    ASSUME LedgerInv, NEW r \in Ranges, NEW by \in Groupings
    PROVE  RowOf(TotalsRow(r, Buckets(r, by)), Recognized(r), ClosedIn(r), CancelledIn(r), VoidedIn(r))
<1> DEFINE totals == TotalsRow(r, Buckets(r, by))
           sums == [column \in Columns |-> ColumnSum(r, by, column)]
           bills == Recognized(r)
           closed == ClosedIn(r)
<1>1. LedgerTypes /\ r.from \in Int /\ r.to \in Int
  <2>1. LedgerTypes /\ now \in Times /\ "day" \in Groupings
    BY DEF LedgerInv, LedgerTypes, Groupings
  <2> QED
    BY <2>1, RangesAre
<1>2. bills \in SUBSET Sales /\ closed \in SUBSET Sales
  BY DEF Recognized, ClosedIn
<1>3. Cardinality(bills) = Cardinality(StillPaid(bills)) + Cardinality(Refunded(bills))
  BY <1>1, RecognizedAre
<1>4. /\ totals.billCount = Cardinality(StillPaid(bills)) + Cardinality(Refunded(bills))
      /\ totals.childrenCount = SumOver(ChildrenOnBill, bills)
      /\ totals.grossRevenue = SumOver(Subtotal, bills)
      /\ totals.discounts = Discounts(bills)
      /\ totals.writeOffs = WriteOffs(bills)
      /\ totals.refunds = SumOver(GrandTotal, Refunded(bills))
      /\ totals.netRevenue = NetRevenue(bills)
      /\ totals.cancelledCount = Cardinality(CancelledIn(r))
  BY DEF TotalsRow, Summary
<1>5. /\ totals.cashAmount
           = SumOver(GrandTotal, {s \in StillPaid(bills) : bill[s].paymentMethod = "CASH"})
      /\ totals.cardAmount
           = SumOver(GrandTotal, {s \in StillPaid(bills) : bill[s].paymentMethod = "CARD"})
      /\ totals.bankTransferAmount
           = SumOver(GrandTotal, {s \in StillPaid(bills) : bill[s].paymentMethod = "BANK_TRANSFER"})
      /\ totals.otherAmount
           = SumOver(GrandTotal, {s \in StillPaid(bills) : bill[s].paymentMethod = "OTHER"})
  BY DEF TotalsRow, PaymentMethodBreakdown, Methods
<1>6. /\ totals.playRevenue = SumOver(LAMBDA at : LineAt(at).total, LinesOfKind(bills, "PLAY"))
      /\ totals.groupRevenue = SumOver(LAMBDA at : LineAt(at).total, LinesOfKind(bills, "GROUP"))
      /\ totals.productRevenue
           = SumOver(LAMBDA at : LineAt(at).total, LinesOfKind(bills, "PRODUCT"))
  BY DEF TotalsRow, Summary, Kinds
<1>7. /\ totals.sessionCount = Cardinality(closed)
      /\ totals.playMinutes = SumOver(ChildMinutes, closed)
      /\ totals.minimumAppliedCount = Cardinality({s \in closed : MinimumApplied(s)})
      /\ totals.voidedCount = Cardinality(VoidedIn(r))
  BY DEF TotalsRow, SessionSummary
<1>8. totals.tax = SumFunctionOnSet(OfTax, bills)
  <2>1. totals.tax = ColumnSum(r, by, "tax")
    BY DEF TotalsRow, SumOver, ColumnSum
  <2>2. RowOf(sums, Recognized(r), ClosedIn(r), CancelledIn(r), VoidedIn(r))
    BY ColumnsAre
  <2>3. sums.tax = ColumnSum(r, by, "tax")
    BY DEF Columns
  <2> HIDE DEF sums, totals
  <2> QED
    BY <2>1, <2>2, <2>3 DEF RowOf
<1> HIDE DEF totals, bills, closed
<1>9. /\ totals.childrenCount = SumFunctionOnSet(OfChildren, bills)
      /\ totals.grossRevenue = SumFunctionOnSet(OfSubtotal, bills)
      /\ totals.discounts = SumFunctionOnSet(OfDiscount, bills)
      /\ totals.writeOffs = SumFunctionOnSet(OfWriteOff, bills)
      /\ totals.refunds = SumFunctionOnSet(OfRefund, bills)
      /\ totals.netRevenue = SumFunctionOnSet(OfNet, bills)
  BY <1>1, <1>2, <1>4, FiguresAre, NetIs
<1>10. /\ totals.cashAmount = SumFunctionOnSet(OfMethod("CASH"), bills)
      /\ totals.cardAmount = SumFunctionOnSet(OfMethod("CARD"), bills)
      /\ totals.bankTransferAmount = SumFunctionOnSet(OfMethod("BANK_TRANSFER"), bills)
      /\ totals.otherAmount = SumFunctionOnSet(OfMethod("OTHER"), bills)
  BY <1>1, <1>2, <1>5, MethodIs
<1>11. /\ totals.playRevenue = SumFunctionOnSet(OfKind("PLAY"), bills)
       /\ totals.groupRevenue = SumFunctionOnSet(OfKind("GROUP"), bills)
       /\ totals.productRevenue = SumFunctionOnSet(OfKind("PRODUCT"), bills)
  BY <1>1, <1>2, <1>6, KindIs
<1>12. totals.playMinutes = SumFunctionOnSet(OfMinutes, closed)
  BY <1>1, <1>2, <1>7, FiguresAre
<1> QED
  BY <1>3, <1>4, <1>7, <1>8, <1>9, <1>10, <1>11, <1>12 DEF RowOf, totals, bills, closed

\* So each column of the TOTAL row is the sum of the buckets.
LEMMA TotalsAddUp ==
    ASSUME LedgerInv, NEW r \in Ranges, NEW by \in Groupings,
           NEW column \in DOMAIN TotalsRow(r, Buckets(r, by))
    PROVE  TotalsRow(r, Buckets(r, by))[column] = ColumnSum(r, by, column)
<1> DEFINE totals == TotalsRow(r, Buckets(r, by))
           sums == [c \in Columns |-> ColumnSum(r, by, c)]
<1>1. RowOf(totals, Recognized(r), ClosedIn(r), CancelledIn(r), VoidedIn(r))
  BY TotalsAre
<1>2. RowOf(sums, Recognized(r), ClosedIn(r), CancelledIn(r), VoidedIn(r))
  BY ColumnsAre
<1>3. DOMAIN totals = Columns
  BY DEF TotalsRow, Columns
<1>4. sums[column] = ColumnSum(r, by, column)
  BY <1>3
<1> HIDE DEF totals, sums
<1>5. \A c \in Columns : totals[c] = sums[c]
  BY <1>1, <1>2 DEF RowOf, Columns
<1> QED
  BY <1>3, <1>4, <1>5 DEF totals

\* The days a bucket prints are those of its period that are in the range.
LEMMA BucketDays ==
    ASSUME now \in Times, NEW r \in Ranges, NEW by \in Groupings, NEW label \in BucketLabels(r, by),
           NEW day \in Int, r.from <= day, day <= r.to
    PROVE  PeriodStart(by, day) = label
            <=> day \in PeriodBucket(r, by, label).start .. PeriodBucket(r, by, label).end
<1> DEFINE start == PeriodBucket(r, by, label).start
           end == PeriodBucket(r, by, label).end
           last == PeriodEnd(by, label)
<1>1. start = Max({label, r.from}) /\ end = Min({last, r.to})
  BY DEF PeriodBucket
<1>2. r.from \in Int /\ r.to \in Int /\ Covered(by, day)
  BY RangesAre
<1>3. label \in Int /\ Covered(by, label) /\ PeriodStart(by, label) = label /\ label <= r.to
  BY LabelsAre
<1>4. /\ last \in Int /\ label <= last
      /\ \A d \in Int : label <= d /\ d <= last => PeriodStart(by, d) = label
  BY <1>3, PeriodsAre
<1>9. \A x, y : IsFiniteSet({x, y})
  <2> TAKE x, y
  <2>1. {x, y} = {x} \cup {y}
    OBVIOUS
  <2>2. IsFiniteSet({x})
    BY FS_Singleton
  <2>3. IsFiniteSet({x} \cup {y})
    BY <2>2, FS_AddElement
  <2> QED
    BY <2>1, <2>3
<1>5. start \in {label, r.from} /\ label <= start /\ r.from <= start /\ start \in Int
  <2>1. {label, r.from} \subseteq Int /\ {label, r.from} # {} /\ IsFiniteSet({label, r.from})
    BY <1>2, <1>3, <1>9
  <2> QED
    BY <1>1, <2>1, MaxIs
<1>6. end \in {last, r.to} /\ end <= last /\ end <= r.to /\ end \in Int
  <2>1. {last, r.to} \subseteq Int /\ {last, r.to} # {} /\ IsFiniteSet({last, r.to})
    BY <1>2, <1>4, <1>9
  <2> QED
    BY <1>1, <2>1, MinIs
<1> HIDE DEF start, end, last
<1>7. day \in start .. end <=> label <= day /\ day <= last
  BY <1>2, <1>3, <1>4, <1>5, <1>6
<1>8. ASSUME PeriodStart(by, day) = label PROVE label <= day /\ day <= last
  <2>1. label <= day /\ day <= PeriodEnd(by, day) /\ PeriodEnd(by, day) \in Int
    BY <1>2, <1>8, PeriodsAre
  <2>2. label <= PeriodEnd(by, day)
    BY <1>3, <2>1
  <2>3. PeriodEnd(by, label) = PeriodEnd(by, day)
    BY <1>2, <1>3, <1>8, <2>2, PeriodsAre
  <2> QED
    BY <2>1, <2>3 DEF last
<1> QED
  BY <1>4, <1>7, <1>8 DEF start, end


\* What every state of the ledger shows adds up.
LEMMA BucketsDoAddUp ==
    ASSUME LedgerInv
    PROVE  \A r \in Ranges, by \in Groupings :
               BucketsAddUp(r, by, Buckets(r, by), TotalsRow(r, Buckets(r, by)))
<1> SUFFICES ASSUME NEW r \in Ranges, NEW by \in Groupings
             PROVE  /\ \A column \in DOMAIN TotalsRow(r, Buckets(r, by)) :
                           TotalsRow(r, Buckets(r, by))[column]
                             = SumOver(LAMBDA bucket : bucket[column], Buckets(r, by))
                    /\ \A s \in Recognized(r), bucket \in Buckets(r, by) :
                           BucketOf(by, bill[s].paidAt) = bucket.label
                             <=> Day(bill[s].paidAt) \in bucket.start .. bucket.end
  BY Zenon DEF BucketsAddUp
<1>1. LedgerTypes /\ now \in Times
  BY DEF LedgerInv, LedgerTypes
<1>2. r.from \in Int /\ r.to \in Int
  BY <1>1, RangesAre
<1>3. ASSUME NEW column \in DOMAIN TotalsRow(r, Buckets(r, by))
      PROVE  TotalsRow(r, Buckets(r, by))[column]
               = SumOver(LAMBDA bucket : bucket[column], Buckets(r, by))
  <2>1. SumOver(LAMBDA bucket : bucket[column], Buckets(r, by)) = ColumnSum(r, by, column)
    BY DEF SumOver, ColumnSum
  <2> QED
    BY <2>1, TotalsAddUp
<1>4. ASSUME NEW s \in Recognized(r), NEW bucket \in Buckets(r, by)
      PROVE  BucketOf(by, bill[s].paidAt) = bucket.label
               <=> Day(bill[s].paidAt) \in bucket.start .. bucket.end
  <2>1. PICK label \in BucketLabels(r, by) : bucket = PeriodBucket(r, by, label)
    BY DEF Buckets
  <2>2. bucket.label = label
    BY <2>1 DEF PeriodBucket
  <2> DEFINE t == bill[s].paidAt
  <2>3. t \in Times /\ Within(r, t)
    BY <1>1, <1>2, MatchesAre
  <2> HIDE DEF t
  <2>4. Day(t) \in Int /\ r.from <= Day(t) /\ Day(t) <= r.to
    BY <1>2, <2>3, WithinIs
  <2>5. PeriodStart(by, Day(t)) = label
          <=> Day(t) \in PeriodBucket(r, by, label).start .. PeriodBucket(r, by, label).end
    BY <1>1, <2>4, BucketDays
  <2> QED
    BY <2>1, <2>2, <2>5 DEF BucketOf, t
<1> QED
  BY <1>3, <1>4

\* And what was taken by each method is the net revenue and the tax.
LEMMA MethodsDoAddUp ==
    ASSUME LedgerInv
    PROVE  \A r \in Ranges, by \in Groupings :
               MethodsAreNetPlusTax(Buckets(r, by) \cup {TotalsRow(r, Buckets(r, by))})
<1> SUFFICES ASSUME NEW r \in Ranges, NEW by \in Groupings,
                    NEW row \in Buckets(r, by) \cup {TotalsRow(r, Buckets(r, by))}
             PROVE  row.cashAmount + row.cardAmount + row.bankTransferAmount + row.otherAmount
                      = row.netRevenue + row.tax
  BY Zenon DEF MethodsAreNetPlusTax
<1> DEFINE R == Recognized(r)
<1>1. LedgerTypes /\ now \in Times
  BY DEF LedgerInv, LedgerTypes
<1>2. r.from \in Int /\ r.to \in Int
  BY <1>1, RangesAre
<1>3. R \in SUBSET Sales /\ \A s \in R : bill[s].status \in {"PAID", "REFUNDED"}
        /\ bill[s].paymentMethod \in Methods
  BY <1>2, RecognizedAre
<1> HIDE DEF R
<1>4. \A T \in SUBSET R :
        SumFunctionOnSet(OfMethod("CASH"), T) + SumFunctionOnSet(OfMethod("CARD"), T)
         + SumFunctionOnSet(OfMethod("BANK_TRANSFER"), T) + SumFunctionOnSet(OfMethod("OTHER"), T)
                            = SumFunctionOnSet(OfNet, T) + SumFunctionOnSet(OfTax, T)
  <2> TAKE T \in SUBSET R
  <2>1. T \in SUBSET Sales
        /\ \A s \in T : bill[s].status \in {"PAID", "REFUNDED"} /\ bill[s].paymentMethod \in Methods
    BY <1>3
  <2> QED
    BY <1>1, <2>1, MethodsAddUp
<1>5. ASSUME NEW T \in SUBSET R, NEW closed, NEW cancelled, NEW voided,
             RowOf(row, T, closed, cancelled, voided)
      PROVE  row.cashAmount + row.cardAmount + row.bankTransferAmount + row.otherAmount
               = row.netRevenue + row.tax
  BY <1>4, <1>5 DEF RowOf
<1>6. CASE row \in Buckets(r, by)
  <2>1. PICK label \in BucketLabels(r, by) : row = PeriodBucket(r, by, label)
    BY <1>6 DEF Buckets
  <2> DEFINE T == KeyedBy(R, PaidOn(by), label)
  <2>2. RowOf(row, T, KeyedBy(ClosedIn(r), ClosedOn(by), label),
              KeyedBy(CancelledIn(r), CancelledOn(by), label),
              KeyedBy(VoidedIn(r), VoidedOn(by), label))
    BY <1>1, <2>1, CellsAre DEF R
  <2>3. T \in SUBSET R
    BY DEF KeyedBy
  <2> HIDE DEF T
  <2> QED
    BY <1>5, <2>2, <2>3
<1>7. CASE row = TotalsRow(r, Buckets(r, by))
  <2>1. RowOf(row, R, ClosedIn(r), CancelledIn(r), VoidedIn(r))
    BY <1>7, TotalsAre DEF R
  <2> QED
    BY <1>5, <2>1
<1> QED
  BY <1>6, <1>7

\* In every state, for every range and grouping: the TOTAL row is the sum of its buckets in every
\* column, a bill is in the bucket whose days it was paid on, and the payment methods add up to the
\* net revenue and the tax in every row.
THEOREM IncomeAlwaysAddsUp == Spec => []IncomeAddsUp
<1>1. LedgerInv => IncomeAddsUp
  BY BucketsDoAddUp, MethodsDoAddUp DEF IncomeAddsUp
<1> QED
  BY <1>1, LedgerInvariant, PTL

-----------------------------------------------------------------------------
(* The screens beside one another.                                          *)

\* A range is a record of two days.
LEMMA RangeIsRecord ==
    ASSUME NEW r \in Ranges
    PROVE  r = [from |-> r.from, to |-> r.to]
BY DEF Ranges, RangesOn, ThePeriodOf, ThePeriodBefore

\* The register sells what the dashboard counts.
LEMMA SoldAre ==
    ASSUME NEW r
    PROVE  /\ {s \in BillRegister(r) : bill[s].status # "CANCELLED"} = Recognized(r)
           /\ {s \in BillRegister(r) : bill[s].status \in {"PAID", "REFUNDED"}} = Recognized(r)
BY DEF BillRegister, Recognized

\* The register counts the children of a line as the dashboard does, and its columns by kind are
\* what was sold of the kind.
LEMMA RegisterRowIs ==
    ASSUME LedgerTypes, NEW T \in SUBSET Sales
    PROVE  /\ SumOver(LAMBDA s : RegisterRow(s).childrenCount, T) = SumFunctionOnSet(OfChildren, T)
           /\ \A kind \in Kinds :
                SumOver(LAMBDA s : CASE kind = "PLAY" -> RegisterRow(s).playAmount
                                     [] kind = "GROUP" -> RegisterRow(s).groupAmount
                                     [] kind = "PRODUCT" -> RegisterRow(s).productAmount, T)
                  = SumFunctionOnSet(OfKind(kind), T)
<1>1. IsFiniteSet(T)
  BY FiguresAre
<1>2. SumOver(LAMBDA s : RegisterRow(s).childrenCount, T) = SumFunctionOnSet(OfChildren, T)
  <2> DEFINE v == [s \in T |-> RegisterRow(s).childrenCount]
  <2>1. ASSUME NEW s \in T PROVE RegisterRow(s).childrenCount = ChildrenOnBill(s)
    <3> DEFINE x == [i \in DOMAIN s.lines |-> ChildrenOnLine(s.lines[i])]
               y == [i \in DOMAIN s.lines |->
                       CASE s.lines[i].kind = "GROUP" -> s.lines[i].quantity
                         [] s.lines[i].kind = "PRODUCT" -> 0
                         [] s.lines[i].kind = "PLAY" /\ s.lines[i].ticket -> s.lines[i].quantity
                         [] OTHER -> 1]
    <3>1. \A i \in DOMAIN s.lines : IsLine(s.lines[i])
      BY SalesAreSales
    <3>2. \A i \in DOMAIN s.lines : x[i] = y[i]
      <4> TAKE i \in DOMAIN s.lines
      <4> DEFINE line == s.lines[i]
      <4>1. line.kind \in Kinds /\ line.ticket \in BOOLEAN /\ (line.ticket => line.kind = "PLAY")
        BY <3>1 DEF IsLine
      <4>2. x[i] = ChildrenOnLine(line)
        OBVIOUS
      <4>3. y[i] = CASE line.kind = "GROUP" -> line.quantity
                     [] line.kind = "PRODUCT" -> 0
                     [] line.kind = "PLAY" /\ line.ticket -> line.quantity
                     [] OTHER -> 1
        OBVIOUS
      <4> HIDE DEF line, x, y
      <4> QED
        BY <4>1, <4>2, <4>3 DEF ChildrenOnLine, Kinds
    <3>3. x = y
      BY <3>2
    <3>4. RegisterRow(s).childrenCount = SumFunctionOnSet(x, DOMAIN s.lines)
      BY DEF RegisterRow, SumOfLines, SumOver
    <3>5. ChildrenOnBill(s) = SumFunctionOnSet(y, DOMAIN s.lines)
      BY DEF ChildrenOnBill, SumOfLines, SumOver
    <3> QED
      BY <3>3, <3>4, <3>5
  <2>2. \A s \in T : OfChildren[s] \in Int /\ v[s] = OfChildren[s]
    BY <2>1, SharesAre DEF OfChildren
  <2>3. SumOver(LAMBDA s : RegisterRow(s).childrenCount, T) = SumFunctionOnSet(v, T)
    BY DEF SumOver
  <2> HIDE DEF v
  <2> QED
    BY <1>1, <2>2, <2>3, SumSame
<1>3. ASSUME NEW kind \in Kinds
      PROVE  SumOver(LAMBDA s : CASE kind = "PLAY" -> RegisterRow(s).playAmount
                                  [] kind = "GROUP" -> RegisterRow(s).groupAmount
                                  [] kind = "PRODUCT" -> RegisterRow(s).productAmount, T)
               = SumFunctionOnSet(OfKind(kind), T)
  <2> DEFINE amount(s) == CASE kind = "PLAY" -> RegisterRow(s).playAmount
                            [] kind = "GROUP" -> RegisterRow(s).groupAmount
                            [] kind = "PRODUCT" -> RegisterRow(s).productAmount
             v == [s \in T |-> amount(s)]
             w == OfKind(kind)
  <2>1. \A s \in T : amount(s) = LineRevenueOfKind(s, kind)
    <3>4. \A s \in T : /\ RegisterRow(s).playAmount = LineRevenueOfKind(s, "PLAY")
                       /\ RegisterRow(s).groupAmount = LineRevenueOfKind(s, "GROUP")
                       /\ RegisterRow(s).productAmount = LineRevenueOfKind(s, "PRODUCT")
      BY DEF RegisterRow, LineRevenueOfKind, SumOfLines, SumOver
    <3>1. CASE kind = "PLAY"
      BY <3>1, <3>4
    <3>2. CASE kind = "GROUP"
      BY <3>2, <3>4
    <3>3. CASE kind = "PRODUCT"
      BY <3>3, <3>4
    <3> QED
      BY <3>1, <3>2, <3>3 DEF Kinds
  <2>2. \A s \in T : w[s] \in Int
    BY SharesAre
  <2>3. \A s \in T : w[s] = LineRevenueOfKind(s, kind)
    BY DEF OfKind
  <2>4. SumOver(LAMBDA s : CASE kind = "PLAY" -> RegisterRow(s).playAmount
                             [] kind = "GROUP" -> RegisterRow(s).groupAmount
                             [] kind = "PRODUCT" -> RegisterRow(s).productAmount, T)
                               = SumFunctionOnSet(v, T)
    BY DEF SumOver
  <2>5. \A s \in T : v[s] = amount(s)
    OBVIOUS
  <2> HIDE DEF v, w, amount
  <2>6. SumFunctionOnSet(w, T) = SumFunctionOnSet(v, T)
    BY <1>1, <2>1, <2>2, <2>3, <2>5, SumSame
  <2> QED
    BY <2>4, <2>6 DEF w
<1> QED
  BY <1>2, <1>3

\* The points of a chart by day are the days of the range, each with the net revenue of its bills.
LEMMA ChartAddsUp ==
    ASSUME LedgerTypes, NEW r \in Ranges
    PROVE  SumOver(LAMBDA day : RevenuePoint(r, "day", day).netRevenue, r.from .. r.to)
            = SumFunctionOnSet(OfNet, Recognized(r))
<1> DEFINE R == Recognized(r)
           days == r.from .. r.to
           at == PaidOn("day")
           w == [day \in days |-> RevenuePoint(r, "day", day).netRevenue]
<1>1. now \in Times /\ "day" \in Groupings
  BY DEF LedgerTypes, Groupings
<1>2. r.from \in Int /\ r.to \in Int
  BY <1>1, RangesAre
<1>3. /\ R \in SUBSET Sales /\ IsFiniteSet(R)
      /\ \A s \in R : bill[s].paidAt \in Times /\ Within(r, bill[s].paidAt)
  BY <1>2, MatchesAre, FS_Subset
<1>4. \A s \in R : at[s] \in days
  <2> TAKE s \in R
  <2> DEFINE t == bill[s].paidAt
  <2>1. t \in Times /\ Within(r, t) /\ at[s] = PeriodStart("day", Day(t))
    BY <1>3 DEF PaidOn, BucketOf
  <2> HIDE DEF t
  <2>2. Day(t) \in Int /\ r.from <= Day(t) /\ Day(t) <= r.to
    BY <1>2, <2>1, WithinIs
  <2>3. at[s] = Day(t)
    BY <2>1 DEF PeriodStart
  <2> QED
    BY <1>2, <2>2, <2>3
<1>5. ASSUME NEW day \in days
      PROVE  w[day] = SumFunctionOnSet(OfNet, KeyedBy(R, at, day))
  <2>1. KeyedBy(R, at, day) = {s \in R : BucketOf("day", bill[s].paidAt) = day}
    BY <1>3 DEF KeyedBy, PaidOn
  <2>2. RevenuePoint(r, "day", day).netRevenue = NetRevenue(KeyedBy(R, at, day))
    BY <2>1 DEF RevenuePoint
  <2>3. KeyedBy(R, at, day) \in SUBSET Sales
    BY <1>3 DEF KeyedBy
  <2> QED
    BY <2>2, <2>3, NetIs
<1>6. \A s \in R : OfNet[s] \in Int
  BY <1>3, SharesAre
<1>7. IsFiniteSet(days)
  BY <1>2, FS_Interval
<1>8. SumOver(LAMBDA day : RevenuePoint(r, "day", day).netRevenue, days) = SumFunctionOnSet(w, days)
  BY DEF SumOver
<1> HIDE DEF R, days, at, w
<1>9. SumFunctionOnSet(OfNet, R) = SumFunctionOnSet(w, days)
  BY <1>3, <1>4, <1>5, <1>6, <1>7, SumByKey
<1> QED
  BY <1>8, <1>9 DEF R, days

\* The table of what was sold of a kind adds up to the revenue of the kind.
LEMMA PerformanceAddsUp ==
    ASSUME LedgerTypes, NEW r, NEW kind
    PROVE  SumOver(LAMBDA of : Performance(r, kind)[of].revenue, DOMAIN Performance(r, kind))
            = SumFunctionOnSet(OfKind(kind), Recognized(r))
<1> DEFINE R == Recognized(r)
           P == LinesOfKind(R, kind)
           sold == [p \in P |-> LineAt(p).of]
           v == [p \in P |-> LineAt(p).total]
           K == {LineAt(p).of : p \in P}
           w == [what \in K |-> Performance(r, kind)[what].revenue]
<1>1. R \in SUBSET Sales
  BY DEF Recognized
<1>2. IsFiniteSet(P) /\ \A p \in P : LineAt(p).total \in Int
  <2> HIDE DEF R
  <2> QED
    BY <1>1, LinesAre
<1>3. SumOver(LAMBDA at : LineAt(at).total, P) = SumFunctionOnSet(OfKind(kind), R)
  <2> HIDE DEF R
  <2> QED
    BY <1>1, KindIs
<1>4. SumOver(LAMBDA at : LineAt(at).total, P) = SumFunctionOnSet(v, P)
  BY DEF SumOver
<1> HIDE DEF P, R
<1>5. K = {sold[p] : p \in P} /\ \A p \in P : sold[p] \in K /\ v[p] \in Int
  BY <1>2
<1>6. IsFiniteSet(K)
  <2> HIDE DEF sold, K
  <2> QED
    BY <1>2, <1>5, NamesAreFinite
<1>7. ASSUME NEW what \in K
      PROVE  w[what] = SumFunctionOnSet(v, KeyedBy(P, sold, what))
  <2> DEFINE of == {p \in P : LineAt(p).of = what}
             x == [p \in of |-> LineAt(p).total]
  <2>1. Performance(r, kind)[what].revenue = SumOver(LAMBDA at : LineAt(at).total, of)
    BY DEF Performance, P, R
  <2>2. SumOver(LAMBDA at : LineAt(at).total, of) = SumFunctionOnSet(x, of)
    BY DEF SumOver
  <2>3. of = KeyedBy(P, sold, what) /\ of \in SUBSET P
    BY DEF KeyedBy
  <2>4. IsFiniteSet(of)
    <3> HIDE DEF of
    <3> QED
      BY <1>2, <2>3, FS_Subset
  <2>5. \A p \in of : v[p] \in Int /\ x[p] = v[p]
    BY <1>5
  <2>6. w[what] = Performance(r, kind)[what].revenue
    OBVIOUS
  <2> HIDE DEF of, x, v, w, K, sold
  <2>7. SumFunctionOnSet(v, of) = SumFunctionOnSet(x, of)
    BY <2>4, <2>5, SumSame
  <2> QED
    BY <2>1, <2>2, <2>3, <2>6, <2>7
<1>8. DOMAIN Performance(r, kind) = K
  BY DEF Performance, P, R
<1>9. SumOver(LAMBDA of : Performance(r, kind)[of].revenue, DOMAIN Performance(r, kind))
        = SumFunctionOnSet(w, K)
  <2>1. SumOver(LAMBDA of : Performance(r, kind)[of].revenue, K) = SumFunctionOnSet(w, K)
    BY DEF SumOver
  <2> HIDE DEF K, w
  <2> QED
    BY <1>8, <2>1
<1> HIDE DEF K, w, v, sold
<1>10. SumFunctionOnSet(v, P) = SumFunctionOnSet(w, K)
  BY <1>2, <1>5, <1>6, <1>7, SumByKey
<1> QED
  BY <1>3, <1>4, <1>9, <1>10 DEF R

\* The cashiers' rows add up to what was paid by all methods, and to the paid bills.
LEMMA CashiersAddUp ==
    ASSUME LedgerInv, NEW r, r.from \in Int, r.to \in Int
    PROVE  /\ SumOver(LAMBDA of : CashierPerformance(r)[of].revenue, DOMAIN CashierPerformance(r))
                = PaymentMethodBreakdown(r)["CASH"] + PaymentMethodBreakdown(r)["CARD"]
                    + PaymentMethodBreakdown(r)["BANK_TRANSFER"] + PaymentMethodBreakdown(r)["OTHER"]
           /\ SumOver(LAMBDA cashier : CashierPerformance(r)[cashier].billCount,
                      DOMAIN CashierPerformance(r))
                = Cardinality(StillPaid(Recognized(r)))
<1> DEFINE B == StillPaid(Recognized(r))
           sold == [s \in B |-> s.cashier]
           K == {s.cashier : s \in B}
           w == [cashier \in K |-> CashierPerformance(r)[cashier].revenue]
           n == [cashier \in K |-> CashierPerformance(r)[cashier].billCount]
<1>1. LedgerTypes
  BY DEF LedgerInv
<1>2. /\ B \in SUBSET Sales /\ IsFiniteSet(B)
      /\ \A s \in B : bill[s].status = "PAID" /\ bill[s].paymentMethod \in Methods
  <2>1. /\ Recognized(r) \in SUBSET Sales /\ IsFiniteSet(Recognized(r))
        /\ \A s \in Recognized(r) : bill[s].paymentMethod \in Methods
    BY RecognizedAre
  <2>2. B \subseteq Recognized(r) /\ \A s \in B : bill[s].status = "PAID"
    BY DEF StillPaid
  <2> HIDE DEF B
  <2> QED
    BY <2>1, <2>2, FS_Subset
<1>3. \A method \in Methods :
        PaymentMethodBreakdown(r)[method] = SumFunctionOnSet(OfMethod(method), B)
  <2> TAKE method \in Methods
  <2>1. StillPaid(B) = B
    BY DEF StillPaid
  <2>2. PaymentMethodBreakdown(r)[method]
          = SumOver(GrandTotal, {s \in B : bill[s].paymentMethod = method})
    BY DEF PaymentMethodBreakdown
  <2> HIDE DEF B
  <2>3. SumOver(GrandTotal, {s \in StillPaid(B) : bill[s].paymentMethod = method})
          = SumFunctionOnSet(OfMethod(method), B)
    BY <1>1, <1>2, MethodIs
  <2>4. {s \in StillPaid(B) : bill[s].paymentMethod = method}
          = {s \in B : bill[s].paymentMethod = method}
    BY <2>1
  <2> QED
    BY <2>2, <2>3, <2>4
<1> HIDE DEF B
<1>4. \A s \in B : /\ OfTotal[s] \in Int /\ OfNet[s] \in Int /\ OfTax[s] \in Int
                   /\ OfTotal[s] = OfNet[s] + OfTax[s]
  <2> TAKE s \in B
  <2>1. OfTotal[s] \in Int /\ OfNet[s] \in Int /\ OfTax[s] \in Int
    BY <1>1, <1>2, SharesAre
  <2>2. OfTotal[s] = GrandTotal(s) /\ OfTax[s] = s.tax /\ OfRefund[s] = 0
    BY <1>2 DEF OfTotal, OfTax, OfRefund
  <2>3. OfNet[s] = Subtotal(s) - s.discount - bill[s].writeOff - OfRefund[s]
    BY <1>2 DEF OfNet
  <2>4. /\ Subtotal(s) \in Int /\ s.discount \in Int /\ s.tax \in Int /\ bill[s].writeOff \in Int
        /\ GrandTotal(s) = Subtotal(s) - s.discount + s.tax - bill[s].writeOff
    BY <1>1, <1>2, AmountsAre DEF GrandTotal, Charge
  <2> QED
    BY <2>1, <2>2, <2>3, <2>4
<1>5. SumFunctionOnSet(OfTotal, B)
        = PaymentMethodBreakdown(r)["CASH"] + PaymentMethodBreakdown(r)["CARD"]
            + PaymentMethodBreakdown(r)["BANK_TRANSFER"] + PaymentMethodBreakdown(r)["OTHER"]
  <2>1. SumFunctionOnSet(OfTotal, B) = SumFunctionOnSet(OfNet, B) + SumFunctionOnSet(OfTax, B)
    BY <1>2, <1>4, SumOfSums
  <2>2. \A s \in B : bill[s].status \in {"PAID", "REFUNDED"} /\ bill[s].paymentMethod \in Methods
    BY <1>2
  <2>3. SumFunctionOnSet(OfMethod("CASH"), B) + SumFunctionOnSet(OfMethod("CARD"), B)
          + SumFunctionOnSet(OfMethod("BANK_TRANSFER"), B) + SumFunctionOnSet(OfMethod("OTHER"), B)
          = SumFunctionOnSet(OfNet, B) + SumFunctionOnSet(OfTax, B)
    BY <1>1, <1>2, <2>2, MethodsAddUp
  <2>4. /\ PaymentMethodBreakdown(r)["CASH"] = SumFunctionOnSet(OfMethod("CASH"), B)
        /\ PaymentMethodBreakdown(r)["CARD"] = SumFunctionOnSet(OfMethod("CARD"), B)
        /\ PaymentMethodBreakdown(r)["BANK_TRANSFER"] = SumFunctionOnSet(OfMethod("BANK_TRANSFER"), B)
        /\ PaymentMethodBreakdown(r)["OTHER"] = SumFunctionOnSet(OfMethod("OTHER"), B)
    BY <1>3 DEF Methods
  <2> QED
    BY <2>1, <2>3, <2>4
<1>6. K = {sold[s] : s \in B} /\ \A s \in B : sold[s] \in K
  OBVIOUS
<1>7. IsFiniteSet(K)
  <2> HIDE DEF sold, K
  <2> QED
    BY <1>2, <1>6, NamesAreFinite
<1>8. ASSUME NEW cashier \in K
      PROVE  /\ w[cashier] = SumFunctionOnSet(OfTotal, KeyedBy(B, sold, cashier))
             /\ n[cashier] = Cardinality(KeyedBy(B, sold, cashier))
  <2> DEFINE of == {s \in B : s.cashier = cashier}
  <2>1. /\ CashierPerformance(r)[cashier].revenue = SumOver(GrandTotal, of)
        /\ CashierPerformance(r)[cashier].billCount = Cardinality(of)
    BY DEF CashierPerformance, B
  <2>2. of = KeyedBy(B, sold, cashier) /\ of \in SUBSET Sales
    BY <1>2 DEF KeyedBy
  <2>3. w[cashier] = CashierPerformance(r)[cashier].revenue
          /\ n[cashier] = CashierPerformance(r)[cashier].billCount
    OBVIOUS
  <2> HIDE DEF of, w, n, K, sold
  <2>4. SumOver(GrandTotal, of) = SumFunctionOnSet(OfTotal, of)
    BY <1>1, <2>2, FiguresAre
  <2> QED
    BY <2>1, <2>2, <2>3, <2>4
<1>9. DOMAIN CashierPerformance(r) = K
  BY DEF CashierPerformance, B
<1>10. /\ SumOver(LAMBDA of : CashierPerformance(r)[of].revenue, K) = SumFunctionOnSet(w, K)
       /\ SumOver(LAMBDA cashier : CashierPerformance(r)[cashier].billCount, K)
            = SumFunctionOnSet(n, K)
  BY DEF SumOver
<1> HIDE DEF K, w, n, sold
<1>11. SumFunctionOnSet(OfTotal, B) = SumFunctionOnSet(w, K)
  <2>1. \A s \in B : OfTotal[s] \in Int
    BY <1>4
  <2> QED
    BY <1>2, <1>6, <1>7, <1>8, <2>1, SumByKey
<1>12. Cardinality(B) = SumFunctionOnSet(n, K)
  BY <1>2, <1>6, <1>7, <1>8, CountByKey
<1>13. SumOver(LAMBDA of : CashierPerformance(r)[of].revenue, DOMAIN CashierPerformance(r))
         = PaymentMethodBreakdown(r)["CASH"] + PaymentMethodBreakdown(r)["CARD"]
                    + PaymentMethodBreakdown(r)["BANK_TRANSFER"] + PaymentMethodBreakdown(r)["OTHER"]
  BY <1>5, <1>9, <1>10, <1>11
<1>14. SumOver(LAMBDA cashier : CashierPerformance(r)[cashier].billCount,
               DOMAIN CashierPerformance(r))
         = Cardinality(B)
  BY <1>9, <1>10, <1>12
<1> QED
  BY <1>13, <1>14 DEF B

SessionRow(s) ==
    [of |-> s, status |-> ticket[s].status,
     minimumApplied |-> ticket[s].status = "CLOSED" /\ s.mode = "PRORATA"
       /\ s.stay <= MinimumMinutes]

\* The rows of the session report are those of the tickets checked in.
LEMMA SessionRows ==
    ASSUME NEW r
    PROVE  SessionReport(r)
             = {SessionRow(s) :
                s \in {s \in Sales : ~ ticket[s].isTestBill /\ Within(r, ticket[s].checkInAt)}}
BY Zenon DEF SessionReport, SessionRow

\* A ticket that closed in a range, and was billed the minimum, was checked in at most a day before
\* the range: the session report from that day has it.
LEMMA MinimumsAreReported ==
    ASSUME LedgerInv, NEW r \in Ranges
    PROVE  SessionSummary(r).minimumAppliedCount =
             Cardinality({row \in SessionReport([r EXCEPT !.from = @ - 1]) :
                             row.minimumApplied /\ Within(r, ticket[row.of].checkOutAt)})
<1> DEFINE C == {s \in ClosedIn(r) : MinimumApplied(s)}
           q == [from |-> r.from - 1, to |-> r.to]
           e == [s \in C |-> SessionRow(s)]
           rows == {row \in SessionReport(q) : row.minimumApplied
                    /\ Within(r, ticket[row.of].checkOutAt)}
           In == {s \in Sales : ~ ticket[s].isTestBill /\ Within(q, ticket[s].checkInAt)}
<1>1. LedgerTypes /\ now \in Times /\ "day" \in Groupings
  BY DEF LedgerInv, LedgerTypes, Groupings
<1>2. r.from \in Int /\ r.to \in Int
  BY <1>1, RangesAre
<1>3. [r EXCEPT !.from = @ - 1] = q
  <2>1. r = [from |-> r.from, to |-> r.to]
    BY RangeIsRecord
  <2> DEFINE a == r.from
             b == r.to
  <2>2. r = [from |-> a, to |-> b] /\ q = [from |-> a - 1, to |-> b]
    BY <2>1
  <2> HIDE DEF a, b, q
  <2> QED
    BY <2>2
<1>4. IsFiniteSet(C) /\ C \subseteq ClosedIn(r)
  <2>1. C \subseteq Sales /\ C \subseteq ClosedIn(r)
    BY DEF ClosedIn
  <2> HIDE DEF C
  <2> QED
    BY <2>1, SalesAreSales, FS_Subset
<1>5. SessionSummary(r).minimumAppliedCount = Cardinality(C)
  BY DEF SessionSummary
<1>6. \A s \in Sales : /\ SessionRow(s).of = s
                       /\ SessionRow(s).minimumApplied
                            <=> ticket[s].status = "CLOSED" /\ s.mode = "PRORATA"
                              /\ s.stay <= MinimumMinutes
  BY DEF SessionRow
<1>7. ASSUME NEW s \in C PROVE e[s] \in rows
  <2>1. /\ s \in Sales /\ ~ ticket[s].isTestBill /\ ticket[s].status = "CLOSED"
        /\ Within(r, ticket[s].checkOutAt) /\ s.stay <= MinimumMinutes /\ s.mode = "PRORATA"
    BY DEF ClosedIn, MinimumApplied
  <2>2. /\ ticket[s].checkOutAt \in Times
        /\ ticket[s].checkInAt = ticket[s].checkOutAt - s.stay
    <3>1. ticket[s].checkOutAt \in Times
      BY <1>1, <1>2, <1>4, MatchesAre
    <3> QED
      BY <2>1, <3>1 DEF LedgerInv, TicketSound
  <2>3. s.stay \in Nat /\ Zone \in Int /\ ticket[s].checkOutAt \in Int /\ None \notin Int
          /\ MinimumMinutes \in 0 .. 1440
    BY <2>1, <2>2, SalesAreSales, TimesAreMinutes, MinimumIsAtMostADay
  <2>4. r.from * 1440 - Zone <= ticket[s].checkOutAt
          /\ ticket[s].checkOutAt < (r.to + 1) * 1440 - Zone
    BY <2>1 DEF Within
  <2> DEFINE t == ticket[s].checkOutAt
             u == ticket[s].checkInAt
             stay == s.stay
  <2>5. /\ t \in Int /\ u = t - stay /\ stay \in Nat /\ stay <= 1440
        /\ r.from * 1440 - Zone <= t /\ t < (r.to + 1) * 1440 - Zone
    BY <2>1, <2>2, <2>3, <2>4
  <2> HIDE DEF t, u, stay
  <2>6. u \in Int /\ (r.from - 1) * 1440 - Zone <= u /\ u < (r.to + 1) * 1440 - Zone
    BY <1>2, <2>3, <2>5
  <2>7. u # None
    BY <2>3, <2>6
  <2>8. Within(q, u)
    BY <2>6, <2>7 DEF Within
  <2>9. s \in In
    BY <2>1, <2>8 DEF u
  <2>10. SessionRow(s) \in SessionReport(q)
    BY <2>9, SessionRows
  <2> HIDE DEF q
  <2> QED
    BY <1>6, <2>1, <2>10
<1>8. ASSUME NEW row \in rows PROVE \E s \in C : row = e[s]
  <2>1. PICK s \in In : row = SessionRow(s)
    BY SessionRows
  <2>2. s \in Sales /\ ~ ticket[s].isTestBill
    OBVIOUS
  <2> HIDE DEF q
  <2>3. row.minimumApplied /\ Within(r, ticket[row.of].checkOutAt)
    OBVIOUS
  <2>4. ticket[s].status = "CLOSED" /\ s.mode = "PRORATA" /\ s.stay <= MinimumMinutes
          /\ Within(r, ticket[s].checkOutAt)
    BY <1>6, <2>1, <2>2, <2>3
  <2>5. s \in C
    BY <2>2, <2>4 DEF ClosedIn, MinimumApplied
  <2> QED
    BY <2>1, <2>5
<1>9. rows = {e[s] : s \in C}
  <2> HIDE DEF rows, e, C
  <2>1. rows \subseteq {e[s] : s \in C}
    BY <1>8
  <2>2. {e[s] : s \in C} \subseteq rows
    BY <1>7
  <2> QED
    BY <2>1, <2>2
<1>10. \A s, t \in C : e[s] = e[t] => s = t
  <2>1. \A s \in C : e[s].of = s
    BY <1>6 DEF ClosedIn
  <2> HIDE DEF e, C
  <2> QED
    BY <2>1
<1>11. Cardinality({e[s] : s \in C}) = Cardinality(C)
  <2> HIDE DEF e, C
  <2> QED
    BY <1>4, <1>10, NamesAreFinite
<1> QED
  BY <1>3, <1>5, <1>9, <1>11 DEF rows

\* The drafts and the open tickets of one day are the same on the breakdown, the session report and
\* the daily close.
LEMMA DayIsTheSame ==
    ASSUME NEW r, r.from = r.to
    PROVE  /\ BillsBreakdown(r)["DRAFT"] = Cardinality(OpenDrafts(r.from))
           /\ ActiveSessions(r.from)
                = {row.of : row \in {row \in SessionReport(r) : row.status = "ACTIVE"}}
<1>1. \A t : Within(r, t) <=> Within(OneDay(r.from), t)
  BY DEF Within, OneDay
<1>2. BillsBreakdown(r)["DRAFT"] = Cardinality({s \in Sales : /\ ~ bill[s].isTestBill
                                                              /\ bill[s].status = "DRAFT"
                                                              /\ Within(r, bill[s].createdAt)})
  BY DEF BillsBreakdown
<1>3. {s \in Sales : ~ bill[s].isTestBill /\ bill[s].status = "DRAFT"
       /\ Within(r, bill[s].createdAt)}
        = OpenDrafts(r.from)
  BY <1>1 DEF OpenDrafts
<1>4. \A s \in Sales : SessionRow(s).of = s /\ SessionRow(s).status = ticket[s].status
  BY DEF SessionRow
<1>5. SessionReport(r)
        = {SessionRow(s) :
           s \in {s \in Sales : ~ ticket[s].isTestBill /\ Within(r, ticket[s].checkInAt)}}
  BY SessionRows
<1>6. ASSUME NEW s \in ActiveSessions(r.from)
      PROVE  s \in {row.of : row \in {row \in SessionReport(r) : row.status = "ACTIVE"}}
  <2>1. s \in Sales /\ ~ ticket[s].isTestBill /\ ticket[s].status = "ACTIVE"
          /\ Within(r, ticket[s].checkInAt)
    BY <1>1 DEF ActiveSessions
  <2>2. SessionRow(s) \in SessionReport(r) /\ SessionRow(s).of = s
          /\ SessionRow(s).status = "ACTIVE"
    BY <1>4, <1>5, <2>1
  <2> QED
    BY <2>2
<1>7. ASSUME NEW row \in SessionReport(r), row.status = "ACTIVE"
      PROVE  row.of \in ActiveSessions(r.from)
  <2>1. PICK s \in Sales : row = SessionRow(s) /\ ~ ticket[s].isTestBill
               /\ Within(r, ticket[s].checkInAt)
    BY <1>5
  <2>2. row.of = s /\ ticket[s].status = "ACTIVE"
    BY <1>4, <1>7, <2>1
  <2> QED
    BY <1>1, <2>1, <2>2 DEF ActiveSessions
<1> QED
  BY <1>2, <1>3, <1>6, <1>7

\* What every state of the ledger shows on one screen agrees with the others.
LEMMA ScreensDoAgree ==
    ASSUME LedgerInv
    PROVE  ScreensAgree
<1> SUFFICES ASSUME NEW r \in Ranges
             PROVE  LET summary == Summary(r)
                        register == RegisterTotals(r)
                        sold == {s \in BillRegister(r) : bill[s].status # "CANCELLED"}
                        methods == PaymentMethodBreakdown(r)
                        cashiers == CashierPerformance(r)
                        revenueOf(rows) == SumOver(LAMBDA of : rows[of].revenue, DOMAIN rows)
                    IN  /\ register.netRevenue = summary.netRevenue
                        /\ register.billCount = summary.paidBillsCount + summary.refundedBillsCount
                        /\ summary.childrenServed
                             = SumOver(LAMBDA s : RegisterRow(s).childrenCount, sold)
                        /\ summary.revenueByKind =
                               [kind \in Kinds |-> SumOver(LAMBDA s :
                                                           CASE kind = "PLAY" -> RegisterRow(s).playAmount
                                                                        [] kind = "GROUP" -> RegisterRow(s).groupAmount
                                                                        [] kind = "PRODUCT" -> RegisterRow(s).productAmount, sold)]
                        /\ summary.netRevenue
                             = SumOver(LAMBDA day : RevenuePoint(r, "day", day).netRevenue,
                                       r.from..r.to)
                        /\ revenueOf(Performance(r, "PLAY")) = summary.revenueByKind["PLAY"]
                        /\ revenueOf(Performance(r, "PRODUCT")) = summary.revenueByKind["PRODUCT"]
                        /\ revenueOf(cashiers) = methods["CASH"] + methods["CARD"]
                                                    + methods["BANK_TRANSFER"] + methods["OTHER"]
                        /\ SumOver(LAMBDA cashier : cashiers[cashier].billCount, DOMAIN cashiers)
                             = summary.paidBillsCount
                        /\ SessionSummary(r).minimumAppliedCount =
                               Cardinality({row \in SessionReport([r EXCEPT !.from = @ - 1]) :
                                               row.minimumApplied
                                                 /\ Within(r, ticket[row.of].checkOutAt)})
                        /\ r.from = r.to =>
                               /\ BillsBreakdown(r)["DRAFT"] = Cardinality(OpenDrafts(r.from))
                               /\ ActiveSessions(r.from)
                                    = {row.of :
                                       row \in {row \in SessionReport(r) : row.status = "ACTIVE"}}
  BY Zenon DEF ScreensAgree
<1> DEFINE R == Recognized(r)
           summary == Summary(r)
           sold == {s \in BillRegister(r) : bill[s].status # "CANCELLED"}
           amount(s, kind) == CASE kind = "PLAY" -> RegisterRow(s).playAmount
                                [] kind = "GROUP" -> RegisterRow(s).groupAmount
                                [] kind = "PRODUCT" -> RegisterRow(s).productAmount
<1>1. LedgerTypes /\ now \in Times /\ "day" \in Groupings
  BY DEF LedgerInv, LedgerTypes, Groupings
<1>2. r.from \in Int /\ r.to \in Int
  BY <1>1, RangesAre
<1>3. sold = R /\ {s \in BillRegister(r) : bill[s].status \in {"PAID", "REFUNDED"}} = R
  BY SoldAre
<1>4. R \in SUBSET Sales /\ Cardinality(R) = Cardinality(StillPaid(R)) + Cardinality(Refunded(R))
  BY <1>2, RecognizedAre
<1>5. summary.netRevenue = NetRevenue(R) /\ summary.paidBillsCount = Cardinality(StillPaid(R))
      /\ summary.refundedBillsCount = Cardinality(Refunded(R))
      /\ summary.childrenServed = SumOver(ChildrenOnBill, R)
  BY DEF Summary
<1>6. summary.revenueByKind
        = [kind \in Kinds |-> SumOver(LAMBDA at : LineAt(at).total, LinesOfKind(R, kind))]
  BY DEF Summary
<1>7. RegisterTotals(r).netRevenue = NetRevenue(R) /\ RegisterTotals(r).billCount = Cardinality(R)
  BY <1>3 DEF RegisterTotals
<1> HIDE DEF R, summary, sold
<1>8. RegisterTotals(r).netRevenue = summary.netRevenue
      /\ RegisterTotals(r).billCount = summary.paidBillsCount + summary.refundedBillsCount
  BY <1>4, <1>5, <1>7
<1>9. summary.childrenServed = SumOver(LAMBDA s : RegisterRow(s).childrenCount, sold)
  <2>1. SumOver(ChildrenOnBill, R) = SumFunctionOnSet(OfChildren, R)
    BY <1>1, <1>4, FiguresAre
  <2>2. SumOver(LAMBDA s : RegisterRow(s).childrenCount, R) = SumFunctionOnSet(OfChildren, R)
    BY <1>1, <1>4, RegisterRowIs
  <2> QED
    BY <1>3, <1>5, <2>1, <2>2
<1>10. \A kind \in Kinds : summary.revenueByKind[kind] = SumFunctionOnSet(OfKind(kind), R)
  BY <1>1, <1>4, <1>6, KindIs
<1>11. summary.revenueByKind = [kind \in Kinds |-> SumOver(LAMBDA s : amount(s, kind), sold)]
  <2>1. \A kind \in Kinds :
          SumOver(LAMBDA s : amount(s, kind), R) = SumFunctionOnSet(OfKind(kind), R)
    BY <1>1, <1>4, RegisterRowIs
  <2>2. \A kind \in Kinds :
          SumOver(LAMBDA at : LineAt(at).total, LinesOfKind(R, kind))
            = SumFunctionOnSet(OfKind(kind), R)
    BY <1>1, <1>4, KindIs
  <2> HIDE DEF amount
  <2> QED
    BY <1>3, <1>6, <2>1, <2>2
<1>12. summary.netRevenue
         = SumOver(LAMBDA day : RevenuePoint(r, "day", day).netRevenue, r.from..r.to)
  <2>1. SumOver(LAMBDA day : RevenuePoint(r, "day", day).netRevenue, r.from..r.to)
          = SumFunctionOnSet(OfNet, R)
    BY <1>1, ChartAddsUp DEF R
  <2>2. NetRevenue(R) = SumFunctionOnSet(OfNet, R)
    BY <1>1, <1>4, NetIs
  <2> QED
    BY <1>5, <2>1, <2>2
<1>13. /\ SumOver(LAMBDA of : Performance(r, "PLAY")[of].revenue, DOMAIN Performance(r, "PLAY"))
            = summary.revenueByKind["PLAY"]
       /\ SumOver(LAMBDA of : Performance(r, "PRODUCT")[of].revenue,
                  DOMAIN Performance(r, "PRODUCT"))
            = summary.revenueByKind["PRODUCT"]
  <2>1. /\ SumOver(LAMBDA of : Performance(r, "PLAY")[of].revenue, DOMAIN Performance(r, "PLAY"))
             = SumFunctionOnSet(OfKind("PLAY"), R)
        /\ SumOver(LAMBDA of : Performance(r, "PRODUCT")[of].revenue,
                   DOMAIN Performance(r, "PRODUCT"))
             = SumFunctionOnSet(OfKind("PRODUCT"), R)
    BY <1>1, PerformanceAddsUp DEF R
  <2> QED
    BY <1>10, <2>1 DEF Kinds
<1>14. /\ SumOver(LAMBDA of : CashierPerformance(r)[of].revenue, DOMAIN CashierPerformance(r))
            = PaymentMethodBreakdown(r)["CASH"] + PaymentMethodBreakdown(r)["CARD"]
                    + PaymentMethodBreakdown(r)["BANK_TRANSFER"] + PaymentMethodBreakdown(r)["OTHER"]
       /\ SumOver(LAMBDA cashier : CashierPerformance(r)[cashier].billCount,
                  DOMAIN CashierPerformance(r))
            = summary.paidBillsCount
  BY <1>2, <1>5, CashiersAddUp DEF R
<1>15. SessionSummary(r).minimumAppliedCount =
         Cardinality({row \in SessionReport([r EXCEPT !.from = @ - 1]) :
                         row.minimumApplied /\ Within(r, ticket[row.of].checkOutAt)})
  BY MinimumsAreReported
<1>16. r.from = r.to =>
         /\ BillsBreakdown(r)["DRAFT"] = Cardinality(OpenDrafts(r.from))
         /\ ActiveSessions(r.from)
              = {row.of : row \in {row \in SessionReport(r) : row.status = "ACTIVE"}}
  BY DayIsTheSame
<1> QED
  BY <1>8, <1>9, <1>11, <1>12, <1>13, <1>14, <1>15, <1>16, Zenon DEF summary, sold

\* In every state and for every range, the register, the chart, the tables of packages, products
\* and cashiers, the session report and the daily close show parts of the dashboard's figures.
THEOREM ScreensAlwaysAgree == Spec => []ScreensAgree
<1>1. LedgerInv => ScreensAgree
  BY ScreensDoAgree
<1> QED
  BY <1>1, LedgerInvariant, PTL

-----------------------------------------------------------------------------
(* Visits.                                                                  *)

\* A number that is in a set and not above any other is its least, and the same for the greatest.
LEMMA LeastIs ==
    ASSUME NEW S, S \subseteq Int, IsFiniteSet(S), NEW x \in S
    PROVE  /\ (\A y \in S : x <= y) => Min(S) = x
           /\ (\A y \in S : y <= x) => Max(S) = x
<1> DEFINE a == Min(S)
           b == Max(S)
<1>1. a \in S /\ a \in Int /\ \A y \in S : a <= y
  BY MinIs
<1>2. b \in S /\ b \in Int /\ \A y \in S : y <= b
  BY MaxIs
<1>5. x \in Int
  OBVIOUS
<1> HIDE DEF a, b
<1>3. ASSUME \A y \in S : x <= y PROVE a = x
  <2>1. a <= x /\ x <= a
    BY <1>1, <1>3
  <2> QED
    BY <1>1, <1>5, <2>1
<1>4. ASSUME \A y \in S : y <= x PROVE b = x
  <2>1. b <= x /\ x <= b
    BY <1>2, <1>4
  <2> QED
    BY <1>2, <1>5, <2>1
<1> QED
  BY <1>3, <1>4 DEF a, b

\* A bill that is a visit was paid at some moment, and is linked to a record there is if it has
\* a number.
LEMMA VisitsAre ==
    ASSUME LedgerInv, NEW s \in VisitBills
    PROVE  /\ s \in Sales /\ bill[s].paidAt \in Times /\ bill[s].paidAt \in Nat
           /\ VisitDay(s) \in Int
           /\ bill[s].customerId \in DOMAIN customers \cup {None}
           /\ bill[s].phoneNumber \in Numbers \cup {None}
           /\ bill[s].phoneNumber # None => bill[s].customerId # None
<1>1. s \in Sales /\ bill[s].status \in {"PAID", "REFUNDED"}
  BY DEF VisitBills
<1>2. bill[s] \in StoredBill /\ Sound(bill[s], now)
        /\ bill[s].customerId \in DOMAIN customers \cup {None}
  BY <1>1 DEF LedgerInv, LedgerTypes
<1>3. /\ bill[s].paidAt # None /\ (bill[s].phoneNumber # None => bill[s].customerId # None)
      /\ bill[s].paidAt \in Moment /\ bill[s].phoneNumber \in Numbers \cup {None}
  BY <1>1, <1>2 DEF Sound, StoredBill
<1>4. bill[s].paidAt \in Times /\ bill[s].paidAt \in Nat
  BY <1>3, TimesAreMinutes DEF Moment
<1>5. Day(bill[s].paidAt) \in Int
  <2> DEFINE t == bill[s].paidAt
  <2>1. t \in Int
    BY <1>4
  <2> HIDE DEF t
  <2>2. Day(t) \in Int
    BY <2>1, DayIs
  <2> QED
    BY <2>2 DEF t
<1> QED
  BY <1>1, <1>2, <1>3, <1>4, <1>5 DEF VisitDay

\* Some visits happened on so many days.
LEMMA DaysAre ==
    ASSUME LedgerInv, NEW set \in SUBSET VisitBills
    PROVE  /\ IsFiniteSet(set) /\ IsFiniteSet(VisitDays(set)) /\ VisitDays(set) \subseteq Int
           /\ Cardinality(VisitDays(set)) \in Nat
           /\ VisitDays(set) = {} <=> set = {}
           /\ Cardinality(VisitDays(set)) = 0 <=> set = {}
           /\ IsFiniteSet({bill[s].paidAt : s \in set})
           /\ {bill[s].paidAt : s \in set} \subseteq Nat
<1>1. set \subseteq Sales /\ IsFiniteSet(set)
  BY SalesAreSales, FS_Subset DEF VisitBills
<1> DEFINE e == [s \in set |-> VisitDay(s)]
           f == [s \in set |-> bill[s].paidAt]
<1>2. VisitDays(set) = {e[s] : s \in set} /\ {bill[s].paidAt : s \in set} = {f[s] : s \in set}
  BY DEF VisitDays
<1>3. IsFiniteSet({e[s] : s \in set}) /\ IsFiniteSet({f[s] : s \in set})
  <2> HIDE DEF e, f
  <2> QED
    BY <1>1, NamesAreFinite
<1>4. VisitDays(set) \subseteq Int /\ {bill[s].paidAt : s \in set} \subseteq Nat
  BY VisitsAre DEF VisitDays
<1>5. VisitDays(set) = {} <=> set = {}
  BY DEF VisitDays
<1>6. IsFiniteSet(VisitDays(set))
  BY <1>2, <1>3
<1>7. Cardinality(VisitDays(set)) \in Nat
        /\ (Cardinality(VisitDays(set)) = 0 <=> VisitDays(set) = {})
  BY <1>6, FS_EmptySet, FS_CardinalityType
<1> QED
  BY <1>1, <1>2, <1>3, <1>4, <1>5, <1>6, <1>7

\* The visits counted by distinct days, numbers and links are those of the customer.
LEMMA TriplesAre ==
    ASSUME LedgerInv, NEW c \in DOMAIN customers, NEW since
    PROVE  VisitDaysByTriples(since, c) = VisitDays({s \in VisitsOf(c) : bill[s].paidAt >= since})
<1> DEFINE triple(s) == [day |-> VisitDay(s), phoneNumber |-> bill[s].phoneNumber,
                         customerId |-> bill[s].customerId]
           S == {s \in VisitBills : bill[s].paidAt >= since}
           triples == {triple(s) : s \in S}
           mine(t) == \/ t.phoneNumber # None /\ customers[c] = t.phoneNumber
                      \/ c = t.customerId
<1>1. VisitDaysByTriples(since, c) = {t.day : t \in {t \in triples : mine(t)}}
  BY DEF VisitDaysByTriples
<1>2. \A s \in S : triple(s).day = VisitDay(s) /\ (mine(triple(s)) <=> s \in VisitsOf(c))
  BY DEF VisitsOf, BillsOf, VisitBills
<1>3. VisitsOf(c) \subseteq VisitBills
  BY DEF VisitsOf
<1> HIDE DEF triple, mine
<1>4. {t.day : t \in {t \in triples : mine(t)}}
        = {VisitDay(s) : s \in {s \in VisitsOf(c) : bill[s].paidAt >= since}}
  <2>1. ASSUME NEW t \in triples, mine(t)
        PROVE  t.day \in {VisitDay(s) : s \in {s \in VisitsOf(c) : bill[s].paidAt >= since}}
    BY <1>2, <2>1
  <2>2. ASSUME NEW s \in VisitsOf(c), bill[s].paidAt >= since
        PROVE  VisitDay(s) \in {t.day : t \in {t \in triples : mine(t)}}
    <3>1. s \in S
      BY <1>3, <2>2
    <3>2. triple(s) \in triples /\ mine(triple(s)) /\ triple(s).day = VisitDay(s)
      BY <1>2, <3>1
    <3> QED
      BY <3>2
  <2> QED
    BY <2>1, <2>2
<1> QED
  BY <1>1, <1>4 DEF VisitDays

\* The first and the last visit are on the first and the last day.
LEMMA FirstAndLast ==
    ASSUME LedgerInv, NEW set \in SUBSET VisitBills, set # {}
    PROVE  LET on(day) == {bill[s].paidAt : s \in {s \in set : VisitDay(s) = day}}
               days == VisitDays(set)
               paid == {bill[s].paidAt : s \in set}
           IN  /\ Min(paid) \in paid /\ Max(paid) \in paid /\ Min(paid) \in Nat /\ Max(paid) \in Nat
               /\ Min(paid) <= Max(paid) /\ \A t \in paid : Min(paid) <= t /\ t <= Max(paid)
               /\ Min(on(Min(days))) = Min(paid) /\ Max(on(Max(days))) = Max(paid)
               /\ Day(Min(paid)) \in days /\ Day(Max(paid)) \in days
<1> DEFINE on(day) == {bill[s].paidAt : s \in {s \in set : VisitDay(s) = day}}
           days == VisitDays(set)
           paid == {bill[s].paidAt : s \in set}
           first == Min(paid)
           last == Max(paid)
<1>1. /\ IsFiniteSet(paid) /\ paid \subseteq Nat /\ paid # {}
      /\ IsFiniteSet(days) /\ days \subseteq Int /\ days # {}
  BY DaysAre
<1>2. /\ first \in paid /\ last \in paid /\ \A t \in paid : first <= t /\ t <= last
  <2>1. paid \subseteq Int
    BY <1>1
  <2> HIDE DEF paid
  <2> QED
    BY <1>1, <2>1, MinIs, MaxIs
<1>3. first \in Nat /\ last \in Nat /\ first <= last
  BY <1>1, <1>2
<1>4. \A day : /\ on(day) \subseteq paid
               /\ \A t \in paid : Day(t) = day => t \in on(day)
               /\ \A t \in on(day) : Day(t) = day
  BY DEF VisitDay
<1>5. \A t \in paid : Day(t) \in days
  BY DEF VisitDays, VisitDay
<1>6. \A day \in days : \E t \in paid : day = Day(t)
  BY DEF VisitDays, VisitDay
<1> HIDE DEF on, days, paid, first, last
<1>7. \A day : on(day) \subseteq Int /\ IsFiniteSet(on(day))
  <2> TAKE day
  <2>1. on(day) \subseteq paid
    BY <1>4
  <2>2. IsFiniteSet(on(day))
    BY <1>1, <2>1, FS_Subset
  <2>3. paid \subseteq Int
    BY <1>1
  <2> QED
    BY <2>1, <2>2, <2>3
<1>8. Min(days) = Day(first) /\ Max(days) = Day(last)
  <2>1. \A day \in days : Day(first) <= day /\ day <= Day(last)
    <3> TAKE day \in days
    <3>1. PICK t \in paid : day = Day(t)
      BY <1>6
    <3>2. t \in Int /\ first \in Int /\ last \in Int /\ first <= t /\ t <= last
      BY <1>1, <1>2, <1>3
    <3> QED
      BY <3>1, <3>2, DaysGrow
  <2>2. Day(first) \in days /\ Day(last) \in days
    BY <1>2, <1>5
  <2> QED
    BY <1>1, <2>1, <2>2, LeastIs
<1>9. Min(on(Min(days))) = first /\ Max(on(Max(days))) = last
  <2>1. first \in on(Min(days)) /\ last \in on(Max(days))
    BY <1>2, <1>4, <1>8
  <2>2. (\A t \in on(Min(days)) : first <= t) /\ \A t \in on(Max(days)) : t <= last
    BY <1>2, <1>4
  <2> QED
    BY <1>7, <2>1, <2>2, LeastIs
<1> QED
  BY <1>2, <1>3, <1>5, <1>9 DEF on, days, paid, first, last

\* Every screen counts the same visits of a customer.
LEMMA CountsAreEqual ==
    ASSUME LedgerInv, NEW c \in DOMAIN customers
    PROVE  LET count == Figures(c).visitCount
           IN  /\ count = Lookup(c).visitCount
               /\ count = Frequency(c).totalVisits
               /\ count = Cardinality(VisitRows(c))
               /\ count = Cardinality(VisitDaysByTriples(0, c))
               /\ Figures(c).firstVisitAt = Frequency(c).firstVisitAt
               /\ Figures(c).lastVisitAt = Frequency(c).lastVisitAt
<1> DEFINE V == VisitsOf(c)
           days == VisitDays(V)
           paid == {bill[s].paidAt : s \in V}
           on(day) == {bill[s].paidAt : s \in {s \in V : VisitDay(s) = day}}
           count == Figures(c).visitCount
<1>1. V \in SUBSET VisitBills
  BY DEF VisitsOf
<1>2. /\ count = Cardinality(days)
      /\ Lookup(c).visitCount = Cardinality(days)
      /\ Frequency(c).totalVisits = Cardinality(days)
  BY DEF Figures, Lookup, Frequency
<1>3. /\ Figures(c).firstVisitAt = IF paid = {} THEN None ELSE Min(paid)
      /\ Figures(c).lastVisitAt = IF paid = {} THEN None ELSE Max(paid)
      /\ Frequency(c).firstVisitAt = IF days = {} THEN None ELSE Min(on(Min(days)))
      /\ Frequency(c).lastVisitAt = IF days = {} THEN None ELSE Max(on(Max(days)))
  BY DEF Figures, Frequency
<1>4. IsFiniteSet(days) /\ (days = {} <=> V = {})
  BY <1>1, DaysAre
<1>5. paid = {} <=> V = {}
  OBVIOUS
<1>6. V # {} => Min(on(Min(days))) = Min(paid) /\ Max(on(Max(days))) = Max(paid)
  <2> HIDE DEF V
  <2> QED
    BY <1>1, FirstAndLast
<1>7. count = Cardinality(VisitRows(c))
  <2> DEFINE row(day) == [date |-> day, bills |-> {s \in VisitsOf(c) : VisitDay(s) = day},
                          amount |-> SumOver(GrandTotal, {s \in VisitsOf(c) : VisitDay(s) = day})]
             e == [day \in days |-> row(day)]
  <2>1. VisitRows(c) = {row(day) : day \in days}
    BY Zenon DEF VisitRows
  <2>2. \A day \in days : row(day).date = day
    OBVIOUS
  <2> HIDE DEF row
  <2>3. VisitRows(c) = {e[day] : day \in days}
    BY <2>1
  <2>4. \A x, y \in days : e[x] = e[y] => x = y
    BY <2>2
  <2> HIDE DEF e, days
  <2>5. Cardinality({e[day] : day \in days}) = Cardinality(days)
    BY <1>4, <2>4, NamesAreFinite
  <2> QED
    BY <1>2, <2>3, <2>5
<1>8. count = Cardinality(VisitDaysByTriples(0, c))
  <2>1. \A s \in V : bill[s].paidAt >= 0
    BY <1>1, VisitsAre
  <2>2. {s \in V : bill[s].paidAt >= 0} = V
    BY <2>1
  <2>3. VisitDaysByTriples(0, c) = VisitDays({s \in V : bill[s].paidAt >= 0})
    BY TriplesAre
  <2> HIDE DEF V
  <2> QED
    BY <1>2, <2>2, <2>3
<1> HIDE DEF V, days, paid, on, count
<1>9. Figures(c).firstVisitAt = Frequency(c).firstVisitAt
        /\ Figures(c).lastVisitAt = Frequency(c).lastVisitAt
  BY <1>3, <1>4, <1>5, <1>6
<1> QED
  BY <1>2, <1>7, <1>8, <1>9 DEF count

\* The key of a customer: the number, or else the id.
KeyOf(c) == IF customers[c] # None THEN customers[c] ELSE c

\* When every visit carries the number its customer has, the visits of a key are those of the one
\* customer who has it.
LEMMA KeysAre ==
    ASSUME LedgerInv,
           \A s \in VisitBills : bill[s].customerId # None
             => bill[s].phoneNumber = customers[bill[s].customerId]
    PROVE  /\ \A c, d \in DOMAIN customers : KeyOf(c) = KeyOf(d) => c = d
           /\ \A c \in DOMAIN customers : KeyOf(c) # None
           /\ \A s \in VisitBills, c \in DOMAIN customers : FamilyKey(s) = KeyOf(c)
                <=> s \in VisitsOf(c)
           /\ \A s \in VisitBills : FamilyKey(s) # None
                => \E c \in DOMAIN customers : FamilyKey(s) = KeyOf(c)
<1>1. /\ DOMAIN customers \subseteq Customers
      /\ \A c \in DOMAIN customers : customers[c] \in Numbers \cup {None}
      /\ \A c, d \in DOMAIN customers : customers[c] = customers[d] => c = d \/ customers[c] = None
  BY DEF LedgerInv, LedgerTypes, OneRecord
<1>2. Customers \cap Numbers = {} /\ None \notin Customers \cup Numbers
  BY CustomersAreRecords
<1>3. \A c, d \in DOMAIN customers : KeyOf(c) = KeyOf(d) => c = d
  BY <1>1, <1>2 DEF KeyOf
<1>4. \A c \in DOMAIN customers : KeyOf(c) # None
  BY <1>1, <1>2 DEF KeyOf
<1>5. ASSUME NEW s \in VisitBills, NEW c \in DOMAIN customers
      PROVE  FamilyKey(s) = KeyOf(c) <=> s \in VisitsOf(c)
  <2> DEFINE number == bill[s].phoneNumber
             id == bill[s].customerId
  <2>1. /\ id \in DOMAIN customers \cup {None} /\ number \in Numbers \cup {None}
        /\ number # None => id # None
        /\ id # None => number = customers[id]
    BY VisitsAre
  <2>2. FamilyKey(s) = IF number # None THEN number ELSE id
    BY DEF FamilyKey
  <2>3. s \in VisitsOf(c) <=> id = c \/ (customers[c] # None /\ number = customers[c])
    BY DEF VisitsOf, BillsOf, VisitBills
  <2> HIDE DEF number, id
  <2>4. CASE id = None
    BY <1>1, <1>2, <2>1, <2>2, <2>3, <2>4 DEF KeyOf
  <2>5. CASE id # None
    <3>1. id \in DOMAIN customers /\ FamilyKey(s) = KeyOf(id)
      BY <2>1, <2>2, <2>5 DEF KeyOf
    <3>2. FamilyKey(s) = KeyOf(c) <=> id = c
      BY <1>3, <3>1
    <3>3. s \in VisitsOf(c) <=> id = c
      BY <1>1, <2>1, <2>3, <2>5, <3>1
    <3> QED
      BY <3>2, <3>3
  <2> QED
    BY <2>4, <2>5
<1>6. ASSUME NEW s \in VisitBills, FamilyKey(s) # None
      PROVE  \E c \in DOMAIN customers : FamilyKey(s) = KeyOf(c)
  <2>1. /\ bill[s].customerId \in DOMAIN customers \cup {None}
        /\ bill[s].phoneNumber # None => bill[s].customerId # None
        /\ bill[s].customerId # None => bill[s].phoneNumber = customers[bill[s].customerId]
    BY VisitsAre
  <2>2. bill[s].customerId # None
    BY <1>6, <2>1 DEF FamilyKey
  <2>3. bill[s].customerId \in DOMAIN customers /\ FamilyKey(s) = KeyOf(bill[s].customerId)
    BY <2>1, <2>2 DEF FamilyKey, KeyOf
  <2> QED
    BY <2>3
<1> QED
  BY <1>3, <1>4, <1>5, <1>6

\* What the customer report is made of.
HistoryOf(r) == {s \in VisitBills : Day(bill[s].paidAt) <= r.to}
FamiliesOf(r) == {FamilyKey(s) : s \in HistoryOf(r)} \ {None}
DaysOf(r, family) == VisitDays({s \in HistoryOf(r) : FamilyKey(s) = family})
InRange(r, family) == {day \in DaysOf(r, family) : day \in r.from..r.to}
PresentIn(r) == {family \in FamiliesOf(r) : InRange(r, family) # {}}

\* Then the families of the report are the customers who came.
LEMMA FamiliesAreCustomers ==
    ASSUME LedgerInv, NEW r \in Ranges,
           \A s \in VisitBills : bill[s].customerId # None
             => bill[s].phoneNumber = customers[bill[s].customerId]
    PROVE  CustomerReport(r, "day").uniqueFamilies
            = Cardinality({c \in DOMAIN customers : VisitDays(VisitsOf(c)) \cap r.from..r.to # {}})
<1> DEFINE visitors == {c \in DOMAIN customers : VisitDays(VisitsOf(c)) \cap r.from..r.to # {}}
           e == [c \in visitors |-> KeyOf(c)]
<1>1. CustomerReport(r, "day").uniqueFamilies = Cardinality(PresentIn(r))
  BY DEF CustomerReport, PresentIn, InRange, DaysOf, FamiliesOf, HistoryOf
<1>2. now \in Times /\ "day" \in Groupings
  BY DEF LedgerInv, LedgerTypes, Groupings
<1>3. r.from \in Int /\ r.to \in Int
  BY <1>2, RangesAre
<1>4. IsFiniteSet(visitors)
  <2>1. DOMAIN customers \subseteq Customers /\ visitors \subseteq DOMAIN customers
    BY DEF LedgerInv, LedgerTypes, OneRecord
  <2> HIDE DEF visitors
  <2> QED
    BY <2>1, CustomersAreRecords, FS_Subset
<1>5. ASSUME NEW c \in DOMAIN customers, NEW day \in r.from..r.to
      PROVE  day \in DaysOf(r, KeyOf(c)) <=> day \in VisitDays(VisitsOf(c))
  <2>1. \A s \in VisitBills : VisitDay(s) = day => s \in HistoryOf(r)
    BY <1>3 DEF HistoryOf, VisitDay
  <2>2. \A s \in VisitBills : FamilyKey(s) = KeyOf(c) <=> s \in VisitsOf(c)
    BY KeysAre
  <2>3. HistoryOf(r) \subseteq VisitBills /\ VisitsOf(c) \subseteq VisitBills
    BY DEF HistoryOf, VisitsOf
  <2> QED
    BY <2>1, <2>2, <2>3 DEF DaysOf, VisitDays
<1>6. ASSUME NEW c \in visitors PROVE KeyOf(c) \in PresentIn(r)
  <2>1. PICK day \in r.from..r.to : day \in VisitDays(VisitsOf(c))
    OBVIOUS
  <2>2. c \in DOMAIN customers
    OBVIOUS
  <2>3. day \in DaysOf(r, KeyOf(c))
    BY <1>5, <2>1, <2>2
  <2>4. KeyOf(c) # None
    BY <2>2, KeysAre
  <2>5. KeyOf(c) \in FamiliesOf(r)
    BY <2>3, <2>4 DEF DaysOf, VisitDays, FamiliesOf
  <2> QED
    BY <2>1, <2>3, <2>5 DEF PresentIn, InRange
<1>7. ASSUME NEW family \in PresentIn(r) PROVE \E c \in visitors : family = KeyOf(c)
  <2>1. PICK day \in r.from..r.to : day \in DaysOf(r, family)
    BY DEF PresentIn, InRange
  <2>2. PICK s \in VisitBills : family = FamilyKey(s) /\ FamilyKey(s) # None
    BY DEF PresentIn, FamiliesOf, HistoryOf
  <2>3. PICK c \in DOMAIN customers : family = KeyOf(c)
    BY <2>2, KeysAre
  <2>4. day \in VisitDays(VisitsOf(c))
    BY <1>5, <2>1, <2>3
  <2>5. c \in visitors
    BY <2>1, <2>4
  <2> QED
    BY <2>3, <2>5
<1>8. PresentIn(r) = {e[c] : c \in visitors}
  <2> HIDE DEF visitors
  <2>1. \A c \in visitors : e[c] = KeyOf(c)
    OBVIOUS
  <2> HIDE DEF e
  <2> QED
    BY <1>6, <1>7, <2>1
<1>9. \A c, d \in visitors : e[c] = e[d] => c = d
  BY KeysAre
<1> HIDE DEF visitors, e
<1>10. Cardinality({e[c] : c \in visitors}) = Cardinality(visitors)
  BY <1>4, <1>9, NamesAreFinite
<1> QED
  BY <1>1, <1>8, <1>10 DEF visitors

\* What the segments look at.
LEMMA FiguresOf ==
    ASSUME LedgerInv, NEW c \in DOMAIN customers
    PROVE  LET f == Figures(c)
           IN  /\ f.visitCount \in Nat
               /\ f.visitCount = 0 => f.firstVisitAt = None /\ f.lastVisitAt = None
               /\ f.visitCount # 0 => /\ f.firstVisitAt \in Nat /\ f.lastVisitAt \in Nat
                                      /\ f.firstVisitAt <= f.lastVisitAt
                                      /\ \A s \in VisitsOf(c) : bill[s].paidAt <= f.lastVisitAt
               /\ f.visitCount = 1 => Day(f.firstVisitAt) = Day(f.lastVisitAt)
<1> DEFINE V == VisitsOf(c)
           paid == {bill[s].paidAt : s \in V}
           f == Figures(c)
           first == Min(paid)
           last == Max(paid)
<1>1. V \in SUBSET VisitBills
  BY DEF VisitsOf
<1>2. /\ f.visitCount = Cardinality(VisitDays(V))
      /\ f.firstVisitAt = IF paid = {} THEN None ELSE first
      /\ f.lastVisitAt = IF paid = {} THEN None ELSE last
  BY DEF Figures
<1>3. paid = {} <=> V = {}
  OBVIOUS
<1>4. /\ IsFiniteSet(VisitDays(V)) /\ Cardinality(VisitDays(V)) \in Nat
      /\ Cardinality(VisitDays(V)) = 0 <=> V = {}
  BY <1>1, DaysAre
<1>5. V # {} => /\ first \in Nat /\ last \in Nat /\ first <= last
                /\ \A t \in paid : t <= last
                /\ Day(first) \in VisitDays(V) /\ Day(last) \in VisitDays(V)
  <2> HIDE DEF V
  <2> QED
    BY <1>1, FirstAndLast
<1>6. \A s \in V : bill[s].paidAt \in paid
  OBVIOUS
<1>7. ASSUME Cardinality(VisitDays(V)) = 1, V # {} PROVE Day(first) = Day(last)
  <2>1. PICK x : VisitDays(V) = {x}
    BY <1>4, <1>7, FS_Singleton
  <2> QED
    BY <1>5, <1>7, <2>1
<1> HIDE DEF V, paid, f, first, last
<1>8. /\ f.visitCount \in Nat
      /\ f.visitCount = 0 => f.firstVisitAt = None /\ f.lastVisitAt = None
      /\ f.visitCount # 0 => /\ f.firstVisitAt \in Nat /\ f.lastVisitAt \in Nat
                             /\ f.firstVisitAt <= f.lastVisitAt
                             /\ \A s \in V : bill[s].paidAt <= f.lastVisitAt
  BY <1>2, <1>3, <1>4, <1>5, <1>6
<1>9. f.visitCount = 1 => Day(f.firstVisitAt) = Day(f.lastVisitAt)
  BY <1>2, <1>3, <1>4, <1>7
<1> QED
  BY <1>8, <1>9 DEF f, V

\* A moment is so many days ago or less when its day is.
LEMMA DaysAgoIs ==
    ASSUME now \in Times, NEW t \in Nat, NEW n \in Nat
    PROVE  /\ DaysAgo(n) \in Int /\ (t >= DaysAgo(n) <=> Day(now) - n <= Day(t))
           /\ Before(t, DaysAgo(n)) <=> Day(t) < Day(now) - n
           /\ Before(t, DaysAgo(n)) <=> t < DaysAgo(n)
<1>1. now \in Int /\ Zone \in Int /\ t # None /\ t \in Int
  BY TimesAreMinutes
<1> DEFINE today == Day(now)
           day == Day(t)
<1>2. today \in Int /\ day \in Int
  BY <1>1, DayIs
<1>3. \A d \in Int : (d * 1440 - Zone <= t) <=> (d <= day)
  BY <1>1, DayIs
<1>4. DaysAgo(n) = (today - n) * 1440 - Zone
  BY DEF DaysAgo
<1> HIDE DEF today, day
<1>5. today - n \in Int /\ DaysAgo(n) \in Int
  BY <1>1, <1>2, <1>4
<1>6. t >= DaysAgo(n) <=> today - n <= day
  BY <1>1, <1>3, <1>4, <1>5
<1>7. Before(t, DaysAgo(n)) <=> ~ (t >= DaysAgo(n))
  BY <1>1, <1>5 DEF Before
<1> QED
  BY <1>1, <1>2, <1>5, <1>6, <1>7 DEF today, day

\* Never is not before anything.
LEMMA NeverBefore == \A bound : ~ Before(None, bound)
BY DEF Before

\* A regular family has been twice, and lately.
LEMMA RegularsAre ==
    ASSUME LedgerInv, NEW c \in DOMAIN customers,
           c \in CustomersWithVisits(DaysAgo(RegularDays), RegularVisits)
    PROVE  /\ Figures(c).visitCount >= 2
           /\ Figures(c).lastVisitAt >= DaysAgo(RegularDays)
<1> DEFINE V == VisitsOf(c)
           since == DaysAgo(RegularDays)
           S == {s \in V : bill[s].paidAt >= since}
<1>1. Cardinality(VisitDays(S)) >= RegularVisits /\ VisitDays(S) # {}
  <2>1. VisitDaysByTriples(since, c) = VisitDays(S)
    BY TriplesAre
  <2> QED
    BY <2>1 DEF CustomersWithVisits
<1>2. V \in SUBSET VisitBills /\ S \subseteq V
  BY DEF VisitsOf
<1>3. VisitDays(S) \subseteq VisitDays(V)
  BY DEF VisitDays
<1>4. IsFiniteSet(VisitDays(V)) /\ Figures(c).visitCount = Cardinality(VisitDays(V))
  BY <1>2, DaysAre DEF Figures
<1>5. /\ Cardinality(VisitDays(S)) <= Cardinality(VisitDays(V))
      /\ Cardinality(VisitDays(S)) \in Nat /\ Cardinality(VisitDays(V)) \in Nat
  <2> HIDE DEF V, S
  <2>1. IsFiniteSet(VisitDays(S)) /\ Cardinality(VisitDays(S)) <= Cardinality(VisitDays(V))
    BY <1>3, <1>4, FS_Subset
  <2> QED
    BY <1>4, <2>1, FS_CardinalityType
<1>6. RegularVisits \in Nat /\ RegularVisits >= 2
  BY ThresholdsAreOrdered
<1>7. Figures(c).visitCount >= 2
  BY <1>1, <1>4, <1>5, <1>6
<1>8. PICK s \in S : TRUE
  BY <1>1 DEF VisitDays
<1>9. bill[s].paidAt >= since /\ bill[s].paidAt \in Nat /\ s \in V
  BY <1>2, VisitsAre
<1>10. Figures(c).lastVisitAt \in Nat /\ bill[s].paidAt <= Figures(c).lastVisitAt
  BY <1>7, <1>9, FiguresOf
<1>11. since \in Int
  <2>1. now \in Times /\ RegularDays \in Nat /\ 0 \in Nat
    BY ThresholdsAreOrdered DEF LedgerInv, LedgerTypes
  <2> QED
    BY <2>1, DaysAgoIs
<1> HIDE DEF since
<1>12. Figures(c).lastVisitAt >= since
  BY <1>9, <1>10, <1>11
<1> QED
  BY <1>7, <1>12 DEF since

\* The segments by the number of visits divide the customers; those by time follow.
LEMMA SegmentsAre ==
    ASSUME LedgerInv
    PROVE  SegmentsCoverEveryone
<1> SUFFICES ASSUME NEW c \in DOMAIN customers
             PROVE  LET in(segment) == SegmentFilter(segment, c)
                    IN  /\ in("never") <=> ~ (in("new") \/ in("one_time") \/ in("returning"))
                        /\ ~ (in("new") /\ in("one_time")) /\ ~ (in("one_time") /\ in("returning"))
                        /\ in("regular") => in("returning") /\ ~ in("lost")
                        /\ in("at_risk") => in("returning") /\ ~ in("lost")
  BY Zenon DEF SegmentsCoverEveryone
<1> DEFINE n == Figures(c).visitCount
           first == Figures(c).firstVisitAt
           last == Figures(c).lastVisitAt
           regular == c \in CustomersWithVisits(DaysAgo(RegularDays), RegularVisits)
<1>1. /\ SegmentFilter("new", c) <=> first # None /\ first >= DaysAgo(NewDays)
      /\ SegmentFilter("one_time", c) <=> n = 1 /\ Before(last, DaysAgo(NewDays))
      /\ SegmentFilter("returning", c) <=> n >= 2
      /\ SegmentFilter("regular", c) <=> regular
      /\ SegmentFilter("lost", c) <=> Before(last, DaysAgo(LostDays))
      /\ SegmentFilter("never", c) <=> n = 0
  BY DEF SegmentFilter
<1>2. SegmentFilter("at_risk", c)
        <=> /\ n >= 2 /\ Before(last, DaysAgo(AtRiskDays)) /\ last >= DaysAgo(LostDays)
  BY DEF SegmentFilter
<1>3. /\ n \in Nat
      /\ n = 0 => first = None /\ last = None
      /\ n # 0 => first \in Nat /\ last \in Nat /\ first <= last
      /\ n = 1 => Day(first) = Day(last)
  BY FiguresOf
<1>4. now \in Times /\ NewDays \in Nat /\ RegularDays \in Nat /\ AtRiskDays \in Nat
        /\ LostDays \in Nat
      /\ RegularDays < LostDays /\ None \notin Int
  BY ThresholdsAreOrdered, TimesAreMinutes DEF LedgerInv, LedgerTypes
<1>5. regular => n >= 2 /\ last >= DaysAgo(RegularDays)
  BY RegularsAre
<1>6. \A t \in Nat : \A d \in {NewDays, RegularDays, AtRiskDays, LostDays} :
        /\ t >= DaysAgo(d) <=> Day(now) - d <= Day(t)
        /\ Before(t, DaysAgo(d)) <=> Day(t) < Day(now) - d
  BY <1>4, DaysAgoIs
<1>7. Day(now) \in Int /\ \A t \in Nat : Day(t) \in Int
  <2>1. now \in Int /\ \A t \in Nat : t \in Int
    BY <1>4, TimesAreMinutes
  <2> QED
    BY <2>1, DayIs
<1>8. \A bound : ~ Before(None, bound)
  BY NeverBefore
<1> HIDE DEF n, first, last, regular
<1>9. CASE n = 0
  <2>1. ~ SegmentFilter("new", c) /\ ~ SegmentFilter("one_time", c)
          /\ ~ SegmentFilter("returning", c)
        /\ SegmentFilter("never", c) /\ ~ SegmentFilter("regular", c)
        /\ ~ SegmentFilter("at_risk", c)
    BY <1>1, <1>2, <1>3, <1>5, <1>9
  <2> QED
    BY <2>1
<1>10. CASE n # 0
  <2>1. first \in Nat /\ last \in Nat /\ first # None /\ ~ SegmentFilter("never", c)
    BY <1>1, <1>3, <1>4, <1>10
  <2>2. /\ SegmentFilter("new", c) <=> Day(now) - NewDays <= Day(first)
        /\ SegmentFilter("one_time", c) <=> n = 1 /\ Day(last) < Day(now) - NewDays
        /\ SegmentFilter("lost", c) <=> Day(last) < Day(now) - LostDays
    BY <1>1, <1>6, <2>1
  <2>3. /\ last >= DaysAgo(RegularDays) <=> Day(now) - RegularDays <= Day(last)
        /\ last >= DaysAgo(LostDays) <=> Day(now) - LostDays <= Day(last)
    BY <1>6, <2>1
  <2>4. Day(first) \in Int /\ Day(last) \in Int /\ Day(now) \in Int
    BY <1>7, <2>1
  <2>5. SegmentFilter("new", c) \/ SegmentFilter("one_time", c) \/ SegmentFilter("returning", c)
    BY <1>1, <1>3, <1>4, <1>10, <2>2, <2>4
  <2>6. ~ (SegmentFilter("new", c) /\ SegmentFilter("one_time", c))
    BY <1>3, <1>4, <2>2, <2>4
  <2>7. ~ (SegmentFilter("one_time", c) /\ SegmentFilter("returning", c))
    BY <1>1, <1>3
  <2>8. SegmentFilter("regular", c) => SegmentFilter("returning", c) /\ ~ SegmentFilter("lost", c)
    BY <1>1, <1>4, <1>5, <2>2, <2>3, <2>4
  <2>9. SegmentFilter("at_risk", c) => SegmentFilter("returning", c) /\ ~ SegmentFilter("lost", c)
    BY <1>1, <1>2, <1>4, <2>2, <2>3, <2>4
  <2> QED
    BY <2>1, <2>5, <2>6, <2>7, <2>8, <2>9
<1> QED
  BY <1>9, <1>10

\* Every screen counts the same visits of every customer, and the customer report knows as many
\* families as there are customers who came when every visit carries its customer's number.
LEMMA CountsDoAgree == LedgerInv => CountsAgree
<1> SUFFICES ASSUME LedgerInv PROVE CountsAgree
  OBVIOUS
<1>1. ASSUME NEW c \in DOMAIN customers
      PROVE  LET count == Figures(c).visitCount
             IN  /\ count = Lookup(c).visitCount
                 /\ count = Frequency(c).totalVisits
                 /\ count = Cardinality(VisitRows(c))
                 /\ count = Cardinality(VisitDaysByTriples(0, c))
                 /\ Figures(c).firstVisitAt = Frequency(c).firstVisitAt
                 /\ Figures(c).lastVisitAt = Frequency(c).lastVisitAt
  BY CountsAreEqual
<1>2. ASSUME \A s \in VisitBills : bill[s].customerId # None
             => bill[s].phoneNumber = customers[bill[s].customerId],
             NEW r \in Ranges
      PROVE  CustomerReport(r, "day").uniqueFamilies
               = Cardinality({c \in DOMAIN customers :
                              VisitDays(VisitsOf(c)) \cap r.from..r.to # {}})
  BY <1>2, FamiliesAreCustomers
<1> QED
  BY <1>1, <1>2, Zenon DEF CountsAgree

\* Finding or making the family of a bill leaves the records there are alone.
LEMMA EnsureLeaves ==
    ASSUME NEW id, NEW number, NEW c, EnsureCustomer(id, number, c)
    PROVE  \A d \in DOMAIN customers : customers'[d] = customers[d]
<1>1. CASE UNCHANGED customers
  BY <1>1
<1>2. CASE customers' = Added(c, number) /\ c \in Customers \ DOMAIN customers
  BY <1>2 DEF Added
<1> QED
  BY <1>1, <1>2 DEF EnsureCustomer

\* A request changes one bill, and no number of a record there is, or no bill.
LEMMA OneBillAtATime ==
    ASSUME Next
    PROVE  \/ bill' = bill
           \/ \E s \in Sales : \E to : /\ bill' = [bill EXCEPT ![s] = to] /\ now' = now
                                       /\ \A d \in DOMAIN customers : customers'[d] = customers[d]
<1>1. ASSUME NEW s \in Sales, SaleStep(s), ~ \E entry : RecordCorrection(s, entry)
      PROVE  \E to : /\ bill' = [bill EXCEPT ![s] = to] /\ now' = now
                     /\ \A d \in DOMAIN customers : customers'[d] = customers[d]
  <2> DEFINE Leaves == \A d \in DOMAIN customers : customers'[d] = customers[d]
             Only == \E to : Change(s, to)
  <2>1. Only => \E to : bill' = [bill EXCEPT ![s] = to] /\ now' = now
    BY DEF Change
  <2>2. CASE RingUp(s)
    BY <2>2 DEF RingUp, Change
  <2>3. ASSUME NEW backdated \in BOOLEAN, NEW c \in Customers \cup {None},
               CompleteBill(s, backdated, c)
        PROVE  Only /\ Leaves
    <3>1. EnsureCustomer(bill[s].customerId, bill[s].phoneNumber, c)
      BY <2>3 DEF CompleteBill
    <3>2. Leaves
      BY <3>1, EnsureLeaves
    <3>3. Only
      BY <2>3, Zenon DEF CompleteBill
    <3> QED
      BY <3>2, <3>3
  <2>4. CASE RefundBill(s)
    BY <2>4 DEF RefundBill, Change
  <2>5. CASE CancelBill(s)
    BY <2>5 DEF CancelBill, Change
  <2>6. CASE VoidSession(s)
    BY <2>6 DEF VoidSession, Change
  <2>7. ASSUME NEW flag \in BOOLEAN, SetTestFlag(s, flag) PROVE Only /\ Leaves
    <3>1. Only
      BY <2>7, Zenon DEF SetTestFlag
    <3> QED
      BY <2>7, <3>1 DEF SetTestFlag
  <2>8. ASSUME NEW received, NEW method, CorrectAmount(s, received, method) PROVE Only /\ Leaves
    <3>1. Only
      BY <2>8, Zenon DEF CorrectAmount
    <3> QED
      BY <2>8, <3>1 DEF CorrectAmount
  <2>9. ASSUME NEW number, NEW c, CorrectNumber(s, number, c) PROVE Only /\ Leaves
    <3>1. EnsureCustomer(None, number, c)
      BY <2>9 DEF CorrectNumber
    <3>2. Leaves
      BY <3>1, EnsureLeaves
    <3>3. Only
      BY <2>9, Zenon DEF CorrectNumber
    <3> QED
      BY <3>2, <3>3
  <2> QED
    BY <1>1, <2>1, <2>2, <2>3, <2>4, <2>5, <2>6, <2>7, <2>8, <2>9 DEF SaleStep
<1>2. ASSUME NEW c \in Customers, NEW number \in Numbers \cup {None}, SetNumber(c, number)
      PROVE  bill' = bill
  BY <1>2 DEF SetNumber
<1>3. ASSUME NEW to \in Times, TimePasses(to) PROVE bill' = bill
  BY <1>3 DEF TimePasses
<1>4. ASSUME NEW s \in Sales, NEW entry, RecordCorrection(s, entry) PROVE bill' = bill
  BY <1>4 DEF RecordCorrection
<1> QED
  BY <1>1, <1>2, <1>3, <1>4 DEF Next

\* The number of the visit the till announces is the number that visit has once it is paid.
THEOREM AnnouncedVisitIsPaid == Spec => VisitIsTheOneAnnounced
<1> DEFINE A == \A s \in VisitBills' \ VisitBills, c \in DOMAIN customers :
                   bill'[s].customerId = c /\ bill'[s].paidAt = now
                     => Figures(c)'.visitCount = Lookup(c).nextVisitNumber
<1>1. LedgerInv /\ Next => A
  <2> SUFFICES ASSUME LedgerInv, Next,
                      NEW s \in VisitBills' \ VisitBills, NEW c \in DOMAIN customers,
                      bill'[s].customerId = c, bill'[s].paidAt = now
               PROVE  Figures(c)'.visitCount = Lookup(c).nextVisitNumber
    OBVIOUS
  <2> DEFINE days == VisitDays(VisitsOf(c))
             later == VisitDays(VisitsOf(c))'
  <2>1. s \in Sales /\ s \in VisitBills' /\ s \notin VisitBills
    BY DEF VisitBills
  <2>2. bill' # bill
    BY <2>1 DEF VisitBills
  <2>3. PICK z, to : /\ z \in Sales /\ bill' = [bill EXCEPT ![z] = to] /\ now' = now
                    /\ \A d \in DOMAIN customers : customers'[d] = customers[d]
    BY <2>2, OneBillAtATime
  <2>4. DOMAIN bill = Sales
    BY DEF LedgerInv, LedgerTypes
  <2>5. \A x \in Sales \ {z} : bill'[x] = bill[x]
    BY <2>3, <2>4
  <2>6. \A x \in Sales \ {z} : x \in VisitBills' <=> x \in VisitBills
    BY <2>5 DEF VisitBills
  <2>7. z = s
    BY <2>1, <2>6
  <2>8. customers'[c] = customers[c]
    BY <2>3
  <2>9. \A x \in Sales \ {s} : x \in VisitsOf(c)' <=> x \in VisitsOf(c)
    BY <2>5, <2>6, <2>7, <2>8 DEF VisitsOf, BillsOf
  <2>10. s \in VisitsOf(c)' /\ s \notin VisitsOf(c)
    BY <2>1 DEF VisitsOf, BillsOf
  <2>11. VisitsOf(c)' \subseteq Sales /\ VisitsOf(c) \subseteq Sales
    BY DEF VisitsOf, BillsOf
  <2>12. VisitsOf(c)' = VisitsOf(c) \cup {s}
    BY <2>1, <2>9, <2>10, <2>11
  <2>13. later = {Day(bill'[x].paidAt) : x \in VisitsOf(c)'}
    BY DEF VisitDays, VisitDay, Day
  <2>14. days = {Day(bill[x].paidAt) : x \in VisitsOf(c)}
    BY DEF VisitDays, VisitDay
  <2>15. \A x \in VisitsOf(c) : bill'[x] = bill[x]
    BY <2>5, <2>7, <2>10, <2>11
  <2>16. Day(bill'[s].paidAt) = Day(now)
    OBVIOUS
  <2>17. later = days \cup {Day(now)}
    <3>1. later = {Day(bill'[x].paidAt) : x \in VisitsOf(c) \cup {s}}
      BY <2>12, <2>13
    <3>2. \A x \in VisitsOf(c) : Day(bill'[x].paidAt) = Day(bill[x].paidAt)
      BY <2>15
    <3> HIDE DEF days, later
    <3>3. ASSUME NEW day \in later PROVE day \in days \cup {Day(now)}
      <4>1. PICK x \in VisitsOf(c) \cup {s} : day = Day(bill'[x].paidAt)
        BY <3>1, <3>3
      <4> QED
        BY <2>14, <2>16, <3>2, <4>1
    <3>4. ASSUME NEW day \in days PROVE day \in later
      <4>1. PICK x \in VisitsOf(c) : day = Day(bill[x].paidAt)
        BY <2>14, <3>4
      <4> QED
        BY <3>1, <3>2, <4>1
    <3>5. Day(now) \in later
      BY <2>16, <3>1
    <3> QED
      BY <3>3, <3>4, <3>5
  <2>18. IsFiniteSet(days) /\ Cardinality(days) \in Nat
    <3>1. VisitsOf(c) \in SUBSET VisitBills
      BY DEF VisitsOf
    <3> QED
      BY <3>1, DaysAre
  <2>19. Figures(c)'.visitCount = Cardinality(later)
    BY DEF Figures
  <2>20. Lookup(c).nextVisitNumber = IF Day(now) \in days THEN Cardinality(days)
           ELSE Cardinality(days) + 1
    BY DEF Lookup
  <2> HIDE DEF days, later
  <2>21. Cardinality(days \cup {Day(now)}) = IF Day(now) \in days THEN Cardinality(days)
           ELSE Cardinality(days) + 1
    BY <2>18, FS_AddElement
  <2> QED
    BY <2>17, <2>19, <2>20, <2>21
<1>2. LedgerInv /\ [Next]_vars => [A]_vars
  BY <1>1
<1> QED
  BY <1>2, LedgerInvariant, PTL DEF Spec, VisitIsTheOneAnnounced

-----------------------------------------------------------------------------
(* The customer report.                                                     *)

PairsOf(F, D, of) == {p \in F \X D : p[2] \in of[p[1]]}

\* Pairs are counted by their first part.
LEMMA PairsAre ==
    ASSUME NEW F, IsFiniteSet(F), NEW D, IsFiniteSet(D), NEW of, \A f \in F : of[f] \subseteq D,
           NEW w, \A f \in F : w[f] = Cardinality(of[f])
    PROVE  IsFiniteSet(PairsOf(F, D, of)) /\ Cardinality(PairsOf(F, D, of)) = SumFunctionOnSet(w, F)
<1> DEFINE P == PairsOf(F, D, of)
           at == [p \in P |-> p[1]]
<1>1. P \subseteq F \X D /\ IsFiniteSet(F \X D)
  BY FS_Product DEF PairsOf
<1>2. IsFiniteSet(P)
  BY <1>1, FS_Subset
<1>3. \A p \in P : at[p] \in F
  BY <1>1
<1>4. ASSUME NEW f \in F PROVE Cardinality(KeyedBy(P, at, f)) = Cardinality(of[f])
  <2> DEFINE e == [d \in of[f] |-> <<f, d>>]
  <2>1. \A p \in KeyedBy(P, at, f) : p[2] \in of[f] /\ p = e[p[2]]
    BY DEF KeyedBy, PairsOf
  <2>2. \A d \in of[f] : e[d] \in KeyedBy(P, at, f)
    BY DEF KeyedBy, PairsOf
  <2>3. \A x, y \in of[f] : e[x] = e[y] => x = y
    OBVIOUS
  <2>4. IsFiniteSet(of[f])
    BY FS_Subset
  <2> HIDE DEF e, P, at
  <2>5. KeyedBy(P, at, f) = {e[d] : d \in of[f]}
    <3>1. KeyedBy(P, at, f) \subseteq {e[d] : d \in of[f]}
      BY <2>1
    <3>2. {e[d] : d \in of[f]} \subseteq KeyedBy(P, at, f)
      BY <2>2
    <3> QED
      BY <3>1, <3>2
  <2>6. Cardinality({e[d] : d \in of[f]}) = Cardinality(of[f])
    BY <2>3, <2>4, NamesAreFinite
  <2> QED
    BY <2>5, <2>6
<1>5. \A f \in F : w[f] = Cardinality(KeyedBy(P, at, f))
  BY <1>4
<1> HIDE DEF P, at
<1>6. Cardinality(P) = SumFunctionOnSet(w, F)
  BY <1>2, <1>3, <1>5, CountByKey
<1> QED
  BY <1>2, <1>6 DEF P

Anonymous(r) == {s \in HistoryOf(r) : FamilyKey(s) = None /\ VisitDay(s) >= r.from}
NewIn(r) == {family \in PresentIn(r) : Min(DaysOf(r, family)) >= r.from}
InBucketOf(r, by, label, family) == {day \in InRange(r, family) : PeriodStart(by, day) = label}
HereIn(r, by, label) == {family \in PresentIn(r) : InBucketOf(r, by, label, family) # {}}
FreshIn(r, by, label) ==
    {family \in HereIn(r, by, label) :
        Min(DaysOf(r, family)) \in InBucketOf(r, by, label, family)}
Members(r, month) ==
    {family \in FamiliesOf(r) : PeriodStart("month", Min(DaysOf(r, family))) = month}
BackIn(r, month, later) ==
    {family \in Members(r, month) :
        \E day \in DaysOf(r, family) : PeriodStart("month", day) = later}
VisitsWithin(r, family) == Cardinality(InRange(r, family))
VisitsInBucket(r, by, label) ==
    SumOver(LAMBDA family : Cardinality(InBucketOf(r, by, label, family)), HereIn(r, by, label))
    + Cardinality({s \in Anonymous(r) : PeriodStart(by, VisitDay(s)) = label})

\* The parts of the report.
LEMMA ReportIs ==
    ASSUME NEW r, NEW by
    PROVE  LET report == CustomerReport(r, by)
           IN  /\ report.uniqueFamilies = Cardinality(PresentIn(r))
               /\ report.newFamilies = Cardinality(NewIn(r))
               /\ report.visits
                    = SumOver(LAMBDA family : VisitsWithin(r, family), PresentIn(r))
                      + Cardinality(Anonymous(r))
               /\ DOMAIN report.buckets = BucketLabels(r, by)
               /\ \A label \in BucketLabels(r, by) :
                      /\ report.buckets[label].families = Cardinality(HereIn(r, by, label))
                      /\ report.buckets[label].newFamilies = Cardinality(FreshIn(r, by, label))
                      /\ report.buckets[label].visits = VisitsInBucket(r, by, label)
               /\ DOMAIN report.cohorts = {m \in MonthStarts : m <= r.to}
               /\ \A month \in {m \in MonthStarts : m <= r.to} :
                      /\ report.cohorts[month].size = Cardinality(Members(r, month))
                      /\ \A later \in {m \in MonthStarts : month <= m /\ m <= r.to} :
                            report.cohorts[month].returned[later]
                              = Cardinality(BackIn(r, month, later))
<1> DEFINE report == CustomerReport(r, by)
<1>1. /\ report.uniqueFamilies = Cardinality(PresentIn(r))
      /\ report.newFamilies = Cardinality(NewIn(r))
  BY DEF CustomerReport, PresentIn, InRange, DaysOf, FamiliesOf, HistoryOf, NewIn
<1>2. report.visits
        = SumOver(LAMBDA family : VisitsWithin(r, family), PresentIn(r)) + Cardinality(Anonymous(r))
  BY DEF CustomerReport, PresentIn, InRange, DaysOf, FamiliesOf, HistoryOf, Anonymous, VisitsWithin
<1>3. DOMAIN report.buckets = BucketLabels(r, by)
  BY DEF CustomerReport
<1>4. ASSUME NEW label \in BucketLabels(r, by)
      PROVE  /\ report.buckets[label].families = Cardinality(HereIn(r, by, label))
             /\ report.buckets[label].newFamilies = Cardinality(FreshIn(r, by, label))
  BY DEF CustomerReport, PresentIn, InRange, DaysOf, FamiliesOf, HistoryOf, HereIn, FreshIn,
       InBucketOf
<1>5. ASSUME NEW label \in BucketLabels(r, by)
      PROVE  report.buckets[label].visits = VisitsInBucket(r, by, label)
  BY DEF CustomerReport, PresentIn, InRange, DaysOf, FamiliesOf, HistoryOf, HereIn, InBucketOf,
       VisitsInBucket, Anonymous
<1>6. DOMAIN report.cohorts = {m \in MonthStarts : m <= r.to}
  BY DEF CustomerReport
<1>7. ASSUME NEW month \in {m \in MonthStarts : m <= r.to}
      PROVE  report.cohorts[month].size = Cardinality(Members(r, month))
  BY DEF CustomerReport, DaysOf, FamiliesOf, HistoryOf, Members
<1>8. ASSUME NEW month \in {m \in MonthStarts : m <= r.to},
             NEW later \in {m \in MonthStarts : month <= m /\ m <= r.to}
      PROVE  report.cohorts[month].returned[later] = Cardinality(BackIn(r, month, later))
  BY DEF CustomerReport, DaysOf, FamiliesOf, HistoryOf, Members, BackIn
<1> HIDE DEF report
<1> QED
  BY <1>1, <1>2, <1>3, <1>4, <1>5, <1>6, <1>7, <1>8 DEF report

\* The families of a report are finitely many, and so are their days: business days of the
\* calendar, none after the range.
LEMMA FamilyDays ==
    ASSUME LedgerInv, NEW r \in Ranges
    PROVE  /\ IsFiniteSet(HistoryOf(r)) /\ HistoryOf(r) \subseteq VisitBills
           /\ IsFiniteSet(FamiliesOf(r)) /\ IsFiniteSet(PresentIn(r))
           /\ IsFiniteSet(Anonymous(r)) /\ Anonymous(r) \subseteq HistoryOf(r)
           /\ \A family \in FamiliesOf(r) :
                  /\ IsFiniteSet(DaysOf(r, family)) /\ DaysOf(r, family) \subseteq Int
                  /\ Min(DaysOf(r, family)) \in DaysOf(r, family)
                  /\ \A day \in DaysOf(r, family) :
                         /\ Min(DaysOf(r, family)) <= day /\ day <= r.to
                         /\ \E t \in Times : day = Day(t)
<1>1. HistoryOf(r) \subseteq VisitBills /\ Anonymous(r) \subseteq HistoryOf(r)
  BY DEF HistoryOf, Anonymous
<1>2. IsFiniteSet(HistoryOf(r)) /\ IsFiniteSet(Anonymous(r))
  BY <1>1, DaysAre, FS_Subset
<1>3. IsFiniteSet(FamiliesOf(r)) /\ IsFiniteSet(PresentIn(r))
  <2> DEFINE e == [s \in HistoryOf(r) |-> FamilyKey(s)]
  <2>1. IsFiniteSet({e[s] : s \in HistoryOf(r)})
    BY <1>2, NamesAreFinite
  <2>2. FamiliesOf(r) \subseteq {e[s] : s \in HistoryOf(r)} /\ PresentIn(r) \subseteq FamiliesOf(r)
    BY DEF FamiliesOf, PresentIn
  <2> HIDE DEF e
  <2> QED
    BY <2>1, <2>2, FS_Subset
<1>4. ASSUME NEW family \in FamiliesOf(r)
      PROVE  /\ IsFiniteSet(DaysOf(r, family)) /\ DaysOf(r, family) \subseteq Int
             /\ Min(DaysOf(r, family)) \in DaysOf(r, family)
             /\ \A day \in DaysOf(r, family) :
                    /\ Min(DaysOf(r, family)) <= day /\ day <= r.to
                    /\ \E t \in Times : day = Day(t)
  <2> DEFINE theirs == {s \in HistoryOf(r) : FamilyKey(s) = family}
  <2>1. theirs \in SUBSET VisitBills /\ DaysOf(r, family) = VisitDays(theirs)
    BY <1>1 DEF DaysOf
  <2>2. theirs # {}
    BY DEF FamiliesOf
  <2>3. \A s \in theirs : VisitDay(s) <= r.to /\ VisitDay(s) = Day(bill[s].paidAt)
          /\ bill[s].paidAt \in Times
    BY <2>1, VisitsAre DEF HistoryOf, VisitDay
  <2> HIDE DEF theirs
  <2>4. IsFiniteSet(VisitDays(theirs)) /\ VisitDays(theirs) \subseteq Int /\ VisitDays(theirs) # {}
    BY <2>1, <2>2, DaysAre
  <2>5. /\ Min(VisitDays(theirs)) \in VisitDays(theirs)
        /\ \A day \in VisitDays(theirs) : Min(VisitDays(theirs)) <= day
    BY <2>4, MinIs
  <2>6. \A day \in VisitDays(theirs) : day <= r.to /\ \E t \in Times : day = Day(t)
    BY <2>3 DEF VisitDays
  <2> QED
    BY <2>1, <2>4, <2>5, <2>6
<1> QED
  BY <1>1, <1>2, <1>3, <1>4

\* The month of a day something happened on is a month of the calendar.
LEMMA MonthsAre ==
    ASSUME NEW t \in Times
    PROVE  /\ PeriodStart("month", Day(t)) \in MonthStarts
           /\ PeriodStart("month", Day(t)) \in Int
           /\ PeriodStart("month", Day(t)) <= Day(t)
<1> DEFINE months == {m \in MonthStarts : m <= Day(t)}
<1>1. PeriodStart("month", Day(t)) = Max(months)
  BY DEF PeriodStart
<1>2. months \subseteq MonthStarts /\ months \subseteq Int /\ IsFiniteSet(months) /\ months # {}
  BY MonthsAreKnown, FS_Subset
<1>3. \A m \in months : m \in MonthStarts /\ m <= Day(t)
  OBVIOUS
<1> HIDE DEF months
<1> QED
  BY <1>1, <1>2, <1>3, MaxIs

\* The days of the families in a bucket are those of the range that the bucket stands for.
LEMMA FamilyVisitsAddUp ==
    ASSUME LedgerInv, NEW r \in Ranges, NEW by \in Groupings,
           NEW w, \A label \in BucketLabels(r, by) :
               w[label] = SumOver(LAMBDA family : Cardinality(InBucketOf(r, by, label, family)),
                                  HereIn(r, by, label))
    PROVE  /\ \A label \in BucketLabels(r, by) : w[label] \in Int
           /\ SumOver(LAMBDA family : VisitsWithin(r, family), PresentIn(r))
                = SumFunctionOnSet(w, BucketLabels(r, by))
<1> DEFINE F == PresentIn(r)
           D == r.from .. r.to
           L == BucketLabels(r, by)
           of == [family \in F |-> InRange(r, family)]
           V == PairsOf(F, D, of)
           at == [p \in V |-> PeriodStart(by, p[2])]
           count == [family \in F |-> VisitsWithin(r, family)]
<1>1. now \in Times
  BY DEF LedgerInv, LedgerTypes
<1>2. r.from \in Int /\ r.to \in Int /\ IsFiniteSet(D)
  BY <1>1, RangesAre, FS_Interval
<1>3. IsFiniteSet(F) /\ IsFiniteSet(L)
  BY <1>1, FamilyDays, LabelsAre
<1>4. \A family \in F : of[family] \subseteq D /\ count[family] = Cardinality(of[family])
  BY DEF InRange, VisitsWithin
<1>5. IsFiniteSet(V) /\ Cardinality(V) = SumFunctionOnSet(count, F)
  <2> HIDE DEF F, D, of, count
  <2> QED
    BY <1>2, <1>3, <1>4, PairsAre
<1>6. \A p \in V : at[p] \in L
  <2>1. \A p \in V : p[2] \in D
    BY DEF PairsOf
  <2>2. \A day \in D : PeriodStart(by, day) \in L
    BY <1>1, <1>2, LabelsAre
  <2> HIDE DEF V, D, L
  <2> QED
    BY <2>1, <2>2
<1>7. ASSUME NEW label \in L
      PROVE  w[label] = Cardinality(KeyedBy(V, at, label)) /\ w[label] \in Int
  <2> DEFINE H == HereIn(r, by, label)
             within == [family \in H |-> InBucketOf(r, by, label, family)]
             size == [family \in H |-> Cardinality(InBucketOf(r, by, label, family))]
  <2>1. IsFiniteSet(H) /\ H \subseteq F
    BY <1>3, FS_Subset DEF HereIn
  <2>2. \A family \in H : within[family] \subseteq D /\ size[family] = Cardinality(within[family])
    BY DEF InBucketOf, InRange
  <2>3. w[label] = SumFunctionOnSet(size, H)
    BY DEF SumOver
  <2>4. IsFiniteSet(PairsOf(H, D, within))
          /\ Cardinality(PairsOf(H, D, within)) = SumFunctionOnSet(size, H)
    <3> HIDE DEF H, D, within, size
    <3> QED
      BY <1>2, <2>1, <2>2, PairsAre
  <2>5. KeyedBy(V, at, label) \subseteq PairsOf(H, D, within)
    <3> SUFFICES ASSUME NEW p \in V, at[p] = label
                 PROVE  p \in PairsOf(H, D, within)
      BY DEF KeyedBy
    <3>1. p \in F \X D /\ p[2] \in InRange(r, p[1]) /\ PeriodStart(by, p[2]) = label
      BY DEF PairsOf
    <3>2. p[2] \in InBucketOf(r, by, label, p[1])
      BY <3>1 DEF InBucketOf
    <3>3. p[1] \in H
      BY <3>1, <3>2 DEF HereIn
    <3> QED
      BY <3>1, <3>2, <3>3 DEF PairsOf
  <2>6. PairsOf(H, D, within) \subseteq KeyedBy(V, at, label)
    <3> SUFFICES ASSUME NEW p \in PairsOf(H, D, within)
                 PROVE  p \in V /\ at[p] = label
      BY DEF KeyedBy
    <3>1. p \in H \X D /\ p[2] \in InBucketOf(r, by, label, p[1])
      BY DEF PairsOf
    <3>2. p \in F \X D /\ p[2] \in InRange(r, p[1]) /\ PeriodStart(by, p[2]) = label
      BY <2>1, <3>1 DEF InBucketOf
    <3>3. p \in V
      BY <3>2 DEF PairsOf
    <3> QED
      BY <3>2, <3>3
  <2>7. KeyedBy(V, at, label) = PairsOf(H, D, within)
    <3> HIDE DEF H, D, V, at, within
    <3> QED
      BY <2>5, <2>6
  <2>8. Cardinality(PairsOf(H, D, within)) \in Nat
    BY <2>4, FS_CardinalityType
  <2> QED
    BY <2>3, <2>4, <2>7, <2>8
<1>8. Cardinality(V) = SumFunctionOnSet(w, L)
  <2>1. \A label \in L : w[label] = Cardinality(KeyedBy(V, at, label))
    BY <1>7
  <2> HIDE DEF V, L, at
  <2> QED
    BY <1>3, <1>5, <1>6, <2>1, CountByKey
<1>9. SumOver(LAMBDA family : VisitsWithin(r, family), PresentIn(r)) = SumFunctionOnSet(count, F)
  BY DEF SumOver
<1> QED
  BY <1>5, <1>7, <1>8, <1>9

\* So are the sales to nobody.
LEMMA AnonymousVisitsAddUp ==
    ASSUME LedgerInv, NEW r \in Ranges, NEW by \in Groupings,
           NEW w, \A label \in BucketLabels(r, by) :
               w[label] = Cardinality({s \in Anonymous(r) : PeriodStart(by, VisitDay(s)) = label})
    PROVE  /\ \A label \in BucketLabels(r, by) : w[label] \in Int
           /\ Cardinality(Anonymous(r)) = SumFunctionOnSet(w, BucketLabels(r, by))
<1> DEFINE A == Anonymous(r)
           L == BucketLabels(r, by)
           at == [s \in A |-> PeriodStart(by, VisitDay(s))]
<1>1. now \in Times
  BY DEF LedgerInv, LedgerTypes
<1>2. IsFiniteSet(A) /\ IsFiniteSet(L)
  BY <1>1, FamilyDays, LabelsAre
<1>3. \A s \in A : at[s] \in L
  <2>1. \A s \in A : VisitDay(s) \in Int /\ r.from <= VisitDay(s) /\ VisitDay(s) <= r.to
    BY FamilyDays, VisitsAre DEF Anonymous, HistoryOf, VisitDay
  <2>2. \A day \in Int : r.from <= day /\ day <= r.to => PeriodStart(by, day) \in L
    BY <1>1, LabelsAre
  <2> HIDE DEF A, L
  <2> QED
    BY <2>1, <2>2
<1>4. \A label \in L : w[label] = Cardinality(KeyedBy(A, at, label))
  <2> SUFFICES ASSUME NEW label \in L
               PROVE  KeyedBy(A, at, label) = {s \in A : PeriodStart(by, VisitDay(s)) = label}
    BY Zenon
  <2> QED
    BY DEF KeyedBy
<1>5. \A label \in L : w[label] \in Int
  <2> SUFFICES ASSUME NEW label \in L
               PROVE  Cardinality(KeyedBy(A, at, label)) \in Int
    BY <1>4
  <2>1. KeyedBy(A, at, label) \subseteq A
    BY DEF KeyedBy
  <2> HIDE DEF A, at
  <2> QED
    BY <1>2, <2>1, FS_Subset, FS_CardinalityType
<1>6. Cardinality(A) = SumFunctionOnSet(w, L)
  <2> HIDE DEF A, L, at
  <2> QED
    BY <1>2, <1>3, <1>4, CountByKey
<1> QED
  BY <1>5, <1>6

\* The visits of the buckets are those of the report.
LEMMA ReportVisitsAddUp ==
    ASSUME LedgerInv, NEW r \in Ranges, NEW by \in Groupings
    PROVE  CustomerReport(r, by).visits
            = SumOver(LAMBDA label : VisitsInBucket(r, by, label), BucketLabels(r, by))
<1> DEFINE L == BucketLabels(r, by)
           families == [label \in L |->
               SumOver(LAMBDA family : Cardinality(InBucketOf(r, by, label, family)),
                       HereIn(r, by, label))]
           nobody == [label \in L |->
               Cardinality({s \in Anonymous(r) : PeriodStart(by, VisitDay(s)) = label})]
           both == [label \in L |-> VisitsInBucket(r, by, label)]
<1>1. IsFiniteSet(L)
  BY LabelsAre DEF LedgerInv, LedgerTypes
<1>2. /\ \A label \in L : families[label] \in Int
      /\ SumOver(LAMBDA family : VisitsWithin(r, family), PresentIn(r))
           = SumFunctionOnSet(families, L)
  <2>1. \A label \in L : families[label]
          = SumOver(LAMBDA family : Cardinality(InBucketOf(r, by, label, family)),
                    HereIn(r, by, label))
    BY Zenon
  <2> HIDE DEF families
  <2> QED
    BY <2>1, FamilyVisitsAddUp
<1>3. /\ \A label \in L : nobody[label] \in Int
      /\ Cardinality(Anonymous(r)) = SumFunctionOnSet(nobody, L)
  <2>1. \A label \in L :
          nobody[label] = Cardinality({s \in Anonymous(r) : PeriodStart(by, VisitDay(s)) = label})
    BY Zenon
  <2> HIDE DEF nobody
  <2> QED
    BY <2>1, AnonymousVisitsAddUp
<1>4. \A label \in L : both[label] = families[label] + nobody[label]
  BY DEF VisitsInBucket
<1>5. SumOver(LAMBDA label : VisitsInBucket(r, by, label), BucketLabels(r, by))
        = SumFunctionOnSet(both, L)
  BY DEF SumOver
<1>6. CustomerReport(r, by).visits
        = SumOver(LAMBDA family : VisitsWithin(r, family), PresentIn(r)) + Cardinality(Anonymous(r))
  BY ReportIs, Zenon
<1> HIDE DEF L, families, nobody, both
<1>7. SumFunctionOnSet(both, L) = SumFunctionOnSet(families, L) + SumFunctionOnSet(nobody, L)
  BY <1>1, <1>2, <1>3, <1>4, SumOfSums
<1> QED
  BY <1>2, <1>3, <1>5, <1>6, <1>7

\* Every new family is new in one bucket: that of its first day.
LEMMA NewFamiliesAddUp ==
    ASSUME LedgerInv, NEW r \in Ranges, NEW by \in Groupings
    PROVE  CustomerReport(r, by).newFamilies
            = SumOver(LAMBDA label : Cardinality(FreshIn(r, by, label)), BucketLabels(r, by))
<1> DEFINE N == NewIn(r)
           L == BucketLabels(r, by)
           at == [family \in N |-> PeriodStart(by, Min(DaysOf(r, family)))]
           w == [label \in L |-> Cardinality(FreshIn(r, by, label))]
<1>1. now \in Times
  BY DEF LedgerInv, LedgerTypes
<1>2. IsFiniteSet(N) /\ IsFiniteSet(L) /\ N \subseteq PresentIn(r)
        /\ PresentIn(r) \subseteq FamiliesOf(r)
  <2>1. N \subseteq PresentIn(r) /\ PresentIn(r) \subseteq FamiliesOf(r)
    BY DEF NewIn, PresentIn
  <2> QED
    BY <1>1, <2>1, FamilyDays, LabelsAre, FS_Subset
<1>3. r.from \in Int /\ r.to \in Int
  BY <1>1, RangesAre
<1>4. ASSUME NEW family \in FamiliesOf(r)
      PROVE  /\ Min(DaysOf(r, family)) \in DaysOf(r, family) /\ Min(DaysOf(r, family)) \in Int
             /\ Min(DaysOf(r, family)) <= r.to
  BY FamilyDays
<1>5. ASSUME NEW family \in PresentIn(r)
      PROVE  family \in N <=> Min(DaysOf(r, family)) \in InRange(r, family)
  BY <1>2, <1>3, <1>4 DEF NewIn, InRange
<1>6. \A family \in N : at[family] \in L
  <2> SUFFICES ASSUME NEW family \in N
               PROVE  PeriodStart(by, Min(DaysOf(r, family))) \in L
    OBVIOUS
  <2>1. /\ Min(DaysOf(r, family)) \in Int
        /\ r.from <= Min(DaysOf(r, family)) /\ Min(DaysOf(r, family)) <= r.to
    BY <1>2, <1>4 DEF NewIn
  <2> QED
    BY <1>1, <2>1, LabelsAre
<1>7. ASSUME NEW label \in L
      PROVE  KeyedBy(N, at, label) = FreshIn(r, by, label)
  <2>1. KeyedBy(N, at, label) \subseteq FreshIn(r, by, label)
    <3> SUFFICES ASSUME NEW family \in N, PeriodStart(by, Min(DaysOf(r, family))) = label
                 PROVE  family \in FreshIn(r, by, label)
      BY DEF KeyedBy
    <3>1. family \in PresentIn(r) /\ Min(DaysOf(r, family)) \in InRange(r, family)
      BY <1>2, <1>5
    <3>2. Min(DaysOf(r, family)) \in InBucketOf(r, by, label, family)
      BY <3>1 DEF InBucketOf
    <3> QED
      BY <3>1, <3>2 DEF FreshIn, HereIn
  <2>2. FreshIn(r, by, label) \subseteq KeyedBy(N, at, label)
    <3> SUFFICES ASSUME NEW family \in FreshIn(r, by, label)
                 PROVE  family \in N /\ PeriodStart(by, Min(DaysOf(r, family))) = label
      BY DEF KeyedBy
    <3>1. family \in PresentIn(r) /\ Min(DaysOf(r, family)) \in InBucketOf(r, by, label, family)
      BY DEF FreshIn, HereIn
    <3>2. Min(DaysOf(r, family)) \in InRange(r, family)
            /\ PeriodStart(by, Min(DaysOf(r, family))) = label
      BY <3>1 DEF InBucketOf
    <3> QED
      BY <1>5, <3>1, <3>2
  <2> QED
    BY <2>1, <2>2
<1>8. \A label \in L : w[label] = Cardinality(KeyedBy(N, at, label))
  BY <1>7
<1>9. Cardinality(N) = SumFunctionOnSet(w, L)
  <2> HIDE DEF N, L, at, w
  <2> QED
    BY <1>2, <1>6, <1>8, CountByKey
<1>10. SumOver(LAMBDA label : Cardinality(FreshIn(r, by, label)), BucketLabels(r, by))
         = SumFunctionOnSet(w, L)
  BY DEF SumOver
<1>11. CustomerReport(r, by).newFamilies = Cardinality(N)
  BY ReportIs, Zenon
<1> QED
  BY <1>9, <1>10, <1>11

\* A family that came is in a bucket at least.
LEMMA FamiliesAreInBuckets ==
    ASSUME LedgerInv, NEW r \in Ranges, NEW by \in Groupings
    PROVE  CustomerReport(r, by).uniqueFamilies
            <= SumOver(LAMBDA label : Cardinality(HereIn(r, by, label)), BucketLabels(r, by))
<1> DEFINE F == PresentIn(r)
           L == BucketLabels(r, by)
           here == [label \in L |-> HereIn(r, by, label)]
           w == [label \in L |-> Cardinality(HereIn(r, by, label))]
           P == PairsOf(L, F, here)
           e == [family \in F |->
               <<PeriodStart(by, CHOOSE day \in InRange(r, family) : TRUE), family>>]
<1>1. now \in Times
  BY DEF LedgerInv, LedgerTypes
<1>2. IsFiniteSet(F) /\ IsFiniteSet(L) /\ F \subseteq FamiliesOf(r)
  BY <1>1, FamilyDays, LabelsAre DEF PresentIn
<1>3. \A label \in L : here[label] \subseteq F /\ w[label] = Cardinality(here[label])
  BY DEF HereIn
<1>4. IsFiniteSet(P) /\ Cardinality(P) = SumFunctionOnSet(w, L)
  <2> HIDE DEF F, L, here, w
  <2> QED
    BY <1>2, <1>3, PairsAre
<1>5. ASSUME NEW family \in F PROVE e[family] \in P
  <2> DEFINE day == CHOOSE day \in InRange(r, family) : TRUE
  <2>1. day \in InRange(r, family)
    BY DEF PresentIn
  <2>2. e[family] = <<PeriodStart(by, day), family>>
    BY Zenon
  <2> HIDE DEF day
  <2>3. day \in Int /\ r.from <= day /\ day <= r.to
    BY <1>1, <2>1, RangesAre DEF InRange
  <2>4. PeriodStart(by, day) \in L
    BY <1>1, <2>3, LabelsAre
  <2>5. day \in InBucketOf(r, by, PeriodStart(by, day), family)
    BY <2>1 DEF InBucketOf
  <2>6. family \in HereIn(r, by, PeriodStart(by, day))
    BY <2>5 DEF HereIn
  <2> HIDE DEF e
  <2> QED
    BY <2>2, <2>4, <2>6 DEF PairsOf
<1>6. \A x, y \in F : e[x] = e[y] => x = y
  OBVIOUS
<1>7. {e[family] : family \in F} \subseteq P
  BY <1>5
<1>8. Cardinality({e[family] : family \in F}) = Cardinality(F)
  <2> HIDE DEF F, e
  <2> QED
    BY <1>2, <1>6, NamesAreFinite
<1>9. Cardinality(F) <= Cardinality(P)
  <2> HIDE DEF F, e, P
  <2> QED
    BY <1>4, <1>7, <1>8, FS_Subset
<1>10. SumOver(LAMBDA label : Cardinality(HereIn(r, by, label)), BucketLabels(r, by))
         = SumFunctionOnSet(w, L)
  BY DEF SumOver
<1>11. CustomerReport(r, by).uniqueFamilies = Cardinality(F)
  BY ReportIs, Zenon
<1> QED
  BY <1>4, <1>9, <1>10, <1>11

\* Every family that ever came is a member of the cohort of the month of its first day.
LEMMA CohortsAddUp ==
    ASSUME LedgerInv, NEW r \in Ranges
    PROVE  LET months == {m \in MonthStarts : m <= r.to}
           IN  /\ Cardinality(FamiliesOf(r))
                    = SumOver(LAMBDA month : Cardinality(Members(r, month)), months)
               /\ \A month \in months : BackIn(r, month, month) = Members(r, month)
<1> DEFINE F == FamiliesOf(r)
           months == {m \in MonthStarts : m <= r.to}
           at == [family \in F |-> PeriodStart("month", Min(DaysOf(r, family)))]
           w == [month \in months |-> Cardinality(Members(r, month))]
<1>1. now \in Times
  BY DEF LedgerInv, LedgerTypes
<1>2. IsFiniteSet(F) /\ IsFiniteSet(months)
  BY FamilyDays, MonthsAreKnown, FS_Subset
<1>3. r.from \in Int /\ r.to \in Int
  BY <1>1, RangesAre DEF Groupings
<1>4. ASSUME NEW family \in F PROVE at[family] \in months
  <2> DEFINE first == Min(DaysOf(r, family))
  <2>1. first \in Int /\ first <= r.to /\ \E t \in Times : first = Day(t)
    BY FamilyDays
  <2>2. at[family] = PeriodStart("month", first)
    OBVIOUS
  <2> HIDE DEF first
  <2>3. /\ PeriodStart("month", first) \in MonthStarts /\ PeriodStart("month", first) \in Int
        /\ PeriodStart("month", first) <= first
    BY <2>1, MonthsAre
  <2> QED
    BY <1>3, <2>1, <2>2, <2>3
<1>5. ASSUME NEW month \in months PROVE KeyedBy(F, at, month) = Members(r, month)
  BY DEF KeyedBy, Members
<1>6. \A month \in months : w[month] = Cardinality(KeyedBy(F, at, month))
  BY <1>5
<1>7. Cardinality(F) = SumFunctionOnSet(w, months)
  <2> HIDE DEF F, months, at, w
  <2> QED
    BY <1>2, <1>4, <1>6, CountByKey
<1>8. SumOver(LAMBDA month : Cardinality(Members(r, month)), months) = SumFunctionOnSet(w, months)
  BY DEF SumOver
<1>9. ASSUME NEW month \in months
      PROVE  BackIn(r, month, month) = Members(r, month)
  <2>1. \A family \in Members(r, month) :
           /\ PeriodStart("month", Min(DaysOf(r, family))) = month
           /\ Min(DaysOf(r, family)) \in DaysOf(r, family)
    BY FamilyDays DEF Members
  <2> QED
    BY <2>1 DEF BackIn
<1> QED
  BY <1>7, <1>8, <1>9

\* What the report of a range says adds up.
LEMMA ReportDoesAddUp ==
    ASSUME LedgerInv, NEW r \in Ranges, NEW by \in Groupings
    PROVE  LET report == CustomerReport(r, by)
               everyone == {FamilyKey(s) : s \in {s \in VisitBills : VisitDay(s) <= r.to}} \ {None}
               sum(column) == SumOver(LAMBDA label : report.buckets[label][column],
                                      DOMAIN report.buckets)
           IN  /\ report.visits = sum("visits")
               /\ report.newFamilies = sum("newFamilies")
               /\ report.uniqueFamilies <= sum("families")
               /\ Cardinality(everyone) =
                      SumOver(LAMBDA month : report.cohorts[month].size, DOMAIN report.cohorts)
               /\ \A month \in DOMAIN report.cohorts :
                      report.cohorts[month].returned[month] = report.cohorts[month].size
<1> DEFINE report == CustomerReport(r, by)
           everyone == {FamilyKey(s) : s \in {s \in VisitBills : VisitDay(s) <= r.to}} \ {None}
           sum(column) == SumOver(LAMBDA label : report.buckets[label][column],
                                  DOMAIN report.buckets)
           L == BucketLabels(r, by)
           months == {m \in MonthStarts : m <= r.to}
<1>1. /\ DOMAIN report.buckets = L /\ DOMAIN report.cohorts = months
      /\ \A label \in L :
            /\ report.buckets[label].families = Cardinality(HereIn(r, by, label))
            /\ report.buckets[label].newFamilies = Cardinality(FreshIn(r, by, label))
            /\ report.buckets[label].visits = VisitsInBucket(r, by, label)
      /\ \A month \in months : report.cohorts[month].size = Cardinality(Members(r, month))
  BY ReportIs, Zenon
<1>2. \A month \in months : month \in {m \in MonthStarts : month <= m /\ m <= r.to}
  BY MonthsAreKnown
<1>3. /\ report.visits = SumOver(LAMBDA label : VisitsInBucket(r, by, label), L)
      /\ report.newFamilies = SumOver(LAMBDA label : Cardinality(FreshIn(r, by, label)), L)
      /\ report.uniqueFamilies <= SumOver(LAMBDA label : Cardinality(HereIn(r, by, label)), L)
  BY ReportVisitsAddUp, NewFamiliesAddUp, FamiliesAreInBuckets
<1>4. /\ Cardinality(FamiliesOf(r)) = SumOver(LAMBDA month : Cardinality(Members(r, month)), months)
      /\ \A month \in months : BackIn(r, month, month) = Members(r, month)
  BY CohortsAddUp
<1>5. everyone = FamiliesOf(r)
  BY DEF FamiliesOf, HistoryOf, VisitDay
<1>6. \A month \in months :
        report.cohorts[month].returned[month] = Cardinality(BackIn(r, month, month))
  BY <1>2, ReportIs, Zenon
<1> HIDE DEF report, L, months
<1>7. sum("visits") = SumOver(LAMBDA label : VisitsInBucket(r, by, label), L)
  BY <1>1 DEF SumOver
<1>8. sum("newFamilies") = SumOver(LAMBDA label : Cardinality(FreshIn(r, by, label)), L)
  BY <1>1 DEF SumOver
<1>9. sum("families") = SumOver(LAMBDA label : Cardinality(HereIn(r, by, label)), L)
  BY <1>1 DEF SumOver
<1>10. SumOver(LAMBDA month : report.cohorts[month].size, DOMAIN report.cohorts)
         = SumOver(LAMBDA month : Cardinality(Members(r, month)), months)
  BY <1>1 DEF SumOver
<1>11. \A month \in months : report.cohorts[month].returned[month] = report.cohorts[month].size
  BY <1>1, <1>4, <1>6
<1> HIDE DEF sum, everyone
<1>12. /\ report.visits = sum("visits") /\ report.newFamilies = sum("newFamilies")
       /\ report.uniqueFamilies <= sum("families")
       /\ Cardinality(everyone)
            = SumOver(LAMBDA month : report.cohorts[month].size, DOMAIN report.cohorts)
       /\ \A month \in DOMAIN report.cohorts :
              report.cohorts[month].returned[month] = report.cohorts[month].size
  BY <1>1, <1>3, <1>4, <1>5, <1>7, <1>8, <1>9, <1>10, <1>11
<1> QED
  BY <1>12, Zenon DEF report, sum, everyone

\* The customer report of any range, by days, weeks or months, adds up to its own summary, and
\* its cohorts hold every family that ever came.
THEOREM CustomerReportAlwaysAddsUp == Spec => []CustomerReportAddsUp
<1>1. LedgerInv => CustomerReportAddsUp
  BY ReportDoesAddUp, Zenon DEF CustomerReportAddsUp
<1> QED
  BY <1>1, LedgerInvariant, PTL

\* In every state: every screen counts the same visits of every customer, who has never been or is
\* in just one of the segments by their number, and the customer report adds up to them.
THEOREM VisitsAlwaysAgree == Spec => []VisitsAgree
<1>1. LedgerInv => VisitsAgree
  BY CountsDoAgree, SegmentsAre, ReportDoesAddUp, Zenon DEF VisitsAgree, CustomerReportAddsUp
<1> QED
  BY <1>1, LedgerInvariant, PTL

=============================================================================
