--------------------------- MODULE BillMoneyProofs ---------------------------
(***************************************************************************)
(* Theorems about BillMoney, for any number of edits, payments and         *)
(* corrections, any amounts and every interleaving of them.                *)
(***************************************************************************)
EXTENDS BillMoney, TLAPS

Fields == {"status", "version", "items", "discountValue", "subtotal", "discount", "tax",
           "grandTotal", "paidAmount", "balance", "writeOff", "revision", "revisions"}

\* A rounded percentage of a natural number is one.
LEMMA PercentIsNat ==
    ASSUME NEW amount \in Nat, NEW rate \in Nat
    PROVE  RoundedPercent(amount, rate) \in Nat
<1>1. amount * rate \in Nat
    OBVIOUS
<1>2. ASSUME NEW n \in Nat PROVE (n + 50) \div 100 \in Nat
    OBVIOUS
<1> QED
    BY <1>1, <1>2 DEF RoundedPercent

\* A discount does not exceed what it is taken off.
LEMMA DiscountIsCapped ==
    ASSUME NEW items \in Nat, NEW value \in Nat
    PROVE  DiscountOn(items, value) \in Nat /\ DiscountOn(items, value) <= items
BY DEF DiscountOn

\* Priced again, a document is a document.
LEMMA TotalsOfADocument ==
    ASSUME NEW doc \in Document, NEW items \in Nat, NEW value \in Nat, NEW rate \in Nat
    PROVE  WithTotals(doc, items, value, rate) \in Document
<1> DEFINE off == DiscountOn(items, value)
           tax == RoundedPercent(items - off, rate)
           total == items - off + tax
<1>1. off \in Nat /\ items - off \in Nat
    BY DiscountIsCapped
<1>2. tax \in Nat
    BY <1>1, PercentIsNat
<1>3. total \in Nat
    BY <1>1, <1>2
<1>4. WithTotals(doc, items, value, rate) =
        [doc EXCEPT !.items = items, !.discountValue = value, !.subtotal = items,
                    !.discount = off, !.tax = tax, !.grandTotal = total]
    BY DEF WithTotals
<1> HIDE DEF off, tax, total
<1>5. [doc EXCEPT !.items = items, !.discountValue = value, !.subtotal = items,
                  !.discount = off, !.tax = tax, !.grandTotal = total] \in Document
    BY <1>1, <1>2, <1>3 DEF Document
<1> QED
    BY <1>4, <1>5

\* A record with the fields of a document, each of its type, is one.
LEMMA DocumentByFields ==
    ASSUME NEW doc, doc = [f \in Fields |-> doc[f]],
           doc.status \in Status, doc.version \in Nat, doc.items \in Nat,
           doc.discountValue \in Nat, doc.subtotal \in Nat, doc.discount \in Nat,
           doc.tax \in Nat, doc.grandTotal \in Nat, doc.paidAmount \in Nat,
           doc.balance \in Nat, doc.writeOff \in Nat, doc.revision \in Nat,
           doc.revisions \in Seq(Entry)
    PROVE  doc \in Document
BY DEF Document, Fields

LEMMA DocumentFields ==
    ASSUME NEW doc \in Document PROVE DOMAIN doc = Fields
BY DEF Document, Fields

-----------------------------------------------------------------------------
(* The inductive invariant.                                                 *)

Working(r) == pc[r] \in {"read", "priced"}

\* A bill is paid when a payment is done, and by nothing else.
PaidByAPayment ==
    /\ bill.status = "DRAFT" => \A p \in Payments : pc[p] # "done"
    /\ WasPaid => \E p \in Payments : pc[p] = "done"

\* A bill has no corrections before it is paid.
DraftIsUncorrected ==
    bill.status = "DRAFT" => bill.writeOff = 0 /\ bill.revision = 0 /\ bill.revisions = <<>>

\* What an edit writes of the document it has seen: nothing but the lines, the discount and
\* what they come to.
IsEdit(from, to) ==
    /\ to.status = from.status /\ to.paidAmount = from.paidAmount /\ to.balance = from.balance
    /\ to.writeOff = from.writeOff /\ to.revision = from.revision
    /\ to.revisions = from.revisions

\* What a payment writes: the charge for the lines and the discount it has seen.
IsPayment(from, to) ==
    /\ to.status = "PAID"
    /\ to.subtotal = from.items
    /\ to.discount = DiscountOn(from.items, from.discountValue)
    /\ to.grandTotal = Charge(to)

\* What a correction writes: one entry more in the history, starting from the write-off it
\* found, and the total that goes with its end.
IsCorrection(from, to) ==
    /\ to.status = from.status /\ to.items = from.items
    /\ to.discountValue = from.discountValue
    /\ to.subtotal = from.subtotal /\ to.discount = from.discount /\ to.tax = from.tax
    /\ to.revision = from.revision + 1
    /\ to.revisions = Append(from.revisions, [from |-> from.writeOff, to |-> to.writeOff])
    /\ \/ to.grandTotal = Charge(from) - to.writeOff
       \/ to.grandTotal = from.grandTotal /\ to.writeOff = from.writeOff

\* An edit in flight has read a draft.
EditsOfDrafts ==
    \A r \in Edits :
        /\ Working(r) => saw[r].status = "DRAFT"
        /\ pc[r] = "priced" => IsEdit(saw[r], intent[r])

\* As long as the bill is a draft a payment has seen it as it is, unless an edit overtook it.
PaymentsOfDrafts ==
    \A r \in Payments :
        /\ Working(r) /\ bill.status = "DRAFT" /\ r \notin overtaken => saw[r] = bill
        /\ pc[r] = "priced" => IsPayment(saw[r], intent[r])

\* What is known of a document with these corrections on it.
SameHistory(doc, other) ==
    /\ doc.status = other.status /\ doc.writeOff = other.writeOff
    /\ doc.revisions = other.revisions

\* A correction has seen the paid bill, of this revision or of an earlier one: of this one, it
\* has seen its corrections, and all of it unless an edit came in under its payment.
HasSeen(doc) ==
    /\ bill.status # "DRAFT" /\ doc.revision <= bill.revision
    /\ bill.status = "PAID" /\ doc.revision = bill.revision =>
           /\ SameHistory(doc, bill)
           /\ EditedUnderPayment \/ doc = bill

CorrectionsOfPaid ==
    \A r \in Corrections :
        /\ Working(r) => HasSeen(saw[r])
        /\ pc[r] = "priced" => IsCorrection(saw[r], intent[r])

IInv ==
    /\ TypeOK /\ PaidByAPayment /\ DraftIsUncorrected
    /\ EditsOfDrafts /\ PaymentsOfDrafts /\ CorrectionsOfPaid
    /\ ChargeAddsUp /\ CorrectionsChain

LEMMA InitIInv == Init => IInv
<1> SUFFICES ASSUME Init PROVE IInv
    OBVIOUS
<1>1. Blank \in Document
    BY DEF Blank, Document, Status, Entry
<1>2. PICK items \in LineSums, value \in Discounts : bill = WithTotals(Blank, items, value, taxRate)
    BY DEF Init
<1>3. items \in Nat /\ value \in Nat /\ taxRate \in Nat
    BY AmountsAreNatural DEF Init
<1>4. bill \in Document
    BY <1>1, <1>2, <1>3, TotalsOfADocument
<1>5. bill.status = "DRAFT" /\ bill.writeOff = 0 /\ bill.revision = 0 /\ bill.revisions = <<>>
    BY <1>2 DEF WithTotals, Blank
<1>6. TypeOK
    BY <1>1, <1>4 DEF Init, TypeOK, PC
<1>7. \A r \in Requests : ~Working(r) /\ pc[r] = "idle"
    BY DEF Init, Working
<1>8. DraftIsUncorrected /\ ChargeAddsUp /\ CorrectionsChain
    BY <1>4, <1>5 DEF DraftIsUncorrected, ChargeAddsUp, WasPaid, CorrectionsChain
<1>9. PaidByAPayment
    BY <1>5, <1>7 DEF PaidByAPayment, WasPaid, Requests
<1> QED
    BY <1>6, <1>7, <1>8, <1>9
    DEF IInv, EditsOfDrafts, PaymentsOfDrafts, CorrectionsOfPaid, Requests

-----------------------------------------------------------------------------
(* Steps of a request that leave the bill alone.                            *)

\* What holds of a request once it has moved, if it holds of every other one.
LEMMA OneRequestMoves ==
    ASSUME IInv, NEW r \in Requests, TypeOK', bill' = bill, overtaken' = overtaken,
           pc[r] # "done", pc'[r] # "done",
           \A q \in Requests \ {r} :
                saw'[q] = saw[q] /\ intent'[q] = intent[q] /\ pc'[q] = pc[q],
           Working(r)' =>
            /\ r \in Edits =>
                /\ saw'[r].status = "DRAFT"
                /\ pc'[r] = "priced" => IsEdit(saw'[r], intent'[r])
            /\ r \in Payments =>
                /\ bill.status = "DRAFT" /\ r \notin overtaken => saw'[r] = bill
                /\ pc'[r] = "priced" => IsPayment(saw'[r], intent'[r])
            /\ r \in Corrections =>
                /\ HasSeen(saw'[r])
                /\ pc'[r] = "priced" => IsCorrection(saw'[r], intent'[r])
    PROVE  IInv'
<1>0. /\ \A p \in Payments : pc'[p] = "done" <=> pc[p] = "done"
      /\ overtaken \subseteq Payments
    BY DEF Requests, IInv, TypeOK
<1>1. /\ EditedUnderPayment' <=> EditedUnderPayment
      /\ WasPaid' <=> WasPaid
    BY <1>0 DEF EditedUnderPayment, WasPaid
<1>2. (DraftIsUncorrected /\ CorrectionsChain)'
    BY DEF IInv, DraftIsUncorrected, CorrectionsChain
<1>3. ChargeAddsUp'
    BY <1>1 DEF IInv, ChargeAddsUp, Charge
<1>4. PaidByAPayment'
    BY <1>0, <1>1 DEF IInv, PaidByAPayment
<1>5. EditsOfDrafts'
    BY DEF IInv, EditsOfDrafts, Working, Requests
<1>6. PaymentsOfDrafts'
    BY DEF IInv, PaymentsOfDrafts, Working, Requests
<1>7. \A doc : HasSeen(doc) =>
        /\ bill'.status # "DRAFT" /\ doc.revision <= bill'.revision
        /\ bill'.status = "PAID" /\ doc.revision = bill'.revision =>
               SameHistory(doc, bill') /\ (EditedUnderPayment' \/ doc = bill')
    BY <1>1 DEF HasSeen
<1>8. CorrectionsOfPaid'
    <2>1. ASSUME NEW q \in Corrections
          PROVE  /\ Working(q)' => HasSeen(saw'[q])
                 /\ pc'[q] = "priced" => IsCorrection(saw'[q], intent'[q])
        BY DEF IInv, CorrectionsOfPaid, Working, Requests
    <2>2. ASSUME NEW q \in Corrections, Working(q)' PROVE HasSeen(saw[q])'
        BY <1>7, <2>1, <2>2 DEF HasSeen
    <2> QED
        BY <2>1, <2>2 DEF CorrectionsOfPaid, Working
<1> QED
    BY <1>2, <1>3, <1>4, <1>5, <1>6, <1>8 DEF IInv

\* A request that ends without a write.
LEMMA RefusalKeepsIInv ==
    ASSUME IInv, NEW r \in Requests, Working(r), Refuse(r)
    PROVE  IInv'
<1>1. Blank \in Document
    BY DEF Blank, Document, Status, Entry
<1>2. TypeOK'
    BY <1>1 DEF IInv, TypeOK, Refuse, Finish, Advance, PC
<1>3. ~Working(r)' /\ pc'[r] = "failed"
    BY DEF IInv, TypeOK, Refuse, Finish, Advance, Working
<1>4. \A q \in Requests \ {r} :
        saw'[q] = saw[q] /\ intent'[q] = intent[q] /\ pc'[q] = pc[q]
    BY DEF IInv, TypeOK, Refuse, Finish, Advance
<1> QED
    BY <1>2, <1>3, <1>4, OneRequestMoves DEF Refuse, Working

\* A request that reads the bill.
LEMMA ReadKeepsIInv ==
    ASSUME IInv, NEW r \in Requests,
           \/ BeginEdit(r) /\ r \in Edits
           \/ BeginPayment(r) /\ r \in Payments
           \/ BeginCorrection(r) /\ r \in Corrections
    PROVE  IInv'
<1>1. \E needed \in {"DRAFT", "PAID"} : Read(r, needed)
    BY DEF BeginEdit, BeginPayment, BeginCorrection
<1>2. /\ TypeOK' /\ bill' = bill /\ overtaken' = overtaken
      /\ saw'[r] = bill /\ pc[r] = "idle" /\ pc'[r] = "read"
    BY <1>1 DEF IInv, TypeOK, Read, Advance, PC
<1>3. \A q \in Requests \ {r} :
        saw'[q] = saw[q] /\ intent'[q] = intent[q] /\ pc'[q] = pc[q]
    BY <1>1 DEF IInv, TypeOK, Read, Advance
<1>4. r \in Edits => bill.status = "DRAFT"
    BY RequestsApart DEF BeginEdit, BeginPayment, BeginCorrection, Read
<1>5. r \in Corrections => bill.status # "DRAFT"
    BY RequestsApart DEF BeginEdit, BeginPayment, BeginCorrection, Read
<1>6. bill.revision <= bill.revision
    BY DEF IInv, TypeOK, Document
<1>7. r \in Corrections => HasSeen(bill)
    BY <1>5, <1>6 DEF HasSeen, SameHistory
<1> QED
    BY <1>2, <1>3, <1>4, <1>7, OneRequestMoves

\* A request that works out what to write.
LEMMA Pricing ==
    ASSUME IInv, NEW r \in Requests, NEW doc \in Document,
           pc[r] = "read", intent' = [intent EXCEPT ![r] = doc],
           Advance(r, "priced"), UNCHANGED <<bill, taxRate, saw, overtaken>>,
           r \in Edits => IsEdit(saw[r], doc),
           r \in Payments => IsPayment(saw[r], doc),
           r \in Corrections => IsCorrection(saw[r], doc)
    PROVE  IInv'
<1>1. TypeOK' /\ intent'[r] = doc /\ pc'[r] = "priced" /\ Working(r)
    BY DEF IInv, TypeOK, Advance, PC, Working
<1>2. \A q \in Requests \ {r} :
        saw'[q] = saw[q] /\ intent'[q] = intent[q] /\ pc'[q] = pc[q]
    BY DEF IInv, TypeOK, Advance
<1>3. r \in Edits => saw[r].status = "DRAFT"
    BY <1>1 DEF IInv, EditsOfDrafts
<1>4. r \in Payments /\ bill.status = "DRAFT" /\ r \notin overtaken => saw[r] = bill
    BY <1>1 DEF IInv, PaymentsOfDrafts
<1>5. r \in Corrections => HasSeen(saw[r])
    BY <1>1 DEF IInv, CorrectionsOfPaid
<1> QED
    BY <1>1, <1>2, <1>3, <1>4, <1>5, OneRequestMoves

\* The version of a document goes up by one when its lines are replaced.
LEMMA EditedIsDocument ==
    ASSUME NEW d \in Document, NEW lines
    PROVE  /\ d.items \in Nat
           /\ [d EXCEPT !.version = IF lines \in LineSums THEN @ + 1 ELSE @] \in Document
<1> DEFINE next == IF lines \in LineSums THEN d.version + 1 ELSE d.version
<1>1. d.items \in Nat /\ next \in Nat
    BY DEF Document
<1>2. [d EXCEPT !.version = next] \in Document
    <2> HIDE DEF next
    <2> QED
        BY <1>1 DEF Document
<1> QED
    BY <1>1, <1>2

LEMMA PriceEditKeepsIInv ==
    ASSUME IInv, NEW r \in Edits, NEW lines \in LineSums \cup {KeepLines},
           NEW value \in Discounts, PriceEdit(r, lines, value)
    PROVE  IInv'
<1> DEFINE items == IF lines \in LineSums THEN lines ELSE saw[r].items
           base == [saw[r] EXCEPT !.version = IF lines \in LineSums THEN @ + 1 ELSE @]
           doc == WithTotals(base, items, value, taxRate)
<1>1. r \in Requests /\ saw[r] \in Document /\ taxRate \in Nat /\ value \in Nat
    BY AmountsAreNatural DEF IInv, TypeOK, Requests
<1>2. items \in Nat /\ base \in Document
    BY <1>1, EditedIsDocument, AmountsAreNatural
<1>3. doc \in Document
    BY <1>1, <1>2, TotalsOfADocument
<1>4. IsEdit(saw[r], doc)
    BY <1>1 DEF IsEdit, WithTotals, Document
<1>5. /\ pc[r] = "read" /\ intent' = [intent EXCEPT ![r] = doc]
      /\ Advance(r, "priced") /\ UNCHANGED <<bill, taxRate, saw, overtaken>>
    BY DEF PriceEdit
<1> HIDE DEF doc
<1> QED
    BY <1>1, <1>3, <1>4, <1>5, Pricing, RequestsApart

LEMMA PricePaymentKeepsIInv ==
    ASSUME IInv, NEW r \in Payments, PricePayment(r)
    PROVE  IInv'
<1>1. PICK paid \in Tenders \cup {Due(r)} :
        paid >= Due(r) /\ intent' = [intent EXCEPT ![r] = Settled(r, paid)]
    BY DEF PricePayment
<1> DEFINE priced == WithTotals(saw[r], saw[r].items, saw[r].discountValue, taxRate)
           doc == Settled(r, paid)
<1>2. r \in Requests /\ saw[r] \in Document /\ taxRate \in Nat
    BY AmountsAreNatural DEF IInv, TypeOK, Requests
<1>3. priced \in Document
    BY <1>2, TotalsOfADocument DEF Document
<1>4. Due(r) = priced.grandTotal /\ Due(r) \in Nat
    BY <1>3 DEF Due, Document
<1>5. paid \in Nat /\ paid - priced.grandTotal \in Nat
    BY <1>1, <1>4, AmountsAreNatural
<1>6. doc = [priced EXCEPT !.status = "PAID", !.paidAmount = paid,
                           !.balance = paid - priced.grandTotal]
    BY DEF Settled
<1>7. /\ priced.subtotal = saw[r].items
      /\ priced.discount = DiscountOn(saw[r].items, saw[r].discountValue)
      /\ priced.grandTotal = Charge(priced)
    BY <1>2 DEF WithTotals, Document, Charge
<1> HIDE DEF priced
<1>8. doc \in Document
    BY <1>3, <1>5, <1>6 DEF Document, Status
<1>9. IsPayment(saw[r], doc)
    BY <1>3, <1>6, <1>7 DEF IsPayment, Document, Charge
<1>10. /\ pc[r] = "read" /\ Advance(r, "priced") /\ UNCHANGED <<bill, taxRate, saw, overtaken>>
    BY DEF PricePayment
<1> HIDE DEF doc
<1> QED
    BY <1>1, <1>2, <1>8, <1>9, <1>10, Pricing, RequestsApart DEF doc

LEMMA PriceCorrectionKeepsIInv ==
    ASSUME IInv, NEW r \in Corrections,
           CorrectOther(r) \/ \E amount \in Amounts : CorrectAmount(r, amount)
    PROVE  IInv'
<1>1. r \in Requests /\ saw[r] \in Document
    BY DEF IInv, TypeOK, Requests
<1>2. /\ pc[r] = "read" /\ Advance(r, "priced") /\ UNCHANGED <<bill, taxRate, saw, overtaken>>
    BY DEF CorrectOther, CorrectAmount
<1> DEFINE entry(w) == [from |-> saw[r].writeOff, to |-> w]
           next == saw[r].revision + 1
           longer(w) == Append(saw[r].revisions, entry(w))
           entered(w) == [saw[r] EXCEPT !.revision = next, !.revisions = longer(w)]
           settled(w, amount) ==
                [entered(w) EXCEPT !.writeOff = w, !.grandTotal = amount,
                                   !.paidAmount = amount, !.balance = 0]
<1>3. ASSUME NEW w \in Nat PROVE longer(w) \in Seq(Entry)
    BY <1>1 DEF Document, Entry
<1>3a. next \in Nat
    BY <1>1 DEF Document
<1> HIDE DEF next, longer
<1>4. ASSUME NEW w \in Nat PROVE entered(w) \in Document
    BY <1>1, <1>3, <1>3a DEF Document
<1>5. ASSUME NEW w \in Nat, NEW amount \in Nat PROVE settled(w, amount) \in Document
    BY <1>4 DEF Document
<1>6. CASE CorrectOther(r)
    <2>1. saw[r].writeOff \in Nat
        BY <1>1 DEF Document
    <2>2. IsCorrection(saw[r], entered(saw[r].writeOff))
        BY <1>1, <2>1, <1>3, <1>3a DEF IsCorrection, Document, next, longer
    <2>3. intent' = [intent EXCEPT ![r] = entered(saw[r].writeOff)]
        BY <1>6 DEF CorrectOther, Entered, next, longer
    <2> HIDE DEF entered
    <2> QED
        BY <1>1, <1>2, <1>4, <2>1, <2>2, <2>3, Pricing, RequestsApart
<1>7. ASSUME NEW amount \in Amounts, CorrectAmount(r, amount) PROVE IInv'
    <2> DEFINE w == Charge(saw[r]) - amount
    <2>0. Charge(saw[r]) \in Int
        BY <1>1 DEF Charge, Document
    <2>1. amount \in Nat /\ Charge(saw[r]) \in Int /\ amount <= Charge(saw[r])
        BY <1>7, <2>0, AmountsAreNatural DEF CorrectAmount
    <2>1a. w \in Nat /\ amount = Charge(saw[r]) - w
        BY <2>1
    <2>3. intent' = [intent EXCEPT ![r] = settled(w, amount)]
        BY <1>7 DEF CorrectAmount, Entered, next, longer
    <2> HIDE DEF w
    <2>2. IsCorrection(saw[r], settled(w, amount))
        BY <1>1, <1>3, <1>3a, <2>1, <2>1a DEF IsCorrection, Document, next, longer
    <2> HIDE DEF settled
    <2> QED
        BY <1>1, <1>2, <1>5, <2>1, <2>1a, <2>2, <2>3, Pricing, RequestsApart
<1> QED
    BY <1>6, <1>7

-----------------------------------------------------------------------------
(* Steps that write the bill.                                               *)

\* What holds after a write, if the requests still in flight bear with it.
LEMMA BillMoves ==
    ASSUME IInv, TypeOK', PaidByAPayment', DraftIsUncorrected', ChargeAddsUp', CorrectionsChain',
           \A q \in Requests : Working(q)' =>
                /\ Working(q) /\ pc'[q] = pc[q] /\ saw'[q] = saw[q] /\ intent'[q] = intent[q]
                /\ q \in Payments /\ bill'.status = "DRAFT" /\ q \notin overtaken' => saw[q] = bill'
                /\ q \in Corrections =>
                    /\ bill'.status # "DRAFT" /\ saw[q].revision <= bill'.revision
                    /\ bill'.status = "PAID" /\ saw[q].revision = bill'.revision =>
                           SameHistory(saw[q], bill') /\ (EditedUnderPayment' \/ saw[q] = bill')
    PROVE  IInv'
<1>1. EditsOfDrafts'
    BY DEF IInv, EditsOfDrafts, Working, Requests
<1>2. PaymentsOfDrafts'
    BY DEF IInv, PaymentsOfDrafts, Working, Requests
<1>3. CorrectionsOfPaid'
    <2>1. ASSUME NEW q \in Corrections, Working(q)' PROVE HasSeen(saw[q])'
        BY <2>1 DEF HasSeen, Requests
    <2>2. ASSUME NEW q \in Corrections, pc'[q] = "priced"
          PROVE  IsCorrection(saw'[q], intent'[q])
        BY <2>2 DEF IInv, CorrectionsOfPaid, Working, Requests
    <2> QED
        BY <2>1, <2>2 DEF CorrectionsOfPaid
<1> QED
    BY <1>1, <1>2, <1>3 DEF IInv

\* The request that writes is done, and the others are where they were.
LEMMA FinishMoves ==
    ASSUME IInv, NEW r \in Requests, Finish(r, "done"), bill' \in Document, taxRate' = taxRate,
           overtaken' \subseteq Payments
    PROVE  /\ TypeOK' /\ pc'[r] = "done" /\ \A q \in Requests \ {r} : pc'[q] = pc[q]
           /\ \A q \in Requests : Working(q)' =>
                q # r /\ Working(q) /\ pc'[q] = pc[q] /\ saw'[q] = saw[q] /\ intent'[q] = intent[q]
<1>1. Blank \in Document
    BY DEF Blank, Document, Status, Entry
<1>2. TypeOK'
    BY <1>1 DEF IInv, TypeOK, Finish, Advance, PC
<1>3. ASSUME NEW q \in Requests, Working(q)'
      PROVE  q # r /\ Working(q) /\ pc'[q] = pc[q] /\ saw'[q] = saw[q] /\ intent'[q] = intent[q]
    BY <1>3 DEF IInv, TypeOK, Finish, Advance, Working
<1>4. pc'[r] = "done" /\ \A q \in Requests \ {r} : pc'[q] = pc[q]
    BY DEF IInv, TypeOK, Finish, Advance
<1> QED
    BY <1>2, <1>3, <1>4

LEMMA SaveEditKeepsIInv ==
    ASSUME IInv, NEW r \in Edits, SaveEdit(r)
    PROVE  IInv' /\ bill'.status = bill.status /\ SavesOfTheDraft(r)
<1>1. r \in Requests /\ Working(r) /\ bill \in Document /\ saw[r] \in Document /\ intent[r] \in Document
    BY DEF IInv, TypeOK, SaveEdit, Working, Requests
<1>2. IsEdit(saw[r], intent[r]) /\ saw[r].status = "DRAFT"
    BY <1>1 DEF IInv, EditsOfDrafts, SaveEdit
<1>3. bill' = [f \in Fields |-> IF intent[r][f] # saw[r][f] THEN intent[r][f] ELSE bill[f]]
    BY <1>1, DocumentFields DEF SaveEdit
<1>4. /\ bill'.status = bill.status /\ bill'.paidAmount = bill.paidAmount
      /\ bill'.balance = bill.balance /\ bill'.writeOff = bill.writeOff
      /\ bill'.revision = bill.revision /\ bill'.revisions = bill.revisions
    BY <1>2, <1>3 DEF IsEdit, Fields
<1>5. bill' \in Document
    <2>1. bill' = [f \in Fields |-> bill'[f]]
        BY <1>3
    <2>2. /\ bill'.version \in Nat /\ bill'.items \in Nat /\ bill'.discountValue \in Nat
          /\ bill'.subtotal \in Nat /\ bill'.discount \in Nat /\ bill'.tax \in Nat
          /\ bill'.grandTotal \in Nat
        BY <1>1, <1>3 DEF Document, Fields
    <2>3. /\ bill.status \in Status /\ bill.paidAmount \in Nat /\ bill.balance \in Nat
          /\ bill.writeOff \in Nat /\ bill.revision \in Nat /\ bill.revisions \in Seq(Entry)
        BY <1>1 DEF Document
    <2> QED
        BY <1>4, <2>1, <2>2, <2>3, DocumentByFields
<1> DEFINE begun == {p \in Payments : pc[p] \in {"read", "priced", "done"}}
<1>6. overtaken' = overtaken \cup begun /\ overtaken' \subseteq Payments
    BY DEF IInv, TypeOK, SaveEdit
<1>7. /\ TypeOK'
      /\ pc'[r] = "done" /\ \A q \in Requests \ {r} : pc'[q] = pc[q]
      /\ \A q \in Requests : Working(q)' =>
            q # r /\ Working(q) /\ pc'[q] = pc[q] /\ saw'[q] = saw[q] /\ intent'[q] = intent[q]
    BY <1>1, <1>5, <1>6, FinishMoves DEF SaveEdit
<1>8. \A p \in Payments : pc'[p] = pc[p] /\ (Working(p) => p \in overtaken')
    BY <1>6, <1>7, RequestsApart DEF Requests, Working
<1>9. WasPaid => EditedUnderPayment'
    <2> SUFFICES ASSUME WasPaid PROVE EditedUnderPayment'
        OBVIOUS
    <2>1. PICK p \in Payments : pc[p] = "done"
        BY DEF IInv, PaidByAPayment
    <2> QED
        BY <1>6, <1>8, <2>1 DEF EditedUnderPayment
<1>10. PaidByAPayment'
    BY <1>4, <1>8 DEF IInv, PaidByAPayment, WasPaid
<1>11. (DraftIsUncorrected /\ CorrectionsChain)'
    BY <1>4 DEF IInv, DraftIsUncorrected, CorrectionsChain
<1>12. ChargeAddsUp'
    BY <1>4, <1>9 DEF ChargeAddsUp, WasPaid
<1>13. ASSUME NEW q \in Corrections, Working(q)
       PROVE  /\ bill'.status # "DRAFT" /\ saw[q].revision <= bill'.revision
              /\ bill'.status = "PAID" /\ saw[q].revision = bill'.revision =>
                     SameHistory(saw[q], bill') /\ (EditedUnderPayment' \/ saw[q] = bill')
    <2>1. HasSeen(saw[q])
        BY <1>13 DEF IInv, CorrectionsOfPaid
    <2> QED
        BY <1>4, <1>9, <2>1 DEF HasSeen, SameHistory, WasPaid
<1>14. IInv'
    BY <1>7, <1>8, <1>10, <1>11, <1>12, <1>13, BillMoves
<1>15. SavesOfTheDraft(r)
    <2>1. ASSUME NEW f \in Fields, bill'[f] # bill[f]
          PROVE  f \in EditFields /\ intent[r][f] # saw[r][f] /\ bill'[f] = intent[r][f]
        BY <1>3, <1>4, <2>1 DEF Fields, EditFields
    <2>2. DOMAIN bill = Fields /\ pc[r] = "priced"
        BY <1>1, DocumentFields DEF SaveEdit
    <2> QED
        BY <1>2, <1>7, <2>1, <2>2 DEF SavesOfTheDraft
<1> QED
    BY <1>4, <1>14, <1>15

LEMMA CompleteKeepsIInv ==
    ASSUME IInv, NEW r \in Payments, CompleteIfDraft(r)
    PROVE  IInv' /\ bill.status = "DRAFT" /\ bill'.status = "PAID"
<1>1. r \in Requests /\ Working(r) /\ bill \in Document /\ intent[r] \in Document
    BY DEF IInv, TypeOK, CompleteIfDraft, Working, Requests
<1>2. /\ IsPayment(saw[r], intent[r]) /\ bill.status = "DRAFT"
      /\ r \notin overtaken => saw[r] = bill
    BY <1>1 DEF IInv, PaymentsOfDrafts, CompleteIfDraft
<1>3. bill' = [f \in Fields |-> IF f \in PaymentFields THEN intent[r][f] ELSE bill[f]]
    BY <1>1, DocumentFields DEF CompleteIfDraft, Write
<1>4. /\ bill'.status = "PAID" /\ bill'.items = bill.items
      /\ bill'.discountValue = bill.discountValue
      /\ bill'.subtotal = intent[r].subtotal /\ bill'.discount = intent[r].discount
      /\ bill'.tax = intent[r].tax /\ bill'.grandTotal = intent[r].grandTotal
      /\ bill'.writeOff = bill.writeOff
      /\ bill'.revision = bill.revision /\ bill'.revisions = bill.revisions
    BY <1>2, <1>3 DEF IsPayment, Fields, PaymentFields
<1>5. bill' \in Document
    <2>1. bill' = [f \in Fields |-> bill'[f]]
        BY <1>3
    <2>2. /\ bill'.version \in Nat /\ bill'.paidAmount \in Nat /\ bill'.balance \in Nat
        BY <1>1, <1>3 DEF Document, Fields, PaymentFields
    <2>3. /\ intent[r].subtotal \in Nat /\ intent[r].discount \in Nat /\ intent[r].tax \in Nat
          /\ intent[r].grandTotal \in Nat
          /\ bill.items \in Nat /\ bill.discountValue \in Nat
          /\ bill.writeOff \in Nat /\ bill.revision \in Nat /\ bill.revisions \in Seq(Entry)
        BY <1>1 DEF Document
    <2>4. "PAID" \in Status
        BY DEF Status
    <2> QED
        BY <1>4, <2>1, <2>2, <2>3, <2>4, DocumentByFields
<1>6. /\ TypeOK' /\ overtaken' = overtaken
      /\ pc'[r] = "done" /\ \A q \in Requests \ {r} : pc'[q] = pc[q]
      /\ \A q \in Requests : Working(q)' =>
            q # r /\ Working(q) /\ pc'[q] = pc[q] /\ saw'[q] = saw[q] /\ intent'[q] = intent[q]
    <2>1. overtaken' = overtaken /\ overtaken \subseteq Payments
        BY DEF IInv, TypeOK, CompleteIfDraft, Write
    <2> QED
        BY <1>1, <1>5, <2>1, FinishMoves DEF CompleteIfDraft, Write
<1>7. \A c \in Corrections : ~Working(c)
    BY <1>2 DEF IInv, CorrectionsOfPaid, HasSeen
<1>8. bill.writeOff = 0 /\ bill.revision = 0 /\ bill.revisions = <<>>
    BY <1>2 DEF IInv, DraftIsUncorrected
<1>9. /\ bill'.grandTotal = bill'.subtotal - bill'.discount + bill'.tax
      /\ bill'.subtotal \in Nat /\ bill'.discount \in Nat /\ bill'.tax \in Nat
    BY <1>1, <1>2, <1>4 DEF IsPayment, Charge, Document
<1>10. ChargeAddsUp'
    <2> SUFFICES ASSUME ~ EditedUnderPayment' PROVE ChargeAddsUp'
        BY DEF ChargeAddsUp
    <2>1. bill'.writeOff = 0
        BY <1>4, <1>8
    <2>2. bill'.grandTotal = Charge(bill') - bill'.writeOff
        BY <1>9, <2>1 DEF Charge
    <2>3. r \notin overtaken
        BY <1>6 DEF EditedUnderPayment
    <2>4. bill'.subtotal = bill'.items /\ bill'.discount = DiscountOn(bill'.items, bill'.discountValue)
        BY <1>2, <1>4, <2>3 DEF IsPayment
    <2> QED
        BY <2>2, <2>4 DEF ChargeAddsUp, Charge
<1>11. (DraftIsUncorrected /\ CorrectionsChain)'
    BY <1>4, <1>8 DEF IInv, DraftIsUncorrected, CorrectionsChain
<1>12. PaidByAPayment'
    BY <1>4, <1>6 DEF PaidByAPayment
<1> QED
    BY <1>2, <1>4, <1>6, <1>7, <1>10, <1>11, <1>12, BillMoves

\* One more entry in a history that starts from where it ends.
LEMMA ChainGrows ==
    ASSUME NEW old \in Seq(Entry), NEW from \in Nat, NEW to \in Nat,
           from = IF old = <<>> THEN 0 ELSE old[Len(old)].to,
           \A i \in 1 .. Len(old) : old[i].from = IF i = 1 THEN 0 ELSE old[i - 1].to,
           NEW new, new = Append(old, [from |-> from, to |-> to])
    PROVE  /\ Len(new) = Len(old) + 1 /\ new # <<>>
           /\ new[Len(new)] = [from |-> from, to |-> to]
           /\ \A i \in 1 .. Len(new) : new[i].from = IF i = 1 THEN 0 ELSE new[i - 1].to
<1>1. Len(new) = Len(old) + 1 /\ new # <<>> /\ new[Len(new)] = [from |-> from, to |-> to]
    OBVIOUS
<1>2. \A i \in 1 .. Len(old) : new[i] = old[i]
    OBVIOUS
<1>3. old = <<>> <=> Len(old) = 0
    OBVIOUS
<1>4. ASSUME NEW i \in 1 .. Len(new)
      PROVE  new[i].from = IF i = 1 THEN 0 ELSE new[i - 1].to
    <2>1. CASE i = Len(new)
        BY <1>1, <1>2, <1>3, <2>1
    <2>2. CASE i # Len(new)
        <3>1. i \in 1 .. Len(old) /\ (i # 1 => i - 1 \in 1 .. Len(old))
            BY <1>1, <2>2
        <3> QED
            BY <1>2, <3>1
    <2> QED
        BY <2>1, <2>2
<1> QED
    BY <1>1, <1>4

LEMMA CorrectionKeepsIInv ==
    ASSUME IInv, NEW r \in Corrections, ApplyCorrectionIfRevision(r)
    PROVE  /\ IInv' /\ bill.status = "PAID" /\ bill'.status = "PAID"
           /\ bill'.items = bill.items /\ bill'.subtotal = bill.subtotal
           /\ bill'.discount = bill.discount /\ bill'.tax = bill.tax
<1>1. r \in Requests /\ Working(r) /\ bill \in Document /\ intent[r] \in Document
    BY DEF IInv, TypeOK, ApplyCorrectionIfRevision, Working, Requests
<1>2. /\ IsCorrection(saw[r], intent[r]) /\ SameHistory(saw[r], bill)
      /\ bill.status = "PAID" /\ saw[r].revision = bill.revision
      /\ EditedUnderPayment \/ saw[r] = bill
    <2>1. HasSeen(saw[r]) /\ IsCorrection(saw[r], intent[r])
        BY <1>1 DEF IInv, CorrectionsOfPaid, ApplyCorrectionIfRevision
    <2> QED
        BY <2>1 DEF HasSeen, ApplyCorrectionIfRevision
<1> DEFINE entry == [from |-> bill.writeOff, to |-> intent[r].writeOff]
<1>3. bill' = [f \in Fields |->
        CASE f = "revision" -> bill.revision + 1
          [] f = "revisions" -> Append(bill.revisions,
                                       intent[r].revisions[Len(intent[r].revisions)])
          [] OTHER -> IF intent[r][f] # saw[r][f] THEN intent[r][f] ELSE bill[f]]
    BY <1>1, DocumentFields DEF ApplyCorrectionIfRevision, Corrected
<1>4. ASSUME NEW f \in Fields \ {"revision", "revisions"}
      PROVE  bill'[f] = IF intent[r][f] # saw[r][f] THEN intent[r][f] ELSE bill[f]
    BY <1>3
<1>5. bill'.revision = bill.revision + 1
    BY <1>3 DEF Fields
<1>6. bill'.revisions = Append(bill.revisions, entry)
    <2>1. bill'.revisions = Append(bill.revisions, intent[r].revisions[Len(intent[r].revisions)])
        BY <1>3 DEF Fields
    <2>2. intent[r].revisions = Append(bill.revisions, entry)
        BY <1>2 DEF IsCorrection, SameHistory
    <2>3. bill.revisions \in Seq(Entry)
        BY <1>1 DEF Document
    <2>4. ASSUME NEW last PROVE Append(bill.revisions, last)[Len(Append(bill.revisions, last))] = last
        BY <2>3
    <2> HIDE DEF entry
    <2> QED
        BY <2>1, <2>2, <2>4
<1>7. /\ bill'.status = "PAID" /\ bill'.items = bill.items
      /\ bill'.discountValue = bill.discountValue
      /\ bill'.subtotal = bill.subtotal /\ bill'.discount = bill.discount
      /\ bill'.tax = bill.tax /\ bill'.writeOff = intent[r].writeOff
    BY <1>2, <1>4 DEF IsCorrection, SameHistory, Fields
<1>8. /\ bill.subtotal \in Nat /\ bill.discount \in Nat /\ bill.tax \in Nat
      /\ bill.items \in Nat /\ bill.discountValue \in Nat
      /\ bill.writeOff \in Nat /\ intent[r].writeOff \in Nat /\ bill.revision \in Nat
      /\ bill.revisions \in Seq(Entry) /\ intent[r].grandTotal \in Nat
    BY <1>1 DEF Document
<1>9. bill' \in Document
    <2>1. bill' = [f \in Fields |-> bill'[f]]
        BY <1>3
    <2>2. ASSUME NEW f \in Fields \ {"revision", "revisions"}
          PROVE  bill'[f] \in {intent[r][f], bill[f]}
        BY <1>4, <2>2
    <2>3. /\ bill'.version \in Nat /\ bill'.paidAmount \in Nat /\ bill'.balance \in Nat
          /\ bill'.grandTotal \in Nat
        BY <1>1, <2>2 DEF Document, Fields
    <2>4. entry \in Entry
        BY <1>8 DEF Entry
    <2>5. bill'.revisions \in Seq(Entry)
        BY <1>6, <1>8, <2>4
    <2>6. bill'.revision \in Nat /\ "PAID" \in Status
        BY <1>5, <1>8 DEF Status
    <2> HIDE DEF entry
    <2> QED
        BY <1>7, <1>8, <2>1, <2>3, <2>5, <2>6, DocumentByFields
<1>10. /\ TypeOK' /\ overtaken' = overtaken
       /\ pc'[r] = "done" /\ \A q \in Requests \ {r} : pc'[q] = pc[q]
       /\ \A q \in Requests : Working(q)' =>
            q # r /\ Working(q) /\ pc'[q] = pc[q] /\ saw'[q] = saw[q] /\ intent'[q] = intent[q]
    <2>1. overtaken' = overtaken /\ overtaken \subseteq Payments
        BY DEF IInv, TypeOK, ApplyCorrectionIfRevision
    <2> QED
        BY <1>1, <1>9, <2>1, FinishMoves DEF ApplyCorrectionIfRevision
<1>18. \A p \in Payments : pc'[p] = pc[p]
    BY <1>10, RequestsApart DEF Requests
<1>19. EditedUnderPayment' <=> EditedUnderPayment
    <2>1. overtaken \subseteq Payments
        BY DEF IInv, TypeOK
    <2> QED
        BY <1>10, <1>18, <2>1 DEF EditedUnderPayment
<1>11. ChargeAddsUp /\ CorrectionsChain
    BY DEF IInv
<1>12. ChargeAddsUp'
    <2> SUFFICES ASSUME ~ EditedUnderPayment' PROVE ChargeAddsUp'
        BY DEF ChargeAddsUp
    <2>1. saw[r] = bill /\ ~ EditedUnderPayment
        BY <1>2, <1>19
    <2>2. /\ bill.grandTotal = Charge(bill) - bill.writeOff
          /\ bill.subtotal = bill.items /\ bill.discount = DiscountOn(bill.items, bill.discountValue)
        BY <1>2, <1>11, <2>1 DEF ChargeAddsUp, WasPaid
    <2>3. bill'.grandTotal = intent[r].grandTotal
        BY <1>4, <2>1 DEF Fields
    <2>4. bill'.grandTotal = Charge(bill) - bill'.writeOff
        BY <1>2, <1>7, <2>1, <2>2, <2>3 DEF IsCorrection
    <2>5. Charge(bill') = Charge(bill)
        BY <1>7 DEF Charge
    <2>6. bill'.grandTotal = Charge(bill') - bill'.writeOff
        BY <2>4, <2>5
    <2> QED
        BY <1>7, <2>2, <2>6 DEF ChargeAddsUp, WasPaid, Charge
<1>13. CorrectionsChain'
    <2> DEFINE new == bill'.revisions
    <2>1. /\ bill.writeOff = IF bill.revisions = <<>> THEN 0 ELSE bill.revisions[Len(bill.revisions)].to
          /\ \A i \in 1 .. Len(bill.revisions) :
                bill.revisions[i].from = IF i = 1 THEN 0 ELSE bill.revisions[i - 1].to
          /\ Len(bill.revisions) = bill.revision
        BY <1>11 DEF CorrectionsChain
    <2>2. new = Append(bill.revisions, [from |-> bill.writeOff, to |-> intent[r].writeOff])
        BY <1>6
    <2> HIDE DEF new
    <2>3. /\ Len(new) = Len(bill.revisions) + 1 /\ new # <<>>
          /\ new[Len(new)] = [from |-> bill.writeOff, to |-> intent[r].writeOff]
          /\ \A i \in 1 .. Len(new) : new[i].from = IF i = 1 THEN 0 ELSE new[i - 1].to
        BY <1>8, <2>1, <2>2, ChainGrows, SMTT(30)
    <2>4. bill'.writeOff = new[Len(new)].to
        BY <1>7, <2>3
    <2>5. Len(new) = bill'.revision
        BY <1>5, <2>1, <2>3
    <2> QED
        BY <2>3, <2>4, <2>5 DEF CorrectionsChain, new
<1>14. \A q \in Corrections : Working(q) =>
        saw[q].revision \in Nat /\ saw[q].revision <= bill.revision
    BY DEF IInv, TypeOK, CorrectionsOfPaid, HasSeen, Document, Requests
<1>15. \A q \in Corrections : Working(q) =>
        saw[q].revision <= bill'.revision /\ saw[q].revision # bill'.revision
    BY <1>5, <1>8, <1>14
<1>20. PaidByAPayment'
    <2>1. \E p \in Payments : pc[p] = "done"
        BY <1>2 DEF IInv, PaidByAPayment, WasPaid
    <2> QED
        BY <1>7, <1>18, <2>1 DEF PaidByAPayment
<1>16. DraftIsUncorrected'
    BY <1>7 DEF DraftIsUncorrected
<1>17. IInv'
    BY <1>7, <1>10, <1>12, <1>13, <1>15, <1>16, <1>20, BillMoves
<1> QED
    BY <1>2, <1>7, <1>17

\* Cancelling and refunding: no request moves, and none that is in flight finds its bill again.
LEMMA EndKeepsIInv ==
    ASSUME IInv, CancelBill \/ RefundBill
    PROVE  IInv' /\ <<bill.status, bill'.status>> \in Lifecycle
           /\ bill' = [bill EXCEPT !.status = bill'.status]
<1>1. bill \in Document
    BY DEF IInv, TypeOK
<1> DEFINE Ends(ending) ==
        /\ bill' = [bill EXCEPT !.status = ending]
        /\ bill.status = "PAID" \/ (bill.status = "DRAFT" /\ ending = "CANCELLED")
<1>2a. CancelBill => Ends("CANCELLED")
    BY DEF CancelBill
<1>2b. RefundBill => Ends("REFUNDED")
    BY DEF RefundBill
<1> HIDE DEF Ends
<1>2c. PICK ending \in {"CANCELLED", "REFUNDED"} : Ends(ending)
    BY <1>2a, <1>2b
<1>2. /\ bill' = [bill EXCEPT !.status = ending]
      /\ bill.status = "PAID" \/ (bill.status = "DRAFT" /\ ending = "CANCELLED")
    BY <1>2c DEF Ends
<1>3. /\ bill'.status = ending /\ bill'.items = bill.items
      /\ bill'.discountValue = bill.discountValue
      /\ bill'.subtotal = bill.subtotal /\ bill'.discount = bill.discount
      /\ bill'.tax = bill.tax /\ bill'.writeOff = bill.writeOff
      /\ bill'.grandTotal = bill.grandTotal /\ bill'.revision = bill.revision
      /\ bill'.revisions = bill.revisions
    BY <1>1, <1>2 DEF Document
<1>4. bill' \in Document
    BY <1>1, <1>2 DEF Document, Status
<1>5. taxRate' = taxRate /\ pc' = pc /\ saw' = saw /\ intent' = intent /\ overtaken' = overtaken
    BY DEF CancelBill, RefundBill
<1>6. TypeOK'
    BY <1>4, <1>5 DEF IInv, TypeOK
<1>7. ending = "REFUNDED" => bill.status = "PAID"
    BY <1>2
<1>8. ChargeAddsUp'
    BY <1>2, <1>3, <1>5, <1>7 DEF IInv, ChargeAddsUp, WasPaid, Charge, EditedUnderPayment
<1>9. DraftIsUncorrected' /\ CorrectionsChain'
    BY <1>3 DEF IInv, DraftIsUncorrected, CorrectionsChain
<1>10. PaidByAPayment'
    BY <1>3, <1>5, <1>7 DEF IInv, PaidByAPayment, WasPaid
<1>11. \A q \in Requests : Working(q)' => Working(q)
    BY <1>5 DEF Working
<1>12. \A q \in Corrections : Working(q) =>
        bill.status # "DRAFT" /\ saw[q].revision <= bill.revision
    BY DEF IInv, CorrectionsOfPaid, HasSeen
<1>13. IInv'
    BY <1>3, <1>5, <1>6, <1>8, <1>9, <1>10, <1>11, <1>12, BillMoves
<1> QED
    BY <1>2, <1>3, <1>13 DEF Lifecycle

-----------------------------------------------------------------------------

\* What a step may do to the bill.
BillStep ==
    \/ bill' = bill
    \/ bill'.status = bill.status /\ \E r \in Edits : SavesOfTheDraft(r)
    \/ bill.status = "DRAFT" /\ bill'.status = "PAID"
    \/ bill.status = "PAID" /\ bill'.status = "PAID" /\ Sold(bill') = Sold(bill)
    \/ /\ <<bill.status, bill'.status>> \in Lifecycle
       /\ bill' = [bill EXCEPT !.status = bill'.status]

LEMMA SameBillIInv ==
    ASSUME IInv, UNCHANGED <<bill, pc, saw, intent, overtaken>>, TypeOK'
    PROVE  IInv'
<1>1. WasPaid' = WasPaid /\ EditedUnderPayment' = EditedUnderPayment
    BY DEF WasPaid, EditedUnderPayment
<1>2. (PaidByAPayment /\ DraftIsUncorrected /\ ChargeAddsUp /\ CorrectionsChain)'
    BY <1>1 DEF IInv, PaidByAPayment, DraftIsUncorrected, ChargeAddsUp, Charge, CorrectionsChain
<1>3. EditsOfDrafts' /\ PaymentsOfDrafts'
    BY DEF IInv, EditsOfDrafts, PaymentsOfDrafts, Working
<1>4. CorrectionsOfPaid'
    BY <1>1 DEF IInv, CorrectionsOfPaid, HasSeen, Working
<1> QED
    BY <1>2, <1>3, <1>4 DEF IInv

LEMMA NextIInv ==
    ASSUME IInv, [Next]_vars
    PROVE  IInv' /\ BillStep
<1>1. ASSUME NEW r \in Edits, EditStep(r) PROVE IInv' /\ BillStep
    <2>0. r \in Requests
        BY DEF Requests
    <2>1. CASE BeginEdit(r)
        <3>1. IInv'
            BY <2>0, <2>1, ReadKeepsIInv
        <3>2. bill' = bill
            BY <2>1 DEF BeginEdit, Read
        <3> QED
            BY <3>1, <3>2 DEF BillStep
    <2>2. CASE RefuseEdit(r) \/ RejectEdit(r)
        BY <2>0, <2>2, RefusalKeepsIInv DEF RefuseEdit, RejectEdit, Refuse, Working, BillStep
    <2>3. CASE SaveEdit(r)
        BY <2>3, SaveEditKeepsIInv DEF BillStep
    <2>4. ASSUME NEW lines \in LineSums \cup {KeepLines}, NEW value \in Discounts,
                 PriceEdit(r, lines, value)
          PROVE  IInv' /\ BillStep
        BY <2>4, PriceEditKeepsIInv DEF PriceEdit, BillStep
    <2> QED
        BY <1>1, <2>1, <2>2, <2>3, <2>4 DEF EditStep
<1>2. ASSUME NEW r \in Payments, PaymentStep(r) PROVE IInv' /\ BillStep
    <2>0. r \in Requests
        BY DEF Requests
    <2>1. CASE BeginPayment(r)
        <3>1. IInv'
            BY <2>0, <2>1, ReadKeepsIInv
        <3>2. bill' = bill
            BY <2>1 DEF BeginPayment, Read
        <3> QED
            BY <3>1, <3>2 DEF BillStep
    <2>2. CASE RefusePayment(r) \/ NotDraftAnyMore(r)
        BY <2>0, <2>2, RefusalKeepsIInv DEF RefusePayment, NotDraftAnyMore, Refuse, Working, BillStep
    <2>3. CASE PricePayment(r)
        BY <2>3, PricePaymentKeepsIInv DEF PricePayment, BillStep
    <2>4. CASE CompleteIfDraft(r)
        BY <2>4, CompleteKeepsIInv DEF BillStep
    <2> QED
        BY <1>2, <2>1, <2>2, <2>3, <2>4 DEF PaymentStep
<1>3. ASSUME NEW r \in Corrections, CorrectionStep(r) PROVE IInv' /\ BillStep
    <2>0. r \in Requests
        BY DEF Requests
    <2>1. CASE BeginCorrection(r)
        BY <2>0, <2>1, ReadKeepsIInv DEF BeginCorrection, Read, BillStep
    <2>2. CASE RefuseCorrection(r) \/ ChangedSinceRead(r)
        BY <2>0, <2>2, RefusalKeepsIInv DEF RefuseCorrection, ChangedSinceRead, Refuse, Working, BillStep
    <2>3. CASE CorrectOther(r) \/ \E amount \in Amounts : CorrectAmount(r, amount)
        BY <2>3, PriceCorrectionKeepsIInv DEF CorrectOther, CorrectAmount, BillStep
    <2>4. CASE ApplyCorrectionIfRevision(r)
        BY <2>4, CorrectionKeepsIInv DEF BillStep, Sold
    <2> QED
        BY <1>3, <2>1, <2>2, <2>3, <2>4 DEF CorrectionStep
<1>4. ASSUME NEW rate \in TaxRates, ChangeTax(rate) PROVE IInv' /\ BillStep
    <2>1. UNCHANGED <<bill, pc, saw, intent, overtaken>> /\ TypeOK'
        BY <1>4 DEF IInv, TypeOK, ChangeTax
    <2> QED
        BY <2>1, SameBillIInv DEF BillStep
<1>5. CASE CancelBill \/ RefundBill
    BY <1>5, EndKeepsIInv DEF BillStep
<1>6. CASE UNCHANGED vars
    <2>1. UNCHANGED <<bill, pc, saw, intent, overtaken>> /\ TypeOK'
        BY <1>6 DEF IInv, TypeOK, vars
    <2> QED
        BY <2>1, SameBillIInv DEF BillStep
<1> QED
    BY <1>1, <1>2, <1>3, <1>4, <1>5, <1>6 DEF Next

LEMMA Inductive == Spec => []IInv
<1>1. Init => IInv
    BY InitIInv
<1>2. IInv /\ [Next]_vars => IInv'
    BY NextIInv
<1> QED
    BY <1>1, <1>2, PTL DEF Spec

\* Amounts stay natural numbers, those of the requests in flight included.
THEOREM TypeCorrect == Spec => []TypeOK
<1>1. IInv => TypeOK
    BY DEF IInv
<1> QED
    BY <1>1, Inductive, PTL

\* The figures of a paid bill add up, through any number of edits before the payment and
\* of corrections racing each other after it, unless an edit was saved on the bill while the
\* payment that settled it was on its way, or later.
THEOREM FiguresAddUp == Spec => []ChargeAddsUp
<1>1. IInv => ChargeAddsUp
    BY DEF IInv
<1> QED
    BY <1>1, Inductive, PTL

\* The history of corrections is complete and without a gap, whatever edits are saved late.
THEOREM HistoryIsAChain == Spec => []CorrectionsChain
<1>1. IInv => CorrectionsChain
    BY DEF IInv
<1> QED
    BY <1>1, Inductive, PTL

\* A bill is paid once and ended once, whatever is in flight; and what is ended is then left
\* alone by everything but an edit that had read it as a draft.
THEOREM EndsForGood == Spec => SettledOnce
<1>1. IInv /\ [Next]_vars =>
        [/\ bill'.status # bill.status => <<bill.status, bill'.status>> \in Lifecycle
         /\ bill.status \in {"CANCELLED", "REFUNDED"} /\ bill' # bill =>
                \E r \in Edits : SavesOfTheDraft(r)]_vars
    <2> SUFFICES ASSUME IInv, [Next]_vars
                 PROVE  /\ bill'.status # bill.status => <<bill.status, bill'.status>> \in Lifecycle
                        /\ bill.status \in {"CANCELLED", "REFUNDED"} /\ bill' # bill =>
                               \E r \in Edits : SavesOfTheDraft(r)
        OBVIOUS
    <2>1. BillStep
        BY NextIInv
    <2> QED
        BY <2>1 DEF BillStep, Lifecycle
<1> QED
    BY <1>1, Inductive, PTL DEF Spec, SettledOnce

\* What a paid bill sold is moved by nothing but an edit that had read it as a draft, and then
\* only by what that edit changed.
THEOREM SaleMovesOnlyByItsEdits == Spec => SoldMovesOnlyByItsEdits
<1>1. IInv /\ [Next]_vars =>
        [bill.status = "PAID" /\ Sold(bill') # Sold(bill) =>
            \E r \in Edits : SavesOfTheDraft(r)]_vars
    <2> SUFFICES ASSUME IInv, [Next]_vars, bill.status = "PAID", Sold(bill') # Sold(bill)
                 PROVE  \E r \in Edits : SavesOfTheDraft(r)
        OBVIOUS
    <2>1. bill \in Document /\ BillStep
        BY NextIInv DEF IInv, TypeOK
    <2>2. ASSUME NEW doc \in Document, NEW s, NEW d, d = [doc EXCEPT !.status = s]
          PROVE  Sold(d) = Sold(doc)
        BY <2>2 DEF Document, Sold
    <2>3. bill' # bill
        OBVIOUS
    <2> QED
        BY <2>1, <2>2, <2>3 DEF BillStep
<1> QED
    BY <1>1, Inductive, PTL DEF Spec, SoldMovesOnlyByItsEdits

=============================================================================
