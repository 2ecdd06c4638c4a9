----------------------------- MODULE BillMoney -----------------------------
(***************************************************************************)
(* One bill document and the requests that write its money: editing the    *)
(* draft, paying it, correcting it after payment, cancelling, refunding.   *)
(*                                                                         *)
(* Each handler reads the document, awaits something else (the settings,   *)
(* the products, the bill number) and then writes.  Paying, cancelling,    *)
(* refunding and correcting write with a compare-and-set; editing calls    *)
(* bill.save(), which sends the fields that differ from what was READ, to  *)
(* whatever the document has become.                                       *)
(*                                                                         *)
(* The lines are their sum, a discount is a FIXED amount in minor units,   *)
(* and whoever a handler would refuse for his role is not modelled: he     *)
(* changes nothing.  A request is used once.                               *)
(***************************************************************************)
EXTENDS Integers, Sequences

CONSTANTS
    KeepLines,     \* an edit without lines in it
    Edits,         \* PATCH /bills/:id requests
    Payments,      \* POST /bills/:id/complete requests
    Corrections,   \* PATCH /bills/:id/correction requests
    LineSums,      \* what the lines of a bill can add up to
    Discounts,     \* the discounts a till can ask for
    TaxRates,      \* the percentages the settings can hold (0: tax disabled)
    Tenders,       \* what a family can hand over
    Amounts        \* what an admin can say was really received

Requests == Edits \cup Payments \cup Corrections

ASSUME RequestsApart ==
    /\ Edits \cap Payments = {}
    /\ Edits \cap Corrections = {}
    /\ Payments \cap Corrections = {}
ASSUME AmountsAreNatural ==
    /\ LineSums \subseteq Nat /\ Discounts \subseteq Nat /\ TaxRates \subseteq Nat
    /\ Tenders \subseteq Nat /\ Amounts \subseteq Nat
ASSUME KeepLinesIsNoLineSum == KeepLines \notin LineSums

VARIABLES
    bill,       \* the document
    taxRate,    \* BusinessSettings: taxEnabled and taxPercentage
    pc,         \* where each request stands
    saw,        \* the document as each request read it
    intent,     \* what each request is about to write
    overtaken   \* history: the payments that had begun, or were done, when an edit was saved

vars == <<bill, taxRate, pc, saw, intent, overtaken>>

Status == {"DRAFT", "PAID", "CANCELLED", "REFUNDED"}
PC == {"idle", "read", "priced", "done", "failed"}
Entry == [from : Nat, to : Nat]

Document ==
    [status : Status, version : Nat, items : Nat, discountValue : Nat,
     subtotal : Nat, discount : Nat, tax : Nat, grandTotal : Nat,
     paidAmount : Nat, balance : Nat, writeOff : Nat,
     revision : Nat, revisions : Seq(Entry)]

\* Types: amounts are natural numbers of minor units, everywhere they are kept.
TypeOK ==
    /\ bill \in Document
    /\ taxRate \in TaxRates
    /\ pc \in [Requests -> PC]
    /\ saw \in [Requests -> Document]
    /\ intent \in [Requests -> Document]
    /\ overtaken \subseteq Payments

-----------------------------------------------------------------------------

\* calculatePercentage: Math.round, which rounds halves up.
RoundedPercent(amount, rate) == (amount * rate + 50) \div 100

\* calculateDiscountAmount for a FIXED discount: never more than the subtotal.
DiscountOn(subtotal, value) == IF value < subtotal THEN value ELSE subtotal

\* calculateBillTotals, laid over a document.
WithTotals(doc, items, discountValue, rate) ==
    LET off == DiscountOn(items, discountValue)
        tax == RoundedPercent(items - off, rate)
    IN  [doc EXCEPT !.items = items, !.discountValue = discountValue,
                    !.subtotal = items, !.discount = off, !.tax = tax,
                    !.grandTotal = items - off + tax]

Blank ==
    [status |-> "DRAFT", version |-> 0, items |-> 0, discountValue |-> 0,
     subtotal |-> 0, discount |-> 0, tax |-> 0, grandTotal |-> 0,
     paidAmount |-> 0, balance |-> 0, writeOff |-> 0, revision |-> 0, revisions |-> <<>>]

\* A draft as createDraft leaves it: a discount above the subtotal is refused.
Init ==
    /\ taxRate \in TaxRates
    /\ \E items \in LineSums, value \in Discounts :
        /\ value <= items
        /\ bill = WithTotals(Blank, items, value, taxRate)
    /\ pc = [r \in Requests |-> "idle"]
    /\ saw = [r \in Requests |-> Blank]
    /\ intent = [r \in Requests |-> Blank]
    /\ overtaken = {}

\* settingsService.update.
ChangeTax(rate) ==
    /\ taxRate' = rate
    /\ UNCHANGED <<bill, pc, saw, intent, overtaken>>

Advance(r, next) == pc' = [pc EXCEPT ![r] = next]

\* The handler returns or throws, and its locals are gone.
Finish(r, next) ==
    /\ Advance(r, next)
    /\ saw' = [saw EXCEPT ![r] = Blank]
    /\ intent' = [intent EXCEPT ![r] = Blank]

Read(r, needed) ==
    /\ pc[r] = "idle"
    /\ bill.status = needed
    /\ saw' = [saw EXCEPT ![r] = bill]
    /\ Advance(r, "read")
    /\ UNCHANGED <<bill, taxRate, intent, overtaken>>

Refuse(r) ==
    /\ Finish(r, "failed")
    /\ UNCHANGED <<bill, taxRate, overtaken>>

-----------------------------------------------------------------------------
(***************************************************************************)
(* updateDraft.                                                            *)
(***************************************************************************)

BeginEdit(r) == Read(r, "DRAFT")

\* The settings arrive and the draft is priced; a discount above the subtotal throws.
\* Replaced lines bump the version.
\* Without lines in the request the bill keeps its own.
PriceEdit(r, lines, value) ==
    LET replaces == lines \in LineSums
        items == IF replaces THEN lines ELSE saw[r].items
    IN  /\ pc[r] = "read"
        /\ value <= items
        /\ intent' = [intent EXCEPT ![r] =
               WithTotals([saw[r] EXCEPT !.version = IF replaces THEN @ + 1 ELSE @],
                          items, value, taxRate)]
        /\ Advance(r, "priced")
        /\ UNCHANGED <<bill, taxRate, saw, overtaken>>

RefuseEdit(r) == pc[r] = "read" /\ Refuse(r)

Replaces(r) == intent[r].version # saw[r].version

\* bill.save(): the fields that were changed, to the document whatever its status, and
\* only when the lines were replaced does it insist on the version that was read.
SaveEdit(r) ==
    /\ pc[r] = "priced"
    /\ Replaces(r) => bill.version = saw[r].version
    /\ bill' = [f \in DOMAIN bill |->
                    IF intent[r][f] # saw[r][f] THEN intent[r][f] ELSE bill[f]]
    /\ Finish(r, "done")
    /\ overtaken' = overtaken \cup {p \in Payments : pc[p] \in {"read", "priced", "done"}}
    /\ UNCHANGED taxRate

\* VersionError.
RejectEdit(r) ==
    /\ pc[r] = "priced"
    /\ Replaces(r) /\ bill.version # saw[r].version
    /\ Refuse(r)

-----------------------------------------------------------------------------
(***************************************************************************)
(* completeBill.                                                           *)
(***************************************************************************)

BeginPayment(r) == Read(r, "DRAFT")

\* Mutants (definitions named "...Mutant") are the code with one plausible mistake in
\* it, next to the definition they replace when a property is put to the test.
SettledAsQuotedMutant(r, paid) ==
    [saw[r] EXCEPT !.status = "PAID", !.paidAmount = paid, !.balance = paid - saw[r].grandTotal]

\* The whole update of a payment, computed from the lines and the discount that were
\* read and the tax rate of now.
Settled(r, paid) ==
    LET priced == WithTotals(saw[r], saw[r].items, saw[r].discountValue, taxRate)
    IN  [priced EXCEPT !.status = "PAID", !.paidAmount = paid,
                       !.balance = paid - priced.grandTotal]

Due(r) == WithTotals(saw[r], saw[r].items, saw[r].discountValue, taxRate).grandTotal

\* Less than the total is refused; without a tender the total itself is taken as paid.
PricePayment(r) ==
    /\ pc[r] = "read"
    /\ \E paid \in Tenders \cup {Due(r)} :
        /\ paid >= Due(r)
        /\ intent' = [intent EXCEPT ![r] = Settled(r, paid)]
    /\ Advance(r, "priced")
    /\ UNCHANGED <<bill, taxRate, saw, overtaken>>

RefusePayment(r) == pc[r] = "read" /\ Refuse(r)

\* The fields of the update: not the lines, nor what is no part of a payment.
PaymentFields ==
    {"status", "subtotal", "discount", "tax", "grandTotal", "paidAmount", "balance"}

Write(r, fields) ==
    /\ bill' = [f \in DOMAIN bill |-> IF f \in fields THEN intent[r][f] ELSE bill[f]]
    /\ Finish(r, "done")
    /\ UNCHANGED <<taxRate, overtaken>>

CompleteUncheckedMutant(r) ==
    /\ pc[r] = "priced"
    /\ Write(r, PaymentFields)

\* completeIfDraft, once the bill number is there.
CompleteIfDraft(r) ==
    /\ pc[r] = "priced"
    /\ bill.status = "DRAFT"
    /\ Write(r, PaymentFields)

NotDraftAnyMore(r) ==
    /\ pc[r] = "priced"
    /\ bill.status # "DRAFT"
    /\ Refuse(r)

-----------------------------------------------------------------------------
(***************************************************************************)
(* correctPaidBill.  The form was opened on the revision the request       *)
(* names; the handler reads the bill again and refuses another revision.   *)
(***************************************************************************)

BeginCorrection(r) == Read(r, "PAID")

\* What the bill charged before any write-off.
Charge(doc) == doc.subtotal - doc.discount + doc.tax

Entered(doc, writeOff) ==
    [doc EXCEPT !.revision = @ + 1,
                !.revisions = Append(@, [from |-> doc.writeOff, to |-> writeOff])]

CorrectWithoutWriteOffMutant(r, amount) ==
    /\ pc[r] = "read"
    /\ amount < Charge(saw[r])
    /\ intent' = [intent EXCEPT ![r] =
           [Entered(saw[r], 0) EXCEPT !.grandTotal = amount, !.paidAmount = amount,
                                      !.balance = 0]]
    /\ Advance(r, "priced")
    /\ UNCHANGED <<bill, taxRate, saw, overtaken>>

CorrectAsDiscountMutant(r, amount) ==
    /\ pc[r] = "read"
    /\ amount < Charge(saw[r])
    /\ intent' = [intent EXCEPT ![r] =
           [Entered(saw[r], 0) EXCEPT !.discount = @ + (Charge(saw[r]) - amount),
                                      !.grandTotal = amount, !.paidAmount = amount,
                                      !.balance = 0]]
    /\ Advance(r, "priced")
    /\ UNCHANGED <<bill, taxRate, saw, overtaken>>

\* More than the charge is refused; the amount already recorded is not a change.
CorrectAmount(r, amount) ==
    LET writeOff == Charge(saw[r]) - amount
    IN  /\ pc[r] = "read"
        /\ amount <= Charge(saw[r])
        /\ writeOff # saw[r].writeOff
        /\ intent' = [intent EXCEPT ![r] =
               [Entered(saw[r], writeOff) EXCEPT !.writeOff = writeOff, !.grandTotal = amount,
                                                 !.paidAmount = amount, !.balance = 0]]
        /\ Advance(r, "priced")
        /\ UNCHANGED <<bill, taxRate, saw, overtaken>>

\* The payment method, the customer or the notes, and not the amount.
CorrectOther(r) ==
    /\ pc[r] = "read"
    /\ intent' = [intent EXCEPT ![r] = Entered(saw[r], saw[r].writeOff)]
    /\ Advance(r, "priced")
    /\ UNCHANGED <<bill, taxRate, saw, overtaken>>

RefuseCorrection(r) == pc[r] = "read" /\ Refuse(r)

\* The update sets what changed and increments and appends the rest on the server.
Corrected(r) ==
    [f \in DOMAIN bill |->
        CASE f = "revision" -> bill.revision + 1
          [] f = "revisions" -> Append(bill.revisions,
                                       intent[r].revisions[Len(intent[r].revisions)])
          [] OTHER -> IF intent[r][f] # saw[r][f] THEN intent[r][f] ELSE bill[f]]

CorrectUncheckedMutant(r) ==
    /\ pc[r] = "priced"
    /\ bill.status = "PAID"
    /\ bill' = Corrected(r)
    /\ Finish(r, "done")
    /\ UNCHANGED <<taxRate, overtaken>>

\* applyCorrectionIfRevision.
ApplyCorrectionIfRevision(r) ==
    /\ pc[r] = "priced"
    /\ bill.status = "PAID"
    /\ bill.revision = saw[r].revision
    /\ bill' = Corrected(r)
    /\ Finish(r, "done")
    /\ UNCHANGED <<taxRate, overtaken>>

ChangedSinceRead(r) ==
    /\ pc[r] = "priced"
    /\ bill.status # "PAID" \/ bill.revision # saw[r].revision
    /\ Refuse(r)

-----------------------------------------------------------------------------
(***************************************************************************)
(* cancelBill and refundBill: the write only depends on the status, which  *)
(* its compare-and-set checks again, so each is one step.                  *)
(***************************************************************************)

CancelBill ==
    /\ bill.status \in {"DRAFT", "PAID"}
    /\ bill' = [bill EXCEPT !.status = "CANCELLED"]
    /\ UNCHANGED <<taxRate, pc, saw, intent, overtaken>>

RefundBill ==
    /\ bill.status = "PAID"
    /\ bill' = [bill EXCEPT !.status = "REFUNDED"]
    /\ UNCHANGED <<taxRate, pc, saw, intent, overtaken>>

-----------------------------------------------------------------------------

EditStep(r) ==
    \/ BeginEdit(r) \/ RefuseEdit(r) \/ SaveEdit(r) \/ RejectEdit(r)
    \/ \E lines \in LineSums \cup {KeepLines}, value \in Discounts : PriceEdit(r, lines, value)

PaymentStep(r) ==
    \/ BeginPayment(r) \/ PricePayment(r) \/ RefusePayment(r)
    \/ CompleteIfDraft(r) \/ NotDraftAnyMore(r)

CorrectionStep(r) ==
    \/ BeginCorrection(r) \/ CorrectOther(r) \/ RefuseCorrection(r)
    \/ ApplyCorrectionIfRevision(r) \/ ChangedSinceRead(r)
    \/ \E amount \in Amounts : CorrectAmount(r, amount)

Next ==
    \/ \E r \in Edits : EditStep(r)
    \/ \E r \in Payments : PaymentStep(r)
    \/ \E r \in Corrections : CorrectionStep(r)
    \/ \E rate \in TaxRates : ChangeTax(rate)
    \/ CancelBill \/ RefundBill

Spec == Init /\ [][Next]_vars

-----------------------------------------------------------------------------

WasPaid == bill.status \in {"PAID", "REFUNDED"}

\* An edit was saved on the bill while the payment that settled it was on its way, or later.
EditedUnderPayment == \E p \in overtaken : pc[p] = "done"

\* grandTotal = subtotal - discount + tax - writeOff on every bill that was paid
\* (bill.model.ts), through the correction that moves three of these at once; and what it
\* charges are the lines and the discount that are stored on it, whatever edits the draft
\* went through before the payment that settled it had begun.
ChargeAddsUp ==
    WasPaid /\ ~ EditedUnderPayment =>
        /\ bill.grandTotal = Charge(bill) - bill.writeOff
        /\ bill.subtotal = bill.items
        /\ bill.discount = DiscountOn(bill.items, bill.discountValue)

\* Every correction that was acknowledged is in the history, in order, each entry starting
\* from the write-off the one before it left: neither two admins nor an edit that is saved
\* late can overwrite one.
CorrectionsChain ==
    /\ Len(bill.revisions) = bill.revision
    /\ \A i \in 1 .. Len(bill.revisions) :
        bill.revisions[i].from = IF i = 1 THEN 0 ELSE bill.revisions[i - 1].to
    /\ bill.writeOff =
        IF bill.revisions = <<>> THEN 0 ELSE bill.revisions[Len(bill.revisions)].to

Lifecycle ==
    {<<"DRAFT", "PAID">>, <<"DRAFT", "CANCELLED">>, <<"PAID", "CANCELLED">>, <<"PAID", "REFUNDED">>}

EditFields == {"version", "items", "discountValue", "subtotal", "discount", "tax", "grandTotal"}

\* An edit is saved that had read the draft: of the bill it moves only what it changed of that
\* draft, and nothing that says what was paid, written off or corrected.
SavesOfTheDraft(r) ==
    /\ pc[r] = "priced" /\ pc'[r] = "done" /\ saw[r].status = "DRAFT"
    /\ \A f \in DOMAIN bill : bill'[f] # bill[f] =>
           f \in EditFields /\ intent[r][f] # saw[r][f] /\ bill'[f] = intent[r][f]

\* A bill is paid once and what was cancelled or refunded stays so, whatever requests were
\* already past their check of the status.  From then on nothing on it moves, but by an edit
\* that was on its way since the bill was a draft.
SettledOnce ==
    [][/\ bill'.status # bill.status => <<bill.status, bill'.status>> \in Lifecycle
       /\ bill.status \in {"CANCELLED", "REFUNDED"} /\ bill' # bill =>
              \E r \in Edits : SavesOfTheDraft(r)]_vars

Sold(doc) == <<doc.items, doc.subtotal, doc.discount, doc.tax>>

\* What a paid bill sold moves only by an edit that was on its way since the bill was a draft:
\* by no correction, refund or cancellation, and by no edit that began later.
SoldMovesOnlyByItsEdits ==
    [][bill.status = "PAID" /\ Sold(bill') # Sold(bill) =>
           \E r \in Edits : SavesOfTheDraft(r)]_vars

\* The lines, subtotal, discount and tax of a paid bill are never touched
\* (bill.service.ts, correctPaidBill): they are what was sold.  The edit above refutes it.
SoldIsFrozen ==
    [][bill.status = "PAID" => Sold(bill') = Sold(bill)]_vars

=============================================================================
