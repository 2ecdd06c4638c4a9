---------------------------- MODULE ReceiptTotals ----------------------------
(***************************************************************************)
(* The foot of a receipt (receipt.service.ts): the rows between the lines  *)
(* of a bill and its total, and the label of the automatic discount.  They *)
(* come from the stored bill alone, whatever the settings have become.     *)
(* A row is its label and its amount; a row that is not printed is left    *)
(* out, and that a draft has no receipt is the caller's guard.  The row of *)
(* a write-off, which only a correction adds, and the tender and the       *)
(* balance under the total are left out.                                   *)
(***************************************************************************)
EXTENDS DraftPricing

Row(label, amount) == [label |-> label, amount |-> amount]
PrintedIf(condition, row) == IF condition THEN <<row>> ELSE <<>>

\* Mutants (definitions named "...Mutant") are the code with one plausible mistake in
\* it, next to the definition they replace when a property is put to the test.
WholeDiscountMutant(doc) == doc.discount

\* What the cashier gave, next to the automatic discount.
ManualDiscount(doc) == doc.discount - doc.multiChildDiscount

FooterRows(doc) ==
    <<Row("Subtotal", doc.subtotal)>>
    \o PrintedIf(doc.multiChildDiscount > 0, Row("Family discount", 0 - doc.multiChildDiscount))
    \o PrintedIf(ManualDiscount(doc) > 0, Row("Discount", 0 - ManualDiscount(doc)))
    \o PrintedIf(doc.tax > 0, Row("Tax", doc.tax))

\* buildReceiptData: the amounts and the label of the family discount, copied from the bill.
ReceiptData(doc) ==
    [rows |-> FooterRows(doc), total |-> doc.grandTotal,
     family |-> [children |-> doc.multiChildCount, percentage |-> doc.multiChildDiscountPercentage],
     lines |-> doc.items]

-----------------------------------------------------------------------------

\* "The total reconciles on paper" (receipt.service.ts): the lines of a paid bill add up to
\* its first row and the rows to its total, and the family can work the discount out
\* from its label - so many children on the lines, so many per cent of their play.
PaperFootsUp ==
    bill.status = "PAID" =>
        LET paper == ReceiptData(bill)
            family == {row \in Range(paper.rows) : row.label = "Family discount"}
        IN  /\ Subtotal(paper.lines) = paper.rows[1].amount
            /\ SumOf(LAMBDA row : row.amount, paper.rows) = paper.total
            /\ \A row \in family :
                /\ paper.family.children = PlayChildrenOnItems(paper.lines)
                /\ 0 - row.amount = CalculatePercentage(PlayBase(paper.lines), paper.family.percentage)
            /\ family = {} => paper.family.percentage = 0

=============================================================================
