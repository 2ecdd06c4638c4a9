SPECIFICATION MoneySpec
SYMMETRY AnyOfAKind
CONSTANTS
    e1 = e1 e2 = e2 p1 = p1 p2 = p2 c1 = c1 c2 = c2
    KeepLines = KeepLines
    Edits = {e1, e2}
    Payments = {p1, p2}
    Corrections = {c1, c2}
    LineSums = {50, 100}
    Discounts = {0, 60}
    TaxRates = {0, 15}
    Tenders = {100}
    Amounts = {0, 80}
INVARIANTS ChargeAddsUp CorrectionsChain
PROPERTIES SettledOnce SoldMovesOnlyByItsEdits
CHECK_DEADLOCK FALSE
