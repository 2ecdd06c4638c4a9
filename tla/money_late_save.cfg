SPECIFICATION Spec
CONSTANTS
    e1 = e1 e2 = e2 p1 = p1 p2 = p2 c1 = c1 c2 = c2
    KeepLines = KeepLines
    Edits = {e1}
    Payments = {p1}
    Corrections = {}
    LineSums = {50, 100}
    Discounts = {0, 60}
    TaxRates = {0, 15}
    Tenders = {100, 150}
    Amounts = {0, 80}
PROPERTIES SoldIsFrozen
CHECK_DEADLOCK FALSE
