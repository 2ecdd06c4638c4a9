SPECIFICATION CatalogueSpec
CONSTANTS
    Kinds = {"PACKAGE"}
    Visits = {"t1"}
    Invoices = {"b1"}
    Sellers = {"s1"}
    Deleters = {"d1"}
INVARIANTS BilledPackageIsKept
CHECK_DEADLOCK FALSE
