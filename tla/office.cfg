SPECIFICATION OfficeSpec
CONSTANTS
    r1 = r1 r2 = r2 s1 = s1 u1 = u1 a = a b = b
    c1 = c1 c2 = c2 e1 = e1 x = x y = y
    NoKey = NoKey Nobody = Nobody
    Requests = {r1, r2, s1, u1}
    Keys = {a, b}
    KeyOf <- MCKeyOf
    Disturbances <- AllDisturbances
    Payments = {1, 2, 3, 4}
    MaxAttempts = 2
    LastHalfDay = 2
    Nothing = Nothing
    CheckIns = {c1, c2}
    ExtraSales = {e1}
    Extras = {x, y}
    Products = {x, y}
    Carries <- MCCarries
    ProductOf <- MCProductOf
    Kinds = {"PRODUCT", "PACKAGE"}
    Visits = {"t1"}
    Invoices = {"b1", "b2"}
    Sellers = {"s1", "s2"}
    Deleters = {"d1"}
    Devices = {"till", "phone"}
    Refreshes = {"f1", "f2"}
    MaxIssued = 3
    Bills = {"b1", "b2"}
    Tickets = {"t1"}
    Phones = {"p", "q"}
    NoNumber = ""
    Facts = {1, 2, 3}
    Unsaid = Unsaid
    Books <- MCBooks
    MaxDeaths = 1
INVARIANTS OnePaymentOneReceipt ToldAlreadyDoneWithReason OneFreshNumberSettlesIt SoldOnce SoldWhenAccepted SoldStaysResolvable OneLiveTokenPerDevice RefreshesLeaveOneBehindAtMost RerunFindsNothing NobodyLosesTheirFamily
PROPERTIES KeyIsGivenBack
CHECK_DEADLOCK FALSE
