SPECIFICATION PricesSpec
CONSTANTS
    NoTiers = NoTiers NoCountdown = NoCountdown
    Packages <- MCPackages
    Comparable = 1
    Minimum = 15
    Ahead = 2
    Longest = 320
    Children = {1, 3}
    HoursLater = {0, 3}
    Users = {ann, bob, eve}
    Admins = {eve}
    NoTime = NoTime
    Orders <- MCOrders
    Visits <- MCVisits
    Discounts <- MCDiscounts
    Settings <- MCSettings
    Catalogues <- MCCatalogues
    Hours <- MCHours
INVARIANTS NothingDueBeforeTheCountdown DueAtTheCountdown FairPrice PaperExplainsTheLine WithinTheCap FamilyTicketIsAsSeparateTickets PaidWhenItHappened PaperFootsUp
PROPERTIES StayingNeverGetsCheaper ChargedAsQuoted
CHECK_DEADLOCK FALSE
