------------------------------ MODULE MCPrices ------------------------------
(***************************************************************************)
(* Two small machines that share no data with each other, checked in one   *)
(* run: in a behaviour one of them moves, "part", and the other stays as   *)
(* it begins.                                                              *)
(***************************************************************************)
EXTENDS ReceiptLines, ReceiptTotals

VARIABLE part

pricesVars == <<part, clockVars, vars>>

(* The clock: the rates of the examples in the source, one of each mode, overtime and      *)
(* rounding, and the stored forms the code keeps pricing although validation no longer     *)
(* lets them be saved.                                                                     *)
Package(mode, price, length, grace, tiers) ==
    [pricingMode |-> mode, unitPrice |-> price, rateDurationMinutes |-> length,
     graceMinutes |-> grace, tieredPricing |-> tiers]

Tiers(hourlyRates, mode, block, step, rounding) ==
    [hourlyRates |-> hourlyRates, overtimeMode |-> mode, overtimeBlockMinutes |-> block,
     roundingStep |-> step, roundingMode |-> rounding]

Falling == <<600, 500, 400, 400>>
Rising == <<200, 350, 500, 650>>

Plain == {
    Package("PRORATA", 500, 60, 0, NoTiers),
    Package("PRORATA", 590, 60, 10, NoTiers),          \* a grace left from another mode
    Package("BLOCK_WITH_GRACE", 600, 60, 10, NoTiers),
    Package("BLOCK_WITH_GRACE", 350, 30, 30, NoTiers)} \* older than the rule on grace
Tiered == {
    Package("TIERED_HOURLY", 600, 60, 0, NoTiers),     \* its table was lost
    Package("TIERED_HOURLY", 600, 60, 20, Tiers(Falling, "PER_MINUTE", 60, 0, "NEAREST")),
    Package("TIERED_HOURLY", 200, 60, 0, Tiers(Rising, "BLOCK", 45, 0, "NEAREST")),
    Package("TIERED_HOURLY", 600, 60, 10, Tiers(Falling, "BLOCK", 15, 100, "UP")),
    Package("TIERED_HOURLY", 200, 60, 59, Tiers(Rising, "PER_MINUTE", 60, 100, "DOWN")),
    Package("TIERED_HOURLY", 600, 60, 5, Tiers(Falling, "PER_MINUTE", 60, 100, "NEAREST"))}

MCPackages == Plain \cup Tiered

(* Drafts: amounts are small enough to meet the roundings, and every comparison goes both  *)
(* ways.                                                                                   *)
MCHours == {4000, 4700, 6000}

Play(quantity) == [kind |-> "PLAY", of |-> "hour", quantity |-> quantity]
Socks(quantity) == [kind |-> "PRODUCT", of |-> "socks", quantity |-> quantity]
Group(ago) == [kind |-> "GROUP", rate |-> 7, headcount |-> 3, minutes |-> 90, ago |-> ago]

\* Nothing; children on a package; with socks; a group today, ahead of the clock, long ago.
MCOrders ==
    {<<>>, <<Play(1), Play(1)>>, <<Play(2), Socks(1)>>, <<Group(-5)>>, <<Group(1600), Socks(2)>>}

Ticket(children, ago, extras) ==
    [children |-> children, charge |-> 17, ago |-> ago, extras |-> extras]

\* A family ticket with socks; two tickets, three children.
MCVisits == {<<Ticket(2, 0, 6)>>, <<Ticket(2, 0, 0), Ticket(1, -5, 0)>>, <<Ticket(1, 3000, 0)>>}

Off(type, value) == [type |-> type, value |-> value]
MCDiscounts ==
    {Off("NONE", 0), Off("FIXED", 4), Off("FIXED", 30), Off("PERCENTAGE", 10),
     Off("PERCENTAGE", 100), Off("PERCENTAGE", 120)}

Tier(children, percentage) == [minChildren |-> children, percentage |-> percentage]
MCSettings ==
    {[taxPercentage |-> 0, tiers |-> {}, cap |-> 10],
     [taxPercentage |-> 8, tiers |-> {Tier(2, 10), Tier(3, 50)}, cap |-> 10],
     [taxPercentage |-> 8, tiers |-> {Tier(2, 100)}, cap |-> 0]}

Sold(price, isActive) == [price |-> price, isActive |-> isActive]
MCCatalogues ==
    {[hour |-> Sold(15, TRUE), socks |-> Sold(6, TRUE)],
     [hour |-> Sold(20, TRUE), socks |-> Sold(9, FALSE)]}

\* The machine that stays does so in one of its initial states.
SomeTicket == clock = 1 /\ rates = FrozenRates(CHOOSE package \in Packages : TRUE, <<>>)
SomeDay ==
    /\ settings = CHOOSE values \in Settings : TRUE
    /\ catalogue = CHOOSE sold \in Catalogues : TRUE

PricesInit ==
    /\ part \in {"clock", "draft"}
    /\ ClockInit /\ (part # "clock" => SomeTicket)
    /\ Init /\ (part # "draft" => SomeDay)

PricesNext ==
    \/ part = "clock" /\ ClockNext /\ UNCHANGED <<part, vars>>
    \/ part = "draft" /\ Next /\ UNCHANGED <<part, clockVars>>

PricesSpec == PricesInit /\ [][PricesNext]_pricesVars

=============================================================================
