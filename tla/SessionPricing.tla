--------------------------- MODULE SessionPricing ---------------------------
(***************************************************************************)
(* What a stay costs (billCalculator.ts), for the three pricing modes of a *)
(* play package, and best price over the packages frozen on a ticket.      *)
(*                                                                         *)
(* Amounts are minor units and minutes are whole, as in the code.  The     *)
(* rates are those validation lets a package be saved with, and the older  *)
(* ones the code still prices: a grace as long as its block, a grace kept  *)
(* under PRORATA, a tiered package without its table.                      *)
(***************************************************************************)
EXTENDS Integers, Sequences, FiniteSetsExt, Functions

CONSTANTS
    NoTiers,         \* tieredPricing: null
    NoCountdown      \* minutesUntilNextCharge: null

ASSUME NoCountdownIsNotMinutes == NoCountdown \notin Int

TierMinutes == 60
TierCount == 4

\* The packages as they may be stored (the schemas of the models).
TierTable ==
    [hourlyRates : {rates \in Seq(Nat) : Len(rates) = TierCount},
     overtimeMode : {"PER_MINUTE", "BLOCK"}, overtimeBlockMinutes : 1 .. TierMinutes,
     roundingStep : Nat, roundingMode : {"UP", "DOWN", "NEAREST"}]

StoredPackage ==
    [pricingMode : {"PRORATA", "BLOCK_WITH_GRACE", "TIERED_HOURLY"},
     unitPrice : Nat, rateDurationMinutes : Nat \ {0}, graceMinutes : Nat,
     tieredPricing : TierTable \cup {NoTiers}]

\* Math.round and Math.ceil of a / b.
RoundDiv(a, b) == (2 * a + b) \div (2 * b)
CeilDiv(a, b) == (a + b - 1) \div b

AtLeast(a, b) == IF a > b THEN a ELSE b
AtMost(a, b) == IF a < b THEN a ELSE b

\* Mutants (definitions named "...Mutant") are the code with one plausible mistake in
\* it, next to the definition they replace when a property is put to the test.
\* The rate as it is snapshotted at check-in and read back: grace never survives into
\* PRORATA, and a tiered rate without its table is priced pro rata.
ResolveSessionRate(stored) ==
    LET tiered == stored.pricingMode = "TIERED_HOURLY" /\ stored.tieredPricing # NoTiers
        mode == IF stored.pricingMode = "BLOCK_WITH_GRACE" \/ tiered
                THEN stored.pricingMode ELSE "PRORATA"
    IN  [stored EXCEPT !.pricingMode = mode,
                       !.graceMinutes = IF mode = "PRORATA" THEN 0 ELSE @,
                       !.tieredPricing = IF tiered THEN @ ELSE NoTiers]

CalculateSessionLineTotal(unitPrice, rateDurationMinutes, billedMinutes) ==
    RoundDiv(unitPrice * billedMinutes, rateDurationMinutes)

ApplyRounding(amount, step, mode) ==
    CASE step = 0 -> amount
      [] step # 0 /\ mode = "UP" -> CeilDiv(amount, step) * step
      [] step # 0 /\ mode = "DOWN" -> (amount \div step) * step
      [] step # 0 /\ mode = "NEAREST" -> RoundDiv(amount, step) * step

TierRate(rates, hour) == rates[AtMost(hour, Len(rates))]

ChargeableAfterGraceMutant(units, remainder, grace) ==
    units >= 1 /\ remainder >= grace /\ remainder > 0

\* Past the grace of a completed unit (a block or an hour), extra time is charged.
Chargeable(units, remainder, grace) == units >= 1 /\ remainder > grace

UncappedBlocksMutant(config, remainder) ==
    IF config.overtimeMode = "BLOCK"
    THEN CeilDiv(remainder, config.overtimeBlockMinutes) * config.overtimeBlockMinutes
    ELSE remainder

\* The minutes of extra time that are paid: all of them, or whole blocks up to an hour.
ChargedMinutes(config, remainder) ==
    IF config.overtimeMode = "BLOCK"
    THEN AtMost(CeilDiv(remainder, config.overtimeBlockMinutes) * config.overtimeBlockMinutes,
                TierMinutes)
    ELSE remainder

NextUnitUncappedMutant(charged, length, grace) == charged * length + grace + 1

\* The minute the total rises at while nothing extra is charged: the first one past the
\* grace, or the next whole unit where the grace is as long as a unit.
NextChargeAtMinute(charged, length, grace) ==
    AtMost(charged * length + grace + 1, (charged + 1) * length)

\* In extra time that is paid in blocks it rises a minute past the blocks paid for, and
\* past the grace of the next hour once they make up an hour.
ExtraTimeCountdown(config, hours, charged, grace, billedMinutes) ==
    CASE config.overtimeMode # "BLOCK" -> 0
      [] config.overtimeMode = "BLOCK" /\ charged < TierMinutes ->
            hours * TierMinutes + charged + 1 - billedMinutes
      [] config.overtimeMode = "BLOCK" /\ charged >= TierMinutes ->
            (hours + 1) * TierMinutes + grace + 1 - billedMinutes

PriceTieredSession(rate, billedMinutes) ==
    LET config == rate.tieredPricing
        rates == config.hourlyRates
        grace == rate.graceMinutes
        hours == billedMinutes \div TierMinutes
        remainder == billedMinutes % TierMinutes
        hoursCharged == AtLeast(hours, 1)
        hourLines == [h \in 1 .. hoursCharged |-> TierRate(rates, h)]
        hourSubtotal == SumFunction(hourLines)
        chargeable == Chargeable(hours, remainder, grace)
        charged == IF chargeable THEN ChargedMinutes(config, remainder) ELSE 0
        overtimeRate == TierRate(rates, hours + 1)
        overtime == RoundDiv(overtimeRate * charged, TierMinutes)
        rawTotal == hourSubtotal + overtime
        lineTotal == ApplyRounding(rawTotal, config.roundingStep, config.roundingMode)
    IN  [lineTotal |-> lineTotal,
         rawTotal |-> rawTotal,
         roundingAdjustment |-> lineTotal - rawTotal,
         blocksCharged |-> hoursCharged,
         blockSubtotal |-> hourSubtotal,
         overageMinutes |-> IF chargeable THEN remainder ELSE 0,
         overageAmount |-> overtime,
         hourLines |-> hourLines,
         overtime |-> IF ~chargeable THEN {}
                      ELSE {[rate |-> overtimeRate, minutes |-> remainder,
                             chargedMinutes |-> charged, amount |-> overtime]},
         graceApplied |-> hours >= 1 /\ remainder > 0 /\ ~chargeable,
         minutesUntilNextCharge |->
            IF chargeable THEN ExtraTimeCountdown(config, hours, charged, grace, billedMinutes)
            ELSE AtLeast(NextChargeAtMinute(hoursCharged, TierMinutes, grace) - billedMinutes, 0)]

\* A breakdown without hours: one amount, not rounded.
Untiered(total) ==
    [lineTotal |-> total, rawTotal |-> total, roundingAdjustment |-> 0,
     blocksCharged |-> 0, blockSubtotal |-> 0, overageMinutes |-> 0, overageAmount |-> 0,
     hourLines |-> <<>>, overtime |-> {}, graceApplied |-> FALSE,
     minutesUntilNextCharge |-> NoCountdown]

PriceBlockSession(rate, billedMinutes) ==
    LET length == rate.rateDurationMinutes
        grace == rate.graceMinutes
        blocks == billedMinutes \div length
        remainder == billedMinutes % length
        blocksCharged == AtLeast(blocks, 1)
        chargeable == Chargeable(blocks, remainder, grace)
        overage == IF chargeable THEN RoundDiv(rate.unitPrice * remainder, length) ELSE 0
    IN  [Untiered(blocksCharged * rate.unitPrice + overage) EXCEPT
            !.blocksCharged = blocksCharged,
            !.blockSubtotal = blocksCharged * rate.unitPrice,
            !.overageMinutes = IF chargeable THEN remainder ELSE 0,
            !.overageAmount = overage,
            !.graceApplied = blocks >= 1 /\ remainder > 0 /\ ~chargeable,
            !.minutesUntilNextCharge =
                IF chargeable THEN 0
                ELSE AtLeast(NextChargeAtMinute(blocksCharged, length, grace) - billedMinutes, 0)]

PriceProRata(rate, billedMinutes) ==
    Untiered(CalculateSessionLineTotal(rate.unitPrice, rate.rateDurationMinutes, billedMinutes))

\* The only pricing entry point.
PriceSession(rate, billedMinutes) ==
    CASE rate.pricingMode = "PRORATA" -> PriceProRata(rate, billedMinutes)
      [] rate.pricingMode = "TIERED_HOURLY" -> PriceTieredSession(rate, billedMinutes)
      [] rate.pricingMode = "BLOCK_WITH_GRACE" -> PriceBlockSession(rate, billedMinutes)

\* The minimum is a PRORATA matter: the first block or hour is a floor of its own.
BilledMinutes(rate, elapsedMinutes, minimum) ==
    IF rate.pricingMode = "PRORATA" THEN AtLeast(elapsedMinutes, minimum) ELSE elapsedMinutes

PriceSessionForPeriod(rate, elapsedMinutes, minimum) ==
    PriceSession(rate, BilledMinutes(rate, elapsedMinutes, minimum))

LastCheapestMutant(totals) ==
    CHOOSE i \in DOMAIN totals :
        \A j \in DOMAIN totals : totals[i] < totals[j] \/ (totals[i] = totals[j] /\ j <= i)

\* The first of the cheapest: a tie goes to the chosen package, then to the earlier rate.
Cheapest(totals) ==
    CHOOSE i \in DOMAIN totals :
        \A j \in DOMAIN totals : totals[i] < totals[j] \/ (totals[i] = totals[j] /\ i <= j)

\* The countdowns that matter are those of the rates tied at the lowest price.
TiedCountdowns(priced, lowest) ==
    {priced[i].minutesUntilNextCharge : i \in {j \in DOMAIN priced : priced[j].lineTotal = lowest}}
        \ {NoCountdown}

EarliestCountdownMutant(priced, lowest) ==
    LET countdowns == TiedCountdowns(priced, lowest)
    IN  IF countdowns = {} THEN NoCountdown ELSE Min(countdowns)

\* The lowest price holds until the last rate that shares it has risen.
LatestCountdown(priced, lowest) ==
    LET countdowns == TiedCountdowns(priced, lowest)
    IN  IF countdowns = {} THEN NoCountdown ELSE Max(countdowns)

\* Best price over the chosen package, rates[1], and the comparable ones.
PriceSessionBestOf(rates, elapsedMinutes, minimum) ==
    LET priced == [i \in DOMAIN rates |-> PriceSessionForPeriod(rates[i], elapsedMinutes, minimum)]
        index == Cheapest([i \in DOMAIN priced |-> priced[i].lineTotal])
    IN  [index |-> index,
         lineTotal |-> priced[index].lineTotal,
         chosenLineTotal |-> priced[1].lineTotal,
         minutesUntilNextCharge |-> LatestCountdown(priced, priced[index].lineTotal)]

=============================================================================
