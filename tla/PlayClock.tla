----------------------------- MODULE PlayClock -----------------------------
(***************************************************************************)
(* One ticket on the clock: the rates frozen on it at check-in, the time   *)
(* that passes, and the price quoted at every moment of it (quoteSession). *)
(* Time is counted in half minutes from checkInAt, so that a part of a     *)
(* minute, which is billed as a whole one, exists.  The time may be        *)
(* negative: check-in accepts the time of a device whose clock is ahead.   *)
(***************************************************************************)
EXTENDS SessionPricing

CONSTANTS
    Packages,        \* the packages as they are stored
    Comparable,      \* how many comparable packages a ticket may carry
    Minimum,         \* BusinessSettings.minimumBillableMinutes
    Ahead,           \* half minutes a device's clock may be ahead
    Longest          \* the bound on the stay, in half minutes

VARIABLES
    rates,           \* the chosen package's rate, then the comparable ones
    clock            \* half minutes since checkInAt

clockVars == <<rates, clock>>

ASSUME TimesAreNatural == Minimum \in Nat /\ Ahead \in Nat /\ Longest \in Nat /\ Comparable \in Nat
ASSUME PackagesAreStored == Packages \subseteq StoredPackage

\* The chosen package and every other one of its price group, frozen at check-in.
FrozenRates(chosen, others) == [i \in 1 .. Len(others) + 1 |->
    ResolveSessionRate(IF i = 1 THEN chosen ELSE others[i - 1])]

ClockInit ==
    /\ clock \in {-Ahead, 1}
    /\ \E n \in 0 .. Comparable :
        \E chosen \in Packages, others \in [1 .. n -> Packages] :
            rates = FrozenRates(chosen, others)

Tick ==
    /\ clock < Longest
    /\ clock' = clock + 1
    /\ UNCHANGED rates

ClockNext == Tick

ClockSpec == ClockInit /\ [][ClockNext]_clockVars

\* A partial minute is billed as a whole one.
Elapsed(at) == CeilDiv(at, 2)

\* A ticket whose check-in lies ahead cannot be priced: the quote throws.
CanQuote(at) == at > 0

QuoteAt(at) == PriceSessionBestOf(rates, Elapsed(at), Minimum)
PriceAt(at) == QuoteAt(at).lineTotal

\* nextChargeAt: the minutes of the countdown, from the moment of the quote on.
NextChargeAt(at) ==
    LET minutes == QuoteAt(at).minutesUntilNextCharge
    IN  IF minutes = NoCountdown THEN NoCountdown ELSE at + 2 * minutes

NoneRounds == \A i \in DOMAIN rates :
    rates[i].tieredPricing = NoTiers \/ rates[i].tieredPricing.roundingStep = 0

-----------------------------------------------------------------------------

\* A family that stays longer never pays less, whatever packages compete for it and
\* however their grace, blocks and rounding fall.
StayingNeverGetsCheaper ==
    [][CanQuote(clock) => QuoteAt(clock').lineTotal >= QuoteAt(clock).lineTotal]_clockVars

\* The countdown read out to the parent: nothing the family does not pay already is charged
\* until a minute before the instant announced, whatever the seconds of the check-in and of
\* the quote.
NothingDueBeforeTheCountdown ==
    CanQuote(clock) =>
        \A next \in {NextChargeAt(clock)} \ {NoCountdown}, paid \in {PriceAt(clock)} :
            \A at \in clock + 1 .. next - 2 : PriceAt(at) = paid

\* And at that instant the price has risen, where no package rounds its total.
DueAtTheCountdown ==
    CanQuote(clock) /\ NoneRounds =>
        \A next \in {NextChargeAt(clock)} \ {NoCountdown}, paid \in {PriceAt(clock)} :
            next > clock => PriceAt(next) > paid

\* Best price: nothing on the ticket is cheaper than what is charged, and another package
\* is charged only if it really is cheaper than the one the family chose.
ChosenUnlessDearer ==
    CanQuote(clock) =>
        LET quote == QuoteAt(clock)
        IN  /\ \A i \in DOMAIN rates :
                quote.lineTotal <= PriceSessionForPeriod(rates[i], Elapsed(clock), Minimum).lineTotal
            /\ quote.index # 1 => quote.lineTotal < quote.chosenLineTotal

(***************************************************************************)
(* The reference: a meter that adds up every minute at the rate of its own *)
(* hour (or block), and is rounded once at the end.                        *)
(***************************************************************************)
UnitLength(rate) ==
    IF rate.pricingMode = "TIERED_HOURLY" THEN TierMinutes ELSE rate.rateDurationMinutes
MinuteRate(rate, minute) ==
    IF rate.pricingMode = "TIERED_HOURLY"
    THEN TierRate(rate.tieredPricing.hourlyRates, CeilDiv(minute, TierMinutes))
    ELSE rate.unitPrice
Metered(rate, minutes) ==
    RoundDiv(SumFunction([i \in 1 .. minutes |-> MinuteRate(rate, i)]), UnitLength(rate))

\* The first block or hour is bought outright; after it, within the grace a stay costs the
\* whole units only, and past it every minute since the last unit is paid: what the meter
\* shows, and what starting another unit costs at the most.
GraceThenEveryMinute ==
    CanQuote(clock) =>
        \A i \in DOMAIN rates :
            LET rate == rates[i]
                unit == UnitLength(rate)
                m == Elapsed(clock)
                whole == AtLeast(m \div unit, 1) * unit
                price == PriceSession(rate, m)
                graced == m <= whole + AtMost(rate.graceMinutes, unit - 1)
            IN  rate.pricingMode # "PRORATA" =>
                    IF graced THEN price.rawTotal = Metered(rate, whole)
                    ELSE /\ price.rawTotal >= Metered(rate, m)
                         /\ price.rawTotal <= Metered(rate, whole + unit)
                         /\ \/ price.rawTotal = Metered(rate, m)
                            \/ /\ rate.tieredPricing # NoTiers
                               /\ rate.tieredPricing.overtimeMode = "BLOCK"

\* What is charged is the least of the prices on the ticket, and each of these is what a meter
\* allows: best price is no discount on a price that was wrong.
FairPrice == ChosenUnlessDearer /\ GraceThenEveryMinute

=============================================================================
