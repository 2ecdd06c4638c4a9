---------------------------- MODULE DraftPricing ----------------------------
(***************************************************************************)
(* What a draft charges, and when its payment is dated to: the lines a     *)
(* till may ring up (a package, a product, a group at an agreed rate) or   *)
(* that tickets brought, the automatic discount for several children, the  *)
(* discount a cashier gives below a cap, the tax - while the settings and  *)
(* the catalogue change under the draft.                                   *)
(*                                                                         *)
(* One bill, from its creation to its payment.  A handler is one action:   *)
(* how handlers interleave is BillMoney's.  Amounts are minor units and    *)
(* times are minutes.                                                      *)
(***************************************************************************)
EXTENDS Integers, SequencesExt, FiniteSetsExt, FiniteSets, Functions

CONSTANTS
    Users,
    Admins,
    NoTime,        \* a date that is null
    Orders,        \* what a till can send as items: sequences of wanted lines
    Visits,        \* what a checkout can bring: sequences of claimed tickets
    Discounts,     \* what a till can send as discount
    Settings,      \* values of the business settings that price a bill
    Catalogues,    \* price and isActive of every package and product
    Hours          \* the moments at which something happens

\* What validation lets through: a PLAY or PRODUCT line names what is sold, a group says
\* what was agreed; a ticket covers a child or more, at a charge for each.
WantedItem == [kind : {"PLAY", "PRODUCT"}, of : UNION {DOMAIN sold : sold \in Catalogues},
               quantity : Nat]
WantedGroup == [kind : {"GROUP"}, rate : Nat, headcount : Nat, minutes : Nat, ago : Int]
ClaimedTicket == [children : Nat \ {0}, charge : Nat, ago : Int, extras : Nat]
AskedDiscount == [type : {"NONE", "FIXED", "PERCENTAGE"}, value : Nat]
DiscountTier == [minChildren : Nat, percentage : 0 .. 100]

ASSUME AdminsAreUsers == Admins \subseteq Users
ASSUME HoursAreTimes == Hours \subseteq Nat /\ NoTime \notin Int
ASSUME RequestsAreValid ==
    /\ Orders \subseteq Seq(WantedItem \cup WantedGroup)
    /\ Visits \subseteq Seq(ClaimedTicket) \ {<<>>}
    /\ Discounts \subseteq AskedDiscount
ASSUME StoredIsValid ==
    /\ Settings \subseteq [taxPercentage : Nat, tiers : SUBSET DiscountTier, cap : Nat]
    /\ \A values \in Settings : IsFiniteSet(values.tiers)
    /\ \A sold \in Catalogues :
        sold \in [UNION {DOMAIN other : other \in Catalogues} -> [price : Nat, isActive : BOOLEAN]]

VARIABLES
    bill,          \* the document
    settings,      \* BusinessSettings: taxPercentage (0: disabled), multiChildDiscountTiers, the cap
    catalogue,     \* play packages and products
    now,
    pricedBy,      \* history: who priced the bill last, and the cap then
    ringing        \* history: who wrote its lines, and who took the payment

vars == <<bill, settings, catalogue, now, pricedBy, ringing>>

MaxClockSkew == 10
Day == 24 * 60

NoDiscount == [type |-> "NONE", value |-> 0]

NoBill ==
    [status |-> "NONE", cashier |-> {}, items |-> <<>>, discountType |-> "NONE", discountValue |-> 0,
     subtotal |-> 0, discount |-> 0, multiChildDiscount |-> 0, multiChildDiscountPercentage |-> 0,
     multiChildCount |-> 0, tax |-> 0, grandTotal |-> 0,
     createdAt |-> NoTime, paidAt |-> NoTime, paymentRecordedAt |-> NoTime]

-----------------------------------------------------------------------------
(* billCalculator.ts, for a bill.                                           *)

\* Math.round, which rounds halves up.
RoundedQuotient(a, b) == (2 * a + b) \div (2 * b)
CalculatePercentage(base, percentage) == RoundedQuotient(base * percentage, 100)

SumOf(amount(_), items) == SumFunction([i \in DOMAIN items |-> amount(items[i])])
Subtotal(items) == SumOf(LAMBDA item : item.lineTotal, items)

CalculateDiscountAmount(subtotal, discount) ==
    CASE discount.type = "FIXED" -> Min({discount.value, subtotal})
      [] discount.type = "PERCENTAGE" -> CalculatePercentage(subtotal, discount.value)
      [] OTHER -> 0

\* The tier with the highest minChildren not above the count.
MultiChildPercentage(tiers, count) ==
    LET reached == {tier \in tiers : tier.minChildren <= count /\ tier.percentage > 0}
    IN  IF reached = {} THEN 0
        ELSE (CHOOSE tier \in reached : \A other \in reached : other.minChildren <= tier.minChildren).percentage

\* Mutants (definitions named "...Mutant") are the code with one plausible mistake in
\* it, next to the definition they replace when a property is put to the test.
LinesAsChildrenMutant(items) == Len(SelectSeq(items, LAMBDA item : item.kind = "PLAY"))

\* A ticket line counts its children, a flat PLAY line one, any other line nobody.
PlayChildrenOnItems(items) ==
    SumOf(LAMBDA item : IF item.kind # "PLAY" THEN 0 ELSE IF item.ticket THEN item.quantity ELSE 1, items)

PlayBase(items) == SumOf(LAMBDA item : IF item.kind = "PLAY" THEN item.lineTotal ELSE 0, items)

CalculateBillTotals(items, discount, taxPercentage, percentage) ==
    LET subtotal == Subtotal(items)
        multiChild == Min({CalculatePercentage(PlayBase(items), percentage), subtotal})
        off == multiChild + CalculateDiscountAmount(subtotal - multiChild, discount)
        taxable == Max({subtotal - off, 0})
        tax == CalculatePercentage(taxable, taxPercentage)
    IN  [subtotal |-> subtotal, multiChildDiscount |-> multiChild, discount |-> off,
         tax |-> tax, grandTotal |-> Max({taxable + tax, 0})]

\* validateDiscountPermission; the cap is a share of what the discount is taken from.
Permitted(user, subtotal, discount) ==
    \/ discount.type = "NONE"
    \/ /\ discount.type = "PERCENTAGE" => discount.value <= 100
       /\ discount.type = "FIXED" => discount.value <= subtotal
       /\ \/ user \in Admins \/ subtotal = 0
          \/ discount.type = "PERCENTAGE" /\ discount.value <= settings.cap
          \/ discount.type = "FIXED" /\ discount.value * 100 <= settings.cap * subtotal

CapOnWholeMutant(user, items, discount, percentage) == Permitted(user, Subtotal(items), discount)

\* priceDraft: the cap limits what the cashier gives, on what the automatic discount left.
PriceAllowed(user, items, discount, percentage) ==
    LET before == CalculateBillTotals(items, NoDiscount, 0, percentage)
    IN  Permitted(user, before.subtotal - before.multiChildDiscount, discount)

\* The priced draft over a document; the percentage is kept only if it took something off.
PriceDraft(doc, items, discount) ==
    LET count == PlayChildrenOnItems(items)
        percentage == MultiChildPercentage(settings.tiers, count)
        totals == CalculateBillTotals(items, discount, settings.taxPercentage, percentage)
        applied == totals.multiChildDiscount > 0
    IN  [doc EXCEPT !.items = items, !.discountType = discount.type, !.discountValue = discount.value,
             !.subtotal = totals.subtotal, !.discount = totals.discount,
             !.multiChildDiscount = totals.multiChildDiscount,
             !.multiChildDiscountPercentage = IF applied THEN percentage ELSE 0,
             !.multiChildCount = IF applied THEN count ELSE 0,
             !.tax = totals.tax, !.grandTotal = totals.grandTotal]

-----------------------------------------------------------------------------
(* The lines of a bill.                                                     *)

Line(kind, quantity, total) ==
    [kind |-> kind, quantity |-> quantity, lineTotal |-> total, ticket |-> FALSE, endsAt |-> NoTime]

AnyVisitMutant(user, visitAt) == visitAt - now <= MaxClockSkew

\* A visit may be a little ahead of the server, and only an admin enters an earlier day.
VisitAllowed(user, visitAt) ==
    /\ visitAt - now <= MaxClockSkew
    /\ user \in Admins \/ now - visitAt <= Day

\* A group is priced by heads and minutes, multiplied out before the one division.
PriceGroupVisit(wanted) == RoundedQuotient(wanted.rate * wanted.headcount * wanted.minutes, 60)

\* buildItemSnapshots: no lines, and packages and products that are not sold now, are refused.
Orderable(user, order) ==
    /\ order # <<>>
    /\ \A i \in DOMAIN order :
        IF order[i].kind = "GROUP" THEN VisitAllowed(user, now - order[i].ago)
        ELSE catalogue[order[i].of].isActive

Snapshot(wanted) ==
    IF wanted.kind = "GROUP"
    THEN [Line("GROUP", wanted.headcount, PriceGroupVisit(wanted))
            EXCEPT !.endsAt = now - wanted.ago + wanted.minutes]
    ELSE Line(wanted.kind, wanted.quantity, catalogue[wanted.of].price * wanted.quantity)

ItemSnapshots(order) == [i \in DOMAIN order |-> Snapshot(order[i])]

\* The line of a claimed ticket, one child's price times the children, and its extras.
TicketLines(ticket) ==
    <<[Line("PLAY", ticket.children, ticket.charge * ticket.children)
         EXCEPT !.ticket = TRUE, !.endsAt = now - ticket.ago]>>
    \o IF ticket.extras = 0 THEN <<>> ELSE <<Line("PRODUCT", 1, ticket.extras)>>

CheckoutLines(visit) == FlattenSeq([i \in DOMAIN visit |-> TicketLines(visit[i])])

-----------------------------------------------------------------------------

Init ==
    /\ bill = NoBill
    /\ settings \in Settings /\ catalogue \in Catalogues
    /\ now \in {hour \in Hours : \A other \in Hours : hour <= other}
    /\ pricedBy = [user |-> {}, cap |-> 0]
    /\ ringing = [lines |-> {}, payment |-> {}]

\* The bill is priced, unless the discount is refused to this user.
Price(user, doc, items, discount) ==
    /\ PriceAllowed(user, items, discount, MultiChildPercentage(settings.tiers, PlayChildrenOnItems(items)))
    /\ bill' = PriceDraft(doc, items, discount)
    /\ pricedBy' = [user |-> {user}, cap |-> settings.cap]

Draft(user) == [NoBill EXCEPT !.status = "DRAFT", !.cashier = {user}, !.createdAt = now]

CreateDraft(user, order, discount) ==
    /\ bill = NoBill
    /\ Orderable(user, order)
    /\ Price(user, Draft(user), ItemSnapshots(order), discount)
    /\ ringing' = [ringing EXCEPT !.lines = {user}]
    /\ UNCHANGED <<settings, catalogue, now>>

\* A checkout may lie in the past by the till's clock, or a little ahead of the server's.
CreateDraftFromSessions(user, visit, discount) ==
    /\ bill = NoBill
    /\ \A i \in DOMAIN visit : 0 - visit[i].ago <= MaxClockSkew
    /\ Price(user, Draft(user), CheckoutLines(visit), discount)
    /\ ringing' = [ringing EXCEPT !.lines = {user}]
    /\ UNCHANGED <<settings, catalogue, now>>

HasTickets == \E i \in DOMAIN bill.items : bill.items[i].ticket
StoredDiscount == [type |-> bill.discountType, value |-> bill.discountValue]

MayEdit(user) == bill.status = "DRAFT" /\ (user \in Admins \/ bill.cashier = {user})

\* An edit that sends no lines: a discount, or the stored one with a note or a customer.
EditDiscount(user, discount) ==
    /\ MayEdit(user)
    /\ Price(user, bill, bill.items, discount)
    /\ UNCHANGED <<settings, catalogue, now, ringing>>

\* An edit that sends lines, and maybe a discount; not for the lines of a checkout.
ReplaceLines(user, order, discount) ==
    /\ MayEdit(user) /\ ~ HasTickets
    /\ Orderable(user, order)
    /\ Price(user, bill, ItemSnapshots(order), discount)
    /\ ringing' = [ringing EXCEPT !.lines = {user}]
    /\ UNCHANGED <<settings, catalogue, now>>

\* checkoutTimeOf: the last check-out or end of a visit, else when the draft was made.
CheckoutTimeOf(doc) ==
    LET times == {doc.items[i].endsAt : i \in DOMAIN doc.items} \ {NoTime}
    IN  IF times = {} THEN doc.createdAt ELSE Max(times)

\* A payment recorded later is dated to the checkout, and never after it was recorded.
PaidAt(backdated) == IF backdated THEN Min({CheckoutTimeOf(bill), now}) ELSE now

TiersOfNowMutant(doc) == MultiChildPercentage(settings.tiers, PlayChildrenOnItems(doc.items))

\* The rule as snapshotted on the draft, never the current tiers.
PercentageAtPayment(doc) == doc.multiChildDiscountPercentage

\* completeBill, paid in full: the tax is the one of now, nothing else is priced again.
CompleteBill(user, backdated) ==
    /\ bill.status = "DRAFT"
    /\ backdated => user \in Admins
    /\ LET totals == CalculateBillTotals(bill.items, StoredDiscount, settings.taxPercentage,
                                         PercentageAtPayment(bill))
       IN  bill' = [bill EXCEPT !.status = "PAID", !.subtotal = totals.subtotal,
                !.discount = totals.discount, !.multiChildDiscount = totals.multiChildDiscount,
                !.tax = totals.tax, !.grandTotal = totals.grandTotal, !.paidAt = PaidAt(backdated),
                !.paymentRecordedAt = IF backdated THEN now ELSE NoTime]
    /\ ringing' = [ringing EXCEPT !.payment = {user}]
    /\ UNCHANGED <<settings, catalogue, now, pricedBy>>

\* settingsService.update.
UpdateSettings(to) ==
    /\ bill.status # "PAID" /\ to # settings
    /\ settings' = to
    /\ UNCHANGED <<bill, catalogue, now, pricedBy, ringing>>

\* A price is changed, or a package or product switched on or off.
UpdateCatalogue(to) ==
    /\ bill.status # "PAID" /\ to # catalogue
    /\ catalogue' = to
    /\ UNCHANGED <<bill, settings, now, pricedBy, ringing>>

TimePasses(to) ==
    /\ bill.status # "PAID" /\ to > now
    /\ now' = to
    /\ UNCHANGED <<bill, settings, catalogue, pricedBy, ringing>>

TillStep(user) ==
    \/ \E order \in Orders, discount \in Discounts : CreateDraft(user, order, discount)
    \/ \E visit \in Visits, discount \in Discounts : CreateDraftFromSessions(user, visit, discount)
    \/ \E discount \in Discounts \cup {StoredDiscount} : EditDiscount(user, discount)
    \/ \E order \in Orders, discount \in Discounts \cup {StoredDiscount} :
        ReplaceLines(user, order, discount)
    \/ \E backdated \in BOOLEAN : CompleteBill(user, backdated)

Next ==
    \/ \E user \in Users : TillStep(user)
    \/ \E to \in Settings : UpdateSettings(to)
    \/ \E to \in Catalogues : UpdateCatalogue(to)
    \/ \E to \in Hours : TimePasses(to)

Spec == Init /\ [][Next]_vars

-----------------------------------------------------------------------------

\* "A tier edited mid-checkout changes nothing" (bill.service.ts, priceDraft), nor does a
\* price or the cap: what the family was told is what it pays, up to the tax.
ChargedAsQuoted ==
    [][bill.status = "DRAFT" /\ bill'.status = "PAID" =>
        /\ bill'.subtotal = bill.subtotal /\ bill'.discount = bill.discount
        /\ bill'.multiChildDiscount = bill.multiChildDiscount]_vars

\* "It limits what a cashier gives" (priceDraft): a draft a cashier priced last carries a
\* discount of his of at most the cap, whatever the lines and tiers have become by
\* then - half a minor unit of rounding aside.
WithinTheCap ==
    pricedBy.user # {} /\ pricedBy.user \cap Admins = {} =>
        200 * (bill.discount - bill.multiChildDiscount)
            <= 2 * pricedBy.cap * (bill.subtotal - bill.multiChildDiscount) + 100

\* A family pays the same on one ticket as on a ticket for each child (familyTickets.test.ts).
ASeparateTicketEach(items) ==
    FlattenSeq([i \in DOMAIN items |->
        IF items[i].ticket
        THEN [k \in 1 .. items[i].quantity |->
                [items[i] EXCEPT !.quantity = 1, !.lineTotal = @ \div items[i].quantity]]
        ELSE <<items[i]>>])

FamilyTicketIsAsSeparateTickets ==
    bill.status = "DRAFT" =>
        LET priced == PriceDraft(bill, bill.items, StoredDiscount)
        IN  PriceDraft(bill, ASeparateTicketEach(bill.items), StoredDiscount)
                = [priced EXCEPT !.items = ASeparateTicketEach(bill.items)]

\* "Cannot be used to move a payment to an arbitrary day" (completeBill): a payment is dated to
\* another moment than its own by admins only, never ahead of it, and - without
\* tickets on the bill - more than a day before the draft only if an admin wrote the lines.
PaidWhenItHappened ==
    bill.status = "PAID" =>
        LET recorded == IF bill.paymentRecordedAt = NoTime THEN bill.paidAt ELSE bill.paymentRecordedAt
        IN  /\ bill.paidAt <= recorded
            /\ bill.paidAt < recorded => ringing.payment \subseteq Admins
            /\ ~ HasTickets /\ bill.paidAt < bill.createdAt - Day => ringing.lines \subseteq Admins

=============================================================================
