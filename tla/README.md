# A verification development for the play-area billing API

The repository is the back end of a children's play area: an Express and MongoDB server
that checks children in, keeps them on a clock, bills their families and keeps the records
of it. It runs as one Node process with no transactions, so what could go wrong in it goes
wrong **between two awaits**: two tills work on one document, a handler fails half way
through a chain of writes, a device repeats a request whose answer it lost. These modules
model the handlers at that grain, check them with TLC, and prove with TLAPS nearly all of
the safety properties that the runs check - of the checkout, the prices and the money of a
bill, the payment, the families, the repair and the screens - for any number of tickets, bills,
users and requests.

- [The system](#the-system) - parts, state, operations, how they interact
- [What is hard in it](#what-is-hard-in-it)
- [The modules](#the-modules) - each with its correspondence to the code
- [The runs](#the-runs) - what each shows, its bounds, its fairness
- [The proofs](#the-proofs)
- [What the code does otherwise than it says](#what-the-code-does-otherwise-than-it-says)
- [What is not modelled](#what-is-not-modelled)
- [What is left](#what-is-left)

Paths below are relative to `src/src/modules/` unless they start with `src/`.

## The system

| Part | State it keeps | Operations that change it |
|---|---|---|
| play sessions (`play-sessions/`) | `PlaySession`: `ticketCode` (unique), `status` ACTIVE / CLOSED / VOIDED, the rates frozen at check-in, `extras`, `billId`, `customerId`, `isTestBill`, times | check in (replays included), sell and take back an extra, void; claimed, linked and reopened by bills |
| bills (`bills/bill.service.ts`) | `Bill`: `status` DRAFT / PAID / CANCELLED / REFUNDED, lines, totals, `revision` and its history, family, test flag | draft (flat, or from tickets), edit, pay, cancel, refund, correct, mark as test |
| pricing (`bills/billCalculator.ts`) | none | a stay and its rates to a price and a countdown |
| bill numbers (`billNumber.service.ts`) | `Counter`, one per second, TTL of a day | number a payment |
| idempotency keys (`idempotency.service.ts`) | `IdempotencyKey`, TTL of a day | claim, store the answer, give back |
| receipts | none | print a finished bill, its lines explained again from what is stored |
| customers (`customers/`) | `Customer`: number (unique when there is one), `visitCount`, `totalSpent` | create, update, ensure at payment, recompute the figures |
| insights, segments, dashboard, reports | none | aggregations that read bills, tickets and customers; the same figure is computed by several of them |
| products, play packages | catalogue rows with a status | create, update, switch on and off, delete |
| settings | one row | update, read at every pricing |
| auth, users | `User`, `RefreshToken` with a TTL | sign in, rotate, sign out, deactivate an account |
| clean-up script (`customers/customerCleanup.ts`) | none of its own | run by hand: one spelling per number, one record per family, every bill and ticket linked |
| audit log | append-only rows | written best effort by the others; the exceptions report reads the rows of corrections and forced closings back |
| HTTP shell, database, seed | none that the server reads back | wiring |

How they interact:

- **Checkout** (`createDraftFromSessions`) claims tickets one at a time with a
  compare-and-set on ACTIVE, prices them from the frozen rates, writes a draft, then points
  the tickets at it. If anything throws, the `catch` of that very request reopens them.
- **Cancelling** a bill compare-and-sets its status, then finds its tickets by `billId` and
  reopens them, so that the child can be billed again. **Refunding** does not.
- **Payment** (`completeBill`) takes a bill number, prices the stored lines with the tax of
  now, compare-and-sets DRAFT to PAID; only then it finds or makes the customer, links bill
  and tickets to it and recomputes its figures. Its route runs it under an idempotency key.
- **Correction** of a paid bill writes with a compare-and-set on `revision`; it may move the
  bill to another family, whose tickets and figures have to follow. Last of all comes its row in
  the audit log, which is what the exceptions report shows of it.
- **The figures of a customer** are never counted up: every change to a bill recomputes them
  from all bills that belong to the family by link or by number.
- **A check-in** that is repeated merges the extras it carries into the ticket.
- **A bill number** is the second a payment is dated to, with a suffix counted in a row that
  expires after a day; a payment dated back further looks for its candidates among the bills.
- **A product or package** is referred to by its id from tickets and bills that have snapshots
  of its name and price; its deletion asks for such references first, and then acts.
- **A refresh** looks its token up, issues the next one and revokes the old one, in three
  operations.

## What is hard in it

Every entry stands in `PROJECT.json` under "hazards" with its line. In short:

- *Interleavings of compare-and-sets over several documents.* The claim, the reopening and
  the status of a bill are each atomic; nothing makes them atomic together.
- *Reads used after an await*: the edit that saves a draft it read, the payment that charges
  lines it read, the correction that remembers the family it read.
- *Partial failure and death of the process* between the claim of a ticket, the draft, and
  the link; between the payment and what follows it; between the claim of a key and its
  answer.
- *Retries*: of a payment under its key, of a check-in with more extras than before.
- *Death and a second run* of the repair of the customers, which plans in memory and writes
  document by document.
- *Rows that expire* while they are counted with or refreshed.
- *References that are asked for and then relied on*: a row of the catalogue is deleted because
  nothing refers to it, while tickets move onto bills and back.
- *Derived figures* recomputed by requests that overtake each other.
- *One figure, many queries*: net revenue, children served, visits are each computed in
  several places, over the instants of UTC or the days of the business, and people compare
  them.
- *Numeric edges* of grace, block, hour and rounding, of the countdown read out to the parent,
  of the rows a receipt prints, and a clock that is ahead of the server.

What makes each part correct, and where it is stated:

| Part | Correct when | Stated as |
|---|---|---|
| checkout and cancel | a ticket is on at most one bill that stands; a closed ticket has an owner; a bill carries exactly the extras of its tickets; a child is not left in limbo, and only a death or a cancel that came too early leaves one there | `BilledOnce`, `Ownership`, `StrandedOnlyByDeathOrMissed`, `ExtrasFrozen`, `NobodyInLimbo` |
| money of a bill | it adds up, is what its lines charge, is paid once, and does not move afterwards except by a recorded correction - or by an edit on its way since before the payment, the fault that is found | the properties of `BillMoney` |
| pricing | agrees with a per-minute meter beyond the grace, never falls, and counts down to the minute it rises | the properties of `PlayClock` |
| receipts | what is on the paper adds up and explains the amount, hour by hour and discount by discount | `PaperExplainsTheLine`, `PaperFootsUp` |
| bill numbers | no two bills share one; a payment taken now never needs a second number, one dated back rarely a third | `OneFreshNumberSettlesIt` |
| drafts | what was quoted is charged, a cashier stays within his cap, a family ticket costs what separate ones do, a payment is dated to the visit | the properties of `DraftPricing` |
| idempotency | one payment, one receipt, a key is given back | the properties of `IdempotentCompletion` |
| customers | figures follow the bills, a paid bill with a number has a family | the properties of `FamilyRecords` |
| check-in | each extra once, nothing accepted lost | the properties of `CheckIn` |
| products, packages | what was sold keeps its row | `SoldStaysResolvable`, `BilledPackageIsKept` |
| auth | a device signed in holds one live token and leaves none behind; where answers are lost or overlap, one per refresh and the device is not locked out by it | `OneLiveTokenPerDevice`, `RefreshesLeaveOneBehindAtMost` |
| clean-up | it ends, a second run finds nothing to do, and nobody loses their family | `RerunFindsNothing`, `NobodyLosesTheirFamily` |
| dashboard, reports | totals are the sums of their parts, screens that show one figure agree, a changed reprint says why | the properties of `IncomeScreens` |
| insights, segments, customer report | a visit is the same visit everywhere, and the one the till announced | the properties of `CustomerScreens` |

## The modules

The conventions are the same in all of them. An **action is one database operation with the
code up to the next await**, and steps of different requests interleave freely; a handler
whose every read is checked again by its own compare-and-set is one action. A request is a
program counter with its locals and is used once, so the set of requests bounds the
behaviours. Reads that decide nothing are folded into the step that follows them. What a
handler refuses for the shape or the role of the request, without changing anything, is left
out unless it releases something. Definitions named `...Mutant` are the code with one
plausible mistake; `PROJECT.json` says which property each of them breaks.

### TicketBilling - what a bill promises about its tickets

The abstract specification, with requests and database left out: a visit is playing, leaving,
billed or voided, and `payer` is the bill it is on. A bill takes on its whole party in one
indivisible step (`Bill`), only visits that are leaving, and is written once; cancelling it
lets go of all of them at once (`Withdraw`); paying and refunding change nothing.
`TicketCheckout` implements it (`ImplementsBilling`, checked in `checkout` and proved,
`CheckoutImplementsBilling`): the refinement mapping takes the moment a draft is created or a bill cancelled for the indivisible
step, however long the links and the reopenings take after it.

### TicketCheckout - `bill.service.ts` and `playSession.repository.ts`

| Code | Model |
|---|---|
| `PlaySession.status`, `.extras`, `.billId` | `status`, `extras`, `billId` |
| `Bill.status`, its PLAY lines, its extra lines | `billStatus`, `lines`, `sold` |
| `claimed` of `createDraftFromSessions`; the extras on those documents | `claimed`, `cart` |
| position in a handler, rest of its loop | `pc`, `todo` |
| `createDraftFromSessions` | `BeginCheckout`, `Claim`, `RefuseTicket`, `RefuseDiscount`, `CreateDraft`, `LinkTicket` |
| its `catch`: `releaseClaimedSessions` | `Unwind`, `ReleaseTicket`, and `ReleaseThrows` for the error it swallows |
| `cancelBill` | `BeginCancel`, `CancelBill` / `CancelRefused`, `FindSessions`, `ReopenForCancel` |
| `completeBill`, `refundBill`, as far as tickets notice | `CompleteBill`, `RefundBill` |
| `addExtras`, `removeExtra`, `voidSession` | `AddExtra`, `RemoveExtra`, `VoidSession` |
| death of the process; an operation that throws | `Crash`; `CheckoutThrows`, `CancelThrows`, `ReleaseThrows` |

`Disturbances` says what may go wrong in an instance. `earlyCancel` is a cancel by somebody
who found the draft in the list while its checkout is still linking tickets to it. `late` is
history: the tickets linked to a cancelled bill whose cancel had looked for them already.

### BillMoney - the amounts on one bill

One document and the requests that write its money. `updateDraft` is `BeginEdit`,
`PriceEdit`, `SaveEdit`; the last is Mongoose's `save()`, which sends the fields that differ
from what was read and insists on the version only if the array of lines was replaced.
`completeBill` is `BeginPayment`, `PricePayment`, `CompleteIfDraft`; `correctPaidBill` is
`BeginCorrection`, `CorrectAmount` or `CorrectOther`, `ApplyCorrectionIfRevision`. Amounts are
minor units, lines are their sum, a discount is a FIXED one; `DiscountOn`, `RoundedPercent`
and `WithTotals` are the functions of `billCalculator.ts` and `money.ts`. Nothing keeps an edit
apart from a payment, in the code or here. `overtaken` is history: the payments on their way, or
done, when an edit was saved, of which the figures can be those of two moments.

### SessionPricing and PlayClock - the price of a stay

`SessionPricing` has no state: it is `billCalculator.ts` as operators, from the rate frozen at
check-in (`ResolveSessionRate`) over the three modes (`PriceProRata`, `PriceBlockSession`,
`PriceTieredSession`) to the best price over comparable packages and its countdown
(`PriceSessionBestOf`). `PlayClock` puts a ticket with such rates on a clock of half minutes,
so that a part of a minute exists, and states what `quoteSession` must give at every moment
of the stay, against a reference that adds up every single minute (`Metered`). `NextChargeAt`
is the instant it announces; what the parent is told has two sides, that nothing more is due before
it (`NothingDueBeforeTheCountdown`) and that something is at it (`DueAtTheCountdown`).
`StoredPackage` is what the schema of a package lets be stored.

### ReceiptLines and ReceiptTotals - `receipt.service.ts`

What is printed is computed again from the stored bill, perhaps months later. `ReceiptLines`
extends `PlayClock`: it lets the ticket leave at any moment (`PlayLine`), and computes from
that line alone the rows of the receipt (`HourRows`, `ReceiptItem`) and the parts the API gives
out (`ToPublicItem`). `ReceiptTotals` extends `DraftPricing` with the foot of the receipt
(`FooterRows`, `ManualDiscount`) and the label of the family discount. A row is a label and an
amount; wording and layout are left out.

### BillNumber - `billNumber.service.ts`, `counter.model.ts` and the retry in `completeBill`

One second, its counter row (`counter`) and the payments dated to it. `generate` is `Generate`,
`Count` (the `$inc` with `upsert`) and, for a payment dated back, `CheckCandidate`, at most
`MAX_BACKDATED_ATTEMPTS` times; `WriteNumber` and `DuplicateNumber` are the write under the
unique index and the one fresh call. Time is counted in half days, so that a row outlives the
payments it was written for (`RowLife`, `HalfDayPasses`) and expires under later ones
(`ExpireRow`).

### DraftPricing - `priceDraft` and what feeds it

One bill from its creation to its payment, each handler one action (how they interleave is
`BillMoney`'s part), while `UpdateSettings`, `UpdateCatalogue` and `TimePasses` go on around
it. A till orders lines (`Orderable`, `Snapshot`, `PriceGroupVisit` for a group at an agreed
rate) or brings claimed tickets (`TicketLines`, with their children and extras);
`PlayChildrenOnItems`, `MultiChildPercentage` and `PlayBase` are the automatic discount,
`Permitted` and `PriceAllowed` the cap on what a cashier gives, `CalculateBillTotals` the
order in which they are taken off. `CompleteBill` charges with the percentage snapshotted on
the draft and the tax of now, and dates the payment (`PaidAt`, `CheckoutTimeOf`). The history
variables say who priced the bill last and under which cap, who wrote its lines and who took
the payment: none of it is in the document, and the promises are about it.

### IdempotentCompletion - `idempotency.service.ts` and the paying route

A request is one arrival at the server; a retry is another with the same key. `run` is
`Replay` / `FindNothing`, `ClaimKey` / `KeyTaken`, the payment, `StoreAnswer`, and
`ReleaseKey` for its `catch`. The key is a document that can be free, claimed (the
placeholder with status code 0) or stored. `FailEarly` is an error of the look-up or the claim of
the key, `FailLate` one of any operation after the payment was written, `ReleaseFails` one of the
deletion inside the `catch`, which leaves the placeholder to `Expire`, the TTL index.

### FamilyRecords - customers, their figures and the test mark

Everything that has to follow when a bill is paid, cancelled, refunded, corrected or marked
as a test, as chains of single operations: `EnsureCustomer`, the two links of a payment
(`Link`, `LinkTickets`), the flagging of tickets, the move to another family
(`EnsureForCorrection`, `MoveToFamily`, `ReassignTickets`), and the recomputation, whose four
operations (`Identify`, `CountVisits`, `SumSpent`, `SetStats`) may each be overtaken. Two
history variables say where the code cannot be right by its own design: `overtaken` are
customers whose last recomputation worked beside another one on older data, and `contested`
are those that share a bill with another record.

### CheckIn - one ticket code and the devices that send it

`checkIn` and `addExtras` at each await, for requests that carry extras in order: the lookup
(`ReplayCheckIn`, `FirstSeen`), the product by product `Snapshot`, the `Create` that the unique index
lets one request win and `ReadBack` for the loser, and the loop of `addExtras` with its
second look (`AddExtraIfActive`, `AddRefused`, `Recheck`). Around it the ticket is checked
out, reopened or voided, an extra is taken back, a product is switched off or on, and the
process dies.

### Catalogue - a product or package sold, switched off and deleted

One row and everything that may refer to it: `carriers` are the tickets it is on, `lines` the
bills with a line of it, `billedBy` which bills were made of which ticket, because a cancelled
bill keeps its lines and its ticket is billed again. A sale reads the row (`FindToSell`) and
writes later (`SellOnTicket`, `SellOnBill`); a delete reads it (`BeginDelete`), counts bills and,
for a product, tickets (`CountBills`, `CountTickets`, in either order: `Promise.all`), and then
switches it off or removes it. `overlapped` is history: something was sold or checked out
while a deletion was being decided, which nothing in the code excludes.

### RefreshTokens - `auth.service.ts`

One user and that user's devices. A refresh is `PresentToken`, `FindToken` / `RefuseToken`,
`FindUser`, `IssueNext`, `RevokePresented` and `Reply`, one operation each; around it answers
get lost and the process dies (`LoseRefresh`), tokens expire and an admin deactivates the
account (`SetUserStatus`). `disturbed` is history: the devices that lost an answer, asked twice
at a time, or met an expiry between two of these steps.

### CustomerCleanup - `customerCleanup.ts`

The script works out the whole change in memory (`Plan`: who survives, what is rewritten,
created and linked) and then writes in a fixed order: `DeleteDuplicate`, `RewriteSurvivor`,
`CreateFamily`, `LinkPaper` for bills and then tickets, `FinishCleanup`. Every document is a
step of its own (inside `deleteMany` and `bulkWrite` too), the process may die before each
(`CleanupDies`), and is started again on what it left. A number is known by what it normalises to
and by whether it is spelled so already; `normalizePhone` gives a spelling it leaves alone.
A record has a name and an email, each of which says one thing or nothing, and notes. Folding
(`Folded`) joins the notes; of name and email it keeps those of the oldest record that has one
(`FirstSaid`), and a duplicate's differing one goes with the duplicate.
The database it finds is one of `Books`: without the unique index, or under it with what it
lets through, which is the same number in two spellings.

### SalesLedger, IncomeScreens and CustomerScreens - what the aggregations show

`SalesLedger` is the data they read: bills with their lines, the tickets of some of them and
the customers, changed by whole handlers (`RingUp`, `CompleteBill`, `RefundBill`, `CancelBill`,
`VoidSession`, `SetTestFlag`, `CorrectAmount`, `CorrectNumber`, `SetNumber`) at instants of a
clock in UTC minutes; `Day` is the business day of an instant in the zone of the place.
`TimePasses` also prints the daily close of the day that ends, so that a reprint can be compared
with it. The figures a handler recomputes are those of that moment (`FamilyRecords` is about
the ways they are not). The one write that is a step of its own is a correction's row in the audit
log (`RecordCorrection`), which comes up to `RequestMinutes` after the correction, perhaps on the
next day, or never.

`IncomeScreens` translates each MongoDB pipeline into sums over sets of bills: the match is a
set (`Recognized`, `CancelledIn`, `ClosedIn`), the grouping a function, the expressions shared
by pipelines (`billFilters.ts`) operators under their own names. On them stand the dashboard
(`Summary`, `RevenuePoint`, `BillsBreakdown`, `Performance`, `PaymentMethodBreakdown`,
`CashierPerformance`, `SessionSummary`), the period summary (`BucketLabels`, `BucketOf`,
`Buckets`, `TotalsRow`), the bill register, the session report, the daily close and the
exceptions. `CustomerScreens` adds the record of a customer (`Figures`), the lookup at the
till, the profile, the list of visits, the segments (`SegmentFilter`) and the customer report
with its cohorts. A bucket is named by its first day, which is what the two libraries'
formats tell apart.

## The runs

Sets are model values; the `MC` modules hold what a `.cfg` cannot say. No run checks
deadlock: every one of these systems may come to rest, when the requests of its instance
are used up and nobody does anything more.

| Run | Instance | What it shows |
|---|---|---|
| `checkout` | 2 tickets, 1 extra, 2 checkouts, 2 cancels (a cashier's, an admin's), with a crash or an early cancel at every step | Each ticket is on one bill; a cashier cancels only drafts; the design refines `TicketBilling`; a closed ticket that nothing bills and nobody will reopen was in the hands of a request when it died or out of its cancel's reach, and any other comes to rest on a bill or in play |
| `checkout_disturbed` | the same with 1 cancel, and operations that throw besides | The only way onto two bills is a checkout that failed after writing one of them; the extras of any other visit match its bill |
| `checkout_dberror_bills_twice` | the same as `checkout_disturbed`, errors only | counterexample to `BilledOnce` |
| `money` | 1 edit, 2 payments and 2 corrections, or 2 edits and a payment, all overlapping as they will; a cancel, a refund, a changing tax rate | The amounts add up and are those of the lines unless an edit was saved under the payment; the bill is paid and ended once, corrections form a chain, and what was sold moves by nothing but an edit that had read the draft |
| `money_late_save` | 1 edit and 1 payment in flight together | counterexample to `SoldIsFrozen` |
| `prices` | two machines, one moving in each behaviour; see below | The price of a stay at every moment of it, and what a draft charges for it and for anything else |
| `families` | 2 bills on one day, 2 tickets, 2 customers, 2 numbers, 2 requests at once, 3 in all | Figures follow the bills; a paid bill with a number gets a family |
| `families_test_flag` | 1 ticket, 4 requests | counterexample to `TicketsMirrorTheirBill` |
| `families_lost_update` | the same as `families` | counterexample to `FiguresAreDerived`, which is `FiguresFollowBills` without the excuse for requests that overtake each other |
| `office` | six machines, one moving in each behaviour; see below | Payments under idempotency keys, bill numbers, check-ins, the catalogue, tokens, and the repair of customers |
| `catalogue_package_lost` | 1 ticket, 1 bill, 1 sale, 1 delete | counterexample to `BilledPackageIsKept` |
| `screens` | a family ticket with socks and a flat sale with a party, 4 instants over a change of week and of month, in a zone 5 hours behind UTC, 4 requests | For every range and grouping: buckets add up to the totals, methods to net and tax, the screens agree, a changed reprint is explained; visits are the same on every screen and the one the till announced, the segments cover everyone, the customer report adds up |

**`office`** runs six small machines (`MCOffice`), because each alone is a fraction of a run. They
share no data: `part` says which one moves in a behaviour, and the others stay as they begin, so
that the run is the sum of six searches and not their product.

| `part` | Instance | What it shows |
|---|---|---|
| `payment` | `IdempotentCompletion`: 4 requests under 2 keys and none, of which 3 arrive; crash, errors, expiry, a cancel | One payment and one receipt; who is told "already done" for his own payment is told so for a reason; a refused till gets its key back unless its process dies or the deletion of the key itself fails |
| `number` | `BillNumber`: 4 payments of one second, 2 attempts, a day | A fresh number settles a duplicate unless two others raced for the second; a payment of the moment never needs one |
| `ticket` | `CheckIn`: 2 check-ins and a sale, 2 extras with overlaps and a repetition inside one request | Each extra is on the ticket once and nothing accepted is lost |
| `catalogue` | `Catalogue`: a product or a package, 1 ticket, 2 bills, 2 sales, 1 delete | A product deleted with no sale under way is on nothing, and comes back onto nothing |
| `tokens` | `RefreshTokens`: 2 devices, 2 refreshes, 3 tokens | A device that was not disturbed holds the one live token it was given; one that was has at most one more per refresh, and a revoked one only if an answer was lost |
| `repair` | `CustomerCleanup`: every database of 3 records over 2 numbers, 2 bills and a ticket that it may find, and one death | The repair ends, again finds nothing to do, and nobody loses their family, notes, or the name and email that were filled in first |

**`prices`** runs two in the same way (`MCPrices`):

| `part` | Instance | What it shows |
|---|---|---|
| `clock` | `ReceiptLines` on `PlayClock`: 10 packages alone and against each other, 160 minutes in half-minute steps, receipts of 1 and 3 children, some for a stay hours longer | Prices never fall and agree with the meter, best price keeps to the chosen package on a tie; the countdown is right to the minute; the printed rows explain the amount |
| `draft` | `ReceiptTotals` on `DraftPricing`: 2 cashiers, an admin, 5 orders, 3 checkouts, 6 discounts, 3 settings, 2 catalogues, 3 moments | The family is charged as quoted, its receipt foots up, a cashier stays within the cap, a family ticket costs what separate tickets do, a payment is dated to the visit |

**Bounds and why they are enough.** Races here are between two requests over one document,
or one request over two documents; two tickets, two checkouts and two cancels contain each
pair, with a third party able to interfere in between. A second ticket is needed for a
checkout that holds one ticket while it waits for another. In `money` the amounts make every
comparison go both ways (a discount below and above the lines, tax or none, an amount that is
all, part or none of the charge), and two edits are not tried together with two payments or
with corrections (`AtOnce`); the proofs of `BillMoneyProofs` have no such bound. In `prices` the packages have one of each mode,
overtime, rounding direction and boundary grace (0, one short of a unit, a whole unit); 160
minutes cross two hours and the cap of block overtime; a receipt is also printed for a stay
three hours longer (`HoursLater`), where hours share a row. The packages are constants the module
assumes to be ones the schema stores (`PackagesAreStored`), which TLC evaluates and the proofs
start from. In `office` two of the payments share
a key, one has another and one none: each pair of relations between two keys, with a third to
disturb (`AtMostThree`; `InOrder` and `TillFirst` only take one of several symmetric orders). Four
payments of one second are one more than it takes to be refused twice. The repair meets in its
three records a duplicate, one that is spelled otherwise and one without a number, in every
order, and bills and tickets linked rightly, wrongly, to a record that is gone, and not at all;
one death is tried. In `families` `MaxRequests` (3) bounds requests ever made; a run with 4, of 4.5
million states when it was stopped, found nothing more. The amounts of a draft in `prices` are odd and
small, so that the roundings of tax, percentage and group rate all happen, and the settings
hold a tier reached by children but not by lines, a tier of everything and a cap of nothing.
In `screens` two bills are enough for siblings on separate bills, one instant lies where the
business day and the day of UTC differ, and the days straddle the last of a month and a
Sunday; `MaxChanges` (4) bounds requests, which is a payment, its reversal or correction, its
mark and one more. Segments count days and visits on the scale of those five days (`NewDays`
1, `LostDays` 3, `Interval` 2) and not of the code's months; `RequestMinutes` (5) lets the row of
a correction in the last minutes of a day fall on the next. The theorems below do away with
the bounds of the checkout, of the payment, of the price and of most others. They are needed: with two checkouts a visit on
two bills always has a failed checkout among the two, and with a third it need not.

**Bounds that exclude a behaviour.** `money` excludes no order of its requests; what a late save
spoils is excepted in the properties themselves, which say what else must hold beside it:
`ChargeAddsUp` is silent about a bill on which an edit was saved under its payment
(`EditedUnderPayment`), `SettledOnce` and `SoldMovesOnlyByItsEdits` about the save of an edit that had read
the draft, and then only for the fields it changed (`SavesOfTheDraft`). `checkout` has deaths
and early cancels but no operation that throws: a release or a reopening that throws leaves its ticket
closed for good, which needs no run to see (`ReleaseThrows`, `CancelThrows`); `checkout_disturbed`
has those too, and weaker properties. `BeginCancel` without
`earlyCancel` waits for the checkout's answer, which is when a till learns the bill's id.
`screens` asks for explicit ranges and for the week that contains now or the one before it; other
periods are ranges from and to. Of the corrections of a behaviour at most one is without its row in
the audit log (`OneUnrecorded`). The rows a report caps, and the
twelve months of the cohorts, are never reached.

`HalfDayPasses` waits for the payments that are at their number: a payment takes seconds, and one
recorded within `BACKDATED_THRESHOLD_MS` of its second is not checked against the bills. Login
in `RefreshTokens` is for a device that holds no token. The repair runs without the server
writing beside it; the script, made to be run once, does not say.

**Fairness.** Liveness is stated in two runs, `checkout` and `office`. `NobodyInLimbo` and `KeyIsGivenBack` assume
weak fairness of the steps of each request *that has arrived*: Node's event loop resumes a
handler whose database operation has answered, and the driver answers or throws. Nothing is
assumed about requests arriving, users acting, keys expiring or the process dying. Where the
process may die, the liveness property excuses the tickets or keys of the requests that
died with it, and `NobodyInLimbo` those a cancel had no chance to find.

## The proofs

`TicketCheckoutProofs` proves, for any tickets, extras, checkouts, cancels, users and roles:

- `TypeCorrect`: `Spec => []TypeOK`, under any disturbances.
- `OwnershipHolds`: `Spec => []Ownership`, and from it `OnlyFailedCheckoutsBillTwice`:
  `Spec => []TwiceOnlyByFailedCheckout`, under any disturbances;
- `TicketsAreBilledOnce`: `Spec => []BilledOnce`, if no database operation throws. Crashes and
  early cancels are allowed;
- `ExtrasStayFrozen`: `Spec => []ExtrasFrozen`, under any disturbances;
- `OnlyDeathOrAMissStrands`: `Spec => []StrandedOnlyByDeathOrMissed`, if no database operation
  throws; crashes and early cancels are allowed;
- `CancelsAreAllowed`: `Spec => CashierCancelsOwnDraft`, a property of steps, under any
  disturbances;
- `CheckoutImplementsBilling`: `Spec => ImplementsBilling`, the refinement of `TicketBilling`,
  if no database operation throws.

Assumptions are those named in `TicketCheckout` (checkouts and cancels are different requests,
a null `billId` is no bill, the disturbances are known ones) and those said above, each of which is
needed: `BilledOnce` fails when an operation may throw (`checkout_dberror_bills_twice`).

The argument. `BilledOnce` alone is not inductive: it says nothing of tickets that are claimed
but not yet on a bill, so a claim could not be shown to take a free one. `Ownership` says who
**owns** a ticket at each moment: a checkout that has claimed it and not yet written its
draft or given it back, a bill that stands with a line for it, or a cancelled bill it is still
linked to and not yet reopened from. Its conjuncts are

- `OwnedByOne`: two checkouts never own one ticket;
- `OwnedIsClosed`: an owned ticket is CLOSED, so that a compare-and-set on ACTIVE can only
  take a ticket nobody owns;
- `DraftTakesOver`, `LinkedLast`: what the program counter says about the bill, its lines and
  the links;
- `CancelOwnsItsBill`: the cancel that won the compare-and-set is alone in reopening, and what
  it has still to reopen belongs to its bill. This is what makes `reopen` safe although it is
  conditioned on CLOSED alone.

All but `DraftTakesOver` leave out the tickets `GivenBack`: those of a checkout that failed after
it had written its draft. That set only grows and a ticket is nobody else's business, so
the rest of the invariant is inductive under every failure; without failing operations the set is
empty. A lemma per kind of step shows that `Ownership` is kept; `OwnershipHolds` collects them.

The others rest on it. `ExtrasFrozen`: a ticket with an owner is closed, so its extras stand
still, and the owner carries what the claim read (`CartIsExtras`).
`StrandedOnlyByDeathOrMissed`: a bill that stands is named by its tickets, but for those its
checkout has still to link or died before it linked, so a cancel finds every other
(`CancelFindsThem`); and what a death or a cancel has left stays left - the dead do nothing
more, and a closed ticket keeps the bill it names (`EndedStayEnded`, `ClosedKeepsItsBill`,
`CancelledStays`), unless it is linked just in time for the cancel that has still to look. The
refinement: `Payer` chooses among the bills that stand for a visit, and `BilledOnce` leaves it
one (`PayerOf`); then each step moves one visit (`OneVisitMoves`), a party or nothing
(`BillingStep`).

`OfficeProofs` proves of `IdempotentCompletion`, for any requests, keys and
disturbances, from the assumptions named there and no other:

- `InvariantHolds`, and from it `TypeCorrect`;
- `OneReceipt`: `Spec => []OnePaymentOneReceipt`;
- `ToldWithReason`: `Spec => []ToldAlreadyDoneWithReason`.

The argument is about the payer. The property only speaks of requests that have been answered;
an answer may come from the key, so the invariant has to say what a stored key holds
(`KeptAnswers`: the receipt of the payer, under the payer's key), who can get to storing one
(`PaidForGood`: only the payer, and there is no second one, since a bill that left DRAFT never
returns to it), and that `release` ends in a failure (`KeyedWay`) - without which not even the
types are inductive. The deletion of a key that somebody else holds is harmless for this
property, which is why it survives crashes, late failures and expiry alike. For
`ToldWithReason` it adds that a key is in one hand at a time until it lapses, and that the payer
keeps its key from the payment to the stored answer: whoever finds the bill paid under
the same key has come to a key that lapsed, or that a failing payer gave back.

and of `BillNumber`, for any payments and any number of half days:

- `NumberTypeCorrect`: `NumbersSpec => []NumberTypes`;
- `FreshNumberSettlesIt`: `NumbersSpec => []OneFreshNumberSettlesIt`.

In the half day of its second one row counts, so all numbers drawn there differ (`FirstMoment`)
and no payment of the moment is ever refused. After it rows expire and count from
the bills again; then a number is only ever lost to a payment that was at its number at the same
time (`LostToRaced`), and the retry draws again above what is stored, so that losing
the second number as well takes a second rival (`Racing`).

It proves of `CheckIn`, for any devices, products, orders and history of the ticket:

- `TicketInvariant`, and from it `CheckInTypeCorrect`;
- `NeverSoldTwice`: `CheckInSpec => []SoldOnce`;
- `SoldMeansOnTheTicket`: `CheckInSpec => []SoldWhenAccepted`.

`AddExtraIfActive` is conditioned on the `localId` it writes, so what is at stake is what a request
holds between its reads: `Once` keeps the first entry of every `localId` (`OnceIsOnce`, from the least
element the well-founded order of the naturals gives), what is written with the ticket
has no `localId` twice, and every entry a request has left behind it is on the ticket or was
taken back, whoever wrote it.

and of `Catalogue` `SoldProductsAreKept`: `CatalogueSpec => []SoldStaysResolvable`, for any tickets,
bills, sales and deletions. The two counts of a deletion are not one, so the invariant
says that a deletion which has counted bills or tickets still finds that one empty, as long as
nothing was sold or checked out meanwhile.

`PlayClockProofs` proves of `PlayClock` and `ReceiptLines`, for every package the schema of the model
stores, any number of comparable ones, any minimum and a stay of any length:

- `ClockTypesHold`: `ClockSpec => []ClockTypes`, what is frozen at check-in can be priced;
- `StayingNeverPaysOff`: `ClockSpec => StayingNeverGetsCheaper`, a property of steps;
- `NothingIsDueBefore`: `ClockSpec => []NothingDueBeforeTheCountdown`;
- `BestPriceIsCharged` and `GraceThenMetered`, and from them `PriceIsFair`: `ClockSpec => []FairPrice`;
- `LinesAreExplained`: `ClockSpec => []PaperExplainsTheLine`.

The state of the clock is hardly more than the time, so the work is in the price as a function
of minutes. Blocks and tiered hours are brought to one form: for `u` whole units and a remainder
of `r` minutes, the `Cost` of the whole units and the `Extra` for the remainder at the price of the
next unit (`Raw`, `UnitsArePriced`). Everything is shown of that form. The price never falls
because the extra is at most the unit that replaces it (`ExtraIs`, `RawGrows`), the total is then
rounded monotonically (`RoundingGrows`), and the least of several that never fall does not fall
either (`QuotesGrow`). Until its countdown ends the price of one package stands still, within the
grace (`FreeUntil`) and within blocks that are paid for (`PaidUntil`); best price announces the
countdown of one of those that cost as little as the quote, and as long as that one stands still
the quote cannot rise above it (`NothingIsDueBefore`). The meter of `GraceThenEveryMinute`
adds up `u` units of equal minutes and `r` minutes of the next (`MeterIs`), and rounding whole
units loses nothing (`RoundOfUnits`). The receipt works from the stored rate, which resolving
again does not change (`ResolvedIsKept`); its rows are the hours before the fourth and one for
the rest, which all cost the last rate of the table (`RowsArePrinted`, `HoursPastTheTable`).

`DueAtTheCountdown`, that the price really has risen at the instant announced, stays with TLC. It
is not a theorem: a package may be stored with a price so low that the next minute adds less
than half of a minor unit, and one that is priced pro rata, which does not count down, may be
tied with one that does. It holds of the packages of the run, whose prices are those of a till.

`FamilyRecordsProofs` proves of `FamilyRecords`, for any bills, tickets, customers, numbers and
requests at once:

- `FamiliesInvariant`, and from it `RecordsTypeCorrect`;
- `EveryPaidBillFindsItsFamily`: `Spec => []PaidBillsHaveAFamily`;
- `FiguresAreRecomputed`: `Spec => []FiguresFollowBills`.

Both properties speak of the moments when nothing is at work, so the invariant says what is
owed meanwhile. `FamiliesCome`: a paid bill with a number and no customer has its payment
at `ensureCustomer` or at the link, holding that number. `FiguresCome`: a customer whose figures
are not those of its bills is owed a recomputation by some request (`Owes`: a request that holds
this family, or this customer), or a request is about to link one of its bills to somebody
else (`WillContest`), after which the two share it and the property excuses both. Each
write of a bill is right because the family a request carries away from it is the one the bill
counts for (`BillsReachTheirFamily`); a correction is where this could fail, and is where
`RequestStands` says that an unrevised bill still has the number that was read, and the
customer that was read or one linked since - whom `MoveToFamily` overtakes. A record made
for a number finds either no bill of it or the payment that will link one (`NewRecordKeeps`).

`DraftPricingProofs` proves of `DraftPricing` and `ReceiptTotals`, for any orders, checkouts, discounts,
settings, price lists and moments that validation lets through:

- `DraftInvariantHolds`, and from it `DraftTypesHold`;
- `ChargedAsQuotedHolds`: `Spec => ChargedAsQuoted`, a property of steps;
- `WithinTheCapHolds`: `Spec => []WithinTheCap`;
- `FamilyTicketsHold`: `Spec => []FamilyTicketIsAsSeparateTickets`;
- `PaidWhenItHappenedHolds`: `Spec => []PaidWhenItHappened`;
- `PaperFootsUpHolds`: `Spec => []PaperFootsUp`.

None of these follows from the totals alone. The invariant says what a draft keeps of its
pricing. `Quoted`: its amounts are those of its own lines, discount and stored percentage, so that
computing them again at the payment gives the same, and a percentage of 0 is stored exactly when
nothing came off - which is what the receipt prints. For that the limits in `CalculateBillTotals`
must be shown never to apply to a draft that was allowed (`TotalsAre`): a family discount is at most
the play, and a percentage over 100 is refused. `TicketsDivide`: a ticket's line is a charge times its
children, so that splitting it loses nothing. `LinesDated`: a group that a cashier rings up ends at
most a day before the draft, also when an edit replaces the lines later.

The lines are sequences of any length, so their sums are needed for every length. `SumTheorems` has
what the proofs use of `SumFunction` and `FlattenSeq`: that such a sum exists and is the same in
whatever order it is taken, of joined and flattened sequences, of copies and constants, and that
larger terms add up to more. Both operators choose a function that satisfies a recursive equation; that there is
one is shown by induction on its domain (`SumsExist`, `FlattenIs`), with the induction
principle stated of a set of numbers and not of a predicate (`SetInduction`), which is the form in
which the provers can use it. For the screens it has sums over any finite set: of sums, of what
is selected, and by key (`SumByKey`, `CountByKey`: what is added up key by key is all of it).

Assumed are `RequestsAreValid`, what the schemas of a request let through, and `StoredIsValid`, what
those of the settings and the price list do: finitely many tiers of at most 100 per cent, prices
that are not negative, a line of every price list for each thing that can be sold. Percentages and
amounts are whole numbers, as everywhere in the model; the code also takes a tax, a tier or a cap
of 7.5 per cent.

`BillMoneyProofs` proves of `BillMoney`, for any edits, payments and corrections, any amounts,
discounts and tax rates, and however the requests overlap:

- `TypeCorrect`: `Spec => []TypeOK`;
- `FiguresAddUp`: `Spec => []ChargeAddsUp`;
- `HistoryIsAChain`: `Spec => []CorrectionsChain`;
- `EndsForGood`: `Spec => SettledOnce`, and `SaleMovesOnlyByItsEdits`: `Spec =>
  SoldMovesOnlyByItsEdits`, two properties of steps.

That nothing a paid bill sold ever moves (`SoldIsFrozen`) is no theorem: `money_late_save` refutes it. The
last of these says what is left of it, that only an edit which had read the draft can move it.

The argument is about what a request has in hand. The figures of the bill are right when they are
written because they were computed from what was read, so the invariant follows each
document from its read to its write. `EditsOfDrafts`: an edit in flight has read a draft and changes
nothing that says what was paid or corrected (`IsEdit`), so that its save, whenever it comes, leaves
the status and the history alone. `PaymentsOfDrafts`: as long as the bill is a draft, a payment
that no edit has overtaken has seen it as it is (`IsPayment`). `CorrectionsOfPaid`: a correction
whose revision is still that of the bill has seen its history, and all of the bill unless it was
edited under its payment, so that the compare-and-set on `revision` alone is enough
(`HasSeen`, `IsCorrection`). `DraftIsUncorrected` says that the history starts empty, and
`PaidByAPayment` that a payment is done just when the bill has been paid, which tells an edit that
was saved in time from one that was not. One lemma per kind of step (`ReadKeepsIInv` to
`EndKeepsIInv`) keeps them, `NextIInv` collects these, and the properties of steps come out of the
same case split (`BillStep`).

`OfficeProofs` also proves, of `RefreshTokens`, `EachDeviceHoldsItsToken`: `TokensSpec =>
[]OneLiveTokenPerDevice`, for any devices, refreshes and number of tokens. The property is about the
time between requests, so the invariant follows a request through them (`InOrder`): which of the
device's tokens may be live while the next one is issued, the old one revoked and the answer
under way; that the request of a device that was not disturbed is its only one and presents what
the device holds (`OneRequest`); and that nobody has a token in hand that was issued to another
device (`OwnTokens`). A step of a request keeps all of it if it leaves its own device in order
(`RequestKeeps`), as the other devices are not touched (`OtherDevice`).

And of `CustomerCleanup`, for any database the repair may find and any number of deaths:

- `RepairInvariant`, and from it `RepairTypeCorrect`;
- `RerunIsIdle`: `CleanupSpec => []RerunFindsNothing`;
- `NobodyIsLost`: `CleanupSpec => []NobodyLosesTheirFamily`.

Both properties speak of the end, and a death throws the plan away, so what is kept between the
writes must be said of the database alone: the oldest record of every number is still there, and
a new one has a number that had none (`RecordsKept`); no paper was sent anywhere but to
the oldest record of its family (`PapersKept`). While a plan is being written, what is left of it
is what is left to do (`PlanHolds`): to delete are exactly the records that are not the oldest of
their number, records that are neither to be deleted nor rewritten are spelled right, and a paper
that is not to be linked is `AtRest`. `FactsKept` follows what a record said through the plan
into the survivor (`StillSaid`: its notes, and of name and email what the oldest record to fill them
in had), of the oldest record always and of the others as long as no run has died. That the plan is of
that form when it is made is
`PlanIs` and `PlanSettles`, that a survivor never meets a duplicate key is `NobodyCollides`, and that
what is at rest when the plan is empty would not be planned again is `RerunIsIdle`. Assumed is that a
database has finitely many records, and nobody's record is 0 (`BooksAreDatabases`).

`ScreensProofs` proves of `SalesLedger`, `IncomeScreens` and `CustomerScreens`, for any sales and
customers, any moments in any zone, any number of changes, every range and every grouping:

- `LedgerInvariant`, and from it `LedgerTypesHold`;
- `AuditIsSound`: `Spec => []AuditSound`, and with it `ReprintsAreExplained`: `Spec =>
  []ReprintExplained`;
- `IncomeAlwaysAddsUp`: `Spec => []IncomeAddsUp`;
- `ScreensAlwaysAgree`: `Spec => []ScreensAgree`;
- `CustomerReportAlwaysAddsUp`: `Spec => []CustomerReportAddsUp`, and with it
  `VisitsAlwaysAgree`: `Spec => []VisitsAgree`;
- `AnnouncedVisitIsPaid`: `Spec => VisitIsTheOneAnnounced`, a property of steps.

The screens are functions of the ledger, so the invariant (`LedgerInv`) says what they need to
find there. `Sound`: nothing on a bill lies in the future, what was paid has a method and, if it
has a number, a customer, and a test mark or a late payment was recorded after the date of the
payment, so that the exceptions from that day to today have it. `TicketSound`: a closed ticket was
open for as long as it was billed, so that the session report, which goes by the check-in, finds
what the dashboard counts by the check-out. `OneRecord`: a number has one record, so that
families known by their number are customers. `Explained` is what makes the reprint inductive:
what a bill of an earlier day adds to its takings now is what was printed, plus the corrections made
later, less the whole if it was reversed later. Each handler changes both sides by as much, and
the turn of a day prints what has just become an earlier day. The bills a test mark was
taken off are left out, for the ledger keeps no trace of it. `AuditSound`: every row of the audit
log is of a correction that was made, dated between the correction and now, so that the
exceptions from that day on have it; that a correction has a row is not shown, because it need not.

That the figures agree is then arithmetic of sums. Every figure is brought to a sum, over a set of
sales, of a function of one sale (`OfSubtotal`, `OfNet`, `OfMethod` ...; `FiguresAre`, `KindIs`,
`MethodIs`). A table is the same sum by a key - bucket, product, cashier, family, month - and
comes to the whole by `SumByKey`, once each sale has just one key and the key a row. For buckets this
is the point: the periods partition the days (`PeriodsAre`, `LabelsAre`), and a bucket that is clipped to
the range still prints the days of what is in it (`BucketDays`). Visits are counted as
days, and what the segments, the report and the profile count are images of those days, or pairs
of a family and a day (`CountsAreEqual`, `FamiliesAreCustomers`, `PairsAre`). The till counts the
family's days and one more unless today is among them; a payment of today makes only today one
(`OneBillAtATime`).

Assumed are `SalesAreSales` (the lines are those the schema stores), `TimesAreMinutes`,
`CustomersAreRecords` (numbers are unique from the start: the index on `phoneNumber`),
`MonthsAreKnown` (the calendar reaches beyond every range that can be asked for),
`MinimumIsAtMostADay` (`settings/settings.validation.ts:17`) and `ThresholdsAreOrdered` (the
constants of `customers/customerSegments.ts`). `MinimumIsAtMostADay` is needed: the report compared
is that of a range one day longer, and a stay within a longer minimum could begin before it.

Only model-checked: liveness (`NobodyInLimbo` and `KeyIsGivenBack`; fairness is outside what the
prover handles), `DueAtTheCountdown`, for the reason given above, and
`RefreshesLeaveOneBehindAtMost`, which counts the live tokens of a device against its refreshes.

## What the code does otherwise than it says

Five have a run whose counterexample is the argument, and stand in `PROJECT.json` under
"findings":

- **A failed link bills a ticket twice** (`checkout_dberror_bills_twice`). When `setBillId`
  throws, the tickets are released but the draft stays (`bills/bill.service.ts:689-692`);
  `bill.routes.ts:119`: "a ticket can never be billed twice".
- **A late save changes a paid bill** (`money_late_save`). `updateDraft` saves without a
  condition on the status (`:744`); `:1147`: "Fixed for the life of a paid bill".
- **A reopened ticket keeps the test mark** of the bill that was cancelled
  (`families_test_flag`; `playSession.repository.ts:71`).
- **Two recomputations lose an update** (`families_lost_update`). `recomputeStats` reads the bills of a
  family and then writes its figures without a condition (`customers/customer.service.ts:246`): of two
  beside each other, the one that read first can write last, and a payment is missing from the
  figures until the family's next change; `:208`: "so any change to a bill can simply recompute".
- **A package on an open ticket is deleted** (`catalogue_package_lost`). The delete only asks bills
  (`play-packages/playPackage.service.ts:79`), so the checkout of a child who is playing writes
  a line of a package that is gone; `:240`: "reports must not silently lose the package a past
  bill was billed against".

Seen while modelling, and without a run of their own. In the till:

- When that failed checkout reopens its tickets one by one, another may have claimed one of them
  since: `reopen` asks for CLOSED and not for the bill (`playSession.repository.ts:71`). The ticket
  is open to a third checkout, which bills it again, while an extra sold in between is not on
  the bill that the ticket still names. The tickets `GivenBack` are left out of
  `TwiceOnlyByFailedCheckout` and `ExtrasFrozen` for that.
- The process dies between the claim and the draft, or while it reopens: the ticket stays CLOSED, on
  no bill that stands, and nothing in the server looks for it. So does a ticket that is linked to its
  draft after somebody cancelled the draft from the list. `StrandedOnlyByDeathOrMissed` (run `checkout`)
  names both and holds the checkout to there being no other way, as long as no operation throws.
- Something after the payment throws: the key is deleted, and the retry of the till that paid
  is refused as already completed. `ToldAlreadyDoneWithReason` states exactly that exception.
- Completion charges the lines it read, so an edit saved in between is paid at the old totals; this is
  the exception `EditedUnderPayment` of `ChargeAddsUp`.
- The key of a refused payment is deleted inside the `catch` (`idempotency.service.ts:44`). If that
  deletion throws, the placeholder stays, and every retry under the key is told to wait until it
  lapses a day later. `KeyIsGivenBack` excepts it (`ReleaseFails`).
- A replayed check-in whose ticket has been checked out by then, and one that loses the race on
  the code, is answered with the ticket as if all it carried were on it
  (`playSession.service.ts:242, 305`); `:396` says of such extras that they are "refused rather
  than silently dropped".
- `nextChargeAt` is up to a minute late (`playSession.service.ts:144`): it adds whole minutes to
  the moment of the quote, while minutes are billed from check-in and rounded up. At 59 min
  30 s with a grace of 10 it is 70 min 30 s, and the total rises just after 70 min.
  `NothingDueBeforeTheCountdown` allows for that minute and no more.
- A ticket checked in by a device whose clock is ahead cannot be quoted until the server has
  caught up (`CanQuote` in `PlayClock`), and one such ticket makes the whole list of active
  tickets throw.
- Three payments dated back to one second whose row expires between them can cost one of them its
  second number too, and it fails with a duplicate; `OneFreshNumberSettlesIt` states that
  bound.
- A repair that dies after deleting a duplicate loses what the duplicate's record said and was not
  folded in yet, and the links of bills and tickets that do not carry the number.
  `NobodyLosesTheirFamily` holds a second run to the rest.
- Also a repair that does not die drops the name or the email of a duplicate where the oldest
  record has another one (`customerCleanup.ts:135-142`), and does not report it. Its dry run reports
  `keptByPhone.size + toCreate.size` customers to recompute (`customerCleanup.ts:211`) and so
  leaves out those without a number, whom an apply recomputes.
- Two records that claim one bill, by number and by link, are not both recomputed when it
  changes (`contested` in `FamilyRecords`).
- The value of a FIXED discount may be a fraction (`bill.validation.ts:61`), where `money.ts`
  has whole minor units.

On the screens:

- Occupancy (`dashboard.service.ts:484-526`) walks the hours of UTC, and the default zone is at
  half past: each count belongs to two hours of the day it is shown in.
- The four payment tiles of the dashboard include refunded bills (`:65-76`); the breakdown by
  method and the period summary leave them out, and only those satisfy `billFilters.ts:28`,
  "`cash + card + bank + other = net + tax`". `IncomeAddsUp` is about the latter
  (`MethodsAreNetPlusTax`).
- The customer report groups by the number on the bill, the record of a customer counts by
  number or link: after a customer's number changed they disagree, against
  `customerVisits.ts:8`. `VisitsAgree` has the condition for it.
- A late test mark and a payment dated back change the reprint of a daily close without being
  among its adjustments (`reports.service.ts:362` knows "the other way"); taking a mark off
  leaves no trace at all. `ReprintExplained` names both.
- The exceptions report takes corrections from the audit log (`reports.service.ts:540`), whose rows
  are best effort and come after the tickets and families have followed the correction
  (`bill.service.ts:1233`): one whose row was lost is on the daily close alone, and one made at the end
  of a day may be reported under the next. `ReprintExplained` allows for both.
- A cashier all of whose bills were cancelled or refunded has no row in the cashiers'
  performance, and the count of his cancellations is lost with it.

## What is not modelled

- The wording and layout of receipts, their PDF and the CSV form of reports: formatting of
  finished data. Of the reading side also occupancy, recent bills, the list of children, the
  filters of the lists, the heat map and what a family usually buys: single queries with no
  second figure they would have to agree with.
- Of the audit log, every row but those of corrections. A forced closing is the only other one that a
  report reads back, a list of what a cashier did with no figure it would have to agree with; the rest
  is browsed by an admin.
- The HTTP shell, validation of shapes, the database connection, indexes and the seed. What a
  unique index guarantees is used where a module relies on it. Rate limits and roles are guards
  of requests that then never happen.
- Passwords, signatures and the access token, which lives out its minutes whatever happens to
  the account; creating and renaming users, products, packages and customers, which is data.
- The shop's name and texts in the settings; the counts the repair reports.
- More than one server process. `server.ts` starts one; the compare-and-sets would hold between
  several, and the interleavings here are the same.

## What is left

- The repair beside a running server, if it is ever to be run so.
- Larger instances: `families` with four requests.
