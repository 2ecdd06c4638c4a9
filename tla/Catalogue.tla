------------------------------ MODULE Catalogue ------------------------------
(***************************************************************************)
(* One row of the catalogue - a product or a play package - while it is    *)
(* sold, switched off and deleted.  A ticket carries the products sold on  *)
(* it and the packages it may be priced by, and a bill the lines made of   *)
(* them: both keep the row's id next to a snapshot of its name and price.  *)
(* An admin's delete looks for references and then removes the row, or     *)
(* switches it off; sales read the row and write later.                    *)
(***************************************************************************)
EXTENDS FiniteSets

CONSTANTS
    Kinds,           \* which of "PRODUCT" and "PACKAGE" the row may be
    Visits,          \* tickets
    Invoices,        \* bills
    Sellers,         \* requests that sell the row
    Deleters         \* requests to delete it

ASSUME KnownKinds == Kinds \subseteq {"PRODUCT", "PACKAGE"}
ASSUME SellersDoNotDelete == Sellers \cap Deleters = {}

VARIABLES
    kind,
    row,             \* "active", "inactive" or "gone"
    visit,           \* visit[t]: "new", "playing" or "closed"
    carriers,        \* the tickets that carry the row
    lines,           \* the bills with a line of it
    billing,         \* billing[b]: "unused", "draft" (its tickets, if any, in billedBy) or "kept"
    billedBy,        \* billedBy[t]: the bills made of each ticket
    request,         \* where each request stands
    foundActive,     \* the deletions that read the row while it was active
    overlapped       \* history: a deletion was decided while something was being sold

catalogueVars ==
    <<kind, row, visit, carriers, lines, billing, billedBy, request, foundActive, overlapped>>

CatalogueInit ==
    /\ kind \in Kinds
    /\ row = "active"
    /\ visit = [t \in Visits |-> "new"]
    /\ carriers = {} /\ lines = {}
    /\ billing = [b \in Invoices |-> "unused"]
    /\ billedBy = [t \in Visits |-> {}]
    /\ request = [r \in Sellers \cup Deleters |-> "idle"]
    /\ foundActive = {}
    /\ overlapped = FALSE

Deleting ==
    \E d \in Deleters : request[d] \in {"countBoth", "countBills", "countTickets", "remove"}

\* A sale is written: while a deletion is being decided, or after one it did not see.
Sold == overlapped' = (overlapped \/ Deleting \/ row = "gone")

At(r, place) == request' = [request EXCEPT ![r] = place]

SalesRecord == <<visit, carriers, lines, billing, billedBy>>

\* The row is read by a check-in, an extra or a draft, which refuse it unless it is active.
FindToSell(s) ==
    /\ request[s] = "idle"
    /\ At(s, IF row = "active" THEN "sell" ELSE "refused")
    /\ UNCHANGED <<kind, row, SalesRecord, overlapped, foundActive>>

\* A product is sold on a ticket whose child plays; the ticket itself may be new with it.
SellOnTicket(s, t) ==
    /\ request[s] = "sell" /\ visit[t] \in {"new", "playing"}
    /\ kind = "PACKAGE" => visit[t] = "new"
    /\ carriers' = carriers \cup {t}
    /\ visit' = [visit EXCEPT ![t] = "playing"]
    /\ At(s, "sold") /\ Sold
    /\ UNCHANGED <<kind, row, lines, billing, billedBy, foundActive>>

\* A line of a draft without tickets, when it is made or when its lines are replaced.
SellOnBill(s, b) ==
    /\ request[s] = "sell"
    /\ billing[b] \in {"unused", "draft"} /\ \A t \in Visits : b \notin billedBy[t]
    /\ lines' = lines \cup {b}
    /\ billing' = [billing EXCEPT ![b] = "draft"]
    /\ At(s, "sold") /\ Sold
    /\ UNCHANGED <<kind, row, visit, carriers, billedBy, foundActive>>

\* The lines of a draft are replaced by others.
DropLine(b) ==
    /\ billing[b] = "draft" /\ b \in lines
    /\ \A t \in Visits : b \notin billedBy[t]
    /\ lines' = lines \ {b}
    /\ UNCHANGED <<kind, row, visit, carriers, billing, billedBy, request, overlapped, foundActive>>

\* A product is taken off the ticket again.
TakeBack(t) ==
    /\ kind = "PRODUCT" /\ visit[t] = "playing" /\ t \in carriers
    /\ carriers' = carriers \ {t}
    /\ UNCHANGED <<kind, row, visit, lines, billing, billedBy, request, overlapped, foundActive>>

\* A ticket that carries none of it is checked in, or one is voided.
OtherTicket(t) ==
    /\ visit[t] # "closed"
    /\ visit' = [visit EXCEPT ![t] = IF visit[t] = "new" THEN "playing" ELSE "closed"]
    /\ UNCHANGED <<kind, row, carriers, lines, billing, billedBy, request, overlapped, foundActive>>

\* Every product on the ticket goes onto the bill, and one package: that which is cheapest.
\* (Between the two counts of a deletion this hides the product from both, if the bill is
\* then cancelled and the product taken back.)
CheckOutOnto(t, b) ==
    /\ visit[t] = "playing" /\ billing[b] = "unused"
    /\ visit' = [visit EXCEPT ![t] = "closed"]
    /\ billing' = [billing EXCEPT ![b] = "kept"]
    /\ billedBy' = [billedBy EXCEPT ![t] = @ \cup {b}]
    /\ \/ t \in carriers /\ lines' = lines \cup {b}
       \/ (t \notin carriers \/ kind = "PACKAGE") /\ UNCHANGED lines
    /\ overlapped' = (overlapped \/ Deleting)
    /\ UNCHANGED <<kind, row, carriers, request, foundActive>>

\* The bill is cancelled: it keeps its lines, and the ticket is open again.
CancelAndReopen(t) ==
    /\ visit[t] = "closed" /\ billedBy[t] # {}
    /\ visit' = [visit EXCEPT ![t] = "playing"]
    /\ UNCHANGED <<kind, row, carriers, lines, billing, billedBy, request, overlapped, foundActive>>

SwitchTo(to) ==
    /\ row \notin {"gone", to}
    /\ row' = to
    /\ UNCHANGED <<kind, SalesRecord, request, overlapped, foundActive>>

-----------------------------------------------------------------------------

\* Mutants (definitions named "...Mutant") are the code with one plausible mistake in
\* it, next to the definition they replace when a property is put to the test.
TicketsNotAskedMutant == FALSE

\* isProductReferenced asks bills and tickets, isPackageUsedInBills the bills only.
AsksTickets == kind = "PRODUCT"

BeginDelete(d) ==
    /\ request[d] = "idle"
    /\ At(d, IF row = "gone" THEN "notFound" ELSE IF AsksTickets THEN "countBoth" ELSE "countBills")
    /\ foundActive' = IF row = "active" THEN foundActive \cup {d} ELSE foundActive
    /\ UNCHANGED <<kind, row, SalesRecord, overlapped>>

\* The two counts of a product have no order.
CountBills(d) ==
    /\ request[d] \in {"countBoth", "countBills"}
    /\ At(d, IF lines # {} THEN "switchOff"
             ELSE IF request[d] = "countBoth" THEN "countTickets" ELSE "remove")
    /\ UNCHANGED <<kind, row, SalesRecord, overlapped, foundActive>>

CountTickets(d) ==
    /\ request[d] \in {"countBoth", "countTickets"}
    /\ At(d, IF carriers # {} THEN "switchOff"
             ELSE IF request[d] = "countBoth" THEN "countBills" ELSE "remove")
    /\ UNCHANGED <<kind, row, SalesRecord, overlapped, foundActive>>

\* Sold before: it stays, and is deactivated if it was found active before the counting.
Deactivate(d) ==
    /\ request[d] = "switchOff"
    /\ row' = IF d \in foundActive /\ row # "gone" THEN "inactive" ELSE row
    /\ At(d, IF d \in foundActive /\ row = "gone" THEN "failed" ELSE "deactivated")
    /\ UNCHANGED <<kind, SalesRecord, overlapped, foundActive>>

DeleteRow(d) ==
    /\ request[d] = "remove"
    /\ row' = "gone"
    /\ At(d, "deleted")
    /\ UNCHANGED <<kind, SalesRecord, overlapped, foundActive>>

CatalogueNext ==
    \/ \E s \in Sellers :
        \/ FindToSell(s)
        \/ \E t \in Visits : SellOnTicket(s, t)
        \/ \E b \in Invoices : SellOnBill(s, b)
    \/ \E t \in Visits : TakeBack(t) \/ OtherTicket(t) \/ CancelAndReopen(t)
    \/ \E t \in Visits, b \in Invoices : CheckOutOnto(t, b)
    \/ \E b \in Invoices : DropLine(b)
    \/ \E to \in {"active", "inactive"} : SwitchTo(to)
    \/ \E d \in Deleters :
        BeginDelete(d) \/ CountBills(d) \/ CountTickets(d) \/ Deactivate(d) \/ DeleteRow(d)

CatalogueSpec == CatalogueInit /\ [][CatalogueNext]_catalogueVars

-----------------------------------------------------------------------------

\* "A product a bill or a session has sold keeps its id resolvable" (product.service.ts):
\* a product that is gone is on no ticket and no bill, whatever is cancelled, taken back
\* or checked out afterwards - unless it was sold or checked out while its deletion was
\* being decided, which nothing in the code excludes.
SoldStaysResolvable ==
    kind = "PRODUCT" /\ row = "gone" /\ ~overlapped => carriers = {} /\ lines = {}

\* "The same rule play packages follow" (product.service.ts): "reports must not silently
\* lose the package a past bill was billed against" (playPackage.service.ts).
BilledPackageIsKept ==
    kind = "PACKAGE" /\ row = "gone" /\ ~overlapped => lines = {}

=============================================================================
