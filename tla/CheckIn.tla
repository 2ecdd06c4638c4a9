------------------------------ MODULE CheckIn ------------------------------
(***************************************************************************)
(* One ticket code and the devices that send it: POST /play-sessions, made *)
(* once per ticket and repeated by a device that lost the answer, and      *)
(* POST .../extras, which sells products onto the ticket.  Tickets are made *)
(* offline, so a request may be sent again at any time, by then carrying   *)
(* extras the first attempt did not, and may overtake an earlier one.      *)
(*                                                                         *)
(* A request is one arrival at the server; steps of different requests     *)
(* interleave at each await.  An entry is a position in the list of extras *)
(* a request carries, and a sale is the entry of a request: each request   *)
(* handles each of its entries once, so no two sales are the same pair.    *)
(***************************************************************************)
EXTENDS Naturals, Sequences

CONSTANTS
    CheckIns,      \* check-in requests with this ticket code
    ExtraSales,    \* requests to add extras to it
    Extras,        \* localIds of extras
    Carries,       \* the extras each request carries, in order
    Products,
    ProductOf,     \* the product of each extra
    Nothing        \* the ticket does not exist yet

TicketRequests == CheckIns \cup ExtraSales

ASSUME RequestsDiffer == CheckIns \cap ExtraSales = {}
ASSUME NothingIsNoStatus == Nothing \notin {"ACTIVE", "CLOSED", "VOIDED"}
ASSUME CarriesExtras == Carries \in [TicketRequests -> Seq(Extras)] /\ ProductOf \in [Extras -> Products]

VARIABLES
    sessionStatus, \* PlaySession.status, or Nothing
    extras,        \* PlaySession.extras: the sales <<request, entry>>
    active,        \* the products that are active
    place,         \* where each request stands
    pending,       \* the entries it has still to snapshot
    priced,        \* the entries it has snapshotted and not yet saved
    told,          \* what it was answered: "session" is the ticket as it was found,
                   \* "sold" as addExtras leaves it
    takenBack      \* history: extras a cashier took back

checkInVars == <<sessionStatus, extras, active, place, pending, priced, told, takenBack>>

CheckInInit ==
    /\ sessionStatus = Nothing
    /\ extras = {}
    /\ active = Products
    /\ place = [r \in TicketRequests |-> "idle"]
    /\ pending = [r \in TicketRequests |-> {}]
    /\ priced = [r \in TicketRequests |-> {}]
    /\ told = [r \in TicketRequests |-> "none"]
    /\ takenBack = {}

Ticket == <<sessionStatus, extras, active, takenBack>>
LocalId(sale) == Carries[sale[1]][sale[2]]
Known == {LocalId(sale) : sale \in extras}

\* The entries whose extras are not on the ticket.
NotKnown(r, entries) == {i \in entries : Carries[r][i] \notin Known}

\* Two entries with one localId are one sale.
Once(r, entries) == {i \in entries : \A j \in entries : j < i => Carries[r][j] # Carries[r][i]}

\* Entries are taken in their order.
IsNext(i, entries) == i \in entries /\ \A j \in entries : i <= j

GoOn(r, at) == place' = [place EXCEPT ![r] = at]
Tell(r, what) == GoOn(r, "done") /\ told' = [told EXCEPT ![r] = what]

SendTicket(r) ==
    /\ place[r] = "idle"
    /\ GoOn(r, IF r \in CheckIns THEN "find" ELSE "findForExtras")
    /\ pending' = [pending EXCEPT ![r] = DOMAIN Carries[r]]
    /\ UNCHANGED <<Ticket, priced, told>>

\* checkIn finds the ticket: a replay.  Extras it brings are added while the child plays.
ReplayCheckIn(r) ==
    /\ place[r] = "find" /\ sessionStatus # Nothing
    /\ pending' = [pending EXCEPT ![r] = NotKnown(r, @)]
    /\ IF NotKnown(r, pending[r]) # {} /\ sessionStatus = "ACTIVE"
       THEN GoOn(r, "findForExtras") /\ UNCHANGED told
       ELSE Tell(r, "session")
    /\ UNCHANGED <<Ticket, priced>>

\* No such ticket yet: its extras are snapshotted before it is made.
FirstSeen(r) ==
    /\ place[r] = "find" /\ sessionStatus = Nothing
    /\ pending' = [pending EXCEPT ![r] = Once(r, @)]
    /\ GoOn(r, IF Carries[r] = <<>> THEN "create" ELSE "snapshotNew")
    /\ UNCHANGED <<Ticket, priced, told>>

\* The package does not exist or is not active, or the device's clock is out of bounds.
RefuseCheckIn(r) ==
    /\ place[r] = "find" /\ sessionStatus = Nothing
    /\ Tell(r, "refused")
    /\ UNCHANGED <<Ticket, pending, priced>>

\* snapshotExtras reads one product after the other, before anything is written.
Snapshot(r) ==
    /\ place[r] \in {"snapshotNew", "snapshot"}
    /\ \E i \in pending[r] :
        /\ IsNext(i, pending[r]) /\ ProductOf[Carries[r][i]] \in active
        /\ priced' = [priced EXCEPT ![r] = @ \cup {i}]
        /\ pending' = [pending EXCEPT ![r] = @ \ {i}]
        /\ GoOn(r, IF pending[r] # {i} THEN place[r]
                   ELSE IF place[r] = "snapshot" THEN "add" ELSE "create")
    /\ UNCHANGED <<Ticket, told>>

InvalidProduct(r) ==
    /\ place[r] \in {"snapshotNew", "snapshot"}
    /\ \E i \in pending[r] : IsNext(i, pending[r]) /\ ProductOf[Carries[r][i]] \notin active
    /\ Tell(r, "invalidProduct")
    /\ UNCHANGED <<Ticket, pending, priced>>

SoldBy(r, entries) == {r} \X entries

\* The unique index on ticketCode lets one check-in make the ticket.
Create(r) ==
    /\ place[r] = "create" /\ sessionStatus = Nothing
    /\ sessionStatus' = "ACTIVE"
    /\ extras' = SoldBy(r, priced[r])
    /\ Tell(r, "created")
    /\ UNCHANGED <<active, pending, priced, takenBack>>

CreateRaced(r) ==
    /\ place[r] = "create" /\ sessionStatus # Nothing
    /\ GoOn(r, "readBack")
    /\ UNCHANGED <<Ticket, pending, priced, told>>

\* "The loser reads back the winner's session".
ReadBack(r) ==
    /\ place[r] = "readBack"
    /\ Tell(r, "session")
    /\ UNCHANGED <<Ticket, pending, priced>>

\* addExtras, called by its route or by a replayed check-in.
FindForExtras(r) ==
    /\ place[r] = "findForExtras"
    /\ LET new == NotKnown(r, pending[r])
       IN  \/ sessionStatus = Nothing /\ Tell(r, "notFound") /\ UNCHANGED pending
           \/ sessionStatus # Nothing /\ new = {} /\ Tell(r, "sold") /\ UNCHANGED pending
           \/ /\ sessionStatus \in {"CLOSED", "VOIDED"} /\ new # {}
              /\ Tell(r, "checkedOut") /\ UNCHANGED pending
           \/ /\ sessionStatus = "ACTIVE" /\ new # {}
              /\ pending' = [pending EXCEPT ![r] = Once(r, new)]
              /\ GoOn(r, "snapshot") /\ UNCHANGED told
    /\ UNCHANGED <<Ticket, priced>>

\* On to the next extra, or the answer.
NextExtra(r, i) ==
    /\ priced' = [priced EXCEPT ![r] = @ \ {i}]
    /\ IF priced[r] # {i} THEN GoOn(r, "add") /\ UNCHANGED told ELSE Tell(r, "sold")

\* Mutants (definitions named "...Mutant") are the code with one plausible mistake in
\* it, next to the definition they replace when a property is put to the test.
AddTwiceMutant(r) ==
    /\ place[r] = "add"
    /\ sessionStatus = "ACTIVE"
    /\ \E i \in priced[r] :
        /\ IsNext(i, priced[r])
        /\ extras' = extras \cup {<<r, i>>}
        /\ NextExtra(r, i)
    /\ UNCHANGED <<sessionStatus, active, pending, takenBack>>

AddExtraIfActive(r) ==
    /\ place[r] = "add"
    /\ sessionStatus = "ACTIVE"
    /\ \E i \in priced[r] :
        /\ IsNext(i, priced[r]) /\ Carries[r][i] \notin Known
        /\ extras' = extras \cup {<<r, i>>}
        /\ NextExtra(r, i)
    /\ UNCHANGED <<sessionStatus, active, pending, takenBack>>

AddRefused(r) ==
    /\ place[r] = "add"
    /\ \E i \in priced[r] :
        IsNext(i, priced[r]) /\ (sessionStatus # "ACTIVE" \/ Carries[r][i] \in Known)
    /\ GoOn(r, "recheck")
    /\ UNCHANGED <<Ticket, pending, priced, told>>

RecheckNothingMutant(r) ==
    /\ place[r] = "recheck"
    /\ \E i \in priced[r] : IsNext(i, priced[r]) /\ NextExtra(r, i)
    /\ UNCHANGED <<Ticket, pending>>

\* A lost race: sold by somebody else, which is fine, or checked out, which is not.
Recheck(r) ==
    /\ place[r] = "recheck"
    /\ \E i \in priced[r] :
        /\ IsNext(i, priced[r])
        /\ \/ Carries[r][i] \in Known /\ NextExtra(r, i)
           \/ Carries[r][i] \notin Known /\ Tell(r, "checkedOut") /\ UNCHANGED priced
    /\ UNCHANGED <<Ticket, pending>>

-----------------------------------------------------------------------------
(* What others do to the ticket and to the products meanwhile.              *)

ChangeStatus(from, to) ==
    /\ sessionStatus = from
    /\ sessionStatus' = to
    /\ UNCHANGED <<extras, active, place, pending, priced, told, takenBack>>

CheckOut == ChangeStatus("ACTIVE", "CLOSED")
ReopenTicket == ChangeStatus("CLOSED", "ACTIVE")
VoidSession == ChangeStatus("ACTIVE", "VOIDED")

RemoveExtraIfActive(x) ==
    /\ sessionStatus = "ACTIVE" /\ x \in Known
    /\ extras' = {sale \in extras : LocalId(sale) # x}
    /\ takenBack' = takenBack \cup {x}
    /\ UNCHANGED <<sessionStatus, active, place, pending, priced, told>>

\* An admin switches a product off or on.
SetProductStatus(p) ==
    /\ active' = IF p \in active THEN active \ {p} ELSE active \cup {p}
    /\ UNCHANGED <<sessionStatus, extras, place, pending, priced, told, takenBack>>

CheckInsDie ==
    /\ place' = [r \in TicketRequests |-> IF place[r] \in {"idle", "done"} THEN place[r] ELSE "crashed"]
    /\ place' # place
    /\ UNCHANGED <<Ticket, pending, priced, told>>

CheckInStep(r) ==
    \/ SendTicket(r) \/ ReplayCheckIn(r) \/ FirstSeen(r) \/ RefuseCheckIn(r)
    \/ Snapshot(r) \/ InvalidProduct(r) \/ Create(r) \/ CreateRaced(r) \/ ReadBack(r)
    \/ FindForExtras(r) \/ AddExtraIfActive(r) \/ AddRefused(r) \/ Recheck(r)

CheckInNext ==
    \/ \E r \in TicketRequests : CheckInStep(r)
    \/ CheckOut \/ ReopenTicket \/ VoidSession \/ CheckInsDie
    \/ \E x \in Extras : RemoveExtraIfActive(x)
    \/ \E p \in Products : SetProductStatus(p)

CheckInSpec == CheckInInit /\ [][CheckInNext]_checkInVars

-----------------------------------------------------------------------------

\* "A retried sync must not sell the same pair twice" (playSession.repository.ts): a
\* localId is on the ticket once, however many requests carry it and whichever merge them.
SoldOnce == \A one, other \in extras : LocalId(one) = LocalId(other) => one = other

\* What addExtras accepted is on the ticket, unless a cashier has taken it back: a ticket
\* checked out between two of its extras is refused and not passed over.
SoldWhenAccepted ==
    \A r \in TicketRequests :
        told[r] = "sold" =>
            \A i \in DOMAIN Carries[r] : Carries[r][i] \in Known \cup takenBack

=============================================================================
