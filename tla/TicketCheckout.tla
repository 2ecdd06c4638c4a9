--------------------------- MODULE TicketCheckout ---------------------------
(***************************************************************************)
(* Checking tickets out onto a bill, and taking a bill back.               *)
(*                                                                         *)
(* The server is one Node process, but every handler is cut at each await: *)
(* a request is a program counter, a step of it is one database operation  *)
(* with the code up to the next await, and steps of different requests     *)
(* interleave freely.  MongoDB makes each operation atomic on the document *)
(* it touches and there are no transactions, so a handler that touches     *)
(* several documents is undone, when it fails, by more operations.         *)
(*                                                                         *)
(* A checkout writes at most one bill, so the bill is named by its         *)
(* checkout.  A request is used once: its set bounds the behaviours.       *)
(***************************************************************************)
EXTENDS Naturals, FiniteSets

CONSTANTS
    Tickets,        \* the tickets checked in (PlaySession documents)
    Extras,         \* the localIds an extra can be sold under on a ticket
    Checkouts,      \* POST /bills/from-sessions requests, and the bills they write
    Cancels,        \* POST /bills/:id/cancel requests
    Admins,         \* the actors with UserRole.ADMIN
    ActorOf,        \* the authenticated user behind each request
    NoBill,         \* a null billId
    Disturbances    \* what may go wrong in this instance

Requests == Checkouts \cup Cancels

ASSUME RequestsAreDisjoint == Checkouts \cap Cancels = {}
ASSUME NoBillIsNotACheckout == NoBill \notin Checkouts

(***************************************************************************)
(* "crash"       the process dies and the requests in flight with it       *)
(* "dbError"     an operation throws without being applied                 *)
(* "earlyCancel" a bill is cancelled by somebody who found it in the list  *)
(*               before the checkout that wrote it has answered            *)
(***************************************************************************)
ASSUME KnownDisturbances == Disturbances \subseteq {"crash", "dbError", "earlyCancel"}

VARIABLES
    status,       \* PlaySession.status
    extras,       \* PlaySession.extras
    billId,       \* PlaySession.billId
    late,         \* history: the tickets linked to a cancelled bill whose cancel had looked already
    billStatus,   \* Bill.status, "ABSENT" until the bill is created
    lines,        \* the tickets with a PLAY line on the bill
    sold,         \* the extras with a line on the bill, with their ticket
    pc,           \* where each request stands
    todo,         \* what is left of the loop each request is in
    claimed,      \* the `claimed` array of a checkout
    cart,         \* the extras on the documents in `claimed`
    target        \* the bill a cancel is about

tickets == <<status, extras, billId, late>>
bills == <<billStatus, lines, sold>>
requests == <<pc, todo, claimed, cart, target>>
vars == <<status, extras, billId, late, billStatus, lines, sold, pc, todo, claimed, cart, target>>

SessionStatus == {"ACTIVE", "CLOSED", "VOIDED"}
BillStatus == {"ABSENT", "DRAFT", "PAID", "CANCELLED", "REFUNDED"}
Ended == {"done", "failed", "crashed"}
PC == {"idle", "claim", "link", "rollback", "cas", "find", "reopen"} \cup Ended

\* Types of every variable: the documents and the locals of the handlers.
TypeOK ==
    /\ status \in [Tickets -> SessionStatus]
    /\ extras \in [Tickets -> SUBSET Extras]
    /\ billId \in [Tickets -> Checkouts \cup {NoBill}]
    /\ late \subseteq Tickets
    /\ billStatus \in [Checkouts -> BillStatus]
    /\ lines \in [Checkouts -> SUBSET Tickets]
    /\ sold \in [Checkouts -> SUBSET (Tickets \X Extras)]
    /\ pc \in [Requests -> PC]
    /\ todo \in [Requests -> SUBSET Tickets]
    /\ claimed \in [Checkouts -> SUBSET Tickets]
    /\ cart \in [Checkouts -> SUBSET (Tickets \X Extras)]
    /\ target \in [Cancels -> Checkouts \cup {NoBill}]

Init ==
    /\ status = [t \in Tickets |-> "ACTIVE"]
    /\ extras = [t \in Tickets |-> {}]
    /\ billId = [t \in Tickets |-> NoBill]
    /\ late = {}
    /\ billStatus = [b \in Checkouts |-> "ABSENT"]
    /\ lines = [b \in Checkouts |-> {}]
    /\ sold = [b \in Checkouts |-> {}]
    /\ pc = [r \in Requests |-> "idle"]
    /\ todo = [r \in Requests |-> {}]
    /\ claimed = [k \in Checkouts |-> {}]
    /\ cart = [k \in Checkouts |-> {}]
    /\ target = [c \in Cancels |-> NoBill]

-----------------------------------------------------------------------------
(***************************************************************************)
(* Tickets: the compare-and-sets of playSession.repository.                *)
(***************************************************************************)

\* The extra is refused unless the ticket is ACTIVE and does not carry its localId.
AddExtra(t, e) ==
    /\ status[t] = "ACTIVE"
    /\ e \notin extras[t]
    /\ extras' = [extras EXCEPT ![t] = @ \cup {e}]
    /\ UNCHANGED <<status, billId, late, bills, requests>>

\* Mutants (definitions named "...Mutant") are the code with one plausible mistake in
\* it, next to the definition they replace when a property is put to the test.
RemoveExtraAnyStatusMutant(t, e) ==
    /\ e \in extras[t]
    /\ extras' = [extras EXCEPT ![t] = @ \ {e}]
    /\ UNCHANGED <<status, billId, late, bills, requests>>

RemoveExtra(t, e) ==
    /\ status[t] = "ACTIVE"
    /\ e \in extras[t]
    /\ extras' = [extras EXCEPT ![t] = @ \ {e}]
    /\ UNCHANGED <<status, billId, late, bills, requests>>

VoidAnyStatusMutant(t) ==
    /\ status[t] # "VOIDED"
    /\ status' = [status EXCEPT ![t] = "VOIDED"]
    /\ UNCHANGED <<extras, billId, late, bills, requests>>

\* Open to an admin on any ticket and to a cashier on his own: some actor always may.
VoidSession(t) ==
    /\ status[t] = "ACTIVE"
    /\ status' = [status EXCEPT ![t] = "VOIDED"]
    /\ UNCHANGED <<extras, billId, late, bills, requests>>

\* playSessionRepository.reopen: conditioned on CLOSED, not on the bill.
ReopenTicket(t) ==
    IF status[t] = "CLOSED"
    THEN /\ status' = [status EXCEPT ![t] = "ACTIVE"]
         /\ billId' = [billId EXCEPT ![t] = NoBill]
    ELSE UNCHANGED <<status, billId>>

\* Leave the loop of r for `next` once t was the last ticket in it.
LoopTo(r, t, next) ==
    /\ todo' = [todo EXCEPT ![r] = @ \ {t}]
    /\ pc' = [pc EXCEPT ![r] = IF todo[r] = {t} THEN next ELSE @]

-----------------------------------------------------------------------------
(***************************************************************************)
(* A checkout: claim each ticket, write the draft, point the tickets at    *)
(* it.  Anything thrown on the way releases what was claimed.              *)
(***************************************************************************)

BeginCheckout(k, party) ==
    /\ pc[k] = "idle"
    /\ party # {}
    /\ pc' = [pc EXCEPT ![k] = "claim"]
    /\ todo' = [todo EXCEPT ![k] = party]
    /\ UNCHANGED <<tickets, bills, claimed, cart, target>>

UnwindNothingMutant(k) ==
    /\ pc' = [pc EXCEPT ![k] = "failed"]
    /\ todo' = [todo EXCEPT ![k] = {}]

\* releaseClaimedSessions is what the catch block runs, over everything claimed.
Unwind(k) ==
    /\ pc' = [pc EXCEPT ![k] = IF claimed[k] = {} THEN "failed" ELSE "rollback"]
    /\ todo' = [todo EXCEPT ![k] = claimed[k]]

\* The claim returns the document as it was left, extras included.
Take(k, t) ==
    /\ status' = [status EXCEPT ![t] = "CLOSED"]
    /\ todo' = [todo EXCEPT ![k] = @ \ {t}]
    /\ claimed' = [claimed EXCEPT ![k] = @ \cup {t}]
    /\ cart' = [cart EXCEPT ![k] = @ \cup ({t} \X extras[t])]
    /\ UNCHANGED <<extras, billId, late, bills, pc, target>>

ClaimAnyStatusMutant(k, t) ==
    /\ pc[k] = "claim"
    /\ t \in todo[k]
    /\ status[t] # "VOIDED"
    /\ Take(k, t)

\* claimIfActive.  The read before it only prices the ticket from what check-in froze and
\* refuses what the claim would refuse, so it is part of the same step.
Claim(k, t) ==
    /\ pc[k] = "claim"
    /\ t \in todo[k]
    /\ status[t] = "ACTIVE"
    /\ Take(k, t)

\* Not ACTIVE when read or when claimed, no such ticket, or checked in after the exit
\* time asked for: the last two depend on the request alone, so any ticket may fail.
RefuseTicket(k) ==
    /\ pc[k] = "claim"
    /\ todo[k] # {}
    /\ Unwind(k)
    /\ UNCHANGED <<tickets, bills, claimed, cart, target>>

\* priceDraft throws: the discount asked for is more than the cashier may give.
RefuseDiscount(k) ==
    /\ pc[k] = "claim"
    /\ todo[k] = {}
    /\ Unwind(k)
    /\ UNCHANGED <<tickets, bills, claimed, cart, target>>

CreateDraft(k) ==
    /\ pc[k] = "claim"
    /\ todo[k] = {}
    /\ billStatus' = [billStatus EXCEPT ![k] = "DRAFT"]
    /\ lines' = [lines EXCEPT ![k] = claimed[k]]
    /\ sold' = [sold EXCEPT ![k] = cart[k]]
    /\ pc' = [pc EXCEPT ![k] = "link"]
    /\ todo' = [todo EXCEPT ![k] = claimed[k]]
    /\ UNCHANGED <<tickets, claimed, cart, target>>

\* setBillId is unconditional.
LinkTicket(k, t) ==
    /\ pc[k] = "link"
    /\ t \in todo[k]
    /\ billId' = [billId EXCEPT ![t] = k]
    /\ late' = IF billStatus[k] = "CANCELLED" /\ ~ \E c \in Cancels : target[c] = k /\ pc[c] = "find"
               THEN late \cup {t} ELSE late
    /\ LoopTo(k, t, "done")
    /\ UNCHANGED <<status, extras, bills, claimed, cart, target>>

ReleaseTicket(k, t) ==
    /\ pc[k] = "rollback"
    /\ t \in todo[k]
    /\ ReopenTicket(t)
    /\ LoopTo(k, t, "failed")
    /\ UNCHANGED <<extras, late, bills, claimed, cart, target>>

\* An operation of the try block throws.
CheckoutThrows(k) ==
    /\ "dbError" \in Disturbances
    /\ pc[k] \in {"claim", "link"}
    /\ Unwind(k)
    /\ UNCHANGED <<tickets, bills, claimed, cart, target>>

\* An operation of the rollback throws: the error is swallowed, the ticket stays.
ReleaseThrows(k, t) ==
    /\ "dbError" \in Disturbances
    /\ pc[k] = "rollback"
    /\ t \in todo[k]
    /\ LoopTo(k, t, "failed")
    /\ UNCHANGED <<tickets, bills, claimed, cart, target>>

-----------------------------------------------------------------------------
(***************************************************************************)
(* The bill after the checkout.  Paying and refunding read the status and  *)
(* then compare-and-set on the same status, and touch no ticket: one step. *)
(* Their money is in BillMoney.                                            *)
(***************************************************************************)

CompleteBill(b) ==
    /\ billStatus[b] = "DRAFT"
    /\ billStatus' = [billStatus EXCEPT ![b] = "PAID"]
    /\ UNCHANGED <<tickets, lines, sold, requests>>

RefundReopensMutant(b) ==
    /\ billStatus[b] = "PAID"
    /\ billStatus' = [billStatus EXCEPT ![b] = "REFUNDED"]
    /\ status' = [t \in Tickets |-> IF billId[t] = b THEN "ACTIVE" ELSE status[t]]
    /\ UNCHANGED <<extras, billId, late, lines, sold, requests>>

RefundBill(b) ==
    /\ billStatus[b] = "PAID"
    /\ billStatus' = [billStatus EXCEPT ![b] = "REFUNDED"]
    /\ UNCHANGED <<tickets, lines, sold, requests>>

AllowedStatuses(c) == IF ActorOf[c] \in Admins THEN {"DRAFT", "PAID"} ELSE {"DRAFT"}

\* The read: a cashier only cancels his own bill, from a status his role allows.
BeginCancel(c, b) ==
    /\ pc[c] = "idle"
    /\ "earlyCancel" \in Disturbances \/ pc[b] \in Ended
    /\ ActorOf[c] \in Admins \/ ActorOf[c] = ActorOf[b]
    /\ billStatus[b] \in AllowedStatuses(c)
    /\ pc' = [pc EXCEPT ![c] = "cas"]
    /\ target' = [target EXCEPT ![c] = b]
    /\ UNCHANGED <<tickets, bills, todo, claimed, cart>>

CancelBillUncheckedMutant(c) ==
    /\ pc[c] = "cas"
    /\ billStatus' = [billStatus EXCEPT ![target[c]] = "CANCELLED"]
    /\ pc' = [pc EXCEPT ![c] = "find"]
    /\ UNCHANGED <<tickets, lines, sold, todo, claimed, cart, target>>

\* transitionIfStatusIn: conditioned on the statuses, whatever was read.
CancelBill(c) ==
    /\ pc[c] = "cas"
    /\ billStatus[target[c]] \in AllowedStatuses(c)
    /\ billStatus' = [billStatus EXCEPT ![target[c]] = "CANCELLED"]
    /\ pc' = [pc EXCEPT ![c] = "find"]
    /\ UNCHANGED <<tickets, lines, sold, todo, claimed, cart, target>>

CancelRefused(c) ==
    /\ pc[c] = "cas"
    /\ billStatus[target[c]] \notin AllowedStatuses(c)
    /\ pc' = [pc EXCEPT ![c] = "failed"]
    /\ UNCHANGED <<tickets, bills, todo, claimed, cart, target>>

FindOneMutant(c) ==
    /\ pc[c] = "find"
    /\ \E found \in SUBSET {t \in Tickets : billId[t] = target[c]} :
        /\ Cardinality(found) <= 1 /\ (found = {} => \A t \in Tickets : billId[t] # target[c])
        /\ todo' = [todo EXCEPT ![c] = found]
        /\ pc' = [pc EXCEPT ![c] = IF found = {} THEN "done" ELSE "reopen"]
    /\ UNCHANGED <<tickets, bills, claimed, cart, target>>

FindSessions(c) ==
    /\ pc[c] = "find"
    /\ LET found == {t \in Tickets : billId[t] = target[c]}
       IN  /\ todo' = [todo EXCEPT ![c] = found]
           /\ pc' = [pc EXCEPT ![c] = IF found = {} THEN "done" ELSE "reopen"]
    /\ UNCHANGED <<tickets, bills, claimed, cart, target>>

ReopenForCancel(c, t) ==
    /\ pc[c] = "reopen"
    /\ t \in todo[c]
    /\ ReopenTicket(t)
    /\ LoopTo(c, t, "done")
    /\ UNCHANGED <<extras, late, bills, claimed, cart, target>>

\* An operation of the handler throws: nothing catches it, the rest is not done.
CancelThrows(c) ==
    /\ "dbError" \in Disturbances
    /\ pc[c] \in {"cas", "find", "reopen"}
    /\ pc' = [pc EXCEPT ![c] = "failed"]
    /\ UNCHANGED <<tickets, bills, todo, claimed, cart, target>>

\* The process dies: the documents stay, the requests in flight are gone.  A checkout in
\* its rollback had failed already.
Crash ==
    /\ "crash" \in Disturbances
    /\ pc' = [r \in Requests |->
        IF pc[r] \in Ended \cup {"idle"} THEN pc[r]
        ELSE IF pc[r] = "rollback" THEN "failed" ELSE "crashed"]
    /\ UNCHANGED <<tickets, bills, todo, claimed, cart, target>>

-----------------------------------------------------------------------------

TicketStep == \E t \in Tickets :
    \/ VoidSession(t)
    \/ \E e \in Extras : AddExtra(t, e) \/ RemoveExtra(t, e)

CheckoutStep(k) ==
    \/ RefuseTicket(k) \/ RefuseDiscount(k) \/ CreateDraft(k)
    \/ \E t \in Tickets : Claim(k, t) \/ LinkTicket(k, t) \/ ReleaseTicket(k, t)

CancelStep(c) ==
    \/ CancelBill(c) \/ CancelRefused(c) \/ FindSessions(c)
    \/ \E t \in Tickets : ReopenForCancel(c, t)

BillStep(b) == CompleteBill(b) \/ RefundBill(b)

\* A request that arrives: nothing makes one arrive.
Arrival ==
    \/ \E k \in Checkouts, party \in SUBSET Tickets : BeginCheckout(k, party)
    \/ \E c \in Cancels, b \in Checkouts : BeginCancel(c, b)

Failure ==
    \/ Crash
    \/ \E c \in Cancels : CancelThrows(c)
    \/ \E k \in Checkouts :
        \/ CheckoutThrows(k)
        \/ \E t \in Tickets : ReleaseThrows(k, t)

Next ==
    \/ TicketStep \/ Arrival \/ Failure
    \/ \E k \in Checkouts : CheckoutStep(k) \/ BillStep(k)
    \/ \E c \in Cancels : CancelStep(c)

Spec == Init /\ [][Next]_vars

\* The event loop gets to every request whose operation has come back.
Fairness ==
    /\ \A k \in Checkouts : WF_vars(CheckoutStep(k))
    /\ \A c \in Cancels : WF_vars(CancelStep(c))

FairSpec == Spec /\ Fairness

-----------------------------------------------------------------------------
(***************************************************************************)
(* Properties.                                                             *)
(***************************************************************************)

\* A bill that stands.  A refund does not reopen: the visit happened.
Live(b) == billStatus[b] \in {"DRAFT", "PAID", "REFUNDED"}
OnLiveBill(t) == \E b \in Checkouts : Live(b) /\ t \in lines[b]

\* A ticket can never be billed twice (playSession.repository.ts, claimIfActive): among
\* the bills that stand at most one has a line for it, however the checkouts, rollbacks
\* and cancels of several cashiers interleave.
BilledOnce ==
    \A t \in Tickets, b1, b2 \in Checkouts :
        /\ Live(b1) /\ t \in lines[b1]
        /\ Live(b2) /\ t \in lines[b2]
        => b1 = b2

\* The tickets that a checkout which failed after writing its draft gave back to the play
\* area, or tried to: the catch block reopens them and leaves the draft.
GivenBack ==
    {t \in Tickets : \E b \in Checkouts : t \in lines[b] /\ pc[b] \in {"rollback", "failed"}}

\* And when operations do fail, a ticket is only ever on two bills because a checkout of it
\* failed after its draft was written.  No claim, cancel or crash does it by itself.  The
\* two bills need not be the failed one's: its rollback may reopen a ticket that another
\* checkout has claimed since, and a third one bills it again.
TwiceOnlyByFailedCheckout ==
    \A t \in Tickets \ GivenBack, b1, b2 \in Checkouts :
        /\ Live(b1) /\ t \in lines[b1]
        /\ Live(b2) /\ t \in lines[b2]
        => b1 = b2

ExtrasIn(t, items) == {e \in Extras : <<t, e>> \in items}

\* Everything sold on a ticket is on the bill the ticket names, and nothing else is
\* (addExtraIfActive: an extra added after checkout would never be billed;
\* removeExtraIfActive: once checked out, the extra is on a bill and stays there), through
\* crashes, cancels at any moment and failures before the draft.
ExtrasFrozen ==
    \A t \in Tickets \ GivenBack :
        status[t] = "CLOSED" /\ billId[t] # NoBill => extras[t] = ExtrasIn(t, sold[billId[t]])

\* The requests in whose hands a closed ticket is.
HeldBy(t) ==
    {k \in Checkouts :
        \/ pc[k] = "claim" /\ t \in claimed[k]
        \/ pc[k] = "rollback" /\ t \in todo[k]}
ReopenedBy(t) ==
    {c \in Cancels :
        \/ pc[c] = "find" /\ billId[t] = target[c]
        \/ pc[c] = "reopen" /\ t \in todo[c]}

\* The request died with the ticket in its hands: a checkout before its draft was written or
\* within its rollback, a cancel before it reopened the ticket.
LeftByTheDead(t) ==
    \/ \E k \in Checkouts :
        \/ pc[k] = "crashed" /\ billStatus[k] = "ABSENT" /\ t \in claimed[k]
        \/ pc[k] = "failed" /\ t \in todo[k]
    \/ \E c \in Cancels, b \in Checkouts :
        pc[c] = "crashed" /\ target[c] = b /\ billStatus[b] = "CANCELLED" /\ billId[t] = b

\* A cancel looks for the tickets that name the bill.  It misses those its checkout was
\* still to link, or died before it linked; a link that comes late does not reopen them.
MissedByCancel(t) ==
    \/ t \in late
    \/ \E b \in Checkouts :
        billStatus[b] = "CANCELLED" /\ pc[b] \in {"link", "crashed"} /\ t \in todo[b]

\* A half-finished checkout must never leave a ticket unbillable (bill.service.ts): a closed
\* ticket stands on a bill, or some request still at work will bill or reopen it - but for
\* those it was in the hands of when the process died, or that a cancel had no chance to
\* find.  Nothing else that the requests do, however they interleave with the death, leaves
\* a child's ticket unbillable.
StrandedOnlyByDeathOrMissed ==
    \A t \in Tickets :
        status[t] = "CLOSED" =>
            \/ OnLiveBill(t) \/ HeldBy(t) # {} \/ ReopenedBy(t) # {}
            \/ LeftByTheDead(t) \/ MissedByCancel(t)

(***************************************************************************)
(* Why BilledOnce holds when no operation fails: a closed ticket has one   *)
(* owner, the checkout that claimed it and then the bill of that checkout, *)
(* and only the owner, or the one cancel of the owner's bill, reopens it.  *)
(* When operations do fail, it is so of every ticket but those given back. *)
(***************************************************************************)
Owns(k, t) ==
    \/ pc[k] = "claim" /\ t \in claimed[k]
    \/ pc[k] \in {"link", "rollback"} /\ t \in todo[k]
    \/ Live(k) /\ t \in lines[k]
    \/ billId[t] = k

OwnedByOne ==
    \A t \in Tickets \ GivenBack, k1, k2 \in Checkouts : Owns(k1, t) /\ Owns(k2, t) => k1 = k2
OwnedIsClosed ==
    \A t \in Tickets \ GivenBack, k \in Checkouts : Owns(k, t) => status[t] = "CLOSED"
DraftTakesOver ==
    \A k \in Checkouts :
        /\ lines[k] = IF billStatus[k] = "ABSENT" THEN {} ELSE claimed[k]
        /\ pc[k] \in {"idle", "claim"} => billStatus[k] = "ABSENT"
        /\ pc[k] = "idle" => claimed[k] = {}
        /\ pc[k] = "link" => billStatus[k] # "ABSENT"
        /\ \A t \in Tickets : billId[t] = k => t \in lines[k]
        /\ pc[k] \in {"link", "rollback"} => todo[k] \subseteq claimed[k]
        /\ pc[k] \in {"rollback", "failed"} /\ "dbError" \notin Disturbances
            => billStatus[k] = "ABSENT"
LinkedLast ==
    \A k \in Checkouts, t \in Tickets \ GivenBack :
        \/ pc[k] = "claim" /\ t \in claimed[k]
        \/ pc[k] = "link" /\ t \in todo[k]
        => billId[t] = NoBill
CancelOwnsItsBill ==
    \A c \in Cancels :
        /\ pc[c] \in {"cas", "find", "reopen"} => target[c] \in Checkouts
        /\ pc[c] \in {"find", "reopen"} =>
            /\ billStatus[target[c]] = "CANCELLED"
            /\ \A d \in Cancels : pc[d] \in {"find", "reopen"} /\ target[d] = target[c] => d = c
        /\ pc[c] = "reopen" => \A t \in todo[c] \ GivenBack : billId[t] = target[c]

\* Every closed ticket has one owner, through crashes and cancels at any moment: the
\* claim, the rollback, the links and the reopening never work on another's ticket, but
\* for a ticket that was given back with its draft left standing.
Ownership ==
    OwnedByOne /\ OwnedIsClosed /\ DraftTakesOver /\ LinkedLast /\ CancelOwnsItsBill

\* Why ExtrasFrozen holds: from the claim on, what the owner carries is what the ticket has.
CartIsExtras ==
    /\ \A k \in Checkouts : cart[k] \subseteq claimed[k] \X Extras
    /\ \A k \in Checkouts, t \in Tickets \ GivenBack :
        /\ pc[k] = "claim" /\ t \in claimed[k] => extras[t] = ExtrasIn(t, cart[k])
        /\ (pc[k] = "link" /\ t \in todo[k]) \/ billId[t] = k
            => extras[t] = ExtrasIn(t, sold[k])

\* Why no cancel misses more: the tickets of a bill that stands name it, but for the ones its
\* checkout has still to link or died before it linked, so a cancel finds every other.
CancelFindsThem ==
    \A k \in Checkouts :
        Live(k) => \A t \in lines[k] :
            billId[t] = k \/ (pc[k] \in {"link", "crashed"} /\ t \in todo[k])

\* Why only one's own drafts are cancelled: the read, which the request goes on from.
CancelIsAllowed ==
    \A c \in Cancels :
        pc[c] = "cas" => ActorOf[c] \in Admins \/ ActorOf[c] = ActorOf[target[c]]

\* What a cashier cancels is his own bill and still a draft when it is cancelled, though
\* it may be paid between the handler's read and its write.
CashierCancelsOwnDraft ==
    [][\A b \in Checkouts :
        billStatus[b] # "CANCELLED" /\ billStatus'[b] = "CANCELLED" =>
            \E c \in Cancels :
                /\ target[c] = b /\ pc[c] = "cas" /\ pc'[c] # "cas"
                /\ \/ ActorOf[c] \in Admins
                   \/ ActorOf[c] = ActorOf[b] /\ billStatus[b] = "DRAFT"]_vars

\* A visit no bill stands for is not forgotten: the ticket comes to stand on a bill or goes
\* back to the play area (the rollback of a checkout, the reopening of a cancel), unless
\* the process dies on it or a cancel had no chance to find it.
NobodyInLimbo ==
    \A t \in Tickets :
        status[t] = "CLOSED" /\ ~OnLiveBill(t) ~>
            status[t] = "ACTIVE" \/ OnLiveBill(t) \/ LeftByTheDead(t) \/ MissedByCancel(t)

(***************************************************************************)
(* The checkout implements TicketBilling: between the claim and the draft, *)
(* and between the cancellation and the reopening, a visit is "leaving".   *)
(***************************************************************************)
Visit == [t \in Tickets |->
    IF status[t] = "ACTIVE" THEN "playing"
    ELSE IF status[t] = "VOIDED" THEN "voided"
    ELSE IF OnLiveBill(t) THEN "billed" ELSE "leaving"]
Payer == [t \in Tickets |->
    IF OnLiveBill(t) THEN CHOOSE b \in Checkouts : Live(b) /\ t \in lines[b] ELSE NoBill]
Issued == {b \in Checkouts : billStatus[b] # "ABSENT"}

Billing == INSTANCE TicketBilling WITH
    Bills <- Checkouts, phase <- Visit, payer <- Payer, issued <- Issued

\* Whole parties are billed at once, each visit on one bill, and a billed visit returns
\* only with the cancellation of its whole bill.
ImplementsBilling == Billing!Spec

=============================================================================
