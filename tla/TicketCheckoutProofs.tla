------------------------ MODULE TicketCheckoutProofs ------------------------
(***************************************************************************)
(* Theorems about TicketCheckout, for any set of tickets, extras and       *)
(* requests.                                                               *)
(***************************************************************************)
EXTENDS TicketCheckout, TLAPS

\* A step of r inside its loop changes its counter within PC and shrinks its list.
LEMMA LoopToType ==
    ASSUME NEW r \in Requests, NEW t \in Tickets, NEW next \in PC,
           pc \in [Requests -> PC], todo \in [Requests -> SUBSET Tickets],
           LoopTo(r, t, next)
    PROVE  pc' \in [Requests -> PC] /\ todo' \in [Requests -> SUBSET Tickets]
BY DEF LoopTo

\* Reopening keeps the two fields it writes within their types.
LEMMA ReopenTicketType ==
    ASSUME NEW t \in Tickets, ReopenTicket(t),
           status \in [Tickets -> SessionStatus],
           billId \in [Tickets -> Checkouts \cup {NoBill}]
    PROVE  /\ status' \in [Tickets -> SessionStatus]
           /\ billId' \in [Tickets -> Checkouts \cup {NoBill}]
BY DEF ReopenTicket, SessionStatus

\* Entering the rollback keeps the counter and the list of a checkout within their types.
LEMMA UnwindType ==
    ASSUME NEW k \in Checkouts, TypeOK, Unwind(k)
    PROVE  pc' \in [Requests -> PC] /\ todo' \in [Requests -> SUBSET Tickets]
BY DEF Unwind, TypeOK, PC, Ended, Requests

\* Every variable keeps its type.
THEOREM TypeCorrect == Spec => []TypeOK
<1>1. Init => TypeOK
  BY DEF Init, TypeOK, SessionStatus, BillStatus, PC, Requests
<1>2. TypeOK /\ [Next]_vars => TypeOK'
  <2> SUFFICES ASSUME TypeOK, [Next]_vars PROVE TypeOK'
    OBVIOUS
  <2> USE DEF tickets, bills, requests
  <2>1. CASE TicketStep
    <3>1. ASSUME NEW t \in Tickets, VoidSession(t) PROVE TypeOK'
      BY <3>1 DEF VoidSession, TypeOK, SessionStatus
    <3>2. ASSUME NEW t \in Tickets, NEW e \in Extras, AddExtra(t, e) PROVE TypeOK'
      BY <3>2 DEF AddExtra, TypeOK
    <3>3. ASSUME NEW t \in Tickets, NEW e \in Extras, RemoveExtra(t, e) PROVE TypeOK'
      BY <3>3 DEF RemoveExtra, TypeOK
    <3> QED BY <2>1, <3>1, <3>2, <3>3 DEF TicketStep
  <2>2. CASE Arrival
    <3>1. ASSUME NEW k \in Checkouts, NEW party \in SUBSET Tickets, BeginCheckout(k, party)
          PROVE  TypeOK'
      BY <3>1 DEF BeginCheckout, TypeOK, PC, Requests
    <3>2. ASSUME NEW c \in Cancels, NEW b \in Checkouts, BeginCancel(c, b) PROVE TypeOK'
      BY <3>2 DEF BeginCancel, TypeOK, PC, Requests
    <3> QED BY <2>2, <3>1, <3>2 DEF Arrival
  <2>3. ASSUME NEW k \in Checkouts, CheckoutStep(k) PROVE TypeOK'
    <3>1. CASE RefuseTicket(k)
      BY <3>1, UnwindType DEF RefuseTicket, TypeOK
    <3>2. CASE RefuseDiscount(k)
      BY <3>2, UnwindType DEF RefuseDiscount, TypeOK
    <3>3. CASE CreateDraft(k)
      BY <3>3 DEF CreateDraft, TypeOK, BillStatus, PC, Requests
    <3>4. ASSUME NEW t \in Tickets, Claim(k, t) PROVE TypeOK'
      <4>1. cart' \in [Checkouts -> SUBSET (Tickets \X Extras)]
        <5>1. {t} \X extras[t] \subseteq Tickets \X Extras
          BY DEF TypeOK
        <5> QED BY <3>4, <5>1 DEF Claim, Take, TypeOK
      <4> QED BY <3>4, <4>1 DEF Claim, Take, TypeOK, SessionStatus, Requests
    <3>5. ASSUME NEW t \in Tickets, LinkTicket(k, t) PROVE TypeOK'
      BY <3>5, LoopToType DEF LinkTicket, TypeOK, Requests, PC, Ended
    <3>6. ASSUME NEW t \in Tickets, ReleaseTicket(k, t) PROVE TypeOK'
      BY <3>6, LoopToType, ReopenTicketType DEF ReleaseTicket, TypeOK, Requests, PC, Ended
    <3> QED BY <2>3, <3>1, <3>2, <3>3, <3>4, <3>5, <3>6 DEF CheckoutStep
  <2>4. ASSUME NEW b \in Checkouts, BillStep(b) PROVE TypeOK'
    BY <2>4 DEF BillStep, CompleteBill, RefundBill, TypeOK, BillStatus
  <2>5. ASSUME NEW c \in Cancels, CancelStep(c) PROVE TypeOK'
    <3>1. CASE CancelBill(c)
      BY <3>1 DEF CancelBill, TypeOK, BillStatus, PC, Requests
    <3>2. CASE CancelRefused(c)
      BY <3>2 DEF CancelRefused, TypeOK, PC, Ended, Requests
    <3>3. CASE FindSessions(c)
      BY <3>3 DEF FindSessions, TypeOK, PC, Ended, Requests
    <3>4. ASSUME NEW t \in Tickets, ReopenForCancel(c, t) PROVE TypeOK'
      BY <3>4, LoopToType, ReopenTicketType
      DEF ReopenForCancel, TypeOK, Requests, PC, Ended
    <3> QED BY <2>5, <3>1, <3>2, <3>3, <3>4 DEF CancelStep
  <2>6. CASE Failure
    <3>1. CASE Crash
      BY <3>1 DEF Crash, TypeOK, PC, Ended
    <3>2. ASSUME NEW c \in Cancels, CancelThrows(c) PROVE TypeOK'
      BY <3>2 DEF CancelThrows, TypeOK, PC, Ended, Requests
    <3>3. ASSUME NEW k \in Checkouts, CheckoutThrows(k) PROVE TypeOK'
      BY <3>3, UnwindType DEF CheckoutThrows, TypeOK
    <3>4. ASSUME NEW k \in Checkouts, NEW t \in Tickets, ReleaseThrows(k, t) PROVE TypeOK'
      BY <3>4, LoopToType DEF ReleaseThrows, TypeOK, Requests, PC, Ended
    <3> QED BY <2>6, <3>1, <3>2, <3>3, <3>4 DEF Failure
  <2>7. CASE UNCHANGED vars
    BY <2>7 DEF vars, TypeOK
  <2> QED BY <2>1, <2>2, <2>3, <2>4, <2>5, <2>6, <2>7 DEF Next
<1> QED BY <1>1, <1>2, PTL DEF Spec

-----------------------------------------------------------------------------
(***************************************************************************)
(* Ownership, whatever disturbs the checkout: the inductive invariant is   *)
(* TypeOK /\ Ownership.  A step that gives no ticket away keeps it when    *)
(* the owners after it are owners before it.                               *)
(***************************************************************************)

\* What was given back stays so, and only a checkout failing after its draft adds to it.
LEMMA GivenBackKept ==
    ASSUME lines' = lines,
           \A b \in Checkouts :
               pc'[b] \in {"rollback", "failed"} <=> pc[b] \in {"rollback", "failed"}
    PROVE  GivenBack' = GivenBack
BY DEF GivenBack

\* A ticket changes nothing about who owns what unless it is claimed or reopened.
LEMMA TicketStepOwnership ==
    ASSUME TypeOK, Ownership, TicketStep
    PROVE  Ownership'
<1> USE DEF tickets, bills, requests
<1>1. /\ UNCHANGED <<billId, bills, requests>>
      /\ \A t \in Tickets : status[t] = "CLOSED" => status'[t] = "CLOSED"
  BY DEF TicketStep, VoidSession, AddExtra, RemoveExtra, TypeOK
<1>2. \A k \in Checkouts, t \in Tickets : Owns(k, t)' <=> Owns(k, t)
  BY <1>1 DEF Owns, Live
<1>3. GivenBack' = GivenBack
  BY <1>1, GivenBackKept
<1>4. OwnedByOne' /\ OwnedIsClosed'
  BY <1>1, <1>2, <1>3 DEF Ownership, OwnedByOne, OwnedIsClosed
<1> QED
  BY <1>1, <1>3, <1>4 DEF Ownership, DraftTakesOver, LinkedLast, CancelOwnsItsBill

\* A checkout that fails keeps what it claimed until it has reopened it; if its draft is
\* written, every ticket it had is given back.
LEMMA UnwindOwnership ==
    ASSUME TypeOK, Ownership, NEW k \in Checkouts, Unwind(k),
           pc[k] \in {"claim", "link"}, pc[k] = "claim" \/ "dbError" \in Disturbances,
           UNCHANGED <<tickets, bills, claimed, cart, target>>
    PROVE  Ownership'
<1> USE DEF tickets, bills
<1>0. k \in Requests /\ k \notin Cancels
  BY RequestsAreDisjoint DEF Requests
<1>1. /\ pc'[k] \in {"failed", "rollback"} /\ todo'[k] = claimed[k]
      /\ \A r \in Requests : r # k => pc'[r] = pc[r] /\ todo'[r] = todo[r]
  BY <1>0 DEF Unwind, TypeOK
<1>2. GivenBack \subseteq GivenBack'
  BY <1>1 DEF GivenBack, Requests
<1>3. \A t \in Tickets : pc[k] = "link" /\ t \in claimed[k] => t \in GivenBack'
  BY <1>1 DEF GivenBack, Ownership, DraftTakesOver
<1>4. \A j \in Checkouts, t \in Tickets : t \notin GivenBack' /\ Owns(j, t)' => Owns(j, t)
  BY <1>0, <1>1, <1>3 DEF Owns, Live, Requests
<1>5. OwnedByOne' /\ OwnedIsClosed'
  BY <1>2, <1>4 DEF Ownership, OwnedByOne, OwnedIsClosed
<1>6. DraftTakesOver'
  BY <1>0, <1>1 DEF Ownership, DraftTakesOver, Requests
<1>7. LinkedLast'
  BY <1>1, <1>2 DEF Ownership, LinkedLast, Requests
<1>8. CancelOwnsItsBill'
  BY <1>0, <1>1, <1>2 DEF Ownership, CancelOwnsItsBill, Requests
<1> QED BY <1>5, <1>6, <1>7, <1>8 DEF Ownership

\* The steps of a checkout: the claim finds a ticket nobody owns, the draft takes over
\* what was claimed, the links and the rollback stay within what the checkout owns.
LEMMA CheckoutStepOwnership ==
    ASSUME TypeOK, Ownership, NEW k \in Checkouts, CheckoutStep(k)
    PROVE  Ownership'
<1> USE DEF tickets, bills, requests
<1>0. k \in Requests /\ k \notin Cancels
  BY RequestsAreDisjoint DEF Requests
<1>1. CASE RefuseTicket(k) \/ RefuseDiscount(k)
  BY <1>1, UnwindOwnership DEF RefuseTicket, RefuseDiscount
<1>2. CASE CreateDraft(k)
  <2>1. \A j \in Checkouts, t \in Tickets : Owns(j, t)' => Owns(j, t)
    BY <1>0, <1>2 DEF CreateDraft, Owns, Live, TypeOK, Requests
  <2>2. /\ \A c \in Cancels : pc'[c] = pc[c] /\ todo'[c] = todo[c]
        /\ UNCHANGED <<tickets, claimed, target>>
        /\ pc[k] = "claim" /\ pc'[k] = "link" /\ todo'[k] = claimed[k]
        /\ lines'[k] = claimed[k]
        /\ \A j \in Checkouts \ {k} :
            /\ pc'[j] = pc[j] /\ todo'[j] = todo[j]
            /\ billStatus'[j] = billStatus[j] /\ lines'[j] = lines[j]
        /\ billStatus[k] = "ABSENT" /\ billStatus'[k] = "DRAFT"
    BY <1>0, <1>2 DEF CreateDraft, TypeOK, Requests, Ownership, DraftTakesOver
  <2>3. GivenBack' = GivenBack
    BY <2>2 DEF GivenBack
  <2>4. DraftTakesOver'
    BY <2>2 DEF Ownership, DraftTakesOver
  <2>5. CancelOwnsItsBill'
    BY <2>2, <2>3 DEF Ownership, CancelOwnsItsBill
  <2> QED
    BY <2>1, <2>2, <2>3, <2>4, <2>5
    DEF Ownership, OwnedByOne, OwnedIsClosed, LinkedLast
<1>3. ASSUME NEW u \in Tickets, Claim(k, u) PROVE Ownership'
  <2>1. /\ pc' = pc /\ UNCHANGED <<extras, billId, bills, target>>
        /\ \A j \in Requests : j # k => todo'[j] = todo[j]
        /\ \A j \in Checkouts : j # k => claimed'[j] = claimed[j]
        /\ pc[k] = "claim" /\ claimed'[k] = claimed[k] \cup {u}
        /\ status[u] = "ACTIVE" /\ status'[u] = "CLOSED"
        /\ \A t \in Tickets : t # u => status'[t] = status[t]
    BY <1>0, <1>3 DEF Claim, Take, TypeOK, Requests
  <2>2. GivenBack' = GivenBack
    BY <2>1, GivenBackKept
  <2>3. u \notin GivenBack => \A j \in Checkouts : ~Owns(j, u)
    BY <2>1 DEF Ownership, OwnedIsClosed
  <2>4. \A j \in Checkouts, t \in Tickets : Owns(j, t)' => Owns(j, t) \/ (j = k /\ t = u)
    BY <2>1, <1>0 DEF Owns, Live, Requests
  <2>5. OwnedByOne' /\ OwnedIsClosed'
    BY <2>1, <2>2, <2>3, <2>4 DEF Ownership, OwnedByOne, OwnedIsClosed
  <2>6. u \notin GivenBack => billId[u] = NoBill
    BY <2>3 DEF Owns, TypeOK
  <2>7. LinkedLast'
    BY <2>1, <2>2, <2>6, <1>0 DEF Ownership, LinkedLast, Requests
  <2>8. DraftTakesOver'
    BY <1>0, <2>1 DEF Ownership, DraftTakesOver, Requests
  <2>9. CancelOwnsItsBill'
    BY <1>0, <2>1, <2>2 DEF Ownership, CancelOwnsItsBill, Requests
  <2> QED BY <2>5, <2>7, <2>8, <2>9 DEF Ownership
<1>4. ASSUME NEW u \in Tickets, LinkTicket(k, u) PROVE Ownership'
  <2>1. /\ UNCHANGED <<status, extras, bills, claimed, target>>
        /\ \A j \in Requests : j # k => pc'[j] = pc[j] /\ todo'[j] = todo[j]
        /\ pc[k] = "link" /\ pc'[k] \in {"link", "done"} /\ todo'[k] = todo[k] \ {u}
        /\ u \in todo[k] /\ billId'[u] = k
        /\ \A t \in Tickets : t # u => billId'[t] = billId[t]
    BY <1>0, <1>4 DEF LinkTicket, LoopTo, TypeOK, Requests
  <2>2. GivenBack' = GivenBack
    BY <2>1, GivenBackKept DEF Requests
  <2>3. Owns(k, u) /\ (u \notin GivenBack => billId[u] = NoBill)
    BY <2>1 DEF Owns, Ownership, LinkedLast
  <2>4. \A j \in Checkouts, t \in Tickets : Owns(j, t)' => Owns(j, t)
    BY <2>1, <2>3 DEF Owns, Live, Requests
  <2>5. u \notin GivenBack => \A j \in Checkouts : j # k => ~Owns(j, u)
    BY <2>3 DEF Ownership, OwnedByOne
  <2>6. LinkedLast'
    BY <2>1, <2>2, <2>5 DEF Ownership, LinkedLast, Owns, Requests
  <2>7. u \notin GivenBack => \A c \in Cancels : pc[c] = "reopen" => u \notin todo[c]
    BY <2>3, NoBillIsNotACheckout DEF Ownership, CancelOwnsItsBill
  <2>8. CancelOwnsItsBill'
    BY <1>0, <2>1, <2>2, <2>7 DEF Ownership, CancelOwnsItsBill, Requests, TypeOK
  <2>9. OwnedByOne' /\ OwnedIsClosed'
    BY <2>1, <2>2, <2>4 DEF Ownership, OwnedByOne, OwnedIsClosed
  <2>10. DraftTakesOver'
    BY <2>1 DEF Ownership, DraftTakesOver, Requests
  <2> QED BY <2>6, <2>8, <2>9, <2>10 DEF Ownership
<1>5. ASSUME NEW u \in Tickets, ReleaseTicket(k, u) PROVE Ownership'
  <2>1. /\ UNCHANGED <<extras, bills, claimed, target>>
        /\ \A j \in Requests : j # k => pc'[j] = pc[j] /\ todo'[j] = todo[j]
        /\ pc[k] = "rollback" /\ pc'[k] \in {"rollback", "failed"} /\ todo'[k] = todo[k] \ {u}
        /\ u \in todo[k] /\ billId'[u] \in {billId[u], NoBill}
        /\ \A t \in Tickets : t # u => billId'[t] = billId[t] /\ status'[t] = status[t]
    BY <1>0, <1>5 DEF ReleaseTicket, ReopenTicket, LoopTo, TypeOK, Requests
  <2>2. GivenBack' = GivenBack
    BY <2>1, GivenBackKept DEF Requests
  <2>3. Owns(k, u)
    BY <2>1 DEF Owns
  <2>4. u \notin GivenBack => billStatus[k] = "ABSENT"
    BY <2>1 DEF GivenBack, Ownership, DraftTakesOver
  <2>5. u \notin GivenBack => billId'[u] = NoBill
    BY <1>5, <2>3 DEF ReleaseTicket, ReopenTicket, TypeOK, Ownership, OwnedIsClosed
  <2>6. u \notin GivenBack => \A j \in Checkouts : j # k => ~Owns(j, u)
    BY <2>3 DEF Ownership, OwnedByOne
  <2>7. \A j \in Checkouts, t \in Tickets \ GivenBack : Owns(j, t)' => Owns(j, t) /\ t # u
    BY <2>1, <2>4, <2>5, <2>6, NoBillIsNotACheckout DEF Owns, Live, Requests
  <2>8. OwnedByOne' /\ OwnedIsClosed'
    BY <2>1, <2>2, <2>7 DEF Ownership, OwnedByOne, OwnedIsClosed
  <2>9. LinkedLast'
    BY <2>1, <2>2, <2>5 DEF Ownership, LinkedLast, Requests
  <2>10. u \notin GivenBack => \A c \in Cancels : pc[c] = "reopen" => u \notin todo[c]
    BY <2>4, <2>6 DEF Ownership, CancelOwnsItsBill, Owns
  <2>11. CancelOwnsItsBill'
    BY <1>0, <2>1, <2>2, <2>10 DEF Ownership, CancelOwnsItsBill, Requests, TypeOK
  <2>12. DraftTakesOver'
    BY <2>1, NoBillIsNotACheckout DEF Ownership, DraftTakesOver, Requests
  <2> QED BY <2>8, <2>9, <2>11, <2>12 DEF Ownership
<1> QED BY <1>1, <1>2, <1>3, <1>4, <1>5 DEF CheckoutStep

\* Paying or refunding a bill that stands leaves it standing.
LEMMA BillStepOwnership ==
    ASSUME TypeOK, Ownership, NEW b \in Checkouts, BillStep(b)
    PROVE  Ownership'
<1> USE DEF tickets, bills, requests
<1>1. /\ UNCHANGED <<tickets, lines, sold, requests>>
      /\ billStatus[b] \in {"DRAFT", "PAID"} /\ billStatus'[b] \in {"PAID", "REFUNDED"}
      /\ \A k \in Checkouts : k # b => billStatus'[k] = billStatus[k]
  BY DEF BillStep, CompleteBill, RefundBill, TypeOK
<1>2. \A k \in Checkouts, t \in Tickets : Owns(k, t)' => Owns(k, t)
  BY <1>1 DEF Owns, Live
<1>3. GivenBack' = GivenBack
  BY <1>1, GivenBackKept
<1>4. DraftTakesOver'
  BY <1>1 DEF Ownership, DraftTakesOver
<1> QED
  BY <1>1, <1>2, <1>3, <1>4
  DEF Ownership, OwnedByOne, OwnedIsClosed, LinkedLast, CancelOwnsItsBill

\* The steps of a cancel: one cancel wins the bill, and what it reopens is that bill's.
LEMMA CancelStepOwnership ==
    ASSUME TypeOK, Ownership, NEW c \in Cancels, CancelStep(c)
    PROVE  Ownership'
<1> USE DEF tickets, bills, requests
<1>0. c \in Requests /\ c \notin Checkouts
  BY RequestsAreDisjoint DEF Requests
<1>1. CASE CancelBill(c)
  <2> DEFINE b == target[c]
  <2>1. /\ b \in Checkouts /\ billStatus[b] \in {"DRAFT", "PAID"}
        /\ billStatus'[b] = "CANCELLED"
        /\ \A k \in Checkouts : k # b => billStatus'[k] = billStatus[k]
        /\ UNCHANGED <<tickets, lines, sold, todo, claimed, cart, target>>
        /\ pc'[c] = "find" /\ \A r \in Requests : r # c => pc'[r] = pc[r]
    BY <1>0, <1>1
    DEF CancelBill, AllowedStatuses, TypeOK, Ownership, CancelOwnsItsBill, Requests
  <2>2. \A k \in Checkouts, t \in Tickets : Owns(k, t)' => Owns(k, t)
    BY <1>0, <2>1 DEF Owns, Live, Requests
  <2>3. GivenBack' = GivenBack
    BY <1>0, <2>1, GivenBackKept DEF Requests
  <2>4. \A d \in Cancels : d # c /\ pc[d] \in {"find", "reopen"} => target[d] # b
    BY <2>1 DEF Ownership, CancelOwnsItsBill
  <2>5. CancelOwnsItsBill'
    BY <1>0, <2>1, <2>3, <2>4 DEF Ownership, CancelOwnsItsBill, Requests
  <2>6. DraftTakesOver'
    BY <1>0, <2>1 DEF Ownership, DraftTakesOver, Requests
  <2> QED
    BY <1>0, <2>1, <2>2, <2>3, <2>5, <2>6
    DEF Ownership, OwnedByOne, OwnedIsClosed, LinkedLast, Requests
<1>2. CASE CancelRefused(c) \/ FindSessions(c)
  <2>1. /\ UNCHANGED <<tickets, bills, claimed, cart, target>>
        /\ pc[c] \in {"cas", "find"} /\ pc'[c] \in {"failed", "done", "reopen"}
        /\ pc'[c] \in {"done", "reopen"} => pc[c] = "find"
        /\ pc'[c] = "reopen" => \A t \in todo'[c] : billId[t] = target[c]
        /\ \A r \in Requests : r # c => pc'[r] = pc[r] /\ todo'[r] = todo[r]
    BY <1>0, <1>2 DEF CancelRefused, FindSessions, TypeOK, Requests
  <2>2. \A k \in Checkouts, t \in Tickets : Owns(k, t)' <=> Owns(k, t)
    BY <1>0, <2>1 DEF Owns, Live, Requests
  <2>3. GivenBack' = GivenBack
    BY <1>0, <2>1, GivenBackKept DEF Requests
  <2>4. CancelOwnsItsBill'
    BY <1>0, <2>1, <2>3 DEF Ownership, CancelOwnsItsBill, Requests
  <2>5. DraftTakesOver'
    BY <1>0, <2>1 DEF Ownership, DraftTakesOver, Requests
  <2> QED
    BY <1>0, <2>1, <2>2, <2>3, <2>4, <2>5
    DEF Ownership, OwnedByOne, OwnedIsClosed, LinkedLast, Requests
<1>3. ASSUME NEW u \in Tickets, ReopenForCancel(c, u) PROVE Ownership'
  <2> DEFINE b == target[c]
  <2>1. /\ UNCHANGED <<extras, bills, claimed, cart, target>>
        /\ pc[c] = "reopen" /\ pc'[c] \in {"reopen", "done"}
        /\ u \in todo[c] /\ todo'[c] = todo[c] \ {u}
        /\ \A r \in Requests : r # c => pc'[r] = pc[r] /\ todo'[r] = todo[r]
        /\ billId'[u] \in {billId[u], NoBill}
        /\ \A t \in Tickets : t # u => billId'[t] = billId[t] /\ status'[t] = status[t]
    BY <1>0, <1>3 DEF ReopenForCancel, ReopenTicket, LoopTo, TypeOK, Requests
  <2>2. GivenBack' = GivenBack
    BY <1>0, <2>1, GivenBackKept DEF Requests
  <2>3. b \in Checkouts /\ billStatus[b] = "CANCELLED" /\ (u \notin GivenBack => billId[u] = b)
    BY <2>1 DEF Ownership, CancelOwnsItsBill
  <2>4. u \notin GivenBack => Owns(b, u) /\ status[u] = "CLOSED"
    BY <2>3 DEF Owns, Ownership, OwnedIsClosed
  <2>5. u \notin GivenBack => billId'[u] = NoBill
    BY <1>3, <2>4 DEF ReopenForCancel, ReopenTicket, TypeOK
  <2>6. u \notin GivenBack => \A k \in Checkouts : k # b => ~Owns(k, u)
    BY <2>3, <2>4 DEF Ownership, OwnedByOne
  <2>7. u \notin GivenBack => ~(pc[b] = "rollback" /\ u \in todo[b])
    BY <2>3 DEF Ownership, DraftTakesOver, GivenBack
  <2>8. ~Live(b) /\ pc[b] # "claim"
    BY <2>3 DEF Live, Ownership, DraftTakesOver
  <2>9. u \notin GivenBack => ~(pc[b] = "link" /\ u \in todo[b])
    BY <2>3, NoBillIsNotACheckout DEF Ownership, LinkedLast
  <2>10. \A k \in Checkouts, t \in Tickets \ GivenBack : Owns(k, t)' => Owns(k, t) /\ t # u
    BY <1>0, <2>1, <2>3, <2>5, <2>6, <2>7, <2>8, <2>9, NoBillIsNotACheckout
    DEF Owns, Live, Requests
  <2>11. OwnedByOne' /\ OwnedIsClosed'
    BY <2>1, <2>2, <2>10 DEF Ownership, OwnedByOne, OwnedIsClosed
  <2>12. \A d \in Cancels : d # c /\ pc[d] = "reopen" => u \notin todo[d] \ GivenBack
    BY <2>1, <2>3 DEF Ownership, CancelOwnsItsBill
  <2>13. CancelOwnsItsBill'
    BY <1>0, <2>1, <2>2, <2>12 DEF Ownership, CancelOwnsItsBill, Requests, TypeOK
  <2>14. LinkedLast'
    BY <1>0, <2>1, <2>2, <2>5 DEF Ownership, LinkedLast, Requests
  <2>15. DraftTakesOver'
    BY <1>0, <2>1, NoBillIsNotACheckout DEF Ownership, DraftTakesOver, Requests
  <2> QED BY <2>11, <2>13, <2>14, <2>15 DEF Ownership
<1> QED BY <1>1, <1>2, <1>3 DEF CancelStep

\* A request that arrives owns nothing yet.
LEMMA ArrivalOwnership ==
    ASSUME TypeOK, Ownership, Arrival
    PROVE  Ownership'
<1> USE DEF tickets, bills, requests
<1>1. ASSUME NEW k \in Checkouts, NEW party \in SUBSET Tickets, BeginCheckout(k, party)
      PROVE  Ownership'
  <2>0. k \in Requests /\ k \notin Cancels
    BY RequestsAreDisjoint DEF Requests
  <2>1. /\ UNCHANGED <<tickets, bills, claimed, cart, target>>
        /\ pc[k] = "idle" /\ pc'[k] = "claim"
        /\ \A r \in Requests : r # k => pc'[r] = pc[r] /\ todo'[r] = todo[r]
    BY <1>1, <2>0 DEF BeginCheckout, TypeOK, Requests
  <2>2. claimed[k] = {} /\ billStatus[k] = "ABSENT"
    BY <2>1 DEF Ownership, DraftTakesOver
  <2>3. \A j \in Checkouts, t \in Tickets : Owns(j, t)' <=> Owns(j, t)
    BY <2>0, <2>1, <2>2 DEF Owns, Live, Requests
  <2>4. GivenBack' = GivenBack
    BY <2>1, GivenBackKept DEF Requests
  <2>5. DraftTakesOver'
    BY <2>1, <2>2 DEF Ownership, DraftTakesOver, Requests
  <2>6. CancelOwnsItsBill'
    BY <2>0, <2>1, <2>4 DEF Ownership, CancelOwnsItsBill, Requests
  <2> QED
    BY <2>0, <2>1, <2>2, <2>3, <2>4, <2>5, <2>6
    DEF Ownership, OwnedByOne, OwnedIsClosed, LinkedLast, Requests
<1>2. ASSUME NEW c \in Cancels, NEW b \in Checkouts, BeginCancel(c, b)
      PROVE  Ownership'
  <2>0. c \in Requests /\ c \notin Checkouts
    BY RequestsAreDisjoint DEF Requests
  <2>1. /\ UNCHANGED <<tickets, bills, todo, claimed, cart>>
        /\ pc'[c] = "cas" /\ target'[c] = b
        /\ \A r \in Requests : r # c => pc'[r] = pc[r]
        /\ \A d \in Cancels : d # c => target'[d] = target[d]
    BY <1>2, <2>0 DEF BeginCancel, TypeOK, Requests
  <2>2. \A j \in Checkouts, t \in Tickets : Owns(j, t)' <=> Owns(j, t)
    BY <2>0, <2>1 DEF Owns, Live, Requests
  <2>3. GivenBack' = GivenBack
    BY <2>0, <2>1, GivenBackKept DEF Requests
  <2>4. CancelOwnsItsBill'
    BY <2>0, <2>1, <2>3 DEF Ownership, CancelOwnsItsBill, Requests
  <2>5. DraftTakesOver'
    BY <2>0, <2>1 DEF Ownership, DraftTakesOver, Requests
  <2> QED
    BY <2>0, <2>1, <2>2, <2>3, <2>4, <2>5
    DEF Ownership, OwnedByOne, OwnedIsClosed, LinkedLast, Requests
<1> QED BY <1>1, <1>2 DEF Arrival

\* Failures: a crash only ever makes requests let go, and so does an operation that throws
\* in a cancel or in a rollback; one that throws in a checkout makes it fail.
LEMMA FailureOwnership ==
    ASSUME TypeOK, Ownership, Failure
    PROVE  Ownership'
<1> USE DEF tickets, bills, requests
<1>1. CASE Crash \/ \E c \in Cancels : CancelThrows(c)
  <2>1. /\ UNCHANGED <<tickets, bills, todo, claimed, cart, target>>
        /\ \A r \in Checkouts :
            pc'[r] \in {pc[r], "crashed"} \/ (pc[r] = "rollback" /\ pc'[r] = "failed")
        /\ \A r \in Checkouts : pc[r] = "rollback" => pc'[r] # "crashed"
        /\ \A r \in Checkouts : pc[r] = "failed" => pc'[r] = "failed"
        /\ \A c \in Cancels : pc'[c] = pc[c] \/ pc'[c] \in Ended
    BY <1>1, RequestsAreDisjoint DEF Crash, CancelThrows, TypeOK, PC, Ended, Requests
  <2>2. \A j \in Checkouts, t \in Tickets : Owns(j, t)' => Owns(j, t)
    BY <2>1 DEF Owns, Live
  <2>3. GivenBack' = GivenBack
    BY <2>1, GivenBackKept
  <2>4. DraftTakesOver'
    BY <2>1 DEF Ownership, DraftTakesOver
  <2>5. CancelOwnsItsBill'
    BY <2>1, <2>3 DEF Ownership, CancelOwnsItsBill, Ended
  <2> QED
    BY <2>1, <2>2, <2>3, <2>4, <2>5
    DEF Ownership, OwnedByOne, OwnedIsClosed, LinkedLast
<1>2. ASSUME NEW k \in Checkouts, CheckoutThrows(k) PROVE Ownership'
  BY <1>2, UnwindOwnership DEF CheckoutThrows
<1>3. ASSUME NEW k \in Checkouts, NEW u \in Tickets, ReleaseThrows(k, u) PROVE Ownership'
  <2>0. k \in Requests /\ k \notin Cancels
    BY RequestsAreDisjoint DEF Requests
  <2>1. /\ UNCHANGED <<tickets, bills, claimed, cart, target>>
        /\ \A j \in Requests : j # k => pc'[j] = pc[j] /\ todo'[j] = todo[j]
        /\ pc[k] = "rollback" /\ pc'[k] \in {"rollback", "failed"} /\ todo'[k] = todo[k] \ {u}
    BY <1>3, <2>0 DEF ReleaseThrows, LoopTo, TypeOK, Requests
  <2>2. \A j \in Checkouts, t \in Tickets : Owns(j, t)' => Owns(j, t)
    BY <2>0, <2>1 DEF Owns, Live, Requests
  <2>3. GivenBack' = GivenBack
    BY <2>1, GivenBackKept DEF Requests
  <2>4. DraftTakesOver'
    BY <2>1 DEF Ownership, DraftTakesOver, Requests
  <2>5. CancelOwnsItsBill'
    BY <2>0, <2>1, <2>3 DEF Ownership, CancelOwnsItsBill, Requests
  <2> QED
    BY <2>0, <2>1, <2>2, <2>3, <2>4, <2>5
    DEF Ownership, OwnedByOne, OwnedIsClosed, LinkedLast, Requests
<1> QED BY <1>1, <1>2, <1>3 DEF Failure

\* Every closed ticket that was not given back with its draft left standing has one owner,
\* through every interleaving, crash, cancel and failing operation.
THEOREM OwnershipHolds == Spec => []Ownership
<1>1. Init => Ownership
  BY NoBillIsNotACheckout
  DEF Init, Ownership, Owns, Live, OwnedByOne, OwnedIsClosed, DraftTakesOver, LinkedLast,
      CancelOwnsItsBill, GivenBack, Requests
<1>2. TypeOK /\ Ownership /\ [Next]_vars => Ownership'
  <2> SUFFICES ASSUME TypeOK, Ownership, [Next]_vars PROVE Ownership'
    OBVIOUS
  <2>1. CASE UNCHANGED vars
    BY <2>1
    DEF vars, Ownership, Owns, Live, OwnedByOne, OwnedIsClosed, DraftTakesOver, LinkedLast,
        CancelOwnsItsBill, GivenBack
  <2> QED
    BY <2>1, TicketStepOwnership, CheckoutStepOwnership, BillStepOwnership,
       CancelStepOwnership, ArrivalOwnership, FailureOwnership
    DEF Next
<1> QED BY <1>1, <1>2, TypeCorrect, PTL DEF Spec

\* A ticket is on two bills only after a checkout of it failed with its draft written: with
\* any number of tickets, checkouts and cancels, whatever fails and whenever.
THEOREM OnlyFailedCheckoutsBillTwice == Spec => []TwiceOnlyByFailedCheckout
<1>1. Ownership => TwiceOnlyByFailedCheckout
  BY DEF Ownership, OwnedByOne, Owns, TwiceOnlyByFailedCheckout
<1> QED BY <1>1, OwnershipHolds, PTL

\* A checkout that fails has written nothing, as long as no operation fails.
LEMMA NothingGivenBack ==
    ASSUME "dbError" \notin Disturbances, Ownership
    PROVE  GivenBack = {}
BY DEF Ownership, DraftTakesOver, GivenBack

\* A ticket can never be billed twice, as long as no operation fails: not with any number
\* of tickets, checkouts and cancels, nor if the process dies between any two steps.
THEOREM TicketsAreBilledOnce ==
    ASSUME "dbError" \notin Disturbances
    PROVE  Spec => []BilledOnce
<1>1. Ownership => BilledOnce
  BY NothingGivenBack DEF Ownership, OwnedByOne, Owns, BilledOnce
<1> QED BY <1>1, OwnershipHolds, PTL

-----------------------------------------------------------------------------
(***************************************************************************)
(* ExtrasFrozen.  The inductive invariant is TypeOK /\ Ownership /\        *)
(* CartIsExtras: a ticket with an owner is closed, so its extras stand     *)
(* still from the claim, which reads them, to the line and the link.       *)
(***************************************************************************)

\* A bill keeps its lines and a failed checkout stays failed.
LEMMA GivenBackStays ==
    ASSUME TypeOK, Ownership, [Next]_vars
    PROVE  GivenBack \subseteq GivenBack'
<1> USE DEF tickets, bills, requests
<1> DEFINE Failing(k) == pc[k] \in {"rollback", "failed"}
<1> SUFFICES \A k \in Checkouts :
        lines[k] \subseteq lines'[k] /\ (Failing(k) => pc'[k] \in {"rollback", "failed"})
  BY DEF GivenBack
<1>1. CASE TicketStep
  BY <1>1 DEF TicketStep, VoidSession, AddExtra, RemoveExtra
<1>2. CASE Arrival
  BY <1>2, RequestsAreDisjoint DEF Arrival, BeginCheckout, BeginCancel, TypeOK, Requests
<1>3. CASE Failure
  BY <1>3, RequestsAreDisjoint
  DEF Failure, Crash, CancelThrows, CheckoutThrows, Unwind, ReleaseThrows, LoopTo, TypeOK,
      Requests, PC, Ended
<1>4. ASSUME NEW j \in Checkouts, CheckoutStep(j)
      PROVE  \A k \in Checkouts :
          lines[k] \subseteq lines'[k] /\ (Failing(k) => pc'[k] \in {"rollback", "failed"})
  <2>1. CASE CreateDraft(j)
    BY <2>1 DEF CreateDraft, TypeOK, Requests, Ownership, DraftTakesOver
  <2>2. CASE ~CreateDraft(j)
    BY <1>4, <2>2
    DEF CheckoutStep, RefuseTicket, RefuseDiscount, Unwind, Claim, Take, LinkTicket,
        ReleaseTicket, LoopTo, TypeOK, Requests
  <2> QED BY <2>1, <2>2
<1>5. ASSUME NEW b \in Checkouts, BillStep(b)
      PROVE  \A k \in Checkouts :
          lines[k] \subseteq lines'[k] /\ (Failing(k) => pc'[k] \in {"rollback", "failed"})
  BY <1>5 DEF BillStep, CompleteBill, RefundBill
<1>6. ASSUME NEW c \in Cancels, CancelStep(c)
      PROVE  \A k \in Checkouts :
          lines[k] \subseteq lines'[k] /\ (Failing(k) => pc'[k] \in {"rollback", "failed"})
  BY <1>6, RequestsAreDisjoint
  DEF CancelStep, CancelBill, CancelRefused, FindSessions, ReopenForCancel, LoopTo, TypeOK,
      Requests
<1>7. CASE UNCHANGED vars
  BY <1>7 DEF vars
<1> QED BY <1>1, <1>2, <1>3, <1>4, <1>5, <1>6, <1>7 DEF Next

\* Extras are sold and taken back on tickets that nobody owns.
LEMMA TicketStepCart ==
    ASSUME TypeOK, Ownership, CartIsExtras, TicketStep
    PROVE  CartIsExtras'
<1> USE DEF tickets, bills, requests
<1>1. PICK u \in Tickets : VoidSession(u) \/ \E e \in Extras : AddExtra(u, e) \/ RemoveExtra(u, e)
  BY DEF TicketStep
<1>2. /\ status[u] = "ACTIVE" /\ UNCHANGED <<billId, bills, requests>>
      /\ \A t \in Tickets : t # u => extras'[t] = extras[t]
  BY <1>1 DEF VoidSession, AddExtra, RemoveExtra, TypeOK
<1>3. u \notin GivenBack => \A k \in Checkouts : ~Owns(k, u)
  BY <1>2 DEF Ownership, OwnedIsClosed
<1>4. GivenBack' = GivenBack
  BY <1>2, GivenBackKept
<1> QED BY <1>2, <1>3, <1>4 DEF CartIsExtras, ExtrasIn, Owns

\* A checkout reads the extras at the claim, and carries them to the bill and the link.
LEMMA CheckoutStepCart ==
    ASSUME TypeOK, Ownership, CartIsExtras, NEW k \in Checkouts, CheckoutStep(k),
           GivenBack \subseteq GivenBack'
    PROVE  CartIsExtras'
<1> USE DEF tickets, bills, requests
<1>0. k \in Requests
  BY DEF Requests
<1>1. CASE RefuseTicket(k) \/ RefuseDiscount(k)
  <2>1. /\ UNCHANGED <<tickets, bills, claimed, cart>>
        /\ pc'[k] \in {"failed", "rollback"}
        /\ \A j \in Checkouts \ {k} : pc'[j] = pc[j] /\ todo'[j] = todo[j]
    BY <1>0, <1>1 DEF RefuseTicket, RefuseDiscount, Unwind, TypeOK, Requests
  <2> QED BY <2>1 DEF CartIsExtras, ExtrasIn
<1>2. CASE CreateDraft(k)
  <2>1. /\ UNCHANGED <<tickets, claimed, cart>>
        /\ pc[k] = "claim" /\ pc'[k] = "link" /\ todo'[k] = claimed[k]
        /\ sold'[k] = cart[k] /\ lines[k] = {}
        /\ \A j \in Checkouts \ {k} :
            pc'[j] = pc[j] /\ todo'[j] = todo[j] /\ sold'[j] = sold[j]
    BY <1>0, <1>2 DEF CreateDraft, TypeOK, Requests, Ownership, DraftTakesOver
  <2>2. \A t \in Tickets : billId[t] # k
    BY <2>1 DEF Ownership, DraftTakesOver
  <2> QED BY <2>1, <2>2 DEF CartIsExtras, ExtrasIn
<1>3. ASSUME NEW u \in Tickets, Claim(k, u) PROVE CartIsExtras'
  <2>1. /\ pc' = pc /\ UNCHANGED <<extras, billId, bills>>
        /\ \A j \in Checkouts \ {k} :
            todo'[j] = todo[j] /\ claimed'[j] = claimed[j] /\ cart'[j] = cart[j]
        /\ pc[k] = "claim" /\ claimed'[k] = claimed[k] \cup {u}
        /\ cart'[k] = cart[k] \cup ({u} \X extras[u])
        /\ status[u] = "ACTIVE" /\ extras[u] \subseteq Extras
    BY <1>0, <1>3 DEF Claim, Take, TypeOK, Requests
  <2>2. u \notin GivenBack => u \notin claimed[k]
    BY <2>1 DEF Ownership, OwnedIsClosed, Owns
  <2>3. \A j \in Checkouts : cart'[j] \subseteq claimed'[j] \X Extras
    BY <2>1 DEF CartIsExtras
  <2>4. \A t \in Tickets : t # u => ExtrasIn(t, cart'[k]) = ExtrasIn(t, cart[k])
    BY <2>1 DEF ExtrasIn
  <2>5. u \notin GivenBack => ExtrasIn(u, cart'[k]) = extras[u]
    BY <2>1, <2>2 DEF ExtrasIn, CartIsExtras
  <2>6. \A j \in Checkouts, t \in Tickets \ GivenBack :
          pc'[j] = "claim" /\ t \in claimed'[j] => extras'[t] = ExtrasIn(t, cart'[j])
    <3> SUFFICES ASSUME NEW j \in Checkouts, NEW t \in Tickets \ GivenBack,
                        pc'[j] = "claim", t \in claimed'[j]
                 PROVE  extras'[t] = ExtrasIn(t, cart'[j])
      OBVIOUS
    <3>1. CASE j # k
      BY <2>1, <3>1 DEF CartIsExtras
    <3>2. CASE j = k /\ t = u
      BY <2>1, <2>5, <3>2
    <3>3. CASE j = k /\ t # u
      <4>1. t \in claimed[k] /\ extras[t] = ExtrasIn(t, cart[k])
        BY <2>1, <3>3 DEF CartIsExtras
      <4> QED BY <2>1, <2>4, <3>3, <4>1
    <3> QED BY <3>1, <3>2, <3>3
  <2>7. \A j \in Checkouts, t \in Tickets \ GivenBack :
          (pc'[j] = "link" /\ t \in todo'[j]) \/ billId'[t] = j
            => extras'[t] = ExtrasIn(t, sold'[j])
    BY <2>1 DEF CartIsExtras
  <2> QED BY <2>3, <2>6, <2>7 DEF CartIsExtras, ExtrasIn
<1>4. ASSUME NEW u \in Tickets, LinkTicket(k, u) PROVE CartIsExtras'
  <2>1. /\ UNCHANGED <<extras, bills, claimed, cart>>
        /\ \A j \in Checkouts \ {k} : pc'[j] = pc[j] /\ todo'[j] = todo[j]
        /\ pc[k] = "link" /\ pc'[k] \in {"link", "done"} /\ todo'[k] = todo[k] \ {u}
        /\ u \in todo[k] /\ billId'[u] = k
        /\ \A t \in Tickets : t # u => billId'[t] = billId[t]
    BY <1>0, <1>4 DEF LinkTicket, LoopTo, TypeOK, Requests
  <2>2. \A j \in Checkouts \ {k} : u \notin GivenBack => ~(pc[j] = "link" /\ u \in todo[j])
    BY <2>1 DEF Ownership, OwnedByOne, Owns
  <2> QED BY <2>1, <2>2 DEF CartIsExtras, ExtrasIn
<1>5. ASSUME NEW u \in Tickets, ReleaseTicket(k, u) PROVE CartIsExtras'
  <2>1. /\ UNCHANGED <<extras, bills, claimed, cart>>
        /\ \A j \in Checkouts \ {k} : pc'[j] = pc[j] /\ todo'[j] = todo[j]
        /\ pc'[k] \in {"rollback", "failed"}
        /\ \A t \in Tickets : billId'[t] \in {billId[t], NoBill}
    BY <1>0, <1>5 DEF ReleaseTicket, ReopenTicket, LoopTo, TypeOK, Requests
  <2> QED BY <2>1, NoBillIsNotACheckout DEF CartIsExtras, ExtrasIn
<1> QED BY <1>1, <1>2, <1>3, <1>4, <1>5 DEF CheckoutStep

\* What the ticket carries is what its owner carries, from the claim on.
LEMMA CartIsExtrasHolds == Spec => []CartIsExtras
<1>1. Init => CartIsExtras
  BY NoBillIsNotACheckout DEF Init, CartIsExtras, ExtrasIn, Requests
<1>2. TypeOK /\ Ownership /\ CartIsExtras /\ [Next]_vars => CartIsExtras'
  <2> SUFFICES ASSUME TypeOK, Ownership, CartIsExtras, [Next]_vars PROVE CartIsExtras'
    OBVIOUS
  <2> USE DEF tickets, bills, requests
  <2>0. GivenBack \subseteq GivenBack'
    BY GivenBackStays
  <2>1. CASE Arrival \/ Failure \/ (\E b \in Checkouts : BillStep(b))
              \/ (\E c \in Cancels : CancelStep(c)) \/ UNCHANGED vars
    <3>1. /\ UNCHANGED <<extras, sold, claimed, cart>>
          /\ \A t \in Tickets : billId'[t] \in {billId[t], NoBill}
      BY <2>1
      DEF Arrival, BeginCheckout, BeginCancel, Failure, Crash, CancelThrows, CheckoutThrows,
          ReleaseThrows, BillStep, CompleteBill, RefundBill, CancelStep, CancelBill,
          CancelRefused, FindSessions, ReopenForCancel, ReopenTicket, TypeOK, vars
    <3>2. \A k \in Checkouts :
            /\ pc'[k] = "claim" => pc[k] = "claim" \/ claimed[k] = {}
            /\ pc'[k] = "link" => pc[k] = "link" /\ todo'[k] = todo[k]
      BY <2>1, RequestsAreDisjoint
      DEF Arrival, BeginCheckout, BeginCancel, Failure, Crash, CancelThrows, CheckoutThrows,
          Unwind, ReleaseThrows, LoopTo, BillStep, CompleteBill, RefundBill, CancelStep,
          CancelBill, CancelRefused, FindSessions, ReopenForCancel, TypeOK, vars, Requests,
          Ownership, DraftTakesOver, PC, Ended
    <3> QED BY <2>0, <3>1, <3>2, NoBillIsNotACheckout DEF CartIsExtras, ExtrasIn
  <2> QED BY <2>0, <2>1, TicketStepCart, CheckoutStepCart DEF Next
<1> QED BY <1>1, <1>2, TypeCorrect, OwnershipHolds, PTL DEF Spec

\* The bill a closed ticket names has a line for every extra the ticket carries and for no
\* other, unless the ticket was given back with its draft left standing.
THEOREM ExtrasStayFrozen == Spec => []ExtrasFrozen
<1>1. TypeOK /\ CartIsExtras => ExtrasFrozen
  BY DEF TypeOK, CartIsExtras, ExtrasFrozen
<1> QED BY <1>1, TypeCorrect, CartIsExtrasHolds, PTL

-----------------------------------------------------------------------------
(***************************************************************************)
(* Whom a closed ticket is left to, as long as no operation fails.  The    *)
(* inductive invariant adds CancelFindsThem: the tickets of a bill that    *)
(* stands name it, but for those its checkout has yet to link or died      *)
(* before it linked, so the cancel that takes the bill away finds the rest.*)
(***************************************************************************)

\* A bill that stands has linked its tickets, is linking them or died before it could.
LEMMA CancelFindsThemStep ==
    ASSUME "dbError" \notin Disturbances, TypeOK, Ownership, CancelFindsThem, [Next]_vars
    PROVE  CancelFindsThem'
<1> USE DEF tickets, bills, requests
<1>0. GivenBack = {}
  BY NothingGivenBack
<1>1. CASE TicketStep
  <2>1. UNCHANGED <<billId, bills, requests>>
    BY <1>1 DEF TicketStep, VoidSession, AddExtra, RemoveExtra
  <2> QED BY <2>1 DEF CancelFindsThem, Live
<1>2. CASE Arrival
  <2>1. /\ UNCHANGED <<tickets, bills>>
        /\ \A k \in Checkouts : (pc'[k] = pc[k] /\ todo'[k] = todo[k]) \/ pc[k] = "idle"
    BY <1>2, RequestsAreDisjoint
    DEF Arrival, BeginCheckout, BeginCancel, TypeOK, Requests
  <2>2. \A k \in Checkouts : pc[k] = "idle" => ~Live(k)
    BY DEF Ownership, DraftTakesOver, Live
  <2> QED BY <2>1, <2>2 DEF CancelFindsThem, Live
<1>3. CASE Failure
  <2>1. /\ UNCHANGED <<tickets, bills, todo>>
        /\ \A r \in Requests : pc[r] \in {"link", "crashed"} => pc'[r] \in {"link", "crashed"}
    BY <1>3
    DEF Failure, Crash, CancelThrows, CheckoutThrows, ReleaseThrows, TypeOK, Requests, Ended
  <2> QED BY <2>1 DEF CancelFindsThem, Live, Requests
<1>4. ASSUME NEW k \in Checkouts, CheckoutStep(k) PROVE CancelFindsThem'
  <2>0. k \in Requests /\ k \notin Cancels
    BY RequestsAreDisjoint DEF Requests
  <2>2. /\ \A r \in Requests : r # k => pc'[r] = pc[r] /\ todo'[r] = todo[r]
        /\ \A j \in Checkouts \ {k} : billStatus'[j] = billStatus[j] /\ lines'[j] = lines[j]
    BY <1>4, <2>0
    DEF CheckoutStep, RefuseTicket, RefuseDiscount, Unwind, CreateDraft, Claim, Take,
        LinkTicket, ReleaseTicket, LoopTo, TypeOK, Requests
  <2>4. CASE RefuseTicket(k) \/ RefuseDiscount(k)
    <3>1. ~Live(k)' /\ pc'[k] # "link" /\ billId' = billId
      BY <2>0, <2>4
      DEF RefuseTicket, RefuseDiscount, Unwind, TypeOK, Live, Ownership, DraftTakesOver
    <3> QED BY <2>2, <3>1 DEF CancelFindsThem, Live, Requests
  <2>5. CASE CreateDraft(k)
    <3>1. /\ billStatus'[k] = "DRAFT" /\ lines'[k] = claimed[k] /\ todo'[k] = claimed[k]
          /\ pc'[k] = "link" /\ billId' = billId
      BY <2>0, <2>5 DEF CreateDraft, TypeOK
    <3> QED BY <2>2, <3>1 DEF CancelFindsThem, Live, Requests
  <2>6. ASSUME NEW u \in Tickets, Claim(k, u) PROVE CancelFindsThem'
    <3>1. ~Live(k)' /\ pc'[k] # "link" /\ billId' = billId
      BY <2>6 DEF Claim, Take, Live, Ownership, DraftTakesOver
    <3> QED BY <2>2, <3>1 DEF CancelFindsThem, Live, Requests
  <2>7. ASSUME NEW u \in Tickets, LinkTicket(k, u) PROVE CancelFindsThem'
    <3>1. /\ UNCHANGED bills /\ pc[k] = "link" /\ u \in todo[k] /\ todo'[k] = todo[k] \ {u}
          /\ pc'[k] \in {"link", "done"} /\ (pc'[k] = "done" => todo[k] = {u})
          /\ billId'[u] = k /\ \A t \in Tickets : t # u => billId'[t] = billId[t]
      BY <2>0, <2>7 DEF LinkTicket, LoopTo, TypeOK
    <3>2. \A j \in Checkouts \ {k} : ~(Live(j) /\ u \in lines[j])
      BY <1>0, <3>1 DEF Ownership, OwnedByOne, Owns
    <3>3. \A j \in Checkouts, t \in Tickets :
            Live(j) /\ t \in lines[j] =>
                billId'[t] = j \/ (pc'[j] \in {"link", "crashed"} /\ t \in todo'[j])
      BY <2>2, <3>1, <3>2 DEF CancelFindsThem, Requests
    <3> QED BY <2>2, <3>1, <3>3 DEF CancelFindsThem, Live, TypeOK, Requests
  <2>8. ASSUME NEW u \in Tickets, ReleaseTicket(k, u) PROVE CancelFindsThem'
    <3>1. /\ UNCHANGED bills /\ pc[k] = "rollback" /\ u \in todo[k] /\ pc'[k] # "link"
          /\ \A t \in Tickets : t # u => billId'[t] = billId[t]
      BY <2>0, <2>8 DEF ReleaseTicket, ReopenTicket, LoopTo, TypeOK
    <3>2. \A j \in Checkouts \ {k} : ~(Live(j) /\ u \in lines[j])
      BY <1>0, <3>1 DEF Ownership, OwnedByOne, Owns
    <3>3. ~Live(k)
      BY <3>1 DEF Ownership, DraftTakesOver, Live
    <3>4. \A j \in Checkouts, t \in Tickets :
            Live(j) /\ t \in lines[j] =>
                billId'[t] = j \/ (pc'[j] \in {"link", "crashed"} /\ t \in todo'[j])
      BY <2>2, <3>1, <3>2, <3>3 DEF CancelFindsThem, Requests
    <3> QED BY <2>2, <3>1, <3>4 DEF CancelFindsThem, Live, TypeOK, Requests
  <2> QED BY <1>4, <2>4, <2>5, <2>6, <2>7, <2>8 DEF CheckoutStep
<1>5. ASSUME NEW b \in Checkouts, BillStep(b) PROVE CancelFindsThem'
  <2>1. /\ UNCHANGED <<tickets, lines, requests>> /\ Live(b)
        /\ \A k \in Checkouts : Live(k)' <=> Live(k)
    BY <1>5 DEF BillStep, CompleteBill, RefundBill, Live, TypeOK
  <2> QED BY <2>1 DEF CancelFindsThem
<1>6. ASSUME NEW c \in Cancels, CancelStep(c) PROVE CancelFindsThem'
  <2>0. c \in Requests /\ c \notin Checkouts
    BY RequestsAreDisjoint DEF Requests
  <2>1. /\ UNCHANGED lines
        /\ \A r \in Requests : r # c => pc'[r] = pc[r] /\ todo'[r] = todo[r]
    BY <1>6, <2>0
    DEF CancelStep, CancelBill, CancelRefused, FindSessions, ReopenForCancel, LoopTo, TypeOK,
        Requests
  <2>2. pc[c] = "reopen" => target[c] \in Checkouts
    BY DEF Ownership, CancelOwnsItsBill
  <2>4. \A k \in Checkouts : Live(k)' => Live(k)
    BY <1>6
    DEF CancelStep, CancelBill, CancelRefused, FindSessions, ReopenForCancel, Live, TypeOK
  <2>5. \A k \in Checkouts, t \in Tickets :
          Live(k)' /\ t \in lines[k] => billId'[t] = billId[t]
    <3>1. CASE \E u \in Tickets : ReopenForCancel(c, u)
      <4>1. PICK u \in Tickets : ReopenForCancel(c, u)
        BY <3>1
      <4>2. /\ billStatus' = billStatus /\ pc[c] = "reopen" /\ u \in todo[c]
            /\ \A t \in Tickets : t # u => billId'[t] = billId[t]
        BY <4>1 DEF ReopenForCancel, ReopenTicket, TypeOK
      <4>3. billId[u] = target[c] /\ billStatus[target[c]] = "CANCELLED"
        BY <1>0, <4>2 DEF Ownership, CancelOwnsItsBill
      <4>4. \A k \in Checkouts : ~(Live(k) /\ u \in lines[k])
        BY <1>0, <2>2, <4>2, <4>3 DEF Ownership, OwnedByOne, Owns, Live
      <4> QED BY <2>4, <4>2, <4>4
    <3>2. CASE ~\E u \in Tickets : ReopenForCancel(c, u)
      BY <1>6, <3>2 DEF CancelStep, CancelBill, CancelRefused, FindSessions
    <3> QED BY <3>1, <3>2
  <2> QED BY <2>0, <2>1, <2>4, <2>5 DEF CancelFindsThem, TypeOK, Requests
<1>7. CASE UNCHANGED vars
  BY <1>7 DEF vars, CancelFindsThem, Live
<1> QED BY <1>1, <1>2, <1>3, <1>4, <1>5, <1>6, <1>7 DEF Next

\* Who accounts for a closed ticket, and why nobody does: the parts of
\* StrandedOnlyByDeathOrMissed, under two names.
Answers(t) == OnLiveBill(t) \/ HeldBy(t) # {} \/ ReopenedBy(t) # {}
Stranded(t) == LeftByTheDead(t) \/ MissedByCancel(t)

\* A closed ticket keeps the bill it names: a link finds it naming none or the same, and
\* a reopening opens it.
LEMMA ClosedKeepsItsBill ==
    ASSUME "dbError" \notin Disturbances, TypeOK, Ownership, [Next]_vars,
           NEW t \in Tickets, status[t] = "CLOSED", status'[t] = "CLOSED",
           billId[t] \in Checkouts
    PROVE  billId'[t] = billId[t]
<1> USE DEF tickets, bills, requests
<1>0. GivenBack = {}
  BY NothingGivenBack
<1>1. ASSUME NEW k \in Checkouts, NEW u \in Tickets, LinkTicket(k, u)
      PROVE  billId'[t] = billId[t]
  <2>1. CASE u = t
    <3>1. Owns(k, t) /\ Owns(billId[t], t)
      BY <1>1, <2>1 DEF LinkTicket, Owns
    <3>2. billId[t] = k
      BY <1>0, <3>1 DEF Ownership, OwnedByOne
    <3> QED BY <1>1, <2>1, <3>2 DEF LinkTicket, TypeOK
  <2> QED BY <1>1, <2>1 DEF LinkTicket, TypeOK
<1>2. ASSUME NEW u \in Tickets, ReopenTicket(u) PROVE billId'[t] = billId[t]
  BY <1>2 DEF ReopenTicket, TypeOK
<1> QED
  BY <1>1, <1>2
  DEF Next, TicketStep, VoidSession, AddExtra, RemoveExtra, Arrival, BeginCheckout,
      BeginCancel, Failure, Crash, CancelThrows, CheckoutThrows, ReleaseThrows, CheckoutStep,
      RefuseTicket, RefuseDiscount, CreateDraft, Claim, Take, ReleaseTicket, BillStep,
      CompleteBill, RefundBill, CancelStep, CancelBill, CancelRefused, FindSessions,
      ReopenForCancel, vars

\* What was linked late stays so.
LEMMA LateGrows ==
    ASSUME [Next]_vars PROVE late \subseteq late'
BY DEF Next, TicketStep, VoidSession, AddExtra, RemoveExtra, Arrival, BeginCheckout,
       BeginCancel, Failure, Crash, CancelThrows, CheckoutThrows, ReleaseThrows, CheckoutStep,
       RefuseTicket, RefuseDiscount, CreateDraft, Claim, Take, LinkTicket, ReleaseTicket,
       BillStep, CompleteBill, RefundBill, CancelStep, CancelBill, CancelRefused, FindSessions,
       ReopenForCancel, vars, tickets, bills, requests

\* The requests that are dead or failed stay as they are, with what they held.
LEMMA EndedStayEnded ==
    ASSUME TypeOK, [Next]_vars, NEW r \in Requests, pc[r] \in {"crashed", "failed"}
    PROVE  /\ pc'[r] = pc[r] /\ todo'[r] = todo[r]
           /\ r \in Checkouts => claimed'[r] = claimed[r]
           /\ r \in Cancels => target'[r] = target[r]
           /\ r \in Checkouts /\ billStatus[r] = "ABSENT" => billStatus'[r] = "ABSENT"
<1> USE DEF tickets, bills, requests
<1>1. CASE TicketStep
  BY <1>1 DEF TicketStep, VoidSession, AddExtra, RemoveExtra
<1>2. CASE Arrival
  BY <1>2, RequestsAreDisjoint DEF Arrival, BeginCheckout, BeginCancel, TypeOK, Requests
<1>3. CASE Failure
  BY <1>3, RequestsAreDisjoint
  DEF Failure, Crash, CancelThrows, CheckoutThrows, ReleaseThrows, Unwind, LoopTo, TypeOK,
      Ended, Requests
<1>4. ASSUME NEW k \in Checkouts, CheckoutStep(k)
      PROVE  /\ pc[k] \notin {"crashed", "failed"} /\ target' = target
             /\ \A q \in Requests \ {k} : pc'[q] = pc[q] /\ todo'[q] = todo[q]
             /\ \A j \in Checkouts \ {k} :
                   claimed'[j] = claimed[j] /\ billStatus'[j] = billStatus[j]
  BY <1>4, RequestsAreDisjoint
  DEF CheckoutStep, RefuseTicket, RefuseDiscount, Unwind, CreateDraft, Claim, Take,
      LinkTicket, ReleaseTicket, LoopTo, TypeOK, Requests
<1>5. ASSUME NEW b \in Checkouts, BillStep(b)
      PROVE  /\ UNCHANGED requests
             /\ \A j \in Checkouts : billStatus[j] = "ABSENT" => billStatus'[j] = "ABSENT"
  BY <1>5 DEF BillStep, CompleteBill, RefundBill, TypeOK
<1>6. ASSUME NEW c \in Cancels, CancelStep(c)
      PROVE  /\ pc[c] \notin {"crashed", "failed"} /\ UNCHANGED <<claimed, target>>
             /\ \A q \in Requests \ {c} : pc'[q] = pc[q] /\ todo'[q] = todo[q]
             /\ \A j \in Checkouts : billStatus[j] = "ABSENT" => billStatus'[j] = "ABSENT"
  BY <1>6, RequestsAreDisjoint
  DEF CancelStep, CancelBill, CancelRefused, FindSessions, ReopenForCancel, LoopTo, TypeOK,
      Requests, AllowedStatuses
<1>7. CASE UNCHANGED vars
  BY <1>7 DEF vars
<1> QED BY <1>1, <1>2, <1>3, <1>4, <1>5, <1>6, <1>7 DEF Next, Requests

\* A cancelled bill stays cancelled, and a ticket that is still to be linked to it is so
\* after the step, or its checkout has died, or it is linked: too late, or in time for the
\* cancel that has still to look.
LEMMA CancelledStays ==
    ASSUME TypeOK, Ownership, [Next]_vars, "dbError" \notin Disturbances,
           NEW b \in Checkouts, billStatus[b] = "CANCELLED", NEW t \in Tickets
    PROVE  /\ billStatus'[b] = "CANCELLED"
           /\ pc[b] = "link" /\ t \in todo[b] =>
                \/ pc'[b] \in {"link", "crashed"} /\ t \in todo'[b]
                \/ t \in late' \/ ReopenedBy(t)' # {}
<1> USE DEF tickets, bills, requests
<1>0. b \in Requests /\ b \notin Cancels
  BY RequestsAreDisjoint DEF Requests
<1>1. CASE TicketStep
  BY <1>1 DEF TicketStep, VoidSession, AddExtra, RemoveExtra
<1>2. CASE Arrival
  BY <1>0, <1>2 DEF Arrival, BeginCheckout, BeginCancel, TypeOK, Requests
<1>3. CASE Failure
  BY <1>0, <1>3
  DEF Failure, Crash, CancelThrows, CheckoutThrows, ReleaseThrows, TypeOK, Ended
<1>4. ASSUME NEW k \in Checkouts, CheckoutStep(k), k # b
      PROVE  /\ pc'[b] = pc[b] /\ todo'[b] = todo[b]
             /\ billStatus'[b] = billStatus[b]
  BY <1>0, <1>4
  DEF CheckoutStep, RefuseTicket, RefuseDiscount, Unwind, CreateDraft, Claim, Take,
      LinkTicket, ReleaseTicket, LoopTo, TypeOK, Requests
<1>5. CASE CheckoutStep(b)
  <2>1. pc[b] # "claim"
    BY DEF Ownership, DraftTakesOver
  <2>2. ASSUME NEW u \in Tickets, LinkTicket(b, u)
        PROVE  /\ UNCHANGED bills
               /\ u = t => t \in late' \/ ReopenedBy(t)' # {}
               /\ u # t /\ t \in todo[b] => pc'[b] = "link" /\ t \in todo'[b]
    <3>1. UNCHANGED bills
      BY <2>2 DEF LinkTicket
    <3>2. ASSUME NEW c \in Cancels, target[c] = b, pc[c] = "find", u = t
          PROVE  c \in ReopenedBy(t)'
      <4>1. c \in Requests /\ c # b
        BY <1>0 DEF Requests
      <4>2. target' = target /\ pc'[c] = "find" /\ billId'[t] = b
        BY <2>2, <3>2, <4>1 DEF LinkTicket, LoopTo, TypeOK
      <4> QED BY <3>2, <4>2 DEF ReopenedBy
    <3>3. u = t => t \in late' \/ ReopenedBy(t)' # {}
      BY <2>2, <3>2 DEF LinkTicket
    <3>4. u # t /\ t \in todo[b] => pc'[b] = "link" /\ t \in todo'[b]
      BY <1>0, <2>2 DEF LinkTicket, LoopTo, TypeOK
    <3> QED BY <3>1, <3>3, <3>4
  <2>3. ASSUME NEW u \in Tickets, ReleaseTicket(b, u)
        PROVE  UNCHANGED bills /\ pc[b] # "link"
    BY <2>3 DEF ReleaseTicket
  <2> QED
    BY <1>5, <2>1, <2>2, <2>3
    DEF CheckoutStep, RefuseTicket, RefuseDiscount, CreateDraft, Claim
<1>6. ASSUME NEW j \in Checkouts, BillStep(j)
      PROVE  UNCHANGED requests /\ billStatus'[b] = "CANCELLED"
  BY <1>6 DEF BillStep, CompleteBill, RefundBill, TypeOK
<1>7. ASSUME NEW c \in Cancels, CancelStep(c)
      PROVE  /\ billStatus'[b] = "CANCELLED"
             /\ pc'[b] = pc[b] /\ todo'[b] = todo[b]
  BY <1>0, <1>7
  DEF CancelStep, CancelBill, CancelRefused, FindSessions, ReopenForCancel, LoopTo, TypeOK,
      Requests
<1>8. CASE UNCHANGED vars
  BY <1>8 DEF vars
<1> QED BY <1>1, <1>2, <1>3, <1>4, <1>5, <1>6, <1>7, <1>8 DEF Next

\* What death or a cancel has left stays left, as long as it is closed, unless it is linked
\* to its bill before the cancel looks.
LEMMA StrandedStays ==
    ASSUME "dbError" \notin Disturbances, TypeOK, Ownership, [Next]_vars,
           NEW t \in Tickets, status[t] = "CLOSED", status'[t] = "CLOSED", Stranded(t)
    PROVE  Stranded(t)' \/ Answers(t)'
<1>1. ASSUME NEW k \in Checkouts, pc[k] = "crashed", billStatus[k] = "ABSENT",
             t \in claimed[k]
      PROVE  Stranded(t)'
  BY <1>1, EndedStayEnded DEF Stranded, LeftByTheDead, Requests
<1>2. ASSUME NEW k \in Checkouts, pc[k] = "failed", t \in todo[k] PROVE Stranded(t)'
  BY <1>2, EndedStayEnded DEF Stranded, LeftByTheDead, Requests
<1>3. ASSUME NEW c \in Cancels, NEW b \in Checkouts, pc[c] = "crashed", target[c] = b,
             billStatus[b] = "CANCELLED", billId[t] = b
      PROVE  Stranded(t)'
  <2>1. pc'[c] = "crashed" /\ target'[c] = b
    BY <1>3, EndedStayEnded DEF Requests
  <2>2. billId'[t] = b
    BY <1>3, ClosedKeepsItsBill
  <2>3. billStatus'[b] = "CANCELLED"
    BY <1>3, CancelledStays
  <2> QED BY <2>1, <2>2, <2>3 DEF Stranded, LeftByTheDead
<1>4. ASSUME NEW b \in Checkouts, billStatus[b] = "CANCELLED",
             pc[b] \in {"link", "crashed"}, t \in todo[b]
      PROVE  Stranded(t)' \/ Answers(t)'
  <2>1. billStatus'[b] = "CANCELLED"
    BY <1>4, CancelledStays
  <2>2. CASE pc[b] = "link"
    BY <1>4, <2>1, <2>2, CancelledStays DEF Stranded, MissedByCancel, Answers
  <2>3. CASE pc[b] = "crashed"
    BY <1>4, <2>1, <2>3, EndedStayEnded DEF Stranded, MissedByCancel, Requests
  <2> QED BY <1>4, <2>2, <2>3
<1>5. late \subseteq late'
  BY LateGrows
<1> QED BY <1>1, <1>2, <1>3, <1>4, <1>5 DEF Stranded, LeftByTheDead, MissedByCancel

\* No step leaves a closed ticket to nobody but by death or a cancel that misses it.
LEMMA StrandedStep ==
    ASSUME "dbError" \notin Disturbances, TypeOK, Ownership, CancelFindsThem,
           StrandedOnlyByDeathOrMissed, [Next]_vars
    PROVE  StrandedOnlyByDeathOrMissed'
<1> USE DEF tickets, bills, requests
<1>0. GivenBack = {}
  BY NothingGivenBack
<1> SUFFICES ASSUME NEW t \in Tickets, status'[t] = "CLOSED", ~Stranded(t)',
                    status[t] = "CLOSED" => Answers(t)
             PROVE  Answers(t)'
  BY StrandedStays DEF StrandedOnlyByDeathOrMissed, Answers, Stranded
<1>a. status[t] = "CLOSED" => Answers(t)
  OBVIOUS
<1>1. CASE TicketStep
  <2>1. status[t] = "CLOSED" /\ UNCHANGED <<billId, bills, requests>>
    BY <1>1 DEF TicketStep, VoidSession, AddExtra, RemoveExtra, TypeOK
  <2> QED BY <1>a, <2>1 DEF Answers, OnLiveBill, Live, HeldBy, ReopenedBy
<1>2. CASE Arrival
  <2>1. /\ UNCHANGED <<tickets, bills, claimed>>
        /\ \A r \in Requests :
            \/ pc'[r] = pc[r] /\ todo'[r] = todo[r]
            \/ pc[r] = "idle"
        /\ \A c \in Cancels : pc[c] # "idle" => target'[c] = target[c]
    BY <1>2 DEF Arrival, BeginCheckout, BeginCancel, TypeOK, Requests
  <2> QED BY <1>a, <2>1 DEF Answers, OnLiveBill, Live, HeldBy, ReopenedBy, Requests
<1>3. CASE Failure
  <2>1. /\ UNCHANGED <<tickets, bills, todo, claimed, cart, target>>
        /\ pc' = [r \in Requests |->
               IF pc[r] \in Ended \cup {"idle"} THEN pc[r]
               ELSE IF pc[r] = "rollback" THEN "failed" ELSE "crashed"]
    BY <1>3 DEF Failure, Crash, CancelThrows, CheckoutThrows, ReleaseThrows
  <2>2. ASSUME NEW k \in HeldBy(t) PROVE LeftByTheDead(t)'
    BY <2>1, <2>2 DEF HeldBy, LeftByTheDead, Ownership, DraftTakesOver, Requests, Ended
  <2>3. ASSUME NEW c \in ReopenedBy(t) PROVE LeftByTheDead(t)'
    <3>1. c \in Cancels /\ billId[t] = target[c] /\ billStatus[target[c]] = "CANCELLED"
      BY <1>0, <2>3 DEF ReopenedBy, Ownership, CancelOwnsItsBill
    <3>2. target[c] \in Checkouts
      BY <2>3 DEF ReopenedBy, Ownership, CancelOwnsItsBill
    <3>3. pc'[c] = "crashed"
      BY <2>1, <2>3 DEF ReopenedBy, Requests, Ended
    <3> QED BY <2>1, <3>1, <3>2, <3>3 DEF LeftByTheDead
  <2>4. OnLiveBill(t) => OnLiveBill(t)'
    BY <2>1 DEF OnLiveBill, Live
  <2> QED BY <1>a, <2>1, <2>2, <2>3, <2>4 DEF Answers, Stranded
<1>4. ASSUME NEW k \in Checkouts, CheckoutStep(k) PROVE Answers(t)'
  <2>0. k \in Requests /\ k \notin Cancels
    BY RequestsAreDisjoint DEF Requests
  <2>1. /\ target' = target /\ \A r \in Requests : r # k => pc'[r] = pc[r] /\ todo'[r] = todo[r]
        /\ \A j \in Checkouts \ {k} :
            billStatus'[j] = billStatus[j] /\ lines'[j] = lines[j] /\ claimed'[j] = claimed[j]
    BY <1>4, <2>0
    DEF CheckoutStep, RefuseTicket, RefuseDiscount, Unwind, CreateDraft, Claim, Take,
        LinkTicket, ReleaseTicket, LoopTo, TypeOK, Requests
  <2>2. \A j \in HeldBy(t) \ {k} : j \in HeldBy(t)'
    BY <2>1 DEF HeldBy, Requests
  <2>3. (\E b \in Checkouts \ {k} : Live(b) /\ t \in lines[b]) => OnLiveBill(t)'
    BY <2>1 DEF OnLiveBill, Live
  <2>4. CASE \E u \in Tickets : Claim(k, u)
    <3>1. PICK u \in Tickets : Claim(k, u)
      BY <2>4
    <3>2. /\ pc' = pc /\ pc[k] = "claim" /\ todo'[k] \subseteq todo[k]
          /\ claimed'[k] = claimed[k] \cup {u} /\ UNCHANGED <<billId, bills>>
          /\ \A v \in Tickets : v # u => status'[v] = status[v]
      BY <3>1 DEF Claim, Take, TypeOK, Requests
    <3>3. CASE t = u
      <4>1. k \in HeldBy(t)'
        BY <3>2, <3>3 DEF HeldBy
      <4> QED BY <4>1 DEF Answers
    <3>4. CASE t # u
      <4>1. Answers(t)
        BY <1>a, <3>2, <3>4
      <4>2. OnLiveBill(t) => OnLiveBill(t)'
        BY <3>2 DEF OnLiveBill, Live
      <4>3. \A j \in HeldBy(t) : j \in HeldBy(t)'
        BY <2>2, <3>2 DEF HeldBy
      <4>4. \A c \in ReopenedBy(t) : c \in ReopenedBy(t)'
        BY <2>0, <2>1, <3>2 DEF ReopenedBy, Requests
      <4> QED BY <4>1, <4>2, <4>3, <4>4 DEF Answers
    <3> QED BY <3>3, <3>4
  <2>5. CASE \E u \in Tickets : LinkTicket(k, u)
    <3>1. PICK u \in Tickets : LinkTicket(k, u)
      BY <2>5
    <3>2. /\ UNCHANGED <<status, bills, claimed>> /\ pc[k] = "link" /\ u \in todo[k]
          /\ \A v \in Tickets : v # u => billId'[v] = billId[v]
      BY <3>1 DEF LinkTicket, TypeOK
    <3>3. OnLiveBill(t) => OnLiveBill(t)'
      BY <3>2 DEF OnLiveBill, Live
    <3>4. CASE t = u
      <4>1. t \in lines[k] /\ billStatus[k] # "ABSENT"
        BY <3>2, <3>4 DEF Ownership, DraftTakesOver
      <4>2. CASE Live(k)
        BY <3>3, <4>1, <4>2 DEF OnLiveBill, Answers
      <4>3. CASE ~Live(k)
        <5>1. billStatus[k] = "CANCELLED"
          BY <4>1, <4>3 DEF Live, TypeOK, BillStatus
        <5>2. PICK c \in Cancels : target[c] = k /\ pc[c] = "find"
          BY <3>1, <3>4, <5>1 DEF LinkTicket, Stranded, MissedByCancel
        <5>3. billId'[t] = k /\ pc'[c] = "find" /\ target'[c] = k
          BY <2>0, <2>1, <3>1, <3>4, <5>2, RequestsAreDisjoint DEF LinkTicket, TypeOK, Requests
        <5> QED BY <5>3 DEF ReopenedBy, Answers
      <4> QED BY <4>2, <4>3
    <3>5. CASE t # u
      <4>1. Answers(t)
        BY <1>a, <3>2
      <4>2. k \notin HeldBy(t)
        BY <3>2 DEF HeldBy
      <4>3. \A c \in ReopenedBy(t) : c \in ReopenedBy(t)'
        BY <2>0, <2>1, <3>2, <3>5 DEF ReopenedBy, Requests
      <4> QED BY <2>2, <3>3, <4>1, <4>2, <4>3 DEF Answers
    <3> QED BY <3>4, <3>5
  <2>6. CASE \E u \in Tickets : ReleaseTicket(k, u)
    <3>1. PICK u \in Tickets : ReleaseTicket(k, u)
      BY <2>6
    <3>2. /\ UNCHANGED <<bills, claimed>> /\ pc[k] = "rollback" /\ u \in todo[k]
          /\ todo'[k] = todo[k] \ {u}
          /\ pc'[k] = IF todo[k] = {u} THEN "failed" ELSE "rollback"
          /\ \A v \in Tickets : v # u => billId'[v] = billId[v] /\ status'[v] = status[v]
          /\ status'[u] # "CLOSED"
      BY <2>0, <3>1 DEF ReleaseTicket, ReopenTicket, LoopTo, TypeOK
    <3>3. t # u /\ Answers(t)
      BY <1>a, <3>2
    <3>4. OnLiveBill(t) => OnLiveBill(t)'
      BY <3>2 DEF OnLiveBill, Live
    <3>5. \A j \in HeldBy(t) : j \in HeldBy(t)'
      BY <2>2, <3>2, <3>3 DEF HeldBy
    <3>6. \A c \in ReopenedBy(t) : c \in ReopenedBy(t)'
      BY <2>0, <2>1, <3>2, <3>3 DEF ReopenedBy, Requests
    <3> QED BY <3>3, <3>4, <3>5, <3>6 DEF Answers
  <2>7. CASE RefuseTicket(k) \/ RefuseDiscount(k) \/ CreateDraft(k)
    <3>1. UNCHANGED <<tickets, claimed>> /\ pc[k] = "claim"
      BY <2>7 DEF RefuseTicket, RefuseDiscount, CreateDraft
    <3>2. Answers(t)
      BY <1>a, <3>1
    <3>3. ~Live(k)
      BY <3>1 DEF Live, Ownership, DraftTakesOver
    <3>4. t \in claimed[k] => k \in HeldBy(t)' \/ OnLiveBill(t)'
      <4>1. CASE RefuseTicket(k) \/ RefuseDiscount(k)
        BY <2>0, <3>1, <4>1 DEF RefuseTicket, RefuseDiscount, Unwind, TypeOK, HeldBy
      <4>2. CASE CreateDraft(k)
        BY <4>2 DEF CreateDraft, OnLiveBill, Live, TypeOK
      <4> QED BY <2>7, <4>1, <4>2
    <3>5. k \in HeldBy(t) => t \in claimed[k]
      BY <3>1 DEF HeldBy
    <3>6. \A c \in ReopenedBy(t) : c \in ReopenedBy(t)'
      BY <2>0, <2>1, <3>1 DEF ReopenedBy, Requests
    <3>7. OnLiveBill(t) => OnLiveBill(t)'
      BY <2>3, <3>3 DEF OnLiveBill
    <3> QED BY <2>2, <3>2, <3>4, <3>5, <3>6, <3>7 DEF Answers
  <2> QED BY <1>4, <2>4, <2>5, <2>6, <2>7 DEF CheckoutStep
<1>5. ASSUME NEW b \in Checkouts, BillStep(b) PROVE Answers(t)'
  <2>1. UNCHANGED <<tickets, lines, requests>> /\ \A k \in Checkouts : Live(k)' <=> Live(k)
    BY <1>5 DEF BillStep, CompleteBill, RefundBill, Live, TypeOK
  <2> QED BY <1>a, <2>1 DEF Answers, OnLiveBill, HeldBy, ReopenedBy
<1>6. ASSUME NEW c \in Cancels, CancelStep(c) PROVE Answers(t)'
  <2>0. c \in Requests /\ c \notin Checkouts
    BY RequestsAreDisjoint DEF Requests
  <2>1. /\ UNCHANGED <<lines, claimed, target>>
        /\ \A r \in Requests : r # c => pc'[r] = pc[r] /\ todo'[r] = todo[r]
    BY <1>6, <2>0
    DEF CancelStep, CancelBill, CancelRefused, FindSessions, ReopenForCancel, LoopTo, TypeOK,
        Requests
  <2>2. HeldBy(t)' = HeldBy(t)
    BY <2>0, <2>1 DEF HeldBy, Requests
  <2>3. CASE CancelBill(c)
    <3>1. /\ UNCHANGED tickets /\ pc[c] = "cas" /\ pc'[c] = "find"
          /\ \A k \in Checkouts : k # target[c] => billStatus'[k] = billStatus[k]
      BY <2>0, <2>3 DEF CancelBill, TypeOK
    <3>2. Answers(t)
      BY <1>a, <3>1
    <3>3. \A d \in ReopenedBy(t) : d \in ReopenedBy(t)'
      BY <2>1, <3>1 DEF ReopenedBy, Requests
    <3>4. ASSUME NEW b \in Checkouts, Live(b), t \in lines[b] PROVE Answers(t)'
      <4>1. CASE b # target[c]
        BY <2>1, <3>1, <3>4, <4>1 DEF Answers, OnLiveBill, Live
      <4>2. CASE b = target[c]
        <5>1. billStatus'[b] = "CANCELLED" /\ UNCHANGED <<lines, todo>> /\ pc'[b] = pc[b]
          BY <2>0, <2>3, <4>2 DEF CancelBill, TypeOK
        <5>2. billId[t] = b
          BY <3>4, <5>1 DEF CancelFindsThem, Stranded, MissedByCancel
        <5>3. c \in ReopenedBy(t)'
          BY <2>1, <3>1, <4>2, <5>2 DEF ReopenedBy
        <5> QED BY <5>3 DEF Answers
      <4> QED BY <4>1, <4>2
    <3> QED BY <2>2, <3>2, <3>3, <3>4 DEF Answers, OnLiveBill
  <2>4. CASE CancelRefused(c) \/ FindSessions(c)
    <3>1. UNCHANGED <<tickets, bills>> /\ pc[c] \in {"cas", "find"}
      BY <2>4 DEF CancelRefused, FindSessions
    <3>2. c \in ReopenedBy(t) => c \in ReopenedBy(t)'
      BY <2>0, <2>4, <3>1 DEF CancelRefused, FindSessions, ReopenedBy, TypeOK
    <3>3. \A d \in ReopenedBy(t) : d \in ReopenedBy(t)'
      BY <2>1, <3>1, <3>2 DEF ReopenedBy, Requests
    <3>4. OnLiveBill(t)' <=> OnLiveBill(t)
      BY <3>1 DEF OnLiveBill, Live
    <3> QED BY <1>a, <2>2, <3>1, <3>3, <3>4 DEF Answers
  <2>5. CASE \E u \in Tickets : ReopenForCancel(c, u)
    <3>1. PICK u \in Tickets : ReopenForCancel(c, u)
      BY <2>5
    <3>2. /\ UNCHANGED bills /\ pc[c] = "reopen" /\ todo'[c] = todo[c] \ {u}
          /\ pc'[c] = IF todo[c] = {u} THEN "done" ELSE "reopen"
          /\ \A v \in Tickets : v # u => billId'[v] = billId[v] /\ status'[v] = status[v]
          /\ status'[u] # "CLOSED"
      BY <2>0, <3>1 DEF ReopenForCancel, ReopenTicket, LoopTo, TypeOK
    <3>3. t # u /\ Answers(t)
      BY <1>a, <3>2
    <3>4. OnLiveBill(t)' <=> OnLiveBill(t)
      BY <3>2 DEF OnLiveBill, Live
    <3>5. \A d \in ReopenedBy(t) : d \in ReopenedBy(t)'
      BY <2>1, <3>2, <3>3 DEF ReopenedBy, Requests
    <3> QED BY <2>2, <3>3, <3>4, <3>5 DEF Answers
  <2> QED BY <1>6, <2>3, <2>4, <2>5 DEF CancelStep
<1>7. CASE UNCHANGED vars
  BY <1>7, <1>a DEF vars, Answers, OnLiveBill, Live, HeldBy, ReopenedBy
<1> QED BY <1>1, <1>2, <1>3, <1>4, <1>5, <1>6, <1>7 DEF Next

\* CancelFindsThem holds, through crashes and cancels at any moment.
LEMMA CancelFindsThemHolds ==
    ASSUME "dbError" \notin Disturbances
    PROVE  Spec => []CancelFindsThem
<1>1. Init => CancelFindsThem
  BY RequestsAreDisjoint DEF Init, CancelFindsThem, Live, Requests
<1>2. TypeOK /\ Ownership /\ CancelFindsThem /\ [Next]_vars => CancelFindsThem'
  BY CancelFindsThemStep
<1> QED BY <1>1, <1>2, TypeCorrect, OwnershipHolds, PTL DEF Spec

\* A closed ticket that no bill charges and no request is about to reopen was in the hands
\* of a request when the process died, or was missed by the cancel of its bill before its
\* checkout had linked it: with any number of requests at work on any number of tickets,
\* through crashes and cancels at any moment, as long as no operation fails.
THEOREM OnlyDeathOrAMissStrands ==
    ASSUME "dbError" \notin Disturbances
    PROVE  Spec => []StrandedOnlyByDeathOrMissed
<1>1. Init => StrandedOnlyByDeathOrMissed
  BY DEF Init, StrandedOnlyByDeathOrMissed
<1>2. TypeOK /\ Ownership /\ CancelFindsThem /\ StrandedOnlyByDeathOrMissed /\ [Next]_vars
        => StrandedOnlyByDeathOrMissed'
  BY StrandedStep
<1> QED BY <1>1, <1>2, TypeCorrect, OwnershipHolds, CancelFindsThemHolds, PTL DEF Spec

-----------------------------------------------------------------------------
(***************************************************************************)
(* CashierCancelsOwnDraft, whatever disturbs the checkout.                 *)
(***************************************************************************)

\* A bill is cancelled by one request, on a status the role of its actor allows and, for a
\* cashier, on a bill of his own: his draft, even if it may be paid after it was read.
THEOREM CancelsAreAllowed == Spec => CashierCancelsOwnDraft
<1> USE DEF tickets, bills, requests
<1>1. Init => CancelIsAllowed
  BY DEF Init, CancelIsAllowed, Requests
<1>2. TypeOK /\ CancelIsAllowed /\ [Next]_vars => CancelIsAllowed'
  <2> SUFFICES ASSUME TypeOK, CancelIsAllowed, [Next]_vars,
                      NEW c \in Cancels, pc'[c] = "cas"
               PROVE  ActorOf[c] \in Admins \/ ActorOf[c] = ActorOf[target'[c]]
    BY DEF CancelIsAllowed
  <2>1. CASE \E b \in Checkouts : BeginCancel(c, b)
    BY <2>1 DEF BeginCancel, TypeOK, Requests
  <2>2. CASE ~\E b \in Checkouts : BeginCancel(c, b)
    <3>1. pc[c] = "cas" /\ target'[c] = target[c]
      <4>0. c \in Requests /\ c \notin Checkouts
        BY RequestsAreDisjoint DEF Requests
      <4>1. CASE TicketStep \/ Failure \/ UNCHANGED vars
        BY <4>0, <4>1
        DEF TicketStep, VoidSession, AddExtra, RemoveExtra, Failure, Crash, CancelThrows,
            CheckoutThrows, Unwind, ReleaseThrows, LoopTo, TypeOK, vars, PC, Ended
      <4>2. CASE Arrival
        BY <2>2, <4>0, <4>2 DEF Arrival, BeginCheckout, BeginCancel, TypeOK, Requests
      <4>3. ASSUME NEW k \in Checkouts, CheckoutStep(k) \/ BillStep(k)
            PROVE  pc[c] = "cas" /\ target'[c] = target[c]
        BY <4>0, <4>3
        DEF CheckoutStep, RefuseTicket, RefuseDiscount, Unwind, CreateDraft, Claim, Take,
            LinkTicket, ReleaseTicket, LoopTo, BillStep, CompleteBill, RefundBill, TypeOK
      <4>4. ASSUME NEW d \in Cancels, CancelStep(d)
            PROVE  pc[c] = "cas" /\ target'[c] = target[c]
        BY <4>0, <4>4
        DEF CancelStep, CancelBill, CancelRefused, FindSessions, ReopenForCancel, LoopTo,
            TypeOK, Requests
      <4> QED BY <4>1, <4>2, <4>3, <4>4 DEF Next
    <3> QED BY <3>1 DEF CancelIsAllowed
  <2> QED BY <2>1, <2>2
<1>3. TypeOK /\ CancelIsAllowed /\ [Next]_vars =>
        [\A b \in Checkouts :
            billStatus[b] # "CANCELLED" /\ billStatus'[b] = "CANCELLED" =>
                \E c \in Cancels :
                    /\ target[c] = b /\ pc[c] = "cas" /\ pc'[c] # "cas"
                    /\ \/ ActorOf[c] \in Admins
                       \/ ActorOf[c] = ActorOf[b] /\ billStatus[b] = "DRAFT"]_vars
  <2> SUFFICES ASSUME TypeOK, CancelIsAllowed, Next, NEW b \in Checkouts,
                      billStatus[b] # "CANCELLED", billStatus'[b] = "CANCELLED"
               PROVE  \E c \in Cancels :
                          /\ target[c] = b /\ pc[c] = "cas" /\ pc'[c] # "cas"
                          /\ \/ ActorOf[c] \in Admins
                             \/ ActorOf[c] = ActorOf[b] /\ billStatus[b] = "DRAFT"
    OBVIOUS
  <2>1. PICK c \in Cancels : CancelBill(c)
    BY DEF Next, TicketStep, VoidSession, AddExtra, RemoveExtra, Arrival, BeginCheckout,
        BeginCancel, Failure, Crash, CancelThrows, CheckoutThrows, ReleaseThrows,
        CheckoutStep, RefuseTicket, RefuseDiscount, CreateDraft, Claim, Take, LinkTicket,
        ReleaseTicket, BillStep, CompleteBill, RefundBill, CancelStep, CancelRefused,
        FindSessions, ReopenForCancel, TypeOK
  <2>2. target[c] = b /\ pc[c] = "cas" /\ pc'[c] # "cas"
    BY <2>1 DEF CancelBill, TypeOK, Requests
  <2>3. ActorOf[c] \in Admins \/ (ActorOf[c] = ActorOf[b] /\ billStatus[b] = "DRAFT")
    BY <2>1, <2>2 DEF CancelBill, AllowedStatuses, CancelIsAllowed
  <2> QED BY <2>2, <2>3
<1> QED BY <1>1, <1>2, <1>3, TypeCorrect, PTL DEF Spec, CashierCancelsOwnDraft

-----------------------------------------------------------------------------
(***************************************************************************)
(* ImplementsBilling, as long as no operation fails: Ownership gives each  *)
(* visit at most one bill, so Payer is a matter of fact and not of choice, *)
(* and every step moves one visit, one party or nothing.                   *)
(***************************************************************************)

\* A checkout that is claiming has somebody to bill.
PartyAtWork == \A k \in Checkouts : pc[k] = "claim" => claimed[k] \cup todo[k] # {}

\* In every state a checkout can be in.
LEMMA PartyAtWorkHolds == Spec => []PartyAtWork
<1> USE DEF tickets, bills, requests
<1>1. Init => PartyAtWork
  BY DEF Init, PartyAtWork, Requests
<1>2. TypeOK /\ PartyAtWork /\ [Next]_vars => PartyAtWork'
  <2> SUFFICES ASSUME TypeOK, PartyAtWork, [Next]_vars,
                      NEW k \in Checkouts, pc'[k] = "claim"
               PROVE  claimed'[k] \cup todo'[k] # {}
    BY DEF PartyAtWork
  <2>0. k \in Requests /\ k \notin Cancels
    BY RequestsAreDisjoint DEF Requests
  <2>1. CASE \E party \in SUBSET Tickets : BeginCheckout(k, party)
    BY <2>0, <2>1 DEF BeginCheckout, TypeOK
  <2>2. CASE \E u \in Tickets : Claim(k, u)
    BY <2>2 DEF Claim, Take, TypeOK
  <2>3. CASE /\ ~\E party \in SUBSET Tickets : BeginCheckout(k, party)
             /\ ~\E u \in Tickets : Claim(k, u)
    <3>1. pc[k] = "claim" /\ claimed'[k] = claimed[k] /\ todo'[k] = todo[k]
      <4>1. CASE TicketStep \/ UNCHANGED vars
        BY <2>0, <4>1 DEF TicketStep, VoidSession, AddExtra, RemoveExtra, vars
      <4>2. CASE Arrival \/ Failure
        BY <2>0, <2>3, <4>2
        DEF Arrival, BeginCheckout, BeginCancel, Failure, Crash, CancelThrows, CheckoutThrows,
            Unwind, ReleaseThrows, LoopTo, TypeOK, PC, Ended, Requests
      <4>3. ASSUME NEW j \in Checkouts, CheckoutStep(j) \/ BillStep(j)
            PROVE  pc[k] = "claim" /\ claimed'[k] = claimed[k] /\ todo'[k] = todo[k]
        BY <2>0, <2>3, <4>3
        DEF CheckoutStep, RefuseTicket, RefuseDiscount, Unwind, CreateDraft, Claim, Take,
            LinkTicket, ReleaseTicket, LoopTo, BillStep, CompleteBill, RefundBill, TypeOK,
            Requests
      <4>4. ASSUME NEW d \in Cancels, CancelStep(d)
            PROVE  pc[k] = "claim" /\ claimed'[k] = claimed[k] /\ todo'[k] = todo[k]
        BY <2>0, <4>4
        DEF CancelStep, CancelBill, CancelRefused, FindSessions, ReopenForCancel, LoopTo,
            TypeOK, Requests
      <4> QED BY <4>1, <4>2, <4>3, <4>4 DEF Next
    <3> QED BY <3>1 DEF PartyAtWork
  <2> QED BY <2>1, <2>2, <2>3
<1> QED BY <1>1, <1>2, TypeCorrect, PTL DEF Spec

\* The bill of a visit is the one that stands with a line for it.
PayerIsTheBill ==
    \A t \in Tickets :
        /\ \A b \in Checkouts : Live(b) /\ t \in lines[b] => Payer[t] = b
        /\ ~OnLiveBill(t) => Payer[t] = NoBill

\* The choice in Payer is that bill, as there is one at most.
LEMMA PayerOf == BilledOnce => PayerIsTheBill
<1> SUFFICES ASSUME BilledOnce, NEW t \in Tickets
             PROVE  /\ \A b \in Checkouts : Live(b) /\ t \in lines[b] => Payer[t] = b
                    /\ ~OnLiveBill(t) => Payer[t] = NoBill
  BY DEF PayerIsTheBill
<1>1. Payer[t] = IF OnLiveBill(t) THEN CHOOSE b \in Checkouts : Live(b) /\ t \in lines[b]
                                  ELSE NoBill
  BY DEF Payer
<1>2. ASSUME NEW b \in Checkouts, Live(b), t \in lines[b] PROVE Payer[t] = b
  <2> DEFINE p == CHOOSE c \in Checkouts : Live(c) /\ t \in lines[c]
  <2>1. OnLiveBill(t)
    BY <1>2 DEF OnLiveBill
  <2>2. p \in Checkouts /\ Live(p) /\ t \in lines[p]
    BY <1>2
  <2>3. p = b
    BY <1>2, <2>2 DEF BilledOnce
  <2> QED BY <1>1, <2>1, <2>3
<1> QED BY <1>1, <1>2

\* Where a visit stands, from the status of its ticket and the bills that stand.
VisitFollows ==
    \A t \in Tickets :
        /\ status[t] = "ACTIVE" => Visit[t] = "playing"
        /\ status[t] = "VOIDED" => Visit[t] = "voided"
        /\ status[t] = "CLOSED" => Visit[t] = IF OnLiveBill(t) THEN "billed" ELSE "leaving"

\* The abstract state of a visit, read off the row's status and its bill.
LEMMA VisitOf == VisitFollows
BY DEF Visit, VisitFollows

\* A step that leaves the bills and the other tickets alone moves one visit.
LEMMA OneVisitMoves ==
    ASSUME TypeOK, TypeOK', BilledOnce, BilledOnce', NEW u \in Tickets,
           \A t \in Tickets \ {u} : status'[t] = status[t],
           \A b \in Checkouts :
               /\ Live(b)' <=> Live(b)
               /\ lines'[b] = lines[b]
               /\ billStatus'[b] = "ABSENT" <=> billStatus[b] = "ABSENT"
    PROVE  /\ Visit' = [Visit EXCEPT ![u] = Visit'[u]]
           /\ status'[u] = status[u] => Visit'[u] = Visit[u]
           /\ Payer' = Payer
           /\ Issued' = Issued
<1>1. \A t \in Tickets : OnLiveBill(t)' <=> OnLiveBill(t)
  BY DEF OnLiveBill
<1>2. \A t \in Tickets : Payer'[t] = Payer[t]
  <2> SUFFICES ASSUME NEW t \in Tickets PROVE Payer'[t] = Payer[t]
    OBVIOUS
  <2>1. PayerIsTheBill
    BY PayerOf
  <2>2. (BilledOnce => PayerIsTheBill)'
    BY PayerOf, PTL
  <2> QED BY <1>1, <2>1, <2>2 DEF PayerIsTheBill, OnLiveBill
<1>3. \A t \in Tickets : status'[t] = status[t] => Visit'[t] = Visit[t]
  <2> SUFFICES ASSUME NEW t \in Tickets, status'[t] = status[t] PROVE Visit'[t] = Visit[t]
    OBVIOUS
  <2>1. VisitFollows'
    BY VisitOf, PTL
  <2>2. status[t] \in {"ACTIVE", "VOIDED", "CLOSED"}
    BY DEF TypeOK, SessionStatus
  <2> QED BY <1>1, <2>1, <2>2, VisitOf DEF VisitFollows
<1>4. /\ Visit = [t \in Tickets |-> Visit[t]] /\ Visit' = [t \in Tickets |-> Visit'[t]]
      /\ Payer = [t \in Tickets |-> Payer[t]] /\ Payer' = [t \in Tickets |-> Payer'[t]]
  BY DEF Visit, Payer
<1>5. Issued' = Issued
  BY DEF Issued
<1> QED BY <1>2, <1>3, <1>4, <1>5

\* Every step is a step of the promise or none of its business.
LEMMA BillingStep ==
    ASSUME "dbError" \notin Disturbances, TypeOK, TypeOK', Ownership, PartyAtWork,
           BilledOnce, BilledOnce', [Next]_vars
    PROVE  [Billing!Next]_(Billing!vars)
<1> USE DEF tickets, bills, requests
<1>0. GivenBack = {}
  BY NothingGivenBack
<1>a. PayerIsTheBill /\ VisitFollows
  BY PayerOf, VisitOf
<1>b. PayerIsTheBill' /\ VisitFollows'
  <2>1. (BilledOnce => PayerIsTheBill)' /\ VisitFollows'
    BY PayerOf, VisitOf, PTL
  <2> QED BY <2>1
\* Nothing the promise tells apart has changed.
<1>c. ASSUME status' = status,
             \A b \in Checkouts :
                 /\ Live(b)' <=> Live(b)
                 /\ lines'[b] = lines[b]
                 /\ billStatus'[b] = "ABSENT" <=> billStatus[b] = "ABSENT"
      PROVE  UNCHANGED Billing!vars
  <2>1. \A t \in Tickets : (OnLiveBill(t)' <=> OnLiveBill(t)) /\ Visit'[t] = Visit[t]
    BY <1>a, <1>b, <1>c DEF OnLiveBill, VisitFollows, TypeOK, SessionStatus
  <2>2. \A t \in Tickets : Payer'[t] = Payer[t]
    BY <1>a, <1>b, <1>c DEF OnLiveBill, PayerIsTheBill
  <2>3. /\ Visit = [t \in Tickets |-> Visit[t]] /\ Visit' = [t \in Tickets |-> Visit'[t]]
        /\ Payer = [t \in Tickets |-> Payer[t]] /\ Payer' = [t \in Tickets |-> Payer'[t]]
    BY DEF Visit, Payer
  <2>4. Visit' = Visit /\ Payer' = Payer
    BY <2>1, <2>2, <2>3
  <2>5. Issued' = Issued
    BY <1>c DEF Issued
  <2> QED BY <2>4, <2>5 DEF Billing!vars
\* One closed ticket that is on no bill is reopened.
<1>d. ASSUME NEW u \in Tickets, status[u] = "CLOSED", status'[u] = "ACTIVE", ~OnLiveBill(u),
             UNCHANGED bills, \A t \in Tickets \ {u} : status'[t] = status[t]
      PROVE  Billing!Next
  <2>1. Visit' = [Visit EXCEPT ![u] = Visit'[u]] /\ Payer' = Payer /\ Issued' = Issued
    BY <1>d, OneVisitMoves DEF Live
  <2>2. Visit[u] = "leaving" /\ Visit'[u] = "playing"
    BY <1>a, <1>b, <1>d DEF VisitFollows
  <2>3. Billing!Return(u)
    BY <2>1, <2>2 DEF Billing!Return
  <2> QED BY <2>3 DEF Billing!Next
<1>1. CASE TicketStep
  <2>1. CASE status' = status
    BY <1>1, <1>c, <2>1 DEF TicketStep, VoidSession, AddExtra, RemoveExtra, Live
  <2>2. CASE status' # status
    <3>1. PICK u \in Tickets : VoidSession(u)
      BY <1>1, <2>2 DEF TicketStep, AddExtra, RemoveExtra
    <3>2. /\ status[u] = "ACTIVE" /\ status'[u] = "VOIDED" /\ UNCHANGED bills
          /\ \A t \in Tickets \ {u} : status'[t] = status[t]
      BY <3>1 DEF VoidSession, TypeOK
    <3>3. Visit' = [Visit EXCEPT ![u] = Visit'[u]] /\ Payer' = Payer /\ Issued' = Issued
      BY <3>2, OneVisitMoves DEF Live
    <3>4. Visit[u] = "playing" /\ Visit'[u] = "voided"
      BY <1>a, <1>b, <3>2 DEF VisitFollows
    <3>5. Billing!Void(u)
      BY <3>3, <3>4 DEF Billing!Void
    <3> QED BY <3>5 DEF Billing!Next
  <2> QED BY <2>1, <2>2
<1>2. CASE Arrival \/ Failure \/ UNCHANGED vars
  <2>1. UNCHANGED <<status, bills>>
    BY <1>2
    DEF Arrival, BeginCheckout, BeginCancel, Failure, Crash, CancelThrows, CheckoutThrows,
        ReleaseThrows, vars
  <2> QED BY <1>c, <2>1 DEF Live
<1>3. ASSUME NEW k \in Checkouts, CheckoutStep(k) PROVE [Billing!Next]_(Billing!vars)
  <2>1. CASE RefuseTicket(k) \/ RefuseDiscount(k) \/ \E u \in Tickets : LinkTicket(k, u)
    <3>1. UNCHANGED <<status, bills>>
      BY <2>1 DEF RefuseTicket, RefuseDiscount, LinkTicket
    <3> QED BY <1>c, <3>1 DEF Live
  <2>2. ASSUME NEW u \in Tickets, Claim(k, u) PROVE Billing!Next
    <3>1. /\ status[u] = "ACTIVE" /\ status'[u] = "CLOSED" /\ UNCHANGED bills
          /\ \A t \in Tickets \ {u} : status'[t] = status[t]
      BY <2>2 DEF Claim, Take, TypeOK
    <3>2. Visit' = [Visit EXCEPT ![u] = Visit'[u]] /\ Payer' = Payer /\ Issued' = Issued
      BY <3>1, OneVisitMoves DEF Live
    <3>3. ~OnLiveBill(u)'
      BY <1>0, <3>1 DEF OnLiveBill, Live, Ownership, OwnedIsClosed, Owns
    <3>4. Visit[u] = "playing" /\ Visit'[u] = "leaving"
      BY <1>a, <1>b, <3>1, <3>3 DEF VisitFollows
    <3>5. Billing!Leave(u)
      BY <3>2, <3>4 DEF Billing!Leave
    <3> QED BY <3>5 DEF Billing!Next
  <2>3. CASE CreateDraft(k)
    <3> DEFINE party == claimed[k]
    <3>1. /\ pc[k] = "claim" /\ todo[k] = {} /\ UNCHANGED tickets
          /\ billStatus'[k] = "DRAFT" /\ lines'[k] = party
          /\ \A b \in Checkouts \ {k} : billStatus'[b] = billStatus[b] /\ lines'[b] = lines[b]
      BY <2>3 DEF CreateDraft, TypeOK
    <3>2. party # {} /\ party \in SUBSET Tickets /\ billStatus[k] = "ABSENT"
      BY <3>1 DEF PartyAtWork, TypeOK, Ownership, DraftTakesOver
    <3>3. \A t \in party : status[t] = "CLOSED" /\ ~OnLiveBill(t)
      <4> SUFFICES ASSUME NEW t \in party PROVE status[t] = "CLOSED" /\ ~OnLiveBill(t)
        OBVIOUS
      <4>1. t \in Tickets /\ Owns(k, t) /\ ~Live(k)
        BY <3>1, <3>2 DEF Owns, Live
      <4>2. \A b \in Checkouts : Live(b) /\ t \in lines[b] => b = k
        BY <1>0, <4>1 DEF Ownership, OwnedByOne, Owns
      <4> QED BY <1>0, <4>1, <4>2 DEF OnLiveBill, Ownership, OwnedIsClosed
    <3>4. \A t \in Tickets \ party : OnLiveBill(t)' <=> OnLiveBill(t)
      BY <3>1, <3>2 DEF OnLiveBill, Live
    <3>5. \A t \in Tickets : Visit'[t] = IF t \in party THEN "billed" ELSE Visit[t]
      <4>1. \A t \in party : OnLiveBill(t)'
        BY <3>1 DEF OnLiveBill, Live
      <4> QED BY <1>a, <1>b, <3>1, <3>3, <3>4, <4>1 DEF VisitFollows, TypeOK, SessionStatus
    <3>6. \A t \in Tickets : Payer'[t] = IF t \in party THEN k ELSE Payer[t]
      <4>1. \A t \in party : Payer'[t] = k
        BY <1>b, <3>1, <3>2 DEF PayerIsTheBill, Live
      <4>2. \A t \in Tickets \ party : Payer'[t] = Payer[t]
        BY <1>a, <1>b, <3>1, <3>2, <3>4 DEF PayerIsTheBill, OnLiveBill, Live
      <4> QED BY <4>1, <4>2
    <3>7. /\ Visit' = [t \in Tickets |-> Visit'[t]] /\ Payer' = [t \in Tickets |-> Payer'[t]]
      BY DEF Visit, Payer
    <3>8. Issued' = Issued \cup {k} /\ k \notin Issued
      BY <3>1, <3>2 DEF Issued
    <3>9. \A t \in party : Visit[t] = "leaving"
      BY <1>a, <3>2, <3>3 DEF VisitFollows
    <3>10. Billing!Bill(k, party)
      BY <3>2, <3>5, <3>6, <3>7, <3>8, <3>9 DEF Billing!Bill
    <3> QED BY <3>2, <3>10 DEF Billing!Next
  <2>4. ASSUME NEW u \in Tickets, ReleaseTicket(k, u) PROVE Billing!Next
    <3>1. Owns(k, u) /\ billStatus[k] = "ABSENT" /\ UNCHANGED bills
      BY <2>4 DEF ReleaseTicket, Owns, Ownership, DraftTakesOver
    <3>2. ~OnLiveBill(u)
      <4>1. \A b \in Checkouts : Live(b) /\ u \in lines[b] => b = k
        BY <1>0, <3>1 DEF Ownership, OwnedByOne, Owns
      <4> QED BY <3>1, <4>1 DEF OnLiveBill, Live
    <3>3. status[u] = "CLOSED"
      BY <1>0, <3>1 DEF Ownership, OwnedIsClosed
    <3>4. status'[u] = "ACTIVE" /\ \A t \in Tickets \ {u} : status'[t] = status[t]
      BY <2>4, <3>3 DEF ReleaseTicket, ReopenTicket, TypeOK
    <3> QED BY <1>d, <3>1, <3>2, <3>3, <3>4
  <2> QED BY <1>3, <2>1, <2>2, <2>3, <2>4 DEF CheckoutStep
<1>4. ASSUME NEW b \in Checkouts, BillStep(b) PROVE UNCHANGED Billing!vars
  <2>1. /\ UNCHANGED <<status, lines>>
        /\ \A k \in Checkouts :
            /\ Live(k)' <=> Live(k)
            /\ billStatus'[k] = "ABSENT" <=> billStatus[k] = "ABSENT"
    BY <1>4 DEF BillStep, CompleteBill, RefundBill, Live, TypeOK
  <2> QED BY <1>c, <2>1
<1>5. ASSUME NEW c \in Cancels, CancelStep(c) PROVE [Billing!Next]_(Billing!vars)
  <2>1. CASE CancelRefused(c) \/ FindSessions(c)
    <3>1. UNCHANGED <<status, bills>>
      BY <2>1 DEF CancelRefused, FindSessions
    <3> QED BY <1>c, <3>1 DEF Live
  <2>2. CASE CancelBill(c)
    <3> DEFINE b == target[c]
    <3>1. /\ b \in Checkouts /\ Live(b) /\ billStatus'[b] = "CANCELLED"
          /\ \A k \in Checkouts \ {b} : billStatus'[k] = billStatus[k]
          /\ UNCHANGED <<tickets, lines>>
      BY <2>2 DEF CancelBill, AllowedStatuses, Live, TypeOK, Ownership, CancelOwnsItsBill
    <3>2. \A t \in Tickets : Payer[t] = b <=> t \in lines[b]
      <4> SUFFICES ASSUME NEW t \in Tickets PROVE Payer[t] = b <=> t \in lines[b]
        OBVIOUS
      <4>1. CASE OnLiveBill(t)
        BY <1>a, <3>1, <4>1 DEF PayerIsTheBill, OnLiveBill
      <4>2. CASE ~OnLiveBill(t)
        BY <1>a, <3>1, <4>2, NoBillIsNotACheckout DEF PayerIsTheBill, OnLiveBill
      <4> QED BY <4>1, <4>2
    <3>3. \A t \in Tickets : t \in lines[b] => status[t] = "CLOSED" /\ ~OnLiveBill(t)'
      <4>1. \A t \in Tickets : t \in lines[b] => status[t] = "CLOSED"
        BY <1>0, <3>1 DEF Ownership, OwnedIsClosed, Owns
      <4>2. \A t \in Tickets, k \in Checkouts \ {b} :
              ~(t \in lines[b] /\ Live(k) /\ t \in lines[k])
        BY <3>1 DEF BilledOnce
      <4> QED BY <3>1, <4>1, <4>2 DEF OnLiveBill, Live
    <3>4. \A t \in Tickets : t \notin lines[b] => (OnLiveBill(t)' <=> OnLiveBill(t))
      BY <3>1 DEF OnLiveBill, Live
    <3>5. \A t \in Tickets : Visit'[t] = IF Payer[t] = b THEN "leaving" ELSE Visit[t]
      BY <1>a, <1>b, <3>1, <3>2, <3>3, <3>4 DEF VisitFollows, TypeOK, SessionStatus
    <3>6. \A t \in Tickets : Payer'[t] = IF Payer[t] = b THEN NoBill ELSE Payer[t]
      <4>1. \A t \in Tickets : Payer[t] = b => Payer'[t] = NoBill
        BY <1>b, <3>2, <3>3 DEF PayerIsTheBill
      <4>2. \A t \in Tickets : Payer[t] # b => Payer'[t] = Payer[t]
        <5> SUFFICES ASSUME NEW t \in Tickets, t \notin lines[b] PROVE Payer'[t] = Payer[t]
          BY <3>2
        <5>1. \A k \in Checkouts : t \in lines[k] => (Live(k)' <=> Live(k)) /\ t \in lines'[k]
          BY <3>1 DEF Live
        <5> QED BY <1>a, <1>b, <3>1, <3>4, <5>1 DEF PayerIsTheBill, OnLiveBill
      <4> QED BY <4>1, <4>2
    <3>7. /\ Visit = [t \in Tickets |-> Visit[t]] /\ Visit' = [t \in Tickets |-> Visit'[t]]
          /\ Payer = [t \in Tickets |-> Payer[t]] /\ Payer' = [t \in Tickets |-> Payer'[t]]
      BY DEF Visit, Payer
    <3>8. Issued' = Issued
      BY <3>1 DEF Issued, Live
    <3>9. CASE \E t \in Tickets : Payer[t] = b
      <4>1. Billing!Withdraw(b)
        BY <3>5, <3>6, <3>7, <3>8, <3>9 DEF Billing!Withdraw
      <4> QED BY <3>1, <4>1 DEF Billing!Next
    <3>10. CASE ~\E t \in Tickets : Payer[t] = b
      <4>1. Visit' = Visit /\ Payer' = Payer
        BY <3>5, <3>6, <3>7, <3>10
      <4> QED BY <3>8, <4>1 DEF Billing!vars
    <3> QED BY <3>9, <3>10
  <2>3. ASSUME NEW u \in Tickets, ReopenForCancel(c, u) PROVE Billing!Next
    <3>1. /\ target[c] \in Checkouts /\ billStatus[target[c]] = "CANCELLED"
          /\ billId[u] = target[c] /\ UNCHANGED bills
      BY <1>0, <2>3 DEF ReopenForCancel, Ownership, CancelOwnsItsBill
    <3>2. Owns(target[c], u) /\ ~Live(target[c])
      BY <3>1 DEF Owns, Live
    <3>3. ~OnLiveBill(u)
      <4>1. \A b \in Checkouts : Live(b) /\ u \in lines[b] => b = target[c]
        BY <1>0, <3>1, <3>2 DEF Ownership, OwnedByOne, Owns
      <4> QED BY <3>2, <4>1 DEF OnLiveBill
    <3>4. status[u] = "CLOSED"
      BY <1>0, <3>1, <3>2 DEF Ownership, OwnedIsClosed
    <3>5. status'[u] = "ACTIVE" /\ \A t \in Tickets \ {u} : status'[t] = status[t]
      BY <2>3, <3>4 DEF ReopenForCancel, ReopenTicket, TypeOK
    <3> QED BY <1>d, <3>1, <3>3, <3>4, <3>5
  <2> QED BY <1>5, <2>1, <2>2, <2>3 DEF CancelStep
<1> QED BY <1>1, <1>2, <1>3, <1>4, <1>5 DEF Next

\* The checkout keeps the promise of TicketBilling: whole parties are billed at once, each
\* visit on one bill, and a billed visit returns only with the cancellation of its whole
\* bill, through crashes and cancels at any moment, as long as no operation fails.
THEOREM CheckoutImplementsBilling ==
    ASSUME "dbError" \notin Disturbances
    PROVE  Spec => ImplementsBilling
<1>1. Init => Billing!Init
  <2> SUFFICES ASSUME Init PROVE Billing!Init
    OBVIOUS
  <2>1. \A t \in Tickets : status[t] = "ACTIVE" /\ ~OnLiveBill(t)
    BY DEF Init, OnLiveBill, Live
  <2>2. \A t \in Tickets : Visit[t] = "playing" /\ Payer[t] = NoBill
    BY <2>1 DEF Visit, Payer
  <2>3. Visit = [t \in Tickets |-> Visit[t]] /\ Payer = [t \in Tickets |-> Payer[t]]
    BY DEF Visit, Payer
  <2>4. Issued = {}
    BY DEF Init, Issued
  <2> QED BY <2>2, <2>3, <2>4 DEF Billing!Init
<1>2. TypeOK /\ TypeOK' /\ Ownership /\ PartyAtWork /\ BilledOnce /\ BilledOnce' /\ [Next]_vars
        => [Billing!Next]_(Billing!vars)
  BY BillingStep
<1> QED
  BY <1>1, <1>2, TypeCorrect, OwnershipHolds, PartyAtWorkHolds, TicketsAreBilledOnce, PTL
  DEF Spec, ImplementsBilling, Billing!Spec

=============================================================================
