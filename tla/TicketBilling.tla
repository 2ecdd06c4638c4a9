--------------------------- MODULE TicketBilling ---------------------------
(***************************************************************************)
(* What the checkout promises about tickets, with the requests and the     *)
(* database left out.  A ticket is a visit: the child plays, is taken off  *)
(* the floor by somebody's checkout, and ends up on one bill, or goes back *)
(* to playing.  TicketCheckout is the code, and implements this module.    *)
(***************************************************************************)
EXTENDS Naturals

CONSTANTS Tickets, Bills, NoBill

VARIABLES
    phase,    \* phase[t]: where the visit of ticket t stands
    payer,    \* payer[t]: the bill the visit is on
    issued    \* the bills that were ever written

vars == <<phase, payer, issued>>

Phase == {"playing", "leaving", "billed", "voided"}

TypeOK ==
    /\ phase \in [Tickets -> Phase]
    /\ payer \in [Tickets -> Bills \cup {NoBill}]
    /\ issued \subseteq Bills

Init ==
    /\ phase = [t \in Tickets |-> "playing"]
    /\ payer = [t \in Tickets |-> NoBill]
    /\ issued = {}

\* A checkout takes the ticket off the floor.
Leave(t) ==
    /\ phase[t] = "playing"
    /\ phase' = [phase EXCEPT ![t] = "leaving"]
    /\ UNCHANGED <<payer, issued>>

\* A checkout that came to nothing, or a cancelled one, puts it back.
Return(t) ==
    /\ phase[t] = "leaving"
    /\ phase' = [phase EXCEPT ![t] = "playing"]
    /\ UNCHANGED <<payer, issued>>

\* A new bill takes on a whole party at once, or nobody.
Bill(b, party) ==
    /\ b \notin issued
    /\ party # {}
    /\ \A t \in party : phase[t] = "leaving"
    /\ phase' = [t \in Tickets |-> IF t \in party THEN "billed" ELSE phase[t]]
    /\ payer' = [t \in Tickets |-> IF t \in party THEN b ELSE payer[t]]
    /\ issued' = issued \cup {b}

\* Cancelling a bill lets go of everybody on it at once.
Withdraw(b) ==
    /\ \E t \in Tickets : payer[t] = b
    /\ phase' = [t \in Tickets |-> IF payer[t] = b THEN "leaving" ELSE phase[t]]
    /\ payer' = [t \in Tickets |-> IF payer[t] = b THEN NoBill ELSE payer[t]]
    /\ UNCHANGED issued

Void(t) ==
    /\ phase[t] = "playing"
    /\ phase' = [phase EXCEPT ![t] = "voided"]
    /\ UNCHANGED <<payer, issued>>

Next ==
    \/ \E t \in Tickets : Leave(t) \/ Return(t) \/ Void(t)
    \/ \E b \in Bills :
        \/ Withdraw(b)
        \/ \E party \in SUBSET Tickets : Bill(b, party)

Spec == Init /\ [][Next]_vars

=============================================================================
