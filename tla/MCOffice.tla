------------------------------ MODULE MCOffice ------------------------------
(***************************************************************************)
(* Six small machines that share no data with each other, checked in one   *)
(* run: in a behaviour one of them moves, "part", and the others stay as   *)
(* they begin.                                                             *)
(***************************************************************************)
EXTENDS TLC, IdempotentCompletion, BillNumber, CheckIn, Catalogue, RefreshTokens, CustomerCleanup

CONSTANTS r1, r2, u1, s1, a, b, c1, c2, e1, x, y

VARIABLE part

officeVars == <<part, vars, numbersVars, checkInVars, catalogueVars, tokenVars, cleanupVars>>

(* Payments: two requests under one key, one under another, one without. *)
MCKeyOf == [r \in Requests |-> CASE r \in {r1, r2} -> a [] r = s1 -> b [] r = u1 -> NoKey]
AllDisturbances == {"crash", "dbError", "expiry"}

\* Three of them arrive.
AtMostThree == Cardinality({r \in Requests : pc'[r] # "idle"}) <= 3

(* Numbers: the payments, which are alike, begin in the order of their names. *)
InOrder ==
    \A p, q \in Payments : p < q /\ paying'[q].at # "idle" => paying'[p].at # "idle"

(* Tickets: two check-ins, the second with an extra sold since, and a sale. *)
MCCarries == [r \in TicketRequests |->
    CASE r = c1 -> <<x>> [] r = c2 -> <<x, y, x>> [] r = e1 -> <<y, x, y>>]
\* Each extra is of a product of its own.
MCProductOf == [e \in Extras |-> e]

(* Tokens: of the two devices, which are alike, the till signs in first. *)
TillFirst == 1 \in Issued' => token'[1].of = "till"

(* Repair: three records of two numbers; a bill and a ticket of any of them, of a customer *)
(* who is gone, or of none; and a bill whose number may have no customer.  Each record has *)
(* a name and notes of its own, and all but the oldest an email.                           *)
Phone(number, normal) == [number |-> number, normal |-> normal]
Record == {Phone("p", TRUE), Phone("p", FALSE), Phone("q", TRUE), Phone(NoNumber, FALSE)}
Paper(customers, paid) ==
    {phone @@ [customer |-> c, paid |-> paid] :
        phone \in {Phone("p", FALSE), Phone("q", TRUE), Phone(NoNumber, TRUE)}, c \in customers}
Told(id) ==
    [says |-> [parentName |-> id, email |-> IF id = 1 THEN Unsaid ELSE id], notes |-> {id}]
Found ==
    {[indexed |-> i, families |-> [id \in 1..3 |-> f[id] @@ Told(id)],
      papers |-> ("b1" :> bill @@ "t1" :> ticket
                  @@ "b2" :> (Phone("q", FALSE) @@ [customer |-> Unlinked, paid |-> TRUE]))] :
        i \in BOOLEAN, f \in {g \in [1..3 -> Record] : g[3].number # NoNumber},
        bill \in Paper({Unlinked, 2, 9}, TRUE),
        ticket \in {paper \in Paper({Unlinked, 3}, FALSE) : paper.number # "q"}}
\* Under the unique index no two records have the same.
MCBooks == {found \in Found :
    found.indexed => \A i, j \in 1..3 :
        i # j /\ found.families[i].number = found.families[j].number
        /\ found.families[i].number # NoNumber
        => ~(found.families[i].normal /\ found.families[j].normal)}

OfficeInit ==
    /\ part \in {"payment", "number", "ticket", "catalogue", "tokens", "repair"}
    /\ Init /\ NumbersInit /\ CheckInInit /\ TokensInit
    /\ CatalogueInit /\ (part # "catalogue" => kind = "PRODUCT")
    /\ IF part = "repair" THEN CleanupInit
       ELSE /\ book = {} /\ families = {} /\ papers = {}
            /\ doing = "idle" /\ plan = NoPlan /\ deaths = 0

Rest(moving) ==
    /\ part = moving /\ UNCHANGED part
    /\ moving # "payment" => UNCHANGED vars
    /\ moving # "number" => UNCHANGED numbersVars
    /\ moving # "ticket" => UNCHANGED checkInVars
    /\ moving # "catalogue" => UNCHANGED catalogueVars
    /\ moving # "tokens" => UNCHANGED tokenVars
    /\ moving # "repair" => UNCHANGED cleanupVars

OfficeNext ==
    \/ Rest("payment") /\ Next /\ AtMostThree
    \/ Rest("number") /\ NumbersNext /\ InOrder
    \/ Rest("ticket") /\ CheckInNext
    \/ Rest("catalogue") /\ CatalogueNext
    \/ Rest("tokens") /\ TokensNext /\ TillFirst
    \/ Rest("repair") /\ CleanupNext

OfficeSpec ==
    /\ OfficeInit /\ [][OfficeNext]_officeVars
    /\ \A r \in Requests : WF_vars(Step(r) /\ Rest("payment"))

=============================================================================
