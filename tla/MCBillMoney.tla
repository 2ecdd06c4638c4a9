---------------------------- MODULE MCBillMoney ----------------------------
(***************************************************************************)
(* Small instances of BillMoney: amounts that make every comparison go     *)
(* both ways, two requests of a kind at most, which are interchangeable.   *)
(***************************************************************************)
EXTENDS BillMoney, FiniteSets, TLC

CONSTANTS e1, e2, p1, p2, c1, c2

AnyOfAKind == Permutations(Edits) \cup Permutations(Payments) \cup Permutations(Corrections)

\* One edit with all the payments and corrections, or two edits with a payment.
Begun(requests) == {r \in requests : pc[r] # "idle"}
AtOnce ==
    Cardinality(Begun(Edits)) > 1 => Cardinality(Begun(Payments)) <= 1 /\ Begun(Corrections) = {}

MoneySpec == Init /\ [][Next /\ AtOnce']_vars

=============================================================================
