---------------------------- MODULE MCFamilyRecords ----------------------------
(* Two bills paid on one day, their tickets, two families and two tills. *)
EXTENDS FamilyRecords, TLC

CONSTANTS b1, b2

MCDayOf == [b \in Bills |-> 1]

Symmetry == Permutations(Requests) \cup Permutations(Customers) \cup Permutations(Phones)

=============================================================================
