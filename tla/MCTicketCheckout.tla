-------------------------- MODULE MCTicketCheckout --------------------------
(***************************************************************************)
(* Small instances of TicketCheckout.  Cashier "ann" rings up the first    *)
(* checkout and cancels once, "bob" the second; "eve" is an admin, who     *)
(* cancels once.                                                           *)
(***************************************************************************)
EXTENDS TicketCheckout

CONSTANTS t1, t2, e1, k1, k2, x1, x2

MCActorOf == [r \in {k1, k2, x1, x2} |->
    CASE r \in {k1, x1} -> "ann"
      [] r = k2 -> "bob"
      [] r = x2 -> "eve"]
MCAdmins == {"eve"}

DbError == {"dbError"}
NoDbError == {"crash", "earlyCancel"}
AllDisturbances == {"crash", "dbError", "earlyCancel"}

=============================================================================
