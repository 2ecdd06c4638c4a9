SPECIFICATION Spec
CONSTANTS
    t1 = t1 t2 = t2 e1 = e1
    k1 = k1 k2 = k2 x1 = x1 x2 = x2
    NoBill = NoBill
    Tickets = {t1, t2}
    Extras = {}
    Checkouts = {k1, k2}
    Cancels = {x2}
    ActorOf <- MCActorOf
    Admins <- MCAdmins
    Disturbances <- DbError
INVARIANTS BilledOnce
CHECK_DEADLOCK FALSE
