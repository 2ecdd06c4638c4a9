SPECIFICATION FairSpec
CONSTANTS
    t1 = t1 t2 = t2 e1 = e1
    k1 = k1 k2 = k2 x1 = x1 x2 = x2
    NoBill = NoBill
    Tickets = {t1, t2}
    Extras = {e1}
    Checkouts = {k1, k2}
    Cancels = {x1, x2}
    ActorOf <- MCActorOf
    Admins <- MCAdmins
    Disturbances <- NoDbError
INVARIANTS BilledOnce Ownership StrandedOnlyByDeathOrMissed
PROPERTIES CashierCancelsOwnDraft ImplementsBilling NobodyInLimbo
CHECK_DEADLOCK FALSE
