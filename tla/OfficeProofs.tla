---------------------------- MODULE OfficeProofs ----------------------------
(***************************************************************************)
(* Theorems about the machines of MCOffice: what the tills do at the same  *)
(* time, for any number of them, whatever crashes, fails, expires or is    *)
(* sent again:                                                             *)
(*   - the payment of a bill, its key (IdempotentCompletion) and its       *)
(*     number (BillNumber), for any payments of one second and any time    *)
(*     that passes;                                                        *)
(*   - the sale of extras to a ticket (CheckIn), whatever each request     *)
(*     carries and however often it carries it;                            *)
(*   - a product that is being deleted (Catalogue), for any number of      *)
(*     tickets, bills, sales and deletions;                                *)
(*   - the refresh tokens (RefreshTokens), for any devices, requests and   *)
(*     number of tokens;                                                   *)
(* and the one-off repair of the customers (CustomerCleanup), for any      *)
(* database it may find and any number of times that it dies.              *)
(***************************************************************************)
EXTENDS IdempotentCompletion, BillNumber, CheckIn, Catalogue, RefreshTokens, CustomerCleanup,
        SumTheorems, FiniteSetTheorems, WellFoundedInduction, TLAPS

-----------------------------------------------------------------------------
(* The key of a payment.                                                    *)

\* Only requests with a key go the way of the key, and what waits to be answered when the
\* key has been given back is a failure.
KeyedWay ==
    \A r \in Requests :
        /\ pc[r] \in {"find", "claim", "store", "release"} => Keyed(r)
        /\ pc[r] = "release" => answer[r] \in {"refused", "alreadyDone", "failed"}

\* The bill is paid by one request for good, and only that one is on its way to a receipt.
PaidForGood ==
    /\ status = "DRAFT" => payer = Nobody
    /\ status = "PAID" => payer \in Requests
    /\ \A r \in Requests : pc[r] \in {"receipt", "store"} => payer = r

\* An answer that is kept is the payer's, under the payer's own key.
KeptAnswers ==
    \A k \in Keys :
        key[k] = "stored" => payer \in Requests /\ body[k] = payer /\ KeyOf[payer] = k

\* A success is the payer's, and stays it because the payer never changes.
Successes ==
    \A r \in Requests :
        pc[r] = "ok" =>
            /\ payer \in Requests
            /\ answer[r] = payer
            /\ Keyed(r) => KeyOf[r] = KeyOf[payer]

\* The inductive invariant.
IInv == TypeOK /\ KeyedWay /\ PaidForGood /\ KeptAnswers /\ Successes

\* Before anything happens.
LEMMA InitIInv == Init => IInv
BY NobodyIsNoRequest, KeysAreKnown
   DEF Init, IInv, TypeOK, PC, InFlight, Answered, KeyedWay, PaidForGood, KeptAnswers, Successes

\* A handler's step keeps the invariant: one case per action.
LEMMA StepKeepsIInv ==
    ASSUME IInv, NEW r \in Requests, Step(r)
    PROVE  IInv'
<1> USE NobodyIsNoRequest, KeysAreKnown
    DEF IInv, TypeOK, PC, InFlight, Answered, KeyedWay, PaidForGood, KeptAnswers, Successes,
        Document, KeyDocuments, Goto, Keyed
<1>1. CASE Replay(r)
  BY <1>1 DEF Replay
<1>2. CASE FindNothing(r)
  BY <1>2 DEF FindNothing
<1>3. CASE ClaimKey(r)
  BY <1>3 DEF ClaimKey
<1>4. CASE KeyTaken(r)
  BY <1>4 DEF KeyTaken
<1>5. CASE Pay(r)
  BY <1>5 DEF Pay
<1>6. CASE Refuse(r)
  BY <1>6 DEF Refuse, Throw
<1>7. CASE NoDraft(r)
  BY <1>7 DEF NoDraft, Throw
<1>8. CASE MakeReceipt(r)
  BY <1>8 DEF MakeReceipt
<1>9. CASE StoreAnswer(r)
  BY <1>9 DEF StoreAnswer
<1>10. CASE ReleaseKey(r)
  BY <1>10 DEF ReleaseKey
<1> QED
  BY <1>1, <1>2, <1>3, <1>4, <1>5, <1>6, <1>7, <1>8, <1>9, <1>10 DEF Step

\* So does everything else that happens to the bill, the keys and the requests.
LEMMA OthersKeepIInv ==
    ASSUME IInv,
           \/ \E r \in Requests : Arrive(r) \/ FailEarly(r) \/ FailLate(r) \/ ReleaseFails(r)
           \/ \E k \in Keys : Expire(k)
           \/ CancelBill \/ Crash
           \/ UNCHANGED vars
    PROVE  IInv'
<1> USE NobodyIsNoRequest, KeysAreKnown
    DEF IInv, TypeOK, PC, InFlight, Answered, KeyedWay, PaidForGood, KeptAnswers, Successes,
        Document, KeyDocuments, Goto, Keyed
<1>1. ASSUME NEW r \in Requests, Arrive(r) PROVE IInv'
  BY <1>1 DEF Arrive
<1>2. ASSUME NEW r \in Requests, FailLate(r) PROVE IInv'
  BY <1>2 DEF FailLate, Throw
<1>3. ASSUME NEW k \in Keys, Expire(k) PROVE IInv'
  BY <1>3 DEF Expire
<1>4. CASE CancelBill
  BY <1>4 DEF CancelBill
<1>5. CASE Crash
  BY <1>5 DEF Crash
<1>6. ASSUME NEW r \in Requests, FailEarly(r) PROVE IInv'
  BY <1>6 DEF FailEarly
<1>7. ASSUME NEW r \in Requests, ReleaseFails(r) PROVE IInv'
  BY <1>7 DEF ReleaseFails
<1>8. CASE UNCHANGED vars
  BY <1>8 DEF vars
<1> QED
  BY <1>1, <1>2, <1>3, <1>4, <1>5, <1>6, <1>7, <1>8

\* The invariant holds of every reachable state.
THEOREM InvariantHolds == Spec => []IInv
<1>1. IInv /\ [Next]_vars => IInv'
  BY StepKeepsIInv, OthersKeepIInv DEF Next
<1> QED
  BY <1>1, InitIInv, PTL DEF Spec

\* Every variable keeps its type.
THEOREM TypeCorrect == Spec => []TypeOK
<1>1. IInv => TypeOK
  BY DEF IInv
<1> QED
  BY <1>1, InvariantHolds, PTL

\* Whatever is retried, lost, crashed or expired, the bill is paid once and every till that is
\* told so holds the receipt of that payment, which its own key paid for if it sent one.
THEOREM OneReceipt == Spec => []OnePaymentOneReceipt
<1>1. IInv => OnePaymentOneReceipt
  BY DEF IInv, Successes, OnePaymentOneReceipt, Succeeded
<1> QED
  BY <1>1, InvariantHolds, PTL

-----------------------------------------------------------------------------
(* What the key is for.                                                     *)

\* A request that claimed its key is at work on the bill, or waits to be answered.
HasKey(r) == Keyed(r) /\ pc[r] \in {"run", "receipt", "store", "release"}

\* A key is in one hand at a time: it is claimed, and by no other request at work.
OneHolder ==
    \A r \in Requests : HasKey(r) =>
        /\ key[KeyOf[r]] = "claimed"
        /\ \A q \in Requests \ {r} : KeyOf[q] = KeyOf[r] => ~HasKey(q)

\* The payer is on its way to a receipt, has it, died with it, or failed after all.
PayerGoesOn ==
    payer \in Requests =>
        \/ pc[payer] \in {"receipt", "store", "ok", "crashed"}
        \/ pc[payer] \in {"release", "failed", "unreleased"} /\ answer[payer] = "failed"

\* Nobody is told that the bill is completed, or about to be told, while it can be paid.
TooLateIsTooLate ==
    status = "DRAFT" =>
        \A r \in Requests :
            pc[r] # "alreadyDone" /\ (pc[r] = "release" => answer[r] # "alreadyDone")

\* The payer has not failed: it is at work, was answered, or died before it could fail.
PayerStands ==
    /\ payer \in Requests
    /\ \/ pc[payer] \in {"receipt", "store", "ok"}
       \/ pc[payer] = "crashed" /\ answer[payer] # "failed"

\* As long as the payer has not failed and its key has not lapsed, the key is not given
\* back, no other request of that key has it, and none was told "alreadyDone".
PayerKeepsItsKey ==
    PayerStands /\ Keyed(payer) /\ KeyOf[payer] \notin lapsed =>
        /\ key[KeyOf[payer]] # "free"
        /\ \A r \in Requests \ {payer} :
            KeyOf[r] = KeyOf[payer] => ~HasKey(r) /\ pc[r] # "alreadyDone"

KInv == OneHolder /\ PayerGoesOn /\ TooLateIsTooLate /\ PayerKeepsItsKey

\* A handler's step keeps it: one case per action.
LEMMA StepKeepsKInv ==
    ASSUME IInv, KInv, NEW r \in Requests, Step(r)
    PROVE  KInv'
<1> USE NobodyIsNoRequest, KeysAreKnown
    DEF IInv, TypeOK, PC, InFlight, Answered, KeyedWay, PaidForGood,
        KInv, OneHolder, PayerGoesOn, TooLateIsTooLate, PayerKeepsItsKey, PayerStands, HasKey,
        Document, KeyDocuments, Goto, Keyed
<1>1. CASE Replay(r)
  BY <1>1 DEF Replay
<1>2. CASE FindNothing(r)
  BY <1>2 DEF FindNothing
<1>3. CASE ClaimKey(r)
  BY <1>3 DEF ClaimKey
<1>4. CASE KeyTaken(r)
  BY <1>4 DEF KeyTaken
<1>5. CASE Pay(r)
  BY <1>5 DEF Pay
<1>6. CASE Refuse(r)
  BY <1>6 DEF Refuse, Throw
<1>7. CASE NoDraft(r)
  BY <1>7 DEF NoDraft, Throw
<1>8. CASE MakeReceipt(r)
  BY <1>8 DEF MakeReceipt
<1>9. CASE StoreAnswer(r)
  BY <1>9 DEF StoreAnswer
<1>10. CASE ReleaseKey(r)
  BY <1>10 DEF ReleaseKey
<1> QED
  BY <1>1, <1>2, <1>3, <1>4, <1>5, <1>6, <1>7, <1>8, <1>9, <1>10 DEF Step

\* So does everything else.
LEMMA OthersKeepKInv ==
    ASSUME IInv, KInv,
           \/ \E r \in Requests : Arrive(r) \/ FailEarly(r) \/ FailLate(r) \/ ReleaseFails(r)
           \/ \E k \in Keys : Expire(k)
           \/ CancelBill \/ Crash
           \/ UNCHANGED vars
    PROVE  KInv'
<1> USE NobodyIsNoRequest, KeysAreKnown
    DEF IInv, TypeOK, PC, InFlight, Answered, KeyedWay, PaidForGood,
        KInv, OneHolder, PayerGoesOn, TooLateIsTooLate, PayerKeepsItsKey, PayerStands, HasKey,
        Document, KeyDocuments, Goto, Keyed
<1>1. ASSUME NEW r \in Requests, Arrive(r) PROVE KInv'
  BY <1>1 DEF Arrive
<1>2. ASSUME NEW r \in Requests, FailLate(r) PROVE KInv'
  BY <1>2 DEF FailLate, Throw
<1>3. ASSUME NEW k \in Keys, Expire(k) PROVE KInv'
  BY <1>3 DEF Expire
<1>4. CASE CancelBill
  BY <1>4 DEF CancelBill
<1>5. CASE Crash
  BY <1>5 DEF Crash
<1>6. ASSUME NEW r \in Requests, FailEarly(r) PROVE KInv'
  BY <1>6 DEF FailEarly
<1>7. ASSUME NEW r \in Requests, ReleaseFails(r) PROVE KInv'
  BY <1>7 DEF ReleaseFails
<1>8. CASE UNCHANGED vars
  BY <1>8 DEF vars
<1> QED
  BY <1>1, <1>2, <1>3, <1>4, <1>5, <1>6, <1>7, <1>8

\* "A retried request with the same key gets the exact stored response": a till whose own key
\* paid the bill is told "alreadyDone" only if the payer failed late or the key lapsed.
THEOREM ToldWithReason == Spec => []ToldAlreadyDoneWithReason
<1>1. Init => KInv
  BY NobodyIsNoRequest
     DEF Init, KInv, OneHolder, PayerGoesOn, TooLateIsTooLate, PayerKeepsItsKey, PayerStands, HasKey
<1>2. IInv /\ KInv /\ [Next]_vars => KInv'
  BY StepKeepsKInv, OthersKeepKInv DEF Next
<1>3. IInv /\ KInv => ToldAlreadyDoneWithReason
  BY DEF IInv, TypeOK, KInv, PayerKeepsItsKey, PayerGoesOn, PayerStands,
         ToldAlreadyDoneWithReason, Keyed
<1> QED
  BY <1>1, <1>2, <1>3, InvariantHolds, PTL DEF Spec

-----------------------------------------------------------------------------
(* The number of a payment.                                                 *)

\* Where a payment can stand.
Standing == {"idle", "count", "check", "write", "paid", "duplicate", "noneFree"}

PaymentRecord ==
    [at : Standing, since : Nat, checks : BOOLEAN, tries : Nat, retried : BOOLEAN, number : Nat,
     raced : SUBSET Payments]

\* Types of every variable.
NumberTypes ==
    /\ halfDay \in Nat
    /\ counter \in SUBSET [seq : Nat, createdAt : Nat]
    /\ paying \in [Payments -> PaymentRecord]

\* The payments that have begun.
Begun == {p \in Payments : paying[p].at # "idle"}

\* q is paid, under the number n; somebody is.
PaidAs(q, n) == paying[q].at = "paid" /\ paying[q].number = n
Taken(n) == \E q \in Payments : PaidAs(q, n)

\* A payment has raced whoever is in flight with it, and only finitely many.
Racing ==
    /\ IsFiniteSet(Begun)
    /\ \A p \in Payments : paying[p].raced \subseteq Begun
    /\ \A p, q \in Payments :
        p # q /\ NumberInFlight(p) /\ NumberInFlight(q) => q \in paying[p].raced

\* A payment takes less than a half day, and checks unless it began in the first.
InItsTime ==
    \A p \in Begun :
        /\ paying[p].since <= halfDay
        /\ NumberInFlight(p) => halfDay <= paying[p].since + 1
        /\ paying[p].checks = (paying[p].since > 0)

\* It holds a number.
Numbered(p) == paying[p].at \in {"check", "write", "paid"}

\* As long as a payment that does not check is in flight one row counts, and all numbers differ.
FirstMoment ==
    /\ \A record, other \in counter : record = other
    /\ halfDay < RowLife =>
        \A p \in Payments :
            /\ paying[p].at \in {"idle", "count", "check", "write", "paid"} /\ ~ paying[p].retried
            /\ Numbered(p) => \E record \in counter : paying[p].number <= record.seq
            /\ \A q \in Payments \ {p} :
                Numbered(p) /\ Numbered(q) => paying[p].number # paying[q].number

\* A number is lost to a payment in flight only by one it races; one that lost its first
\* number lost it to another one than has its second.
LostToRaced ==
    \A p \in Payments :
        /\ paying[p].at = "write" /\ Taken(paying[p].number) =>
            \E q \in paying[p].raced : PaidAs(q, paying[p].number)
        /\ paying[p].retried =>
            /\ paying[p].at # "idle" /\ paying[p].since > 0
            /\ \E q \in paying[p].raced :
                /\ paying[q].at = "paid"
                /\ paying[p].at = "write" => paying[q].number # paying[p].number
        /\ paying[p].at = "duplicate" => \E q, other \in paying[p].raced : q # other

\* The inductive invariant of the numbers.
NInv == NumberTypes /\ Racing /\ InItsTime /\ FirstMoment /\ LostToRaced

-----------------------------------------------------------------------------

\* The numbers of the bills are those somebody is paid under.
LEMMA TakenIsPaid ==
    ASSUME NEW n
    PROVE  n \in TakenNumbers <=> Taken(n)
BY DEF TakenNumbers, Taken, PaidAs

\* Before any payment begins.
LEMMA InitNInv == NumbersInit => NInv
<1> SUFFICES ASSUME NumbersInit PROVE NInv
  OBVIOUS
<1>1. Begun = {}
  BY DEF NumbersInit, Begun
<1> QED
  BY <1>1, FS_EmptySet
     DEF NumbersInit, NInv, NumberTypes, PaymentRecord, Standing, Racing, InItsTime, FirstMoment,
         LostToRaced, NumberInFlight, Numbered, Begun

\* A payment that begins races those in flight, and they race it.
LEMMA BeginKeepsNInv ==
    ASSUME NInv, NEW p \in Payments, BeginNumber(p)
    PROVE  NInv'
<1> USE DEF NInv
<1>t. /\ halfDay \in Nat /\ paying[p] \in PaymentRecord /\ DOMAIN paying = Payments
      /\ \A q \in Payments : paying[q].since \in Nat /\ paying[q].number \in Nat
      /\ \A q \in Payments : paying[q].raced \subseteq Payments
  BY DEF NumberTypes, PaymentRecord
<1>0. /\ paying[p].at = "idle" /\ UNCHANGED <<halfDay, counter>>
      /\ paying'[p] = [paying[p] EXCEPT !.at = "count", !.checks = ChecksExisting,
                                        !.since = halfDay, !.raced = {q \in Payments : NumberInFlight(q)}]
      /\ \A q \in Payments \ {p} : paying'[q] =
            IF NumberInFlight(q) THEN [paying[q] EXCEPT !.raced = @ \cup {p}] ELSE paying[q]
      /\ DOMAIN paying' = Payments
  BY DEF BeginNumber, NumberInFlight
<1>1. NumberTypes'
  <2>0. paying'[p] \in PaymentRecord
    <3>1. ChecksExisting \in BOOLEAN /\ {q \in Payments : NumberInFlight(q)} \in SUBSET Payments
      BY DEF ChecksExisting
    <3> QED
      BY <1>0, <1>t, <3>1 DEF PaymentRecord, Standing
  <2>1. ASSUME NEW q \in Payments \ {p} PROVE paying'[q] \in PaymentRecord
    BY <1>0 DEF NumberTypes, PaymentRecord
  <2>2. paying' = [q \in Payments |-> paying'[q]]
    BY DEF BeginNumber
  <2> QED
    BY <1>0, <2>0, <2>1, <2>2 DEF NumberTypes, PaymentRecord
<1>2. /\ ~ paying'[p].retried /\ paying'[p].at = "count" /\ paying'[p].since = halfDay
      /\ paying'[p].checks = (halfDay > 0) /\ paying'[p].raced = {q \in Payments : NumberInFlight(q)}
  BY <1>0, <1>t DEF LostToRaced, ChecksExisting, PaymentRecord
<1>3. \A q \in Payments \ {p} :
        /\ paying'[q].at = paying[q].at /\ paying'[q].since = paying[q].since
        /\ paying'[q].checks = paying[q].checks /\ paying'[q].retried = paying[q].retried
        /\ paying'[q].number = paying[q].number
        /\ paying[q].raced \subseteq paying'[q].raced /\ paying'[q].raced \subseteq paying[q].raced \cup {p}
        /\ NumberInFlight(q) => p \in paying'[q].raced
  BY <1>0 DEF NumberTypes, PaymentRecord
<1>u. UNCHANGED <<halfDay, counter>> /\ paying[p].at = "idle"
  BY <1>0
<1>4. \A q \in Payments : \A n : PaidAs(q, n)' <=> PaidAs(q, n)
  BY <1>u, <1>2, <1>3 DEF PaidAs
<1>5. Racing'
  <2>1. Begun' = Begun \cup {p}
    BY <1>2, <1>3 DEF Begun
  <2>2. IsFiniteSet(Begun')
    BY <2>1, FS_AddElement DEF Racing
  <2>3. \A q \in Payments : paying'[q].raced \subseteq Begun'
    BY <1>2, <1>3, <2>1 DEF Racing, Begun, NumberInFlight
  <2> QED
    BY <1>2, <1>3, <2>2, <2>3 DEF Racing, NumberInFlight
<1>6. InItsTime'
  BY <1>u, <1>t, <1>2, <1>3 DEF InItsTime, Begun, NumberInFlight
<1>7. FirstMoment'
  BY <1>u, <1>2, <1>3 DEF FirstMoment, Numbered
<1>8. LostToRaced'
  <2>1. ASSUME NEW q \in Payments \ {p}, paying[q].at = "write", Taken(paying[q].number)'
        PROVE  \E other \in paying'[q].raced : PaidAs(other, paying[q].number)'
    BY <1>t, <1>3, <1>4, <2>1 DEF LostToRaced, Taken
  <2>2. ASSUME NEW q \in Payments \ {p}, paying[q].retried
        PROVE  \E other \in paying'[q].raced :
                 /\ paying'[other].at = "paid"
                 /\ paying[q].at = "write" => paying'[other].number # paying[q].number
    <3>1. PICK other \in paying[q].raced :
              /\ paying[other].at = "paid"
              /\ paying[q].at = "write" => paying[other].number # paying[q].number
      BY <2>2 DEF LostToRaced
    <3>2. other \in Payments \ {p}
      BY <3>1, <1>t, <1>u
    <3> QED
      BY <3>1, <3>2, <1>3
  <2> QED
    BY <1>2, <1>3, <2>1, <2>2 DEF LostToRaced, Taken
<1> QED
  BY <1>1, <1>5, <1>6, <1>7, <1>8

\* What the other steps of a payment leave alone: the other payments, and what it raced.
MovesAlone(p) ==
    /\ \A q \in Payments \ {p} : paying'[q] = paying[q]
    /\ NumberInFlight(p) /\ paying'[p].at # "idle"
    /\ paying'[p].since = paying[p].since /\ paying'[p].raced = paying[p].raced
    /\ halfDay' = halfDay

\* Such a step changes nothing about who raced whom.
LEMMA AloneKeepsRacing ==
    ASSUME NInv, NEW p \in Payments, MovesAlone(p)
    PROVE  Racing'
<1>1. Begun' = Begun
  BY DEF Begun, MovesAlone, NumberInFlight
<1> QED
  BY <1>1 DEF NInv, Racing, MovesAlone, NumberInFlight

\* A step that ends neither paid nor with a taken number in hand loses nobody a number.
LEMMA OthersStayLost ==
    ASSUME NInv, NEW p \in Payments, MovesAlone(p),
           paying'[p].at \in {"count", "check", "write", "noneFree"},
           paying'[p].retried = paying[p].retried,
           paying'[p].at = "write" => ~ Taken(paying'[p].number)
    PROVE  LostToRaced'
<1>0. \A q \in Payments \ {p} : paying'[q] = paying[q]
  BY DEF MovesAlone
<1>1. \A q \in Payments : paying[q].at = "paid" => paying'[q] = paying[q]
  BY DEF MovesAlone, NumberInFlight
<1>2. \A q \in Payments : \A n : PaidAs(q, n)' <=> PaidAs(q, n)
  BY <1>0, <1>1 DEF PaidAs
<1>3. \A n : Taken(n)' <=> Taken(n)
  BY <1>2 DEF Taken
<1>4. \A q \in Payments : /\ paying'[q].raced = paying[q].raced /\ paying'[q].since = paying[q].since
                          /\ paying[q].raced \subseteq Payments
                          /\ paying'[q].retried = paying[q].retried
  BY <1>0 DEF MovesAlone, NInv, NumberTypes, PaymentRecord
<1>5. ASSUME NEW q \in Payments, paying'[q].at = "write", Taken(paying[q].number)'
      PROVE  \E other \in paying'[q].raced : PaidAs(other, paying[q].number)'
  <2>1. q # p /\ Taken(paying[q].number) /\ paying[q].at = "write" /\ paying'[q].number = paying[q].number
    <3>1. Taken(paying'[q].number)
      BY <1>3, <1>5
    <3> QED
      BY <1>0, <1>5, <3>1
  <2>2. PICK other \in paying[q].raced : PaidAs(other, paying[q].number)
    BY <2>1 DEF NInv, LostToRaced
  <2> QED
    BY <1>2, <1>4, <2>1, <2>2
<1>6. ASSUME NEW q \in Payments, paying'[q].retried
      PROVE  /\ paying'[q].at # "idle" /\ paying'[q].since > 0
             /\ \E other \in paying'[q].raced :
                 /\ paying'[other].at = "paid"
                 /\ paying'[q].at = "write" => paying'[other].number # paying'[q].number
  <2>1. PICK other \in paying[q].raced :
          /\ paying[other].at = "paid"
          /\ paying[q].at = "write" => paying[other].number # paying[q].number
    BY <1>4, <1>6 DEF NInv, LostToRaced
  <2>2. other \in Payments /\ paying'[other] = paying[other]
    BY <1>1, <1>4, <2>1
  <2>3. paying'[q].at = "write" => paying'[other].number # paying'[q].number
    BY <1>0, <2>1, <2>2 DEF Taken, PaidAs
  <2>4. paying'[q].at # "idle" /\ paying'[q].since > 0
    BY <1>0, <1>4, <1>6 DEF NInv, LostToRaced
  <2> QED
    BY <1>4, <2>1, <2>2, <2>3, <2>4
<1>7. ASSUME NEW q \in Payments, paying'[q].at = "duplicate"
      PROVE  \E one, other \in paying'[q].raced : one # other
  BY <1>0, <1>4, <1>7 DEF NInv, LostToRaced
<1> QED
  BY <1>5, <1>6, <1>7 DEF LostToRaced

\* The number of a row that counts is a new one of that row.
LEMMA CountKeepsNInv ==
    ASSUME NInv, NEW p \in Payments, Count(p)
    PROVE  NInv'
<1> USE DEF NInv
<1>1. PICK record \in counter' :
        paying' = [paying EXCEPT ![p] =
            [paying[p] EXCEPT !.at = IF paying[p].checks THEN "check" ELSE "write",
                              !.number = record.seq, !.tries = paying[p].tries + 1]]
  BY DEF Count, Becomes, NumberTypes
<1>2. /\ paying[p].at = "count" /\ halfDay' = halfDay
      /\ counter' \in SUBSET [seq : Nat, createdAt : Nat]
      /\ \A one, other \in counter' : one = other
      /\ record \in [seq : Nat, createdAt : Nat]
      /\ \A old \in counter : record.seq > old.seq
  BY <1>1 DEF Count, NumberTypes, PaymentRecord, FirstMoment
<1>3. NumberTypes'
  <2> DEFINE at == IF paying[p].checks THEN "check" ELSE "write"
             next == [paying[p] EXCEPT !.at = at, !.number = record.seq, !.tries = paying[p].tries + 1]
  <2>1. next \in PaymentRecord
    <3>1. at \in Standing /\ record.seq \in Nat
      BY <1>2 DEF Standing
    <3>2. paying[p] \in PaymentRecord /\ paying[p].tries + 1 \in Nat
      BY DEF NumberTypes, PaymentRecord
    <3> HIDE DEF at
    <3> QED
      BY <3>1, <3>2 DEF PaymentRecord
  <2>2. paying' = [paying EXCEPT ![p] = next]
    BY <1>1
  <2> HIDE DEF next
  <2>3. paying' \in [Payments -> PaymentRecord]
    BY <2>1, <2>2 DEF NumberTypes
  <2> QED
    BY <1>2, <2>3 DEF NumberTypes
<1>4. /\ MovesAlone(p) /\ paying'[p].at = (IF paying[p].checks THEN "check" ELSE "write")
      /\ paying'[p].number = record.seq /\ paying'[p].retried = paying[p].retried
      /\ paying'[p].checks = paying[p].checks
  BY <1>1, <1>2, TakenIsPaid DEF NumberTypes, PaymentRecord, MovesAlone, NumberInFlight
<1>5. \A q \in Payments : \A n : PaidAs(q, n)' <=> PaidAs(q, n)
  BY <1>2, <1>4 DEF PaidAs, MovesAlone
<1>6. Racing'
  BY <1>4, AloneKeepsRacing
<1>7. InItsTime'
  BY <1>2, <1>4 DEF InItsTime, MovesAlone, NumberInFlight, Begun
<1>8. FirstMoment'
  <2>1. ASSUME halfDay < RowLife, NEW q \in Payments \ {p}, Numbered(q)
        PROVE  /\ record.seq # paying[q].number
               /\ \E one \in counter' : paying[q].number <= one.seq
    <3>1. PICK old \in counter : paying[q].number <= old.seq
      BY <2>1 DEF FirstMoment
    <3> QED
      BY <3>1, <1>2 DEF NumberTypes, PaymentRecord
  <2> QED
    BY <1>2, <1>4, <2>1 DEF FirstMoment, MovesAlone, Numbered, NumberTypes, PaymentRecord
<1>9. LostToRaced'
  <2>1. paying'[p].at = "write" => ~ Taken(paying'[p].number)
    BY <1>2, <1>4, <1>8 DEF InItsTime, Begun, NumberInFlight, Taken, PaidAs, FirstMoment, Numbered,
                            RowLife, MovesAlone, NumberTypes, PaymentRecord
  <2>2. paying'[p].at = "write" => ~ paying[p].retried
    BY <1>2, <1>4 DEF InItsTime, Begun, LostToRaced
  <2> QED
    BY <1>2, <1>4, <2>1, <2>2, OthersStayLost
<1> QED
  BY <1>3, <1>6, <1>7, <1>8, <1>9

\* A candidate that is let pass is free at that moment.
LEMMA CheckKeepsNInv ==
    ASSUME NInv, NEW p \in Payments, CheckCandidate(p)
    PROVE  NInv'
<1> USE DEF NInv
<1>1. paying' = [paying EXCEPT ![p] = [paying[p] EXCEPT !.at =
        IF paying[p].number \notin TakenNumbers THEN "write"
        ELSE IF paying[p].tries < MaxAttempts THEN "count" ELSE "noneFree"]]
  BY DEF CheckCandidate, Becomes, NumberTypes, PaymentRecord
<1>2. paying[p].at = "check" /\ UNCHANGED <<halfDay, counter>>
  BY DEF CheckCandidate
<1>3. NumberTypes'
  BY <1>1, <1>2 DEF NumberTypes, PaymentRecord, Standing
<1>4. /\ MovesAlone(p) /\ paying'[p].number = paying[p].number
      /\ paying'[p].at \in {"write", "count", "noneFree"}
      /\ paying'[p].at = "write" <=> ~ Taken(paying[p].number)
      /\ paying'[p].retried = paying[p].retried /\ paying'[p].checks = paying[p].checks
  BY <1>1, <1>2, TakenIsPaid DEF NumberTypes, PaymentRecord, MovesAlone, NumberInFlight
<1>5. \A q \in Payments : \A n : PaidAs(q, n)' <=> PaidAs(q, n)
  BY <1>2, <1>4 DEF PaidAs, MovesAlone
<1>6. Racing'
  BY <1>4, AloneKeepsRacing
<1>7. InItsTime'
  BY <1>2, <1>4 DEF InItsTime, MovesAlone, NumberInFlight, Begun
<1>8. FirstMoment'
  <2>1. halfDay < RowLife => ~ Taken(paying[p].number)
    BY <1>2 DEF FirstMoment, Numbered, Taken, PaidAs
  <2> QED
    BY <1>2, <1>4, <2>1 DEF FirstMoment, MovesAlone, Numbered
<1>9. LostToRaced'
  <2>1. paying'[p].at = "write" => ~ Taken(paying'[p].number)
    BY <1>4
  <2>2. paying'[p].at = "write" /\ paying[p].retried =>
            \A q \in Payments : paying[q].at = "paid" => paying[q].number # paying'[p].number
    BY <1>4 DEF Taken, PaidAs
  <2> QED
    BY <1>2, <1>4, <2>1, <2>2, OthersStayLost
<1> QED
  BY <1>3, <1>6, <1>7, <1>8, <1>9

\* Whoever has the number of this payment in hand loses it to this one, and the two raced.
LEMMA WriteKeepsNInv ==
    ASSUME NInv, NEW p \in Payments, WriteNumber(p)
    PROVE  NInv'
<1> USE DEF NInv
<1>1. paying' = [paying EXCEPT ![p] = [paying[p] EXCEPT !.at = "paid"]]
  BY DEF WriteNumber, Becomes, NumberTypes, PaymentRecord
<1>2. /\ paying[p].at = "write" /\ ~ Taken(paying[p].number)
      /\ UNCHANGED <<halfDay, counter>>
  BY TakenIsPaid DEF WriteNumber
<1>3. NumberTypes'
  BY <1>1, <1>2 DEF NumberTypes, PaymentRecord, Standing
<1>4. /\ MovesAlone(p) /\ paying'[p].number = paying[p].number /\ paying'[p].at = "paid"
      /\ paying'[p].retried = paying[p].retried /\ paying'[p].checks = paying[p].checks
  BY <1>1, <1>2, TakenIsPaid DEF NumberTypes, PaymentRecord, MovesAlone, NumberInFlight
<1>5. \A q \in Payments \ {p} : \A n : PaidAs(q, n)' <=> PaidAs(q, n)
  BY <1>4 DEF PaidAs, MovesAlone
<1>6. Racing'
  BY <1>4, AloneKeepsRacing
<1>7. InItsTime'
  BY <1>2, <1>4 DEF InItsTime, MovesAlone, NumberInFlight, Begun
<1>8. FirstMoment'
  BY <1>2, <1>4 DEF FirstMoment, MovesAlone, Numbered
<1>9. LostToRaced'
  <2>1. ASSUME NEW q \in Payments \ {p}, paying[q].at = "write", Taken(paying[q].number)'
        PROVE  \E other \in paying[q].raced : PaidAs(other, paying[q].number)'
    <3>0. paying[q].raced \subseteq Payments /\ paying'[q].number = paying[q].number
      BY <1>4 DEF NumberTypes, PaymentRecord, MovesAlone
    <3>1. CASE Taken(paying[q].number)
      BY <2>1, <3>0, <3>1, <1>2, <1>4, <1>5 DEF LostToRaced, PaidAs
    <3>2. CASE paying[q].number = paying[p].number
      BY <2>1, <3>0, <3>2, <1>2, <1>4 DEF Racing, NumberInFlight, PaidAs
    <3> QED
      BY <1>5, <2>1, <3>0, <3>1, <3>2, <1>4 DEF Taken, PaidAs
  <2>2. ASSUME NEW q \in Payments, paying'[q].retried
        PROVE  /\ paying'[q].at # "idle" /\ paying'[q].since > 0
               /\ \E other \in paying'[q].raced :
                   /\ paying'[other].at = "paid"
                   /\ paying'[q].at = "write" => paying'[other].number # paying'[q].number
    <3>1. paying[q].retried /\ paying'[q].since = paying[q].since /\ paying'[q].raced = paying[q].raced
      BY <1>4, <2>2 DEF MovesAlone
    <3>2. PICK other \in paying[q].raced :
              /\ paying[other].at = "paid"
              /\ paying[q].at = "write" => paying[other].number # paying[q].number
      BY <3>1 DEF LostToRaced
    <3>3. paying'[other] = paying[other]
      BY <1>2, <1>4, <3>2 DEF MovesAlone, NumberTypes, PaymentRecord
    <3> QED
      BY <1>2, <1>4, <3>1, <3>2, <3>3 DEF MovesAlone, LostToRaced
  <2> QED
    BY <1>4, <2>1, <2>2 DEF LostToRaced, MovesAlone
<1> QED
  BY <1>3, <1>6, <1>7, <1>8, <1>9

\* A number is lost a second time to another payment than the first.
LEMMA DuplicateKeepsNInv ==
    ASSUME NInv, NEW p \in Payments, DuplicateNumber(p)
    PROVE  NInv'
<1> USE DEF NInv
<1>2. /\ paying[p].at = "write" /\ Taken(paying[p].number)
      /\ UNCHANGED <<halfDay, counter>>
  BY TakenIsPaid DEF DuplicateNumber
<1>l. PICK loser \in paying[p].raced : PaidAs(loser, paying[p].number)
  BY <1>2 DEF LostToRaced
<1>h. halfDay >= RowLife /\ paying[p].since > 0
  BY <1>2
     DEF FirstMoment, Numbered, Taken, PaidAs, InItsTime, Begun, NumberInFlight, RowLife,
         NumberTypes, PaymentRecord
<1>4. /\ NumberTypes' /\ MovesAlone(p)
      /\ \/ paying[p].retried /\ paying'[p] = [paying[p] EXCEPT !.at = "duplicate"]
         \/ /\ ~ paying[p].retried
            /\ paying'[p] = [paying[p] EXCEPT !.at = "count", !.checks = ChecksExisting,
                                              !.tries = 0, !.retried = TRUE]
  <2>1. CASE paying[p].retried
    <3>1. paying' = [paying EXCEPT ![p] = [paying[p] EXCEPT !.at = "duplicate"]]
      BY <2>1 DEF DuplicateNumber, Becomes, NumberTypes, PaymentRecord
    <3> QED
      BY <1>2, <2>1, <3>1 DEF NumberTypes, PaymentRecord, Standing, MovesAlone, NumberInFlight
  <2>2. CASE ~ paying[p].retried
    <3>1. paying' = [paying EXCEPT ![p] = [paying[p] EXCEPT !.at = "count",
                         !.checks = ChecksExisting, !.tries = 0, !.retried = TRUE]]
      BY <2>2 DEF DuplicateNumber, Generate, Becomes, NumberTypes, PaymentRecord
    <3> QED
      <4>1. ChecksExisting \in BOOLEAN
        BY DEF ChecksExisting
      <4> QED
        BY <1>2, <2>2, <3>1, <4>1
           DEF NumberTypes, PaymentRecord, Standing, MovesAlone, NumberInFlight
  <2> QED
    BY <2>1, <2>2
<1>5. \A q \in Payments : \A n : PaidAs(q, n)' <=> PaidAs(q, n)
  <2>1. paying'[p].at # "paid"
    BY <1>4 DEF NumberTypes, PaymentRecord
  <2> QED
    BY <1>2, <1>4, <2>1 DEF PaidAs, MovesAlone
<1>6. Racing'
  BY <1>4, AloneKeepsRacing
<1>7. InItsTime'
  <2>1. paying'[p].checks = (paying'[p].since > 0)
    <3>1. paying'[p].since > 0 /\ paying[p].checks = TRUE /\ ChecksExisting = TRUE
      BY <1>2, <1>4, <1>h
         DEF InItsTime, Begun, MovesAlone, ChecksExisting, NumberTypes, PaymentRecord,
                                  RowLife
    <3>2. paying'[p].checks = TRUE
      BY <1>4, <3>1 DEF NumberTypes, PaymentRecord
    <3> QED
      BY <3>1, <3>2
  <2> QED
    BY <1>2, <1>4, <2>1 DEF InItsTime, MovesAlone, NumberInFlight, Begun
<1>8. FirstMoment'
  BY <1>2, <1>h DEF FirstMoment, NumberTypes, PaymentRecord, RowLife
<1>9. LostToRaced'
  <2>1. paying'[p].at \in {"count", "duplicate"} /\ paying'[p].raced = paying[p].raced
    BY <1>4 DEF NumberTypes, PaymentRecord, MovesAlone
  <2>2. loser # p /\ paying'[loser] = paying[loser]
    BY <1>l, <1>2, <1>4 DEF PaidAs, MovesAlone, NumberTypes, PaymentRecord
  <2>3. paying[p].retried => \E other \in paying[p].raced : other # loser
    BY <1>l, <1>2 DEF LostToRaced, PaidAs
  <2>4. paying'[p].at = "duplicate" => paying[p].retried
    BY <1>4 DEF NumberTypes, PaymentRecord
  <2>5. paying'[p].since > 0 /\ paying'[p].at # "idle"
    BY <1>h, <1>4 DEF MovesAlone
  <2>6. \A q \in Payments : paying[q].at = "paid" => paying'[q] = paying[q]
    BY <1>2, <1>4 DEF MovesAlone
  <2>7. \A q \in Payments \ {p} : paying'[q] = paying[q]
    BY <1>4 DEF MovesAlone
  <2>8. \A q \in Payments : paying[q].raced \subseteq Payments
    BY DEF NumberTypes, PaymentRecord
  <2>9. ASSUME NEW q \in Payments \ {p} PROVE
          /\ paying'[q].at = "write" /\ Taken(paying[q].number)' =>
              \E one \in paying'[q].raced : PaidAs(one, paying[q].number)'
          /\ paying'[q].retried =>
              /\ paying'[q].at # "idle" /\ paying'[q].since > 0
              /\ \E one \in paying'[q].raced :
                  /\ paying'[one].at = "paid"
                  /\ paying'[q].at = "write" => paying'[one].number # paying'[q].number
    <3>1. paying'[q] = paying[q] /\ (Taken(paying[q].number)' <=> Taken(paying[q].number))
      BY <1>5, <2>7 DEF Taken
    <3> QED
      BY <3>1, <1>5, <2>6, <2>8 DEF LostToRaced, PaidAs
  <2> QED
    BY <1>l, <2>1, <2>2, <2>3, <2>4, <2>5, <2>7, <2>9 DEF LostToRaced, PaidAs
<1> QED
  BY <1>4, <1>6, <1>7, <1>8, <1>9

\* A row expires when no payment that does not check is left.
LEMMA TimeKeepsNInv ==
    ASSUME NInv, ExpireRow \/ HalfDayPasses \/ UNCHANGED numbersVars
    PROVE  NInv'
<1> USE DEF NInv
<1>1. CASE UNCHANGED numbersVars
  BY <1>1
     DEF numbersVars, NumberTypes, PaymentRecord, Racing, InItsTime, FirstMoment, LostToRaced,
         Begun,
              NumberInFlight, Numbered, Taken, PaidAs
<1>2. CASE ExpireRow
  <2>1. halfDay >= RowLife /\ counter' = {} /\ UNCHANGED <<halfDay, paying>>
    BY <1>2 DEF ExpireRow, NumberTypes, PaymentRecord, RowLife
  <2> QED
    BY <2>1 DEF NumberTypes, PaymentRecord, Racing, InItsTime, FirstMoment, LostToRaced, Begun,
                NumberInFlight, Numbered, Taken, PaidAs, RowLife
<1>3. CASE HalfDayPasses
  <2>1. /\ halfDay' = halfDay + 1 /\ UNCHANGED <<counter, paying>>
        /\ \A p \in Payments : NumberInFlight(p) => paying[p].since = halfDay
    BY <1>3 DEF HalfDayPasses
  <2>2. InItsTime'
    BY <2>1 DEF InItsTime, Begun, NumberInFlight, NumberTypes, PaymentRecord
  <2>3. FirstMoment'
    BY <2>1 DEF FirstMoment, Numbered, NumberTypes, PaymentRecord, RowLife
  <2>4. NumberTypes' /\ Racing' /\ LostToRaced'
    BY <2>1
       DEF NumberTypes, PaymentRecord, Racing, LostToRaced, Begun, NumberInFlight, Taken, PaidAs
  <2> QED
    BY <2>2, <2>3, <2>4
<1> QED
  BY <1>1, <1>2, <1>3

\* The invariant holds of every reachable state.
THEOREM NumbersInvariant == NumbersSpec => []NInv
<1>1. NInv /\ [NumbersNext]_numbersVars => NInv'
  BY BeginKeepsNInv, CountKeepsNInv, CheckKeepsNInv, WriteKeepsNInv, DuplicateKeepsNInv, TimeKeepsNInv
     DEF NumbersNext
<1> QED
  BY <1>1, InitNInv, PTL DEF NumbersSpec

\* Every variable of the numbers keeps its type.
THEOREM NumberTypeCorrect == NumbersSpec => []NumberTypes
<1>1. NInv => NumberTypes
  BY DEF NInv
<1> QED
  BY <1>1, NumbersInvariant, PTL

\* A payment is refused for a taken number only if it raced two others that are paid, and one
\* of the moment itself never loses its number, whatever expires meanwhile.
THEOREM FreshNumberSettlesIt == NumbersSpec => []OneFreshNumberSettlesIt
<1>1. ASSUME NInv, NEW p \in Payments, paying[p].at = "duplicate"
      PROVE  Cardinality(paying[p].raced) > 1
  <2>1. PICK one, other \in paying[p].raced : one # other
    BY <1>1 DEF NInv, LostToRaced
  <2>2. IsFiniteSet(paying[p].raced) /\ Cardinality(paying[p].raced) \in Nat
    BY <1>1, FS_Subset, FS_CardinalityType DEF NInv, Racing
  <2>3. Cardinality(paying[p].raced) # 0
    BY <2>1, <2>2, FS_EmptySet
  <2>4. Cardinality(paying[p].raced) # 1
    BY <2>1, <2>2, FS_Singleton
  <2> QED
    BY <2>2, <2>3, <2>4
<1>2. NInv => OneFreshNumberSettlesIt
  BY <1>1 DEF OneFreshNumberSettlesIt, NInv, LostToRaced
<1> QED
  BY <1>2, NumbersInvariant, PTL

-----------------------------------------------------------------------------
(* The sale of extras.                                                      *)

Places == {"idle", "find", "findForExtras", "snapshotNew", "snapshot", "create", "readBack",
           "add", "recheck", "done", "crashed"}
Answers == {"none", "session", "sold", "refused", "invalidProduct", "created", "notFound",
            "checkedOut"}

\* Types of every variable.
CheckInTypes ==
    /\ sessionStatus \in {"ACTIVE", "CLOSED", "VOIDED", Nothing}
    /\ extras \subseteq TicketRequests \X Nat
    /\ active \subseteq Products
    /\ place \in [TicketRequests -> Places]
    /\ pending \in [TicketRequests -> SUBSET Nat]
    /\ priced \in [TicketRequests -> SUBSET Nat]
    /\ told \in [TicketRequests -> Answers]
    /\ takenBack \subseteq Extras

\* A ticket that does not exist carries nothing.
NothingOnNoTicket == sessionStatus = Nothing => extras = {}

\* What has been sold, or was and has been taken back.
Settled == Known \cup takenBack

\* Every extra the request carries is settled, or one of its entries is in hand.
AllInHand(r) ==
    \A i \in DOMAIN Carries[r] :
        \/ Carries[r][i] \in Settled
        \/ \E j \in pending[r] \cup priced[r] : Carries[r][j] = Carries[r][i]

\* How far a request has come with what it carries, at each place.
InHand(r) ==
    /\ place[r] = "find" => pending[r] = DOMAIN Carries[r]
    /\ place[r] \in {"idle", "find", "findForExtras"} => priced[r] = {}
    /\ place[r] \in {"add", "recheck"} => pending[r] = {}
    /\ place[r] \in {"snapshotNew", "create"} =>
        \A i, j \in pending[r] \cup priced[r] : Carries[r][i] = Carries[r][j] => i = j
    /\ place[r] \in {"findForExtras", "snapshot", "add", "recheck"} => AllInHand(r)
    /\ told[r] = "sold" => \A i \in DOMAIN Carries[r] : Carries[r][i] \in Settled

\* The inductive invariant.
TInv ==
    /\ CheckInTypes /\ NothingOnNoTicket /\ SoldOnce
    /\ \A r \in TicketRequests : InHand(r)

-----------------------------------------------------------------------------
(* The operators.                                                           *)

\* Among positions there is a first one.
LEMMA FirstOf ==
    ASSUME NEW S \in SUBSET Nat, S # {}
    PROVE  \E i \in S : \A j \in S : i <= j
<1>1. \E i \in S : \A j \in S : <<j, i>> \notin OpToRel(<, Nat)
  BY NatLessThanWellFounded, WFMin
<1>2. ASSUME NEW i \in S, NEW j \in S, <<j, i>> \notin OpToRel(<, Nat)
      PROVE  i <= j
  BY <1>2 DEF OpToRel
<1> QED
  BY <1>1, <1>2

\* Once takes one entry of each extra, and misses none.
LEMMA OnceIsOnce ==
    ASSUME NEW r \in TicketRequests, NEW entries \in SUBSET Nat
    PROVE  /\ Once(r, entries) \subseteq entries
           /\ \A i, j \in Once(r, entries) : Carries[r][i] = Carries[r][j] => i = j
           /\ \A i \in entries : \E j \in Once(r, entries) : Carries[r][j] = Carries[r][i]
<1>1. Once(r, entries) \subseteq entries
  BY DEF Once
<1>2. ASSUME NEW i \in Once(r, entries), NEW j \in Once(r, entries), Carries[r][i] = Carries[r][j]
      PROVE  i = j
  BY <1>1, <1>2 DEF Once
<1>3. ASSUME NEW i \in entries
      PROVE  \E j \in Once(r, entries) : Carries[r][j] = Carries[r][i]
  <2> DEFINE same == {j \in entries : Carries[r][j] = Carries[r][i]}
  <2>1. PICK j \in same : \A h \in same : j <= h
    <3>1. same \in SUBSET Nat /\ same # {}
      OBVIOUS
    <3> QED
      BY <3>1, FirstOf
  <2>2. \A h \in entries : h < j => Carries[r][h] # Carries[r][j]
    BY <2>1
  <2> QED
    BY <2>1, <2>2 DEF Once
<1> QED
  BY <1>1, <1>2, <1>3

-----------------------------------------------------------------------------
(* The invariant is inductive.                                              *)

\* Before any request arrives.
LEMMA InitTInv == CheckInInit => TInv
BY NothingIsNoStatus
   DEF CheckInInit, TInv, CheckInTypes, Places, Answers, NothingOnNoTicket, SoldOnce, InHand

\* A request keeps what it has in hand while others go on, and when the server dies.
LEMMA OthersUndisturbed ==
    ASSUME NEW q \in TicketRequests, InHand(q), Settled \subseteq Settled',
           place'[q] \in {place[q], "crashed"},
           UNCHANGED <<pending[q], priced[q], told[q]>>
    PROVE  InHand(q)'
BY DEF InHand, AllInHand

\* The types, and what a ticket carries, after a request's step.
LEMMA StepKeepsTypes ==
    ASSUME TInv, NEW r \in TicketRequests, CheckInStep(r)
    PROVE  CheckInTypes' /\ NothingOnNoTicket'
<1> USE NothingIsNoStatus
    DEF TInv, CheckInTypes, Places, Answers, NothingOnNoTicket, Ticket, GoOn, Tell
<1>c. DOMAIN Carries[r] \subseteq Nat
  BY CarriesExtras
<1>h. place[r] = "find" => pending[r] = DOMAIN Carries[r]
  BY DEF InHand
<1>1. CASE SendTicket(r)
  BY <1>1, <1>c DEF SendTicket
<1>2. CASE ReplayCheckIn(r)
  BY <1>2 DEF ReplayCheckIn, NotKnown
<1>3. CASE FirstSeen(r)
  BY <1>3 DEF FirstSeen, Once
<1>4. CASE RefuseCheckIn(r)
  BY <1>4 DEF RefuseCheckIn
<1>5. CASE Snapshot(r)
  BY <1>5 DEF Snapshot
<1>6. CASE InvalidProduct(r)
  BY <1>6 DEF InvalidProduct
<1>7. CASE Create(r)
  BY <1>7 DEF Create, SoldBy
<1>8. CASE CreateRaced(r)
  BY <1>8 DEF CreateRaced
<1>9. CASE ReadBack(r)
  BY <1>9 DEF ReadBack
<1>10. CASE FindForExtras(r)
  BY <1>10 DEF FindForExtras, NotKnown, Once
<1>11. CASE AddExtraIfActive(r)
  BY <1>11 DEF AddExtraIfActive, NextExtra
<1>12. CASE AddRefused(r)
  BY <1>12 DEF AddRefused
<1>13. CASE Recheck(r)
  BY <1>13 DEF Recheck, NextExtra
<1> QED
  BY <1>1, <1>2, <1>3, <1>4, <1>5, <1>6, <1>7, <1>8, <1>9, <1>10, <1>11, <1>12, <1>13
     DEF CheckInStep

\* What a request's step does to the ticket: nothing, or it makes it, or it adds one sale
\* of an extra that is not on it.
LEMMA StepOnTicket ==
    ASSUME NEW r \in TicketRequests, CheckInStep(r)
    PROVE  /\ takenBack' = takenBack
           /\ \/ extras' = extras
              \/ Create(r)
              \/ \E i \in priced[r] :
                    Carries[r][i] \notin Known /\ extras' = extras \cup {<<r, i>>}
BY DEF CheckInStep, SendTicket, ReplayCheckIn, FirstSeen, RefuseCheckIn, Snapshot, InvalidProduct,
       Create, CreateRaced, ReadBack, FindForExtras, AddExtraIfActive, AddRefused, Recheck, Ticket

\* A sale is not added twice, and what is settled stays settled.
LEMMA StepKeepsSales ==
    ASSUME TInv, NEW r \in TicketRequests, CheckInStep(r)
    PROVE  SoldOnce' /\ Settled \subseteq Settled'
<1>1. CASE extras' = extras
  BY <1>1, StepOnTicket DEF TInv, SoldOnce, Settled, Known, LocalId
<1>2. CASE Create(r)
  <2>1. extras = {} /\ extras' = {r} \X priced[r] /\ takenBack' = takenBack
    BY <1>2 DEF Create, TInv, NothingOnNoTicket, SoldBy
  <2>2. \A i, j \in priced[r] : Carries[r][i] = Carries[r][j] => i = j
    BY <1>2 DEF Create, TInv, InHand
  <2> QED
    BY <2>1, <2>2 DEF SoldOnce, Settled, Known, LocalId
<1>3. ASSUME NEW i \in priced[r],
             Carries[r][i] \notin Known, extras' = extras \cup {<<r, i>>}
      PROVE  SoldOnce' /\ Settled \subseteq Settled'
  <2>1. LocalId(<<r, i>>) = Carries[r][i]
    BY DEF LocalId
  <2>2. \A sale \in extras : LocalId(sale) # LocalId(<<r, i>>)
    BY <1>3, <2>1 DEF Known
  <2>3. SoldOnce'
    BY <1>3, <2>2 DEF TInv, SoldOnce, LocalId
  <2>4. Known \subseteq Known'
    BY <1>3 DEF Known, LocalId
  <2> QED
    BY <2>3, <2>4, StepOnTicket DEF Settled
<1> QED
  BY <1>1, <1>2, <1>3, StepOnTicket

\* The request that moves keeps what it has in hand: one case per action.
LEMMA StepKeepsInHand ==
    ASSUME TInv, NEW r \in TicketRequests, CheckInStep(r)
    PROVE  InHand(r)'
<1> DEFINE carried == DOMAIN Carries[r]
<1>t. /\ place \in [TicketRequests -> Places] /\ told \in [TicketRequests -> Answers]
      /\ pending \in [TicketRequests -> SUBSET Nat] /\ priced \in [TicketRequests -> SUBSET Nat]
      /\ pending[r] \in SUBSET Nat /\ carried \in SUBSET Nat
  BY CarriesExtras DEF TInv, CheckInTypes
<1>h. InHand(r) /\ Settled \subseteq Settled'
  BY StepKeepsSales DEF TInv
<1> USE <1>t, <1>h DEF InHand, AllInHand, GoOn, Tell, Ticket
<1>1. CASE SendTicket(r)
  BY <1>1 DEF SendTicket
<1>2. CASE ReplayCheckIn(r)
  <2>1. \A i \in carried : Carries[r][i] \in Settled \/ i \in NotKnown(r, pending[r])
    BY <1>2 DEF ReplayCheckIn, NotKnown, Settled
  <2> QED
    BY <1>2, <2>1 DEF ReplayCheckIn
<1>3. CASE FirstSeen(r)
  BY <1>3, OnceIsOnce DEF FirstSeen
<1>4. CASE RefuseCheckIn(r)
  BY <1>4 DEF RefuseCheckIn
<1>5. CASE Snapshot(r)
  <2>1. pending'[r] \cup priced'[r] = pending[r] \cup priced[r]
    BY <1>5 DEF Snapshot
  <2>2. place'[r] \in {place[r], "create", "add"}
    BY <1>5 DEF Snapshot
  <2>3. /\ place'[r] \in {"add", "recheck"} => pending'[r] = {} /\ place[r] = "snapshot"
        /\ place'[r] = "create" => place[r] = "snapshotNew"
    BY <1>5 DEF Snapshot
  <2>4. place[r] \in {"snapshotNew", "snapshot"} /\ told' = told
    BY <1>5 DEF Snapshot
  <2> QED
    BY <2>1, <2>2, <2>3, <2>4
<1>6. CASE InvalidProduct(r)
  BY <1>6 DEF InvalidProduct
<1>7. CASE Create(r)
  BY <1>7 DEF Create
<1>8. CASE CreateRaced(r)
  BY <1>8 DEF CreateRaced
<1>9. CASE ReadBack(r)
  BY <1>9 DEF ReadBack
<1>10. CASE FindForExtras(r)
  <2> DEFINE new == NotKnown(r, pending[r])
  <2>1. priced[r] = {} /\ priced' = priced /\ new \in SUBSET Nat
    BY <1>10 DEF FindForExtras, NotKnown
  <2>2. \A i \in carried :
          Carries[r][i] \in Settled \/ \E j \in new : Carries[r][j] = Carries[r][i]
    BY <1>10, <2>1 DEF FindForExtras, NotKnown, Settled
  <2>3. CASE place'[r] = "done" /\ (told'[r] = "sold" => new = {})
    BY <2>1, <2>2, <2>3
  <2>4. CASE place'[r] = "snapshot" /\ told' = told /\ pending'[r] = Once(r, new)
    <3>1. \A i \in new : \E j \in Once(r, new) : Carries[r][j] = Carries[r][i]
      BY <2>1, OnceIsOnce
    <3> QED
      BY <2>1, <2>2, <2>4, <3>1
  <2> QED
    BY <1>10, <2>3, <2>4 DEF FindForExtras
<1>11. CASE AddExtraIfActive(r)
  <2>1. PICK i \in priced[r] : extras' = extras \cup {<<r, i>>} /\ NextExtra(r, i)
    BY <1>11 DEF AddExtraIfActive
  <2>2. Carries[r][i] \in Settled'
    <3>1. <<r, i>> \in extras' /\ Carries[r][i] = Carries[<<r, i>>[1]][<<r, i>>[2]]
      BY <2>1
    <3> QED
      BY <3>1 DEF Settled, Known, LocalId
  <2> QED
    BY <1>11, <2>1, <2>2 DEF AddExtraIfActive, NextExtra
<1>12. CASE AddRefused(r)
  BY <1>12 DEF AddRefused
<1>13. CASE Recheck(r)
  <2>1. PICK i \in priced[r] :
          \/ Carries[r][i] \in Settled /\ NextExtra(r, i)
          \/ Tell(r, "checkedOut") /\ UNCHANGED priced
    BY <1>13 DEF Recheck, Settled
  <2> QED
    BY <1>13, <2>1 DEF Recheck, NextExtra
<1> QED
  BY <1>1, <1>2, <1>3, <1>4, <1>5, <1>6, <1>7, <1>8, <1>9, <1>10, <1>11, <1>12, <1>13
     DEF CheckInStep

\* A request's step touches no other request.
LEMMA StepIsItsOwn ==
    ASSUME CheckInTypes, NEW r \in TicketRequests, CheckInStep(r),
           NEW q \in TicketRequests \ {r}
    PROVE  UNCHANGED <<place[q], pending[q], priced[q], told[q]>>
BY DEF CheckInTypes, CheckInStep, SendTicket, ReplayCheckIn, FirstSeen, RefuseCheckIn, Snapshot,
       InvalidProduct, Create, CreateRaced, ReadBack, FindForExtras, AddExtraIfActive, NextExtra,
       AddRefused, Recheck, Ticket, GoOn, Tell

LEMMA StepKeepsTInv ==
    ASSUME TInv, NEW r \in TicketRequests, CheckInStep(r)
    PROVE  TInv'
<1>1. Settled \subseteq Settled' /\ SoldOnce' /\ CheckInTypes' /\ NothingOnNoTicket'
  BY StepKeepsTypes, StepKeepsSales
<1>2. ASSUME NEW q \in TicketRequests PROVE InHand(q)'
  <2>1. CASE q = r
    BY <2>1, StepKeepsInHand
  <2>2. CASE q # r
    <3>1. UNCHANGED <<place[q], pending[q], priced[q], told[q]>>
      BY <2>2, StepIsItsOwn DEF TInv
    <3> QED
      BY <1>1, <3>1, OthersUndisturbed DEF TInv
  <2> QED
    BY <2>1, <2>2
<1> QED
  BY <1>1, <1>2 DEF TInv

\* So does whatever else happens to the ticket, the products and the server.
LEMMA OthersKeepTInv ==
    ASSUME TInv,
           \/ CheckOut \/ ReopenTicket \/ VoidSession \/ CheckInsDie
           \/ \E x \in Extras : RemoveExtraIfActive(x)
           \/ \E p \in Products : SetProductStatus(p)
           \/ UNCHANGED checkInVars
    PROVE  TInv'
<1> DEFINE Same(q) == UNCHANGED <<pending[q], priced[q], told[q]>>
                      /\ place'[q] \in {place[q], "crashed"}
           Kept == /\ CheckInTypes' /\ NothingOnNoTicket' /\ SoldOnce'
                   /\ Settled \subseteq Settled' /\ \A q \in TicketRequests : Same(q)
<1> USE NothingIsNoStatus DEF TInv, CheckInTypes, NothingOnNoTicket
<1>1. ASSUME CheckOut \/ ReopenTicket \/ VoidSession \/ UNCHANGED checkInVars PROVE Kept
  <2>1. UNCHANGED <<extras, active, place, pending, priced, told, takenBack>>
    BY <1>1 DEF CheckOut, ReopenTicket, VoidSession, ChangeStatus, checkInVars
  <2>2. CheckInTypes' /\ NothingOnNoTicket'
    BY <1>1, <2>1 DEF CheckOut, ReopenTicket, VoidSession, ChangeStatus, checkInVars
  <2>3. SoldOnce' /\ Settled \subseteq Settled'
    BY <2>1 DEF SoldOnce, Settled, Known, LocalId
  <2> QED
    BY <2>1, <2>2, <2>3
<1>2. ASSUME CheckInsDie PROVE Kept
  <2>1. SoldOnce' /\ Settled \subseteq Settled'
    BY <1>2 DEF CheckInsDie, Ticket, SoldOnce, Settled, Known, LocalId
  <2> QED
    BY <1>2, <2>1 DEF CheckInsDie, Ticket, Places
<1>3. ASSUME NEW x \in Extras, RemoveExtraIfActive(x) PROVE Kept
  <2>1. SoldOnce'
    BY <1>3 DEF RemoveExtraIfActive, SoldOnce, LocalId
  <2>2. Settled \subseteq Settled'
    BY <1>3 DEF RemoveExtraIfActive, Settled, Known, LocalId
  <2> QED
    BY <1>3, <2>1, <2>2 DEF RemoveExtraIfActive
<1>4. ASSUME NEW p \in Products, SetProductStatus(p) PROVE Kept
  <2>1. SoldOnce' /\ Settled \subseteq Settled'
    BY <1>4 DEF SetProductStatus, SoldOnce, Settled, Known, LocalId
  <2> QED
    BY <1>4, <2>1 DEF SetProductStatus
<1>5. Kept
  BY <1>1, <1>2, <1>3, <1>4
<1>6. ASSUME NEW q \in TicketRequests PROVE InHand(q)'
  BY <1>5, OthersUndisturbed
<1> QED
  BY <1>5, <1>6

\* The invariant holds of every reachable state.
THEOREM TicketInvariant == CheckInSpec => []TInv
<1>1. TInv /\ [CheckInNext]_checkInVars => TInv'
  BY StepKeepsTInv, OthersKeepTInv DEF CheckInNext
<1> QED
  BY <1>1, InitTInv, PTL DEF CheckInSpec

\* Every variable keeps its type.
THEOREM CheckInTypeCorrect == CheckInSpec => []CheckInTypes
<1>1. TInv => CheckInTypes
  BY DEF TInv
<1> QED
  BY <1>1, TicketInvariant, PTL

\* A localId is on the ticket once, whichever requests carry it, however often each of them
\* does, and in whatever order they merge.
THEOREM NeverSoldTwice == CheckInSpec => []SoldOnce
<1>1. TInv => SoldOnce
  BY DEF TInv
<1> QED
  BY <1>1, TicketInvariant, PTL

\* Every extra of a request that was answered as sold is on the ticket or was taken back.
THEOREM SoldMeansOnTheTicket == CheckInSpec => []SoldWhenAccepted
<1>1. TInv => SoldWhenAccepted
  BY DEF TInv, InHand, SoldWhenAccepted, Settled
<1> QED
  BY <1>1, TicketInvariant, PTL

-----------------------------------------------------------------------------
(* The row of a product or package.                                         *)

CataloguePlaces ==
    {"idle", "sell", "sold", "refused", "notFound", "countBoth", "countBills",
     "countTickets", "switchOff", "remove", "deactivated", "deleted", "failed"}

\* Types of the variables that the argument is about.
CatalogueTypes ==
    /\ row \in {"active", "inactive", "gone"}
    /\ request \in [Sellers \cup Deleters -> CataloguePlaces]
    /\ carriers \subseteq Visits /\ lines \subseteq Invoices
    /\ overlapped \in BOOLEAN

\* What a deletion has counted to none is none still, as long as nothing was sold or
\* checked out meanwhile: a ticket is the only source of a line that is not a sale.
CountedStaysNone ==
    kind = "PRODUCT" /\ ~overlapped =>
        \A d \in Deleters :
            /\ request[d] \in {"countTickets", "remove"} => lines = {}
            /\ request[d] \in {"countBills", "remove"} => carriers = {}

\* The inductive invariant.
CInv == CatalogueTypes /\ CountedStaysNone /\ SoldStaysResolvable

\* Before anything is sold.
LEMMA InitCInv == CatalogueInit => CInv
BY DEF CatalogueInit, CInv, CatalogueTypes, CataloguePlaces, CountedStaysNone, SoldStaysResolvable

\* A sale, a checkout, or a change to a ticket or a bill.
LEMMA SellingKeepsCInv ==
    ASSUME CInv,
           \/ \E s \in Sellers :
                \/ FindToSell(s)
                \/ \E t \in Visits : SellOnTicket(s, t)
                \/ \E b \in Invoices : SellOnBill(s, b)
           \/ \E t \in Visits : TakeBack(t) \/ OtherTicket(t) \/ CancelAndReopen(t)
           \/ \E t \in Visits, b \in Invoices : CheckOutOnto(t, b)
           \/ \E b \in Invoices : DropLine(b)
    PROVE  CInv'
<1> USE SellersDoNotDelete DEF CInv, CatalogueTypes, CataloguePlaces, CountedStaysNone, SoldStaysResolvable,
        SalesRecord, At
<1>1. ASSUME NEW s \in Sellers, FindToSell(s) PROVE CInv'
    BY <1>1 DEF FindToSell
<1>2. ASSUME NEW s \in Sellers, NEW t \in Visits, SellOnTicket(s, t) PROVE CInv'
    BY <1>2 DEF SellOnTicket, Sold, Deleting
<1>3. ASSUME NEW s \in Sellers, NEW b \in Invoices, SellOnBill(s, b) PROVE CInv'
    BY <1>3 DEF SellOnBill, Sold, Deleting
<1>4. ASSUME NEW t \in Visits, TakeBack(t) PROVE CInv'
    BY <1>4 DEF TakeBack
<1>5. ASSUME NEW t \in Visits, OtherTicket(t) \/ CancelAndReopen(t) PROVE CInv'
    BY <1>5 DEF OtherTicket, CancelAndReopen
<1>6. ASSUME NEW t \in Visits, NEW b \in Invoices, CheckOutOnto(t, b) PROVE CInv'
    BY <1>6 DEF CheckOutOnto, Deleting
<1>7. ASSUME NEW b \in Invoices, DropLine(b) PROVE CInv'
    BY <1>7 DEF DropLine
<1> QED
    BY <1>1, <1>2, <1>3, <1>4, <1>5, <1>6, <1>7

\* A step of a deletion, or the row switched off or on.
LEMMA DeletingKeepsCInv ==
    ASSUME CInv,
           \/ \E to \in {"active", "inactive"} : SwitchTo(to)
           \/ \E d \in Deleters :
                BeginDelete(d) \/ CountBills(d) \/ CountTickets(d) \/ Deactivate(d) \/ DeleteRow(d)
    PROVE  CInv'
<1> USE SellersDoNotDelete DEF CInv, CatalogueTypes, CataloguePlaces, CountedStaysNone, SoldStaysResolvable,
        SalesRecord, At
<1>1. ASSUME NEW to \in {"active", "inactive"}, SwitchTo(to) PROVE CInv'
    BY <1>1 DEF SwitchTo
<1>2. ASSUME NEW d \in Deleters, BeginDelete(d) PROVE CInv'
    BY <1>2 DEF BeginDelete, AsksTickets
<1>3. ASSUME NEW d \in Deleters, CountBills(d) PROVE CInv'
    BY <1>3 DEF CountBills
<1>4. ASSUME NEW d \in Deleters, CountTickets(d) PROVE CInv'
    BY <1>4 DEF CountTickets
<1>5. ASSUME NEW d \in Deleters, Deactivate(d) PROVE CInv'
    BY <1>5 DEF Deactivate
<1>6. ASSUME NEW d \in Deleters, DeleteRow(d) PROVE CInv'
    BY <1>6 DEF DeleteRow
<1> QED
    BY <1>1, <1>2, <1>3, <1>4, <1>5, <1>6

\* Every step keeps the inductive invariant.
LEMMA NextCInv == CInv /\ [CatalogueNext]_catalogueVars => CInv'
<1> SUFFICES ASSUME CInv, [CatalogueNext]_catalogueVars PROVE CInv'
    OBVIOUS
<1>1. CASE UNCHANGED catalogueVars
    BY <1>1 DEF CInv, CatalogueTypes, CountedStaysNone, SoldStaysResolvable, catalogueVars
<1>2. CASE CatalogueNext
    BY <1>2, SellingKeepsCInv, DeletingKeepsCInv DEF CatalogueNext
<1> QED
    BY <1>1, <1>2

\* A product that was sold is not removed, however many admins delete it while however many
\* sales, checkouts and cancellations go on (product.service.ts, delete).
THEOREM SoldProductsAreKept == CatalogueSpec => []SoldStaysResolvable
<1>1. CatalogueSpec => []CInv
    BY InitCInv, NextCInv, PTL DEF CatalogueSpec
<1>2. CInv => SoldStaysResolvable
    BY DEF CInv
<1> QED
    BY <1>1, <1>2, PTL

-----------------------------------------------------------------------------
(* The tokens of the devices.                                               *)

Token == [of : Devices, state : {"live", "revoked", "expired"}]
Place == {"idle", "find", "user", "issue", "revoke", "reply", "done", "failed", "lost"}
Refresh == [at : Place, device : SUBSET Devices, presents : Nat, issues : Nat]

\* Types, the numbering of the tokens included: the count of them is the last one.
TokenTypes ==
    /\ LastIssued \in Nat /\ Issued = 1..LastIssued
    /\ token \in [Issued -> Token]
    /\ holds \in [Devices -> Issued \cup {0}]
    /\ refresh \in [Refreshes -> Refresh]
    /\ disturbed \subseteq Devices

\* Every token in somebody's hands was issued for that device.
OwnTokens ==
    /\ \A d \in Devices : holds[d] # 0 => token[holds[d]].of = d
    /\ \A r \in Refreshes : Running(r) =>
        \E d \in Devices :
            /\ refresh[r].device = {d}
            /\ refresh[r].presents \in Issued /\ token[refresh[r].presents].of = d
            /\ refresh[r].at \in {"revoke", "reply"} =>
                /\ refresh[r].issues \in Issued /\ token[refresh[r].issues].of = d
                /\ refresh[r].issues # refresh[r].presents

\* The request of a device that was not disturbed is its only one, and presents what it holds.
OneRequest ==
    \A d \in Devices \ disturbed : \A r \in RunningFor(d) :
        /\ RunningFor(d) = {r}
        /\ refresh[r].presents = holds[d]

LiveOf(d) == {n \in Issued : token[n].of = d /\ token[n].state = "live"}
Revoked(n) == token[n].state = "revoked"

\* The tokens of such a device that are live, at each place of its request.
InOrder(d) ==
    /\ RunningFor(d) = {} =>
        LiveOf(d) \subseteq {holds[d]} /\ (holds[d] # 0 => ~Revoked(holds[d]))
    /\ \A r \in RunningFor(d) :
        /\ refresh[r].at \in {"find", "user", "issue"} =>
            LiveOf(d) \subseteq {holds[d]} /\ ~Revoked(holds[d])
        /\ refresh[r].at = "revoke" =>
            LiveOf(d) \subseteq {holds[d], refresh[r].issues} /\ ~Revoked(refresh[r].issues)
        /\ refresh[r].at = "reply" =>
            LiveOf(d) \subseteq {refresh[r].issues} /\ ~Revoked(refresh[r].issues)
LiveTokens == \A d \in Devices \ disturbed : InOrder(d)

TokensInv == TokenTypes /\ OwnTokens /\ OneRequest /\ LiveTokens

-----------------------------------------------------------------------------

\* A new token is live, of its device, and the last of all.
LEMMA IssueToken ==
    ASSUME TokenTypes, NEW d \in Devices, Issue(d)
    PROVE  /\ LastIssued + 1 \notin Issued /\ LastIssued + 1 # 0
           /\ Issued' = Issued \cup {LastIssued + 1}
           /\ LastIssued' \in Nat /\ Issued' = 1..LastIssued'
           /\ token' \in [Issued' -> Token]
           /\ token'[LastIssued + 1] = [of |-> d, state |-> "live"]
           /\ \A n \in Issued : token'[n] = token[n]
<1> DEFINE k == LastIssued
<1>1. k \in Nat /\ Issued = 1..k
  BY DEF TokenTypes
<1>2. Issued' = 1..(k + 1) /\ Issued' = Issued \cup {k + 1} /\ k + 1 \notin Issued
  <2>1. Issued' = Issued \cup {k + 1}
    BY DEF Issue, Issued
  <2> HIDE DEF k
  <2> QED BY <1>1, <2>1
<1>3. LastIssued' = k + 1
  <2>1. Cardinality(1..(k + 1)) = k + 1
    <3> HIDE DEF k
    <3> QED BY <1>1, FS_Interval
  <2>2. LastIssued' = Cardinality(Issued')
    BY DEF LastIssued
  <2> QED BY <1>2, <2>1, <2>2
<1>4. /\ token'[k + 1] = [of |-> d, state |-> "live"]
      /\ \A n \in Issued : token'[n] = token[n]
      /\ token' \in [Issued' -> Token]
  BY <1>2 DEF Issue, TokenTypes, Token, Issued
<1> QED BY <1>1, <1>2, <1>3, <1>4

\* What a device has in order stays so while its own tokens at most expire, and nobody
\* moves its request or what it holds.
LEMMA OtherDevice ==
    ASSUME TokensInv, NEW d \in Devices \ disturbed,
           holds'[d] = holds[d], RunningFor(d)' = RunningFor(d),
           \A r \in RunningFor(d) : refresh'[r] = refresh[r],
           \A n \in Issued : token'[n].of = token[n].of,
           \A n \in Issued :
               token[n].of = d => token'[n].state \in {token[n].state, "expired"},
           \A n \in Issued' \ Issued : token'[n].of # d
    PROVE  InOrder(d)'
<1>1. LiveOf(d)' \subseteq LiveOf(d)
  BY DEF LiveOf
<1>2. \A n \in Issued : token[n].of = d /\ Revoked(n)' => Revoked(n)
  BY DEF Revoked
<1>3. holds[d] # 0 => holds[d] \in Issued /\ token[holds[d]].of = d
  BY DEF TokensInv, TokenTypes, OwnTokens
<1>4. \A r \in RunningFor(d) :
        /\ holds[d] # 0
        /\ refresh[r].at \in {"revoke", "reply"} =>
            refresh[r].issues \in Issued /\ token[refresh[r].issues].of = d
  <2> SUFFICES ASSUME NEW r \in RunningFor(d)
               PROVE  /\ holds[d] # 0
                      /\ refresh[r].at \in {"revoke", "reply"} =>
                          refresh[r].issues \in Issued /\ token[refresh[r].issues].of = d
    OBVIOUS
  <2>1. r \in Refreshes /\ Running(r) /\ refresh[r].device = {d} /\ refresh[r].presents = holds[d]
    BY DEF RunningFor, TokensInv, OneRequest
  <2>2. 0 \notin Issued
    BY DEF TokensInv, TokenTypes
  <2> QED BY <2>1, <2>2 DEF TokensInv, OwnTokens
<1> QED BY <1>1, <1>2, <1>3, <1>4 DEF TokensInv, LiveTokens, InOrder, Revoked

\* A sign-in is of a device that holds nothing and so has no request running.
LEMMA LoginKeeps ==
    ASSUME TokensInv, NEW c \in Devices, Login(c)
    PROVE  TokensInv'
<1> DEFINE new == LastIssued + 1
<1>1. /\ holds[c] = 0 /\ holds' = [holds EXCEPT ![c] = new]
      /\ UNCHANGED <<refresh, disturbed>>
  BY DEF Login
<1>2. /\ new \notin Issued /\ new # 0 /\ Issued' = Issued \cup {new}
      /\ LastIssued' \in Nat /\ Issued' = 1..LastIssued'
      /\ token' \in [Issued' -> Token]
      /\ token'[new] = [of |-> c, state |-> "live"]
      /\ \A n \in Issued : token'[n] = token[n]
  BY IssueToken DEF Login, TokensInv
<1>3. 0 \notin Issued /\ holds \in [Devices -> Issued \cup {0}]
  BY DEF TokensInv, TokenTypes
<1> HIDE DEF new
<1>4. TokenTypes'
  BY <1>1, <1>2, <1>3 DEF TokensInv, TokenTypes
<1>5. OwnTokens'
  BY <1>1, <1>2, <1>3 DEF TokensInv, OwnTokens, Running
<1>6. \A d \in Devices : RunningFor(d)' = RunningFor(d)
  BY <1>1 DEF RunningFor, Running
<1>7. \A d \in Devices \ disturbed : \A r \in RunningFor(d) : holds[d] # 0
  BY <1>3 DEF TokensInv, OneRequest, OwnTokens, RunningFor
<1>8. OneRequest'
  BY <1>1, <1>6, <1>7 DEF TokensInv, OneRequest, TokenTypes
<1>9. /\ \A d \in Devices \ {c} : LiveOf(d)' = LiveOf(d)
      /\ LiveOf(c)' = LiveOf(c) \cup {new}
      /\ \A n \in Issued : Revoked(n)' <=> Revoked(n)
      /\ token'[new].state = "live"
  BY <1>2 DEF LiveOf, Revoked
<1>10. LiveTokens'
  <2> SUFFICES ASSUME NEW d \in Devices \ disturbed PROVE InOrder(d)'
    BY <1>1 DEF LiveTokens
  <2>1. CASE d = c
    <3>1. RunningFor(c) = {} /\ LiveOf(c) \subseteq {0}
      BY <1>1, <1>7, <2>1 DEF TokensInv, LiveTokens, InOrder
    <3>2. LiveOf(c) = {}
      BY <1>3, <3>1 DEF LiveOf
    <3> QED BY <1>1, <1>3, <1>6, <1>9, <2>1, <3>1, <3>2 DEF InOrder, Revoked
  <2>2. CASE d # c
    <3>1. holds'[d] = holds[d] /\ LiveOf(d)' = LiveOf(d) /\ holds[d] \in Issued \cup {0}
      BY <1>1, <1>3, <1>9, <2>2
    <3>2. \A r \in RunningFor(d) :
            /\ r \in Refreshes /\ Running(r) /\ refresh'[r] = refresh[r] /\ holds[d] \in Issued
            /\ refresh[r].at \in {"revoke", "reply"} => refresh[r].issues \in Issued
      BY <1>1, <1>7, <3>1 DEF TokensInv, OwnTokens, RunningFor
    <3> QED BY <1>6, <1>9, <3>1, <3>2 DEF TokensInv, LiveTokens, InOrder
  <2> QED BY <2>1, <2>2
<1> QED BY <1>4, <1>5, <1>8, <1>10 DEF TokensInv

\* A request presents what the device holds; a second one at a time disturbs the device.
LEMMA PresentKeeps ==
    ASSUME TokensInv, NEW c \in Devices, NEW p \in Refreshes, PresentToken(p, c)
    PROVE  TokensInv'
<1>1. /\ holds[c] # 0 /\ refresh[p].at = "idle"
      /\ refresh'[p] = [refresh[p] EXCEPT !.at = "find", !.device = {c}, !.presents = holds[c]]
      /\ \A r \in Refreshes \ {p} : refresh'[r] = refresh[r]
      /\ disturbed' = IF RunningFor(c) = {} THEN disturbed ELSE disturbed \cup {c}
      /\ UNCHANGED <<token, holds>>
  BY DEF PresentToken, TokensInv, TokenTypes
<1>2. holds[c] \in Issued /\ holds[c] \in Nat
  BY <1>1 DEF TokensInv, TokenTypes
<1>3. /\ refresh[p] \in Refresh
      /\ refresh'[p].at = "find" /\ refresh'[p].device = {c} /\ refresh'[p].presents = holds[c]
  BY <1>1 DEF TokensInv, TokenTypes, Refresh
<1>4. TokenTypes'
  <2>1. refresh'[p] \in Refresh
    BY <1>1, <1>2, <1>3 DEF Refresh, Place
  <2>2. refresh' \in [Refreshes -> Refresh]
    BY <2>1 DEF PresentToken, TokensInv, TokenTypes
  <2> QED BY <1>1, <2>2 DEF TokensInv, TokenTypes, LastIssued, Issued
<1>5. OwnTokens'
  <2>1. \A d \in Devices : holds'[d] # 0 => token'[holds'[d]].of = d
    BY <1>1 DEF TokensInv, OwnTokens
  <2>2. Issued' = Issued
    BY <1>1 DEF Issued
  <2>3. ASSUME NEW r \in Refreshes, Running(r)'
        PROVE  \E d \in Devices :
                /\ refresh'[r].device = {d}
                /\ refresh'[r].presents \in Issued' /\ token'[refresh'[r].presents].of = d
                /\ refresh'[r].at \in {"revoke", "reply"} =>
                    /\ refresh'[r].issues \in Issued' /\ token'[refresh'[r].issues].of = d
                    /\ refresh'[r].issues # refresh'[r].presents
    <3>1. CASE r = p
      <4>1. token[holds[c]].of = c
        BY <1>1 DEF TokensInv, OwnTokens
      <4> WITNESS c \in Devices
      <4> QED BY <1>1, <1>2, <1>3, <2>2, <3>1, <4>1
    <3>2. CASE r # p
      <4>1. refresh'[r] = refresh[r] /\ Running(r)
        BY <1>1, <2>3, <3>2 DEF Running
      <4> QED BY <1>1, <2>2, <4>1 DEF TokensInv, OwnTokens
    <3> QED BY <3>1, <3>2
  <2> QED BY <2>1, <2>3 DEF OwnTokens
<1>6. /\ RunningFor(c)' = RunningFor(c) \cup {p}
      /\ \A d \in Devices \ {c} : RunningFor(d)' = RunningFor(d)
      /\ \A d \in Devices : p \notin RunningFor(d)
  <2>1. Running(p)' /\ ~Running(p)
    BY <1>1, <1>3 DEF Running
  <2>2. \A r \in Refreshes \ {p} : Running(r)' <=> Running(r)
    BY <1>1 DEF Running
  <2>3. \A d \in Devices : {c} = {d} <=> d = c
    OBVIOUS
  <2>4. \A d \in Devices : \A r \in Refreshes :
            r \in RunningFor(d)' <=> (r \in RunningFor(d) \/ (r = p /\ d = c))
    BY <1>1, <1>3, <2>1, <2>2, <2>3 DEF RunningFor
  <2>5. \A d \in Devices : RunningFor(d) \subseteq Refreshes /\ RunningFor(d)' \subseteq Refreshes
    BY DEF RunningFor
  <2>6. RunningFor(c)' = RunningFor(c) \cup {p}
    BY <2>4, <2>5
  <2>7. \A d \in Devices \ {c} : RunningFor(d)' = RunningFor(d)
    BY <2>4, <2>5
  <2> QED BY <2>1, <2>6, <2>7 DEF RunningFor
<1>7. OneRequest'
  <2> SUFFICES ASSUME NEW d \in Devices \ disturbed', NEW r \in RunningFor(d)'
               PROVE  RunningFor(d)' = {r} /\ refresh'[r].presents = holds'[d]
    BY DEF OneRequest
  <2>1. CASE d = c
    BY <1>1, <1>3, <1>6, <2>1
  <2>2. CASE d # c
    BY <1>1, <1>6, <2>2 DEF TokensInv, OneRequest, RunningFor
  <2> QED BY <2>1, <2>2
<1>8. LiveTokens'
  <2> SUFFICES ASSUME NEW d \in Devices \ disturbed' PROVE InOrder(d)'
    BY DEF LiveTokens
  <2>0. d \in Devices \ disturbed
    BY <1>1
  <2>1. CASE d = c
    <3>1. RunningFor(c) = {} /\ RunningFor(c)' = {p} /\ InOrder(c)
      BY <1>1, <1>6, <2>0, <2>1 DEF TokensInv, LiveTokens
    <3>2. LiveOf(c)' = LiveOf(c) /\ (Revoked(holds[c])' <=> Revoked(holds[c]))
      BY <1>1 DEF LiveOf, Revoked, Issued
    <3> QED BY <1>1, <1>3, <2>1, <3>1, <3>2 DEF InOrder
  <2>2. CASE d # c
    BY <1>1, <1>6, <2>0, <2>2, OtherDevice DEF Issued, RunningFor
  <2> QED BY <2>1, <2>2
<1> QED BY <1>4, <1>5, <1>7, <1>8 DEF TokensInv


\* The places of a request that is running.
Going == {"find", "user", "issue", "revoke", "reply"}

\* A request that runs is of one device.
LEMMA SomeDevice ==
    ASSUME TokensInv, NEW r \in Refreshes, Running(r)
    PROVE  \E c \in Devices : refresh[r].device = {c}
BY DEF TokensInv, OwnTokens

\* Its tokens are that device's, and it is the device's only one unless that was disturbed.
LEMMA RequestOf ==
    ASSUME TokensInv, NEW r \in Refreshes, Running(r), NEW c \in Devices, refresh[r].device = {c}
    PROVE  /\ r \in RunningFor(c)
           /\ refresh[r].presents \in Issued /\ token[refresh[r].presents].of = c
           /\ refresh[r].at \in {"revoke", "reply"} =>
               /\ refresh[r].issues \in Issued /\ token[refresh[r].issues].of = c
               /\ refresh[r].issues # refresh[r].presents
           /\ c \notin disturbed =>
               RunningFor(c) = {r} /\ refresh[r].presents = holds[c] /\ InOrder(c)
<1>1. PICK e \in Devices :
        /\ refresh[r].device = {e}
        /\ refresh[r].presents \in Issued /\ token[refresh[r].presents].of = e
        /\ refresh[r].at \in {"revoke", "reply"} =>
            /\ refresh[r].issues \in Issued /\ token[refresh[r].issues].of = e
            /\ refresh[r].issues # refresh[r].presents
  BY DEF TokensInv, OwnTokens
<1>2. e = c
  BY <1>1
<1>3. r \in RunningFor(c)
  BY DEF RunningFor
<1>4. c \notin disturbed =>
        RunningFor(c) = {r} /\ refresh[r].presents = holds[c] /\ InOrder(c)
  BY <1>3 DEF TokensInv, OneRequest, LiveTokens
<1> QED BY <1>1, <1>2, <1>3, <1>4

\* A request that moves on stays its device's; one that ends is nobody's.
LEMMA RequestMoves ==
    ASSUME TokensInv, NEW r \in Refreshes, Running(r), NEW c \in Devices, refresh[r].device = {c},
           NEW x \in Refresh, x.device = {c}, refresh' = [refresh EXCEPT ![r] = x]
    PROVE  /\ refresh' \in [Refreshes -> Refresh] /\ refresh'[r] = x
           /\ \A q \in Refreshes \ {r} : refresh'[q] = refresh[q] /\ (Running(q)' <=> Running(q))
           /\ Running(r)' <=> x.at \in Going
           /\ RunningFor(c)' = IF x.at \in Going THEN RunningFor(c) ELSE RunningFor(c) \ {r}
           /\ \A d \in Devices \ {c} : RunningFor(d)' = RunningFor(d) /\ r \notin RunningFor(d)
<1>1. /\ refresh' \in [Refreshes -> Refresh] /\ refresh'[r] = x
      /\ \A q \in Refreshes \ {r} : refresh'[q] = refresh[q]
  BY DEF TokensInv, TokenTypes
<1>2. \A q \in Refreshes \ {r} : Running(q)' <=> Running(q)
  BY <1>1 DEF Running
<1>3. Running(r)' <=> x.at \in Going
  BY <1>1 DEF Running, Going
<1>4. \A d \in Devices : {c} = {d} <=> d = c
  OBVIOUS
<1>5. \A d \in Devices : \A q \in Refreshes \ {r} : q \in RunningFor(d)' <=> q \in RunningFor(d)
  BY <1>1, <1>2 DEF RunningFor
<1>6. \A d \in Devices :
        /\ r \in RunningFor(d) <=> d = c
        /\ r \in RunningFor(d)' <=> (d = c /\ x.at \in Going)
  BY <1>1, <1>3, <1>4 DEF RunningFor
<1>7. \A d \in Devices : RunningFor(d) \subseteq Refreshes /\ RunningFor(d)' \subseteq Refreshes
  BY DEF RunningFor
<1>8. RunningFor(c)' = IF x.at \in Going THEN RunningFor(c) ELSE RunningFor(c) \ {r}
  BY <1>5, <1>6, <1>7
<1>9. \A d \in Devices \ {c} : RunningFor(d)' = RunningFor(d) /\ r \notin RunningFor(d)
  BY <1>5, <1>6, <1>7
<1> QED BY <1>1, <1>2, <1>3, <1>8, <1>9

\* A step of one request, which only touches its own device's tokens, keeps the invariant
\* if it leaves that device in order.
LEMMA RequestKeeps ==
    ASSUME TokensInv, NEW r \in Refreshes, Running(r), NEW c \in Devices, refresh[r].device = {c},
           NEW x \in Refresh, x.device = {c}, x.presents = refresh[r].presents,
           refresh' = [refresh EXCEPT ![r] = x],
           LastIssued' \in Nat, Issued' = 1..LastIssued', token' \in [Issued' -> Token],
           Issued \subseteq Issued',
           \A n \in Issued : token'[n].of = token[n].of,
           \A n \in Issued : token[n].of # c => token'[n] = token[n],
           \A n \in Issued' \ Issued : token'[n].of = c,
           x.at \in {"revoke", "reply"} =>
               /\ x.issues \in Issued' /\ token'[x.issues].of = c
               /\ x.issues # x.presents,
           holds' \in [Devices -> Issued' \cup {0}],
           holds'[c] # 0 => token'[holds'[c]].of = c,
           \A d \in Devices \ {c} : holds'[d] = holds[d],
           disturbed \subseteq disturbed', disturbed' \subseteq Devices,
           c \notin disturbed' => (x.at \in Going => holds'[c] = holds[c]) /\ InOrder(c)'
    PROVE  TokensInv'
<1>1. /\ refresh' \in [Refreshes -> Refresh] /\ refresh'[r] = x
      /\ \A q \in Refreshes \ {r} : refresh'[q] = refresh[q] /\ (Running(q)' <=> Running(q))
      /\ Running(r)' <=> x.at \in Going
      /\ RunningFor(c)' = IF x.at \in Going THEN RunningFor(c) ELSE RunningFor(c) \ {r}
      /\ \A d \in Devices \ {c} : RunningFor(d)' = RunningFor(d) /\ r \notin RunningFor(d)
  BY RequestMoves
<1>2. TokenTypes'
  BY <1>1 DEF TokenTypes
<1>3. OwnTokens'
  <2>1. ASSUME NEW d \in Devices, holds'[d] # 0 PROVE token'[holds'[d]].of = d
    <3>1. CASE d = c
      BY <2>1, <3>1
    <3>2. CASE d # c
      <4>1. holds'[d] = holds[d] /\ holds[d] \in Issued /\ token[holds[d]].of = d
        BY <2>1, <3>2 DEF TokensInv, OwnTokens, TokenTypes
      <4> QED BY <4>1
    <3> QED BY <3>1, <3>2
  <2>2. ASSUME NEW q \in Refreshes, Running(q)'
        PROVE  \E d \in Devices :
                /\ refresh'[q].device = {d}
                /\ refresh'[q].presents \in Issued' /\ token'[refresh'[q].presents].of = d
                /\ refresh'[q].at \in {"revoke", "reply"} =>
                    /\ refresh'[q].issues \in Issued' /\ token'[refresh'[q].issues].of = d
                    /\ refresh'[q].issues # refresh'[q].presents
    <3>1. CASE q = r
      <4>1. refresh[r].presents \in Issued /\ token[refresh[r].presents].of = c
        BY RequestOf
      <4> WITNESS c \in Devices
      <4> QED BY <1>1, <3>1, <4>1
    <3>2. CASE q # r
      <4>1. refresh'[q] = refresh[q] /\ Running(q)
        BY <1>1, <2>2, <3>2
      <4>2. PICK d \in Devices :
              /\ refresh[q].device = {d}
              /\ refresh[q].presents \in Issued /\ token[refresh[q].presents].of = d
              /\ refresh[q].at \in {"revoke", "reply"} =>
                  /\ refresh[q].issues \in Issued /\ token[refresh[q].issues].of = d
                  /\ refresh[q].issues # refresh[q].presents
        BY <4>1 DEF TokensInv, OwnTokens
      <4> WITNESS d \in Devices
      <4> QED BY <4>1, <4>2
    <3> QED BY <3>1, <3>2
  <2> QED BY <2>1, <2>2 DEF OwnTokens
<1>4. OneRequest'
  <2> SUFFICES ASSUME NEW d \in Devices \ disturbed', NEW q \in RunningFor(d)'
               PROVE  RunningFor(d)' = {q} /\ refresh'[q].presents = holds'[d]
    BY DEF OneRequest
  <2>1. CASE d = c
    <3>1. RunningFor(c) = {r} /\ refresh[r].presents = holds[c]
      BY <2>1, RequestOf
    <3>2. x.at \in Going /\ q = r /\ RunningFor(c)' = {r}
      BY <1>1, <2>1, <3>1
    <3> QED BY <1>1, <2>1, <3>1, <3>2
  <2>2. CASE d # c
    <3>1. q \in RunningFor(d) /\ RunningFor(d)' = RunningFor(d) /\ q # r /\ q \in Refreshes
      BY <1>1, <2>2 DEF RunningFor
    <3>2. RunningFor(d) = {q} /\ refresh[q].presents = holds[d]
      BY <3>1 DEF TokensInv, OneRequest
    <3> QED BY <1>1, <2>2, <3>1, <3>2
  <2> QED BY <2>1, <2>2
<1>5. LiveTokens'
  <2> SUFFICES ASSUME NEW d \in Devices \ disturbed' PROVE InOrder(d)'
    BY DEF LiveTokens
  <2>1. CASE d = c
    BY <2>1
  <2>2. CASE d # c
    <3>1. /\ RunningFor(d)' = RunningFor(d) /\ holds'[d] = holds[d]
          /\ \A q \in RunningFor(d) : refresh'[q] = refresh[q]
      BY <1>1, <2>2 DEF RunningFor
    <3>2. \A n \in Issued : token[n].of = d => token'[n].state \in {token[n].state, "expired"}
      BY <2>2
    <3> QED BY <2>2, <3>1, <3>2, OtherDevice
  <2> QED BY <2>1, <2>2
<1> QED BY <1>2, <1>3, <1>4, <1>5 DEF TokensInv

\* A request that moves on changes where it stands and nothing else of it.
LEMMA MoveOnIs ==
    ASSUME TokenTypes, NEW r \in Refreshes, NEW spot \in Place, MoveOn(r, spot)
    PROVE  \E x \in Refresh :
            /\ x.at = spot /\ x.device = refresh[r].device
            /\ x.presents = refresh[r].presents /\ x.issues = refresh[r].issues
            /\ refresh' = [refresh EXCEPT ![r] = x]
<1>1. refresh \in [Refreshes -> Refresh] /\ refresh[r] \in Refresh
  BY DEF TokenTypes
<1> DEFINE x == [at |-> spot, device |-> refresh[r].device,
                 presents |-> refresh[r].presents, issues |-> refresh[r].issues]
<1>2. x \in Refresh
  BY <1>1 DEF Refresh
<1>3. x = [refresh[r] EXCEPT !.at = spot]
  BY <1>1 DEF Refresh
<1>4. refresh' = [refresh EXCEPT ![r] = [refresh[r] EXCEPT !.at = spot]]
  BY DEF MoveOn
<1>5. refresh' = [refresh EXCEPT ![r] = x]
  BY <1>3, <1>4
<1> QED BY <1>2, <1>5

\* Steps that touch no token leave their numbering and each device's live ones alone.
LEMMA SameTokens ==
    ASSUME TokenTypes, UNCHANGED token
    PROVE  /\ LastIssued' \in Nat /\ Issued' = Issued /\ Issued' = 1..LastIssued'
           /\ token' \in [Issued' -> Token]
           /\ \A d \in Devices : LiveOf(d)' = LiveOf(d)
BY DEF TokenTypes, LastIssued, Issued, LiveOf

\* The lookup and the check of the account change nothing but where the request stands.
LEMMA LookupKeeps ==
    ASSUME TokensInv, NEW r \in Refreshes, FindToken(r) \/ FindUser(r)
    PROVE  TokensInv'
<1> DEFINE spot == IF FindToken(r) THEN "user" ELSE IF isActive THEN "issue" ELSE "done"
<1>1. /\ refresh[r].at \in {"find", "user"} /\ MoveOn(r, spot)
      /\ UNCHANGED <<token, holds, disturbed>>
  BY DEF FindToken, FindUser
<1>2. spot \in {"user", "issue", "done"}
  OBVIOUS
<1> HIDE DEF spot
<1>3. Running(r)
  BY <1>1 DEF Running
<1>4. PICK c \in Devices : refresh[r].device = {c}
  BY <1>3, SomeDevice
<1>5. PICK x \in Refresh :
        /\ x.at = spot /\ x.device = {c}
        /\ x.presents = refresh[r].presents /\ x.issues = refresh[r].issues
        /\ refresh' = [refresh EXCEPT ![r] = x]
  BY <1>1, <1>2, <1>4, MoveOnIs DEF TokensInv, Place
<1>6. /\ LastIssued' \in Nat /\ Issued' = Issued /\ Issued' = 1..LastIssued'
      /\ token' \in [Issued' -> Token] /\ LiveOf(c)' = LiveOf(c)
  BY <1>1, SameTokens DEF TokensInv
<1>7. ASSUME c \notin disturbed' PROVE InOrder(c)'
  <2>1. /\ RunningFor(c) = {r} /\ refresh[r].presents = holds[c]
        /\ LiveOf(c) \subseteq {holds[c]} /\ ~Revoked(holds[c])
    BY <1>1, <1>3, <1>4, <1>7, RequestOf DEF InOrder
  <2>2. RunningFor(c)' \in {{}, {r}} /\ refresh'[r] = x
    <3>1. /\ RunningFor(c)' = IF x.at \in Going THEN RunningFor(c) ELSE RunningFor(c) \ {r}
          /\ refresh'[r] = x
      BY <1>3, <1>4, <1>5, RequestMoves
    <3> QED BY <2>1, <3>1
  <2>3. ~Revoked(holds[c])'
    BY <1>1, <2>1 DEF Revoked
  <2> QED BY <1>1, <1>2, <1>5, <1>6, <2>1, <2>2, <2>3 DEF InOrder
<1>8. /\ holds \in [Devices -> Issued \cup {0}] /\ disturbed \subseteq Devices
      /\ holds[c] # 0 => token[holds[c]].of = c
  BY DEF TokensInv, TokenTypes, OwnTokens
<1>9. x.at \notin {"revoke", "reply"}
  BY <1>2, <1>5
<1> QED BY <1>1, <1>3, <1>4, <1>5, <1>6, <1>7, <1>8, <1>9, RequestKeeps

\* A device that is refused forgets the token it presented.
LEMMA RefuseKeeps ==
    ASSUME TokensInv, NEW r \in Refreshes, RefuseToken(r)
    PROVE  TokensInv'
<1>1. /\ refresh[r].at = "find" /\ MoveOn(r, "done") /\ UNCHANGED <<token, disturbed>>
      /\ token[refresh[r].presents].state # "live"
  BY DEF RefuseToken
<1>2. Running(r)
  BY <1>1 DEF Running
<1>3. PICK c \in Devices : refresh[r].device = {c}
  BY <1>2, SomeDevice
<1>4. PICK x \in Refresh :
        /\ x.at = "done" /\ x.device = {c}
        /\ x.presents = refresh[r].presents /\ x.issues = refresh[r].issues
        /\ refresh' = [refresh EXCEPT ![r] = x]
  BY <1>1, <1>3, MoveOnIs DEF TokensInv, Place
<1>5. /\ LastIssued' \in Nat /\ Issued' = Issued /\ Issued' = 1..LastIssued'
      /\ token' \in [Issued' -> Token] /\ LiveOf(c)' = LiveOf(c)
  BY <1>1, SameTokens DEF TokensInv
<1>6. /\ holds \in [Devices -> Issued \cup {0}] /\ disturbed \subseteq Devices
      /\ holds[c] # 0 => token[holds[c]].of = c
  BY DEF TokensInv, TokenTypes, OwnTokens
<1>7. /\ holds' \in [Devices -> Issued' \cup {0}]
      /\ holds'[c] = IF holds[c] = refresh[r].presents THEN 0 ELSE holds[c]
      /\ \A d \in Devices \ {c} : holds'[d] = holds[d]
  BY <1>3, <1>5, <1>6 DEF RefuseToken
<1>8. ASSUME c \notin disturbed' PROVE InOrder(c)'
  <2>1. /\ RunningFor(c) = {r} /\ refresh[r].presents = holds[c]
        /\ LiveOf(c) \subseteq {holds[c]}
    BY <1>1, <1>2, <1>3, <1>8, RequestOf DEF InOrder
  <2>2. RunningFor(c)' = {}
    <3>1. RunningFor(c)' = IF x.at \in Going THEN RunningFor(c) ELSE RunningFor(c) \ {r}
      BY <1>2, <1>3, <1>4, RequestMoves
    <3> QED BY <1>4, <2>1, <3>1 DEF Going
  <2>3. holds[c] \notin LiveOf(c)
    BY <1>1, <2>1 DEF LiveOf
  <2> QED BY <1>5, <1>7, <2>1, <2>2, <2>3 DEF InOrder
<1>9. x.at \notin Going /\ x.at \notin {"revoke", "reply"} /\ (holds'[c] # 0 => token'[holds'[c]].of = c)
  BY <1>1, <1>4, <1>6, <1>7 DEF Going
<1> QED BY <1>1, <1>2, <1>3, <1>4, <1>5, <1>6, <1>7, <1>8, <1>9, RequestKeeps

\* The answer reaches the device, which holds the token it brings from then on.
LEMMA ReplyKeeps ==
    ASSUME TokensInv, NEW r \in Refreshes, Reply(r)
    PROVE  TokensInv'
<1>1. refresh[r].at = "reply" /\ MoveOn(r, "done") /\ UNCHANGED <<token, disturbed>>
  BY DEF Reply
<1>2. Running(r)
  BY <1>1 DEF Running
<1>3. PICK c \in Devices : refresh[r].device = {c}
  BY <1>2, SomeDevice
<1>4. PICK x \in Refresh :
        /\ x.at = "done" /\ x.device = {c}
        /\ x.presents = refresh[r].presents /\ x.issues = refresh[r].issues
        /\ refresh' = [refresh EXCEPT ![r] = x]
  BY <1>1, <1>3, MoveOnIs DEF TokensInv, Place
<1>5. /\ LastIssued' \in Nat /\ Issued' = Issued /\ Issued' = 1..LastIssued'
      /\ token' \in [Issued' -> Token] /\ LiveOf(c)' = LiveOf(c)
  BY <1>1, SameTokens DEF TokensInv
<1>6. holds \in [Devices -> Issued \cup {0}] /\ disturbed \subseteq Devices
  BY DEF TokensInv, TokenTypes
<1>7. refresh[r].issues \in Issued /\ token[refresh[r].issues].of = c
  BY <1>1, <1>2, <1>3, RequestOf
<1>8. /\ holds' \in [Devices -> Issued' \cup {0}]
      /\ holds'[c] = refresh[r].issues
      /\ \A d \in Devices \ {c} : holds'[d] = holds[d]
  BY <1>3, <1>5, <1>6, <1>7 DEF Reply
<1>9. ASSUME c \notin disturbed' PROVE InOrder(c)'
  <2>1. /\ RunningFor(c) = {r}
        /\ LiveOf(c) \subseteq {refresh[r].issues} /\ ~Revoked(refresh[r].issues)
    BY <1>1, <1>2, <1>3, <1>9, RequestOf DEF InOrder
  <2>2. RunningFor(c)' = {}
    <3>1. RunningFor(c)' = IF x.at \in Going THEN RunningFor(c) ELSE RunningFor(c) \ {r}
      BY <1>2, <1>3, <1>4, RequestMoves
    <3> QED BY <1>4, <2>1, <3>1 DEF Going
  <2>3. ~Revoked(holds[c])'
    BY <1>1, <1>8, <2>1 DEF Revoked
  <2> QED BY <1>5, <1>8, <2>1, <2>2, <2>3 DEF InOrder
<1>10. x.at \notin Going /\ x.at \notin {"revoke", "reply"} /\ token'[holds'[c]].of = c
  BY <1>1, <1>4, <1>7, <1>8 DEF Going
<1> QED BY <1>1, <1>2, <1>3, <1>4, <1>5, <1>6, <1>8, <1>9, <1>10, RequestKeeps

\* A device whose answer is lost counts as disturbed.
LEMMA LoseKeeps ==
    ASSUME TokensInv, NEW r \in Refreshes, LoseRefresh(r)
    PROVE  TokensInv'
<1>1. /\ Running(r) /\ MoveOn(r, "lost") /\ disturbed' = disturbed \cup refresh[r].device
      /\ UNCHANGED <<token, holds>>
  BY DEF LoseRefresh
<1>2. PICK c \in Devices : refresh[r].device = {c}
  BY <1>1, SomeDevice
<1>3. PICK x \in Refresh :
        /\ x.at = "lost" /\ x.device = {c}
        /\ x.presents = refresh[r].presents /\ x.issues = refresh[r].issues
        /\ refresh' = [refresh EXCEPT ![r] = x]
  BY <1>1, <1>2, MoveOnIs DEF TokensInv, Place
<1>4. /\ LastIssued' \in Nat /\ Issued' = Issued /\ Issued' = 1..LastIssued'
      /\ token' \in [Issued' -> Token]
  BY <1>1, SameTokens DEF TokensInv
<1>5. /\ holds \in [Devices -> Issued \cup {0}]
      /\ disturbed \subseteq disturbed' /\ disturbed' \subseteq Devices /\ c \in disturbed'
      /\ holds[c] # 0 => token[holds[c]].of = c
  BY <1>1, <1>2 DEF TokensInv, TokenTypes, OwnTokens
<1>6. x.at \notin {"revoke", "reply"}
  BY <1>3
<1> QED BY <1>1, <1>2, <1>3, <1>4, <1>5, <1>6, RequestKeeps

\* The next token is issued while the presented one is still live.
LEMMA IssueKeeps ==
    ASSUME TokensInv, NEW r \in Refreshes, IssueNext(r)
    PROVE  TokensInv'
<1> DEFINE new == LastIssued + 1
<1>1. /\ refresh[r].at = "issue" /\ UNCHANGED <<holds, disturbed>>
      /\ \E d \in refresh[r].device : Issue(d)
      /\ refresh' = [refresh EXCEPT ![r].at = "revoke", ![r].issues = new]
  BY DEF IssueNext
<1>2. Running(r)
  BY <1>1 DEF Running
<1>3. PICK c \in Devices : refresh[r].device = {c}
  BY <1>2, SomeDevice
<1>4. /\ new \notin Issued /\ Issued' = Issued \cup {new}
      /\ LastIssued' \in Nat /\ Issued' = 1..LastIssued'
      /\ token' \in [Issued' -> Token]
      /\ token'[new] = [of |-> c, state |-> "live"]
      /\ \A n \in Issued : token'[n] = token[n]
  <2>1. Issue(c)
    BY <1>1, <1>3
  <2> QED BY <2>1, IssueToken DEF TokensInv
<1>5. new \in Nat
  BY DEF TokensInv, TokenTypes
<1> HIDE DEF new
<1> DEFINE x == [at |-> "revoke", device |-> {c},
                 presents |-> refresh[r].presents, issues |-> new]
<1>6. refresh \in [Refreshes -> Refresh] /\ refresh[r] \in Refresh
  BY DEF TokensInv, TokenTypes
<1>7. x \in Refresh /\ refresh' = [refresh EXCEPT ![r] = x]
  <2>1. x \in Refresh
    BY <1>3, <1>5, <1>6 DEF Refresh, Place
  <2>2. x = [[refresh[r] EXCEPT !.at = "revoke"] EXCEPT !.issues = new]
    <3> DEFINE y == [refresh[r] EXCEPT !.at = "revoke"]
    <3>1. y \in Refresh /\ y.at = "revoke" /\ y.device = {c} /\ y.presents = refresh[r].presents
      BY <1>3, <1>6 DEF Refresh, Place
    <3> HIDE DEF y
    <3>2. x = [y EXCEPT !.issues = new]
      BY <3>1 DEF Refresh
    <3> QED BY <3>2 DEF y
  <2>3. refresh' = [refresh EXCEPT ![r] = [[refresh[r] EXCEPT !.at = "revoke"] EXCEPT !.issues = new]]
    BY <1>1, <1>6
  <2> QED BY <2>1, <2>2, <2>3
<1>8. x.at = "revoke" /\ x.device = {c} /\ x.presents = refresh[r].presents /\ x.issues = new
  OBVIOUS
<1> HIDE DEF x
<1>9. refresh[r].presents \in Issued
  BY <1>2, <1>3, RequestOf
<1>10. /\ holds \in [Devices -> Issued' \cup {0}] /\ disturbed \subseteq Devices
       /\ \A n \in Issued : token'[n].of = token[n].of
       /\ \A n \in Issued' \ Issued : token'[n].of = c
       /\ x.issues \in Issued' /\ token'[x.issues].of = c /\ x.issues # x.presents
  BY <1>4, <1>8, <1>9 DEF TokensInv, TokenTypes
<1>11. holds'[c] # 0 => token'[holds'[c]].of = c
  BY <1>1, <1>4 DEF TokensInv, TokenTypes, OwnTokens
<1>12. ASSUME c \notin disturbed' PROVE InOrder(c)'
  <2>1. /\ RunningFor(c) = {r} /\ refresh[r].presents = holds[c]
        /\ LiveOf(c) \subseteq {holds[c]}
    BY <1>1, <1>2, <1>3, <1>12, RequestOf DEF InOrder
  <2>2. RunningFor(c)' = {r} /\ refresh'[r] = x
    <3>1. /\ RunningFor(c)' = IF x.at \in Going THEN RunningFor(c) ELSE RunningFor(c) \ {r}
          /\ refresh'[r] = x
      BY <1>2, <1>3, <1>7, <1>8, RequestMoves
    <3> QED BY <1>8, <2>1, <3>1 DEF Going
  <2>3. LiveOf(c)' = LiveOf(c) \cup {new}
    BY <1>4 DEF LiveOf
  <2>4. token'[new].state = "live"
    BY <1>4
  <2> QED BY <1>1, <1>8, <2>1, <2>2, <2>3, <2>4 DEF InOrder, Revoked
<1>13. /\ Issued \subseteq Issued' /\ (\A n \in Issued : token[n].of # c => token'[n] = token[n])
       /\ holds' = holds /\ disturbed' = disturbed
       /\ c \notin disturbed' => (x.at \in Going => holds'[c] = holds[c]) /\ InOrder(c)'
  BY <1>1, <1>4, <1>12
<1>14. /\ LastIssued' \in Nat /\ Issued' = 1..LastIssued' /\ token' \in [Issued' -> Token]
       /\ x \in Refresh /\ refresh' = [refresh EXCEPT ![r] = x]
  BY <1>4, <1>7
<1> QED BY <1>2, <1>3, <1>8, <1>10, <1>11, <1>13, <1>14, RequestKeeps

\* Revoking the presented token leaves the one just issued, or fails for want of the row.
LEMMA RevokeKeeps ==
    ASSUME TokensInv, NEW r \in Refreshes, RevokePresented(r)
    PROVE  TokensInv'
<1> DEFINE old == refresh[r].presents
<1>1. refresh[r].at = "revoke" /\ UNCHANGED holds
  BY DEF RevokePresented
<1>2. Running(r)
  BY <1>1 DEF Running
<1>3. PICK c \in Devices : refresh[r].device = {c}
  BY <1>2, SomeDevice
<1>4. /\ old \in Issued /\ token[old].of = c
      /\ refresh[r].issues \in Issued /\ token[refresh[r].issues].of = c
      /\ refresh[r].issues # old
  BY <1>1, <1>2, <1>3, RequestOf
<1>5. /\ holds \in [Devices -> Issued \cup {0}] /\ disturbed \subseteq Devices
      /\ holds[c] # 0 => holds[c] \in Issued /\ token[holds[c]].of = c
      /\ token \in [Issued -> Token]
  BY DEF TokensInv, TokenTypes, OwnTokens
<1>6. CASE token[old].state = "expired"
  <2>1. MoveOn(r, "failed") /\ disturbed' = disturbed \cup {c} /\ UNCHANGED token
    BY <1>3, <1>6 DEF RevokePresented
  <2>2. PICK x \in Refresh :
          /\ x.at = "failed" /\ x.device = {c} /\ x.presents = old
          /\ refresh' = [refresh EXCEPT ![r] = x]
    BY <1>3, <2>1, MoveOnIs DEF TokensInv, Place
  <2>3. /\ LastIssued' \in Nat /\ Issued' = Issued /\ Issued' = 1..LastIssued'
        /\ token' \in [Issued' -> Token]
    BY <2>1, SameTokens DEF TokensInv
  <2>4. x.at \notin {"revoke", "reply"}
    BY <2>2
  <2> QED BY <1>1, <1>2, <1>3, <1>5, <2>1, <2>2, <2>3, <2>4, RequestKeeps
<1>7. CASE token[old].state # "expired"
  <2>1. MoveOn(r, "reply") /\ Become(old, "revoked") /\ UNCHANGED disturbed
    BY <1>7 DEF RevokePresented
  <2>2. PICK x \in Refresh :
          /\ x.at = "reply" /\ x.device = {c} /\ x.presents = old
          /\ x.issues = refresh[r].issues
          /\ refresh' = [refresh EXCEPT ![r] = x]
    BY <1>3, <2>1, MoveOnIs DEF TokensInv, Place
  <2>3. /\ token' \in [Issued -> Token] /\ token'[old].state = "revoked"
        /\ \A n \in Issued : token'[n].of = token[n].of
        /\ \A n \in Issued \ {old} : token'[n] = token[n]
    BY <1>4, <1>5, <2>1 DEF Become, Token
  <2>4. /\ LastIssued' \in Nat /\ Issued' = Issued /\ Issued' = 1..LastIssued'
    BY <2>3 DEF TokensInv, TokenTypes, LastIssued, Issued
  <2>5. ASSUME c \notin disturbed' PROVE InOrder(c)'
    <3>1. /\ RunningFor(c) = {r} /\ old = holds[c]
          /\ LiveOf(c) \subseteq {holds[c], refresh[r].issues} /\ ~Revoked(refresh[r].issues)
      BY <1>1, <1>2, <1>3, <2>1, <2>5, RequestOf DEF InOrder
    <3>2. RunningFor(c)' = {r} /\ refresh'[r] = x
      <4>1. /\ RunningFor(c)' = IF x.at \in Going THEN RunningFor(c) ELSE RunningFor(c) \ {r}
            /\ refresh'[r] = x
        BY <1>2, <1>3, <2>2, RequestMoves
      <4> QED BY <2>2, <3>1, <4>1 DEF Going
    <3>3. LiveOf(c)' \subseteq LiveOf(c) \ {old}
      BY <2>3, <2>4 DEF LiveOf
    <3>4. token'[refresh[r].issues].state # "revoked"
      BY <1>4, <2>3, <3>1 DEF Revoked
    <3> QED BY <2>2, <3>1, <3>2, <3>3, <3>4 DEF InOrder, Revoked
  <2>6. \A n \in Issued : token[n].of # c => token'[n] = token[n]
    BY <1>4, <2>3
  <2>7. holds'[c] # 0 => token'[holds'[c]].of = c
    BY <1>1, <1>5, <2>3
  <2>8. /\ Issued \subseteq Issued' /\ token' \in [Issued' -> Token]
        /\ \A n \in Issued : token'[n].of = token[n].of
        /\ \A n \in Issued' \ Issued : token'[n].of = c
        /\ x.issues \in Issued' /\ token'[x.issues].of = c /\ x.issues # x.presents
        /\ holds' \in [Devices -> Issued' \cup {0}]
        /\ \A d \in Devices \ {c} : holds'[d] = holds[d]
        /\ disturbed \subseteq disturbed' /\ disturbed' \subseteq Devices
        /\ c \notin disturbed' => (x.at \in Going => holds'[c] = holds[c]) /\ InOrder(c)'
    BY <1>1, <1>4, <1>5, <2>1, <2>2, <2>3, <2>4, <2>5
  <2> QED BY <1>2, <1>3, <2>2, <2>4, <2>6, <2>7, <2>8, RequestKeeps
<1> QED BY <1>6, <1>7

\* Signing out revokes what the device holds; with a request running it counts as disturbed.
LEMMA LogoutKeeps ==
    ASSUME TokensInv, NEW c \in Devices, Logout(c)
    PROVE  TokensInv'
<1>1. /\ holds[c] # 0 /\ holds' = [holds EXCEPT ![c] = 0] /\ UNCHANGED refresh
      /\ disturbed' = IF RunningFor(c) = {} THEN disturbed ELSE disturbed \cup {c}
  BY DEF Logout
<1>2. /\ holds[c] \in Issued /\ token[holds[c]].of = c
      /\ holds \in [Devices -> Issued \cup {0}] /\ token \in [Issued -> Token]
      /\ 0 \notin Issued
  BY <1>1 DEF TokensInv, TokenTypes, OwnTokens
<1>3. /\ token' \in [Issued -> Token] /\ Issued' = Issued
      /\ \A n \in Issued : token'[n].of = token[n].of
      /\ \A n \in Issued \ {holds[c]} : token'[n] = token[n]
      /\ token'[holds[c]].state # "live"
  BY <1>2 DEF Logout, Become, Token, Issued
<1>4. TokenTypes'
  BY <1>1, <1>2, <1>3 DEF TokensInv, TokenTypes, LastIssued
<1>5. OwnTokens'
  <2>1. \A d \in Devices : holds'[d] # 0 => token'[holds'[d]].of = d
    BY <1>1, <1>2, <1>3 DEF TokensInv, OwnTokens
  <2>2. \A r \in Refreshes : refresh'[r] = refresh[r] /\ (Running(r)' <=> Running(r))
    BY <1>1 DEF Running
  <2> QED BY <1>3, <2>1, <2>2 DEF TokensInv, OwnTokens
<1>6. \A d \in Devices : RunningFor(d)' = RunningFor(d)
  BY <1>1 DEF RunningFor, Running
<1>7. OneRequest'
  <2> SUFFICES ASSUME NEW d \in Devices \ disturbed', NEW r \in RunningFor(d)'
               PROVE  RunningFor(d)' = {r} /\ refresh'[r].presents = holds'[d]
    BY DEF OneRequest
  <2>1. r \in RunningFor(d) /\ RunningFor(d)' = RunningFor(d) /\ d # c /\ d \notin disturbed
    BY <1>1, <1>6
  <2> QED BY <1>1, <1>2, <2>1 DEF TokensInv, OneRequest
<1>8. LiveTokens'
  <2> SUFFICES ASSUME NEW d \in Devices \ disturbed' PROVE InOrder(d)'
    BY DEF LiveTokens
  <2>0. d \in Devices \ disturbed
    BY <1>1
  <2>1. CASE d = c
    <3>1. RunningFor(c) = {} /\ LiveOf(c) \subseteq {holds[c]}
      BY <1>1, <2>0, <2>1 DEF TokensInv, LiveTokens, InOrder
    <3>2. LiveOf(c)' = {}
      BY <1>3, <3>1 DEF LiveOf
    <3> QED BY <1>1, <1>2, <1>6, <2>1, <3>1, <3>2 DEF InOrder
  <2>2. CASE d # c
    <3>1. holds'[d] = holds[d] /\ RunningFor(d)' = RunningFor(d)
      BY <1>1, <1>2, <1>6, <2>2
    <3>2. \A n \in Issued : token[n].of = d => token'[n].state \in {token[n].state, "expired"}
      BY <1>2, <1>3, <2>2
    <3> QED BY <1>1, <1>3, <2>0, <3>1, <3>2, OtherDevice
  <2> QED BY <2>1, <2>2
<1> QED BY <1>4, <1>5, <1>7, <1>8 DEF TokensInv

\* Tokens expire, the account is switched on and off, or nothing happens.
LEMMA RestKeeps ==
    ASSUME TokensInv,
           (\E n \in Issued : ExpireToken(n)) \/ SetUserStatus \/ UNCHANGED tokenVars
    PROVE  TokensInv'
<1>1. UNCHANGED <<holds, refresh, disturbed>>
  BY DEF ExpireToken, SetUserStatus, tokenVars
<1>2. /\ token' \in [Issued -> Token] /\ Issued' = Issued
      /\ \A n \in Issued : token'[n].of = token[n].of
      /\ \A n \in Issued : token'[n].state \in {token[n].state, "expired"}
  <2>1. token \in [Issued -> Token]
    BY DEF TokensInv, TokenTypes
  <2> QED BY <2>1 DEF ExpireToken, SetUserStatus, tokenVars, Become, Token, Issued
<1>3. TokenTypes'
  BY <1>1, <1>2 DEF TokensInv, TokenTypes, LastIssued
<1>4. \A r \in Refreshes : refresh'[r] = refresh[r] /\ (Running(r)' <=> Running(r))
  BY <1>1 DEF Running
<1>5. OwnTokens'
  <2>1. \A d \in Devices : holds'[d] # 0 => token'[holds'[d]].of = d
    BY <1>1, <1>2 DEF TokensInv, OwnTokens, TokenTypes
  <2> QED BY <1>2, <1>4, <2>1 DEF TokensInv, OwnTokens
<1>6. \A d \in Devices : RunningFor(d)' = RunningFor(d)
  BY <1>1 DEF RunningFor, Running
<1>7. OneRequest'
  BY <1>1, <1>6 DEF TokensInv, OneRequest
<1>8. LiveTokens'
  <2> SUFFICES ASSUME NEW d \in Devices \ disturbed PROVE InOrder(d)'
    BY <1>1 DEF LiveTokens
  <2>1. holds'[d] = holds[d] /\ RunningFor(d)' = RunningFor(d)
    BY <1>1, <1>6
  <2>2. \A r \in RunningFor(d) : refresh'[r] = refresh[r]
    BY <1>1
  <2> QED BY <1>2, <2>1, <2>2, OtherDevice
<1> QED BY <1>3, <1>5, <1>7, <1>8 DEF TokensInv

\* "The presented refresh token is single-use" (auth.service.ts, refresh), for any number of
\* devices and of refreshes: between its requests a device holds its only live token unless
\* it asked twice at a time, lost an answer, or its token expired under the request.
THEOREM EachDeviceHoldsItsToken == TokensSpec => []OneLiveTokenPerDevice
<1>1. TokensInit => TokensInv
  <2> SUFFICES ASSUME TokensInit PROVE TokensInv
    OBVIOUS
  <2>1. Issued = {} /\ LastIssued = 0
    BY FS_EmptySet DEF TokensInit, Issued, LastIssued
  <2>2. TokenTypes
    BY <2>1 DEF TokensInit, TokenTypes, Refresh, Place, Token, Issued
  <2>3. \A d \in Devices : LiveOf(d) = {} /\ RunningFor(d) = {} /\ holds[d] = 0
    BY <2>1 DEF TokensInit, LiveOf, RunningFor, Running
  <2>4. OwnTokens /\ OneRequest /\ LiveTokens
    BY <2>3 DEF TokensInit, OwnTokens, OneRequest, LiveTokens, InOrder, Running
  <2> QED BY <2>2, <2>4 DEF TokensInv
<1>2. TokensInv /\ [TokensNext]_tokenVars => TokensInv'
  BY LoginKeeps, LogoutKeeps, PresentKeeps, RefuseKeeps, LookupKeeps, IssueKeeps, RevokeKeeps,
     ReplyKeeps, LoseKeeps, RestKeeps DEF TokensNext
<1>3. TokensInv => OneLiveTokenPerDevice
  BY DEF TokensInv, LiveTokens, InOrder, LiveOf, Revoked, OneLiveTokenPerDevice
<1> QED BY <1>1, <1>2, <1>3, PTL DEF TokensSpec

-----------------------------------------------------------------------------
(* The repair of the customers.                                             *)

\* Types; a plan is kept only while it is written.
CleanupTypes ==
    /\ book \in Books
    /\ IsFiniteSet(DOMAIN families) /\ DOMAIN families \subseteq Nat \ {0}
    /\ families \in [DOMAIN families -> StoredCustomer]
    /\ papers \in [Bills \cup Tickets -> StoredPaper]
    /\ doing \in {"idle", "writing", "done", "duplicateKey"}
    /\ deaths \in 0 .. MaxDeaths
    /\ doing \in {"idle", "done"} => plan = NoPlan
    /\ doing = "writing" =>
        /\ DOMAIN plan = DOMAIN NoPlan
        /\ plan.delete \subseteq DOMAIN families
        /\ plan.create \subseteq Phones /\ plan.link \subseteq Bills \cup Tickets
        /\ DOMAIN plan.rewrite \subseteq DOMAIN families
        /\ plan.rewrite \in [DOMAIN plan.rewrite -> Text]
        /\ plan.survivorOf \in [DOMAIN plan.survivorOf -> DOMAIN families]
        /\ plan.keptBy \in [DOMAIN plan.keptBy -> DOMAIN families]

\* Where a record ends up: at the oldest one found with its number, or where it is when it is new.
Home(id) == IF id \in DOMAIN book.families THEN OldestOf(id) ELSE id

\* No write takes a family away: the oldest record of each number stays, and a new one is made
\* only for a number that had none.
RecordsKept ==
    /\ \A id \in DOMAIN book.families : OldestOf(id) \in DOMAIN families
    /\ \A id \in DOMAIN families \cap DOMAIN book.families :
           families[id].number = book.families[id].number
    /\ \A id \in DOMAIN families \ DOMAIN book.families :
           /\ families[id].number # NoNumber
           /\ \A other \in DOMAIN book.families : book.families[other].number # families[id].number
           /\ \A other \in DOMAIN families : families[other].number = families[id].number => other = id

\* Whose number a paper carries does not change, and a paper of a family with that number, or any
\* paper while no run has died, is linked to the record it was linked to or to the oldest.
PapersKept ==
    \A p \in Bills \cup Tickets :
        LET was == book.papers[p]
        IN  /\ papers[p].number = was.number /\ papers[p].paid = was.paid
            /\ papers[p].customer # 0
            /\ was.customer \in DOMAIN book.families
               /\ (deaths = 0 \/ book.families[was.customer].number = was.number)
               => papers[p].customer \in {was.customer, OldestOf(was.customer)}

\* Nothing more is planned for this paper.
AtRest(p) ==
    /\ papers[p].normal
    /\ \/ papers[p].customer \in DOMAIN families \ plan.delete
       \/ /\ papers[p].customer \notin DOMAIN plan.survivorOf
          /\ papers[p].number \notin Numbers \cup plan.create
          /\ ~(papers[p].paid /\ papers[p].number # NoNumber)

\* What is left of the plan is what is left to do.
PlanHolds ==
    doing = "writing" =>
        /\ plan.delete = {id \in DOMAIN families : Home(id) # id}
        /\ DOMAIN plan.rewrite \cap plan.delete = {}
        /\ \A id \in DOMAIN families \ (plan.delete \cup DOMAIN plan.rewrite) : families[id].normal
        /\ plan.create \cap Numbers = {}
        /\ DOMAIN families \cap DOMAIN book.families \subseteq DOMAIN plan.survivorOf
        /\ \A id \in DOMAIN plan.survivorOf : plan.survivorOf[id] = Home(id)
        /\ DOMAIN plan.keptBy = Numbers
        /\ \A n \in Numbers : plan.keptBy[n] \notin plan.delete /\ families[plan.keptBy[n]].number = n
        /\ \A p \in (Bills \cup Tickets) \ plan.link : AtRest(p)
        /\ \A p \in Bills \cup Tickets : 
              papers[p].paid /\ papers[p].number # NoNumber /\ papers[p].customer \notin DOMAIN plan.survivorOf
              => papers[p].number \in Numbers \cup plan.create

\* What will be known of a family when the plan has been written.
Outcome(id) ==
    IF doing = "writing" /\ OldestOf(id) \in DOMAIN plan.rewrite THEN plan.rewrite[OldestOf(id)]
    ELSE families[OldestOf(id)]

\* What the oldest record said it still says, and unless a run has died what another record said
\* is in the plan or has been written.
FactsKept ==
    /\ \A id \in DOMAIN book.families : OldestOf(id) = id => StillSaid(id, families[id])
    /\ doing \in {"writing", "done"} => \A id \in DOMAIN book.families :
           deaths = 0 \/ OldestOf(id) = id => StillSaid(id, Outcome(id))
    /\ deaths = 0 =>
        /\ doing = "idle" => families = book.families
        /\ doing = "writing" => DOMAIN book.families \subseteq DOMAIN plan.survivorOf

\* When it is done there is one record a number, spelled as numbers are, and every paper is as
\* it should be.
DoneHolds ==
    doing = "done" =>
        /\ \A id \in DOMAIN families : Home(id) = id /\ families[id].normal
        /\ \A p \in Bills \cup Tickets :
               /\ papers[p].normal
               /\ papers[p].customer \notin DOMAIN families =>
                     papers[p].number \notin Numbers /\ ~(papers[p].paid /\ papers[p].number # NoNumber)
        /\ NobodyLosesTheirFamily

\* The inductive invariant.
RInv == CleanupTypes /\ RecordsKept /\ PapersKept /\ PlanHolds /\ FactsKept /\ DoneHolds
        /\ doing # "duplicateKey"

\* The oldest of some records is one of them.
LEMMA MinIs ==
    ASSUME NEW S \in SUBSET Nat, S # {}
    PROVE  Min(S) \in S /\ \A y \in S : Min(S) <= y
BY FirstOf DEF Min

\* The oldest record of a number: it is one, it has the number, and every record of the number has it.
LEMMA OldestIs ==
    ASSUME book \in Books, NEW id \in DOMAIN book.families
    PROVE  /\ OldestOf(id) \in DOMAIN book.families
           /\ book.families[OldestOf(id)].number = book.families[id].number
           /\ book.families[id].number = NoNumber => OldestOf(id) = id
           /\ book.families[id].number # NoNumber =>
                 \A other \in DOMAIN book.families :
                    book.families[other].number = book.families[id].number =>
                        OldestOf(id) <= other /\ OldestOf(other) = OldestOf(id)
           /\ OldestOf(OldestOf(id)) = OldestOf(id)
<1> DEFINE before == book.families
           Kin(i) == {other \in DOMAIN before :
                         other = i \/ (before[i].number # NoNumber /\ before[other].number = before[i].number)}
<1>1. DOMAIN before \subseteq Nat
  BY BooksAreDatabases
<1>2. ASSUME NEW i \in DOMAIN before
      PROVE  OldestOf(i) \in Kin(i) /\ \A y \in Kin(i) : OldestOf(i) <= y
  <2>1. Kin(i) \in SUBSET Nat /\ Kin(i) # {}
    BY <1>1
  <2> HIDE DEF Kin
  <2>2. OldestOf(i) = Min(Kin(i))
    BY DEF OldestOf, Kin
  <2> QED
    BY <2>1, <2>2, MinIs
<1>3. ASSUME NEW i \in DOMAIN before, NEW j \in DOMAIN before, before[i].number # NoNumber,
             before[j].number = before[i].number
      PROVE  OldestOf(j) = OldestOf(i)
  <2>1. Kin(i) = Kin(j)
    BY <1>3
  <2>2. OldestOf(i) = Min(Kin(i)) /\ OldestOf(j) = Min(Kin(j))
    BY DEF OldestOf
  <2> HIDE DEF Kin
  <2> QED
    BY <2>1, <2>2
<1> QED
  BY <1>2, <1>3

\* What was found does not change.
LEMMA SameBook ==
    ASSUME UNCHANGED book
    PROVE  \A id : OldestOf(id)' = OldestOf(id) /\ Home(id)' = Home(id)
BY DEF OldestOf, Home

\* Where a record ends up is a record there is, with its number, and stays.
LEMMA HomeIs ==
    ASSUME CleanupTypes, RecordsKept, NEW id \in DOMAIN families \cup DOMAIN book.families
    PROVE  /\ Home(id) \in DOMAIN families
           /\ Home(Home(id)) = Home(id)
           /\ id \in DOMAIN families => families[Home(id)].number = families[id].number
           /\ id \in DOMAIN book.families => families[Home(id)].number = book.families[id].number
BY OldestIs DEF CleanupTypes, RecordsKept, Home

\* The oldest record is its own oldest.
LEMMA HomeStays ==
    ASSUME CleanupTypes
    PROVE  \A id : Home(Home(id)) = Home(id)
BY OldestIs DEF CleanupTypes, Home

\* Records with one number end up in one place.
LEMMA OneHome ==
    ASSUME CleanupTypes, RecordsKept, NEW i \in DOMAIN families, NEW j \in DOMAIN families,
           families[i].number = families[j].number, families[i].number # NoNumber
    PROVE  Home(i) = Home(j)
BY OldestIs DEF CleanupTypes, RecordsKept, Home

-----------------------------------------------------------------------------
(* The plan. *)

\* The survivor of a record is the oldest with its number.
LEMMA FamilyIs ==
    ASSUME CleanupTypes, RecordsKept, NEW id \in DOMAIN families
    PROVE  Min(Family(id)) = Home(id)
<1>1. Family(id) \in SUBSET Nat /\ id \in Family(id)
  BY DEF Family, CleanupTypes
<1>2. Home(id) \in Family(id)
  <2>1. CASE families[id].number = NoNumber
    BY <2>1, OldestIs DEF CleanupTypes, RecordsKept, Home, Family
  <2>2. CASE families[id].number # NoNumber
    BY <2>2, HomeIs DEF Family
  <2> QED
    BY <2>1, <2>2
<1>3. ASSUME NEW other \in Family(id) PROVE Home(id) <= other
  BY OldestIs DEF CleanupTypes, RecordsKept, Home, Family
<1>4. Min(Family(id)) \in Family(id) /\ \A y \in Family(id) : Min(Family(id)) <= y
  BY <1>1, MinIs
<1> QED
  BY <1>1, <1>2, <1>3, <1>4

\* The record that is kept for a number.
LEMMA KeptIs ==
    ASSUME CleanupTypes, RecordsKept, NEW n \in Numbers
    PROVE  LET kept == Min({id \in DOMAIN families : families[id].number = n})
           IN  kept \in DOMAIN families /\ families[kept].number = n /\ Home(kept) = kept
<1> DEFINE Of == {id \in DOMAIN families : families[id].number = n}
<1>1. PICK id \in DOMAIN families : families[id].number = n /\ n # NoNumber
  BY DEF Numbers
<1>2. Of = Family(id) /\ id \in Of
  BY <1>1 DEF Family
<1> QED
  BY <1>1, <1>2, FamilyIs, HomeIs

\* What is folded into a record is something it can say.
LEMMA FoldedIs ==
    ASSUME CleanupTypes, NEW id \in DOMAIN families
    PROVE  /\ Folded(id) \in Text
           /\ \A other \in Family(id) :
                 /\ families[other].notes \subseteq Folded(id).notes
                 /\ \A field \in Fields : families[other].says[field] # Unsaid =>
                        \E first \in Family(id) :
                            /\ first <= other /\ families[first].says[field] # Unsaid
                            /\ Folded(id).says[field] = families[first].says[field]
<1>1. Family(id) \subseteq DOMAIN families /\ Family(id) \subseteq Nat
  BY DEF Family, CleanupTypes
<1>2. ASSUME NEW i \in DOMAIN families
      PROVE  families[i].notes \subseteq Facts /\ families[i].says \in [Fields -> Facts \cup {Unsaid}]
  BY DEF CleanupTypes, StoredCustomer
<1>3. ASSUME NEW field \in Fields, NEW other \in Family(id), families[other].says[field] # Unsaid
      PROVE  \E first \in Family(id) :
                 /\ first <= other /\ families[first].says[field] # Unsaid
                 /\ FirstSaid(id, field) = families[first].says[field]
  <2> DEFINE saying == {o \in Family(id) : families[o].says[field] # Unsaid}
  <2>1. saying \in SUBSET Nat /\ other \in saying
    BY <1>1, <1>3
  <2>2. Min(saying) \in saying /\ Min(saying) <= other
    BY <2>1, MinIs
  <2>3. FirstSaid(id, field) = families[Min(saying)].says[field]
    BY <2>1 DEF FirstSaid
  <2> QED
    BY <2>2, <2>3
<1>4. ASSUME NEW field \in Fields PROVE FirstSaid(id, field) \in Facts \cup {Unsaid}
  <2>1. CASE \E other \in Family(id) : families[other].says[field] # Unsaid
    BY <1>1, <1>2, <1>3, <2>1
  <2>2. CASE ~\E other \in Family(id) : families[other].says[field] # Unsaid
    BY <2>2 DEF FirstSaid
  <2> QED
    BY <2>1, <2>2
<1>5. Folded(id).notes = UNION {families[other].notes : other \in Family(id)}
      /\ Folded(id).says = [field \in Fields |-> FirstSaid(id, field)]
  BY DEF Folded
<1>6. Folded(id) \in Text
  <2>1. UNION {families[other].notes : other \in Family(id)} \subseteq Facts
    BY <1>1, <1>2
  <2>2. [field \in Fields |-> FirstSaid(id, field)] \in [Fields -> Facts \cup {Unsaid}]
    BY <1>4
  <2> QED
    BY <2>1, <2>2 DEF Folded, Text
<1> QED
  BY <1>3, <1>5, <1>6

\* What a plan says, in terms of where records end up.
LEMMA PlanIs ==
    ASSUME CleanupTypes, RecordsKept
    PROVE  /\ DOMAIN Plan = DOMAIN NoPlan
           /\ Plan.survivorOf = [id \in DOMAIN families |-> Home(id)]
           /\ Plan.delete = {id \in DOMAIN families : Home(id) # id}
           /\ DOMAIN Plan.rewrite \subseteq {id \in DOMAIN families : Home(id) = id}
           /\ \A id \in DOMAIN Plan.rewrite : Plan.rewrite[id] = Folded(id)
           /\ Plan.rewrite \in [DOMAIN Plan.rewrite -> Text]
           /\ \A id \in DOMAIN families \ (Plan.delete \cup DOMAIN Plan.rewrite) :
                  families[id].normal /\ Folded(id) = Says(id)
           /\ Plan.create = ToCreate
           /\ DOMAIN Plan.keptBy = Numbers
           /\ \A n \in Numbers :
                  /\ Plan.keptBy[n] \in DOMAIN families /\ families[Plan.keptBy[n]].number = n
                  /\ Home(Plan.keptBy[n]) = Plan.keptBy[n]
           /\ Plan.keptBy \in [Numbers -> DOMAIN families]
           /\ Plan.link = {p \in Bills \cup Tickets :
                  \/ ~papers[p].normal
                  \/ ResolveCustomer(p, Plan.survivorOf,
                        [n \in Numbers \cup ToCreate |->
                            IF n \in Numbers THEN Plan.keptBy[n] ELSE 0]) # papers[p].customer}
<1> DEFINE survivorOf == [id \in DOMAIN families |-> Min(Family(id))]
           keptBy == [n \in Numbers |-> Min({id \in DOMAIN families : families[id].number = n})]
           withNew == [n \in Numbers \cup ToCreate |-> IF n \in Numbers THEN keptBy[n] ELSE 0]
           rewrite == [id \in {id \in DOMAIN families :
                            survivorOf[id] = id
                            /\ (~families[id].normal \/ Folded(id) # Says(id))}
                        |-> Folded(id)]
           delete == {id \in DOMAIN families : survivorOf[id] # id}
           link == {p \in Bills \cup Tickets :
                    ~papers[p].normal \/ ResolveCustomer(p, survivorOf, withNew) # papers[p].customer}
<1>1. Plan = [delete |-> delete, rewrite |-> rewrite, create |-> ToCreate, link |-> link,
              survivorOf |-> survivorOf, keptBy |-> keptBy]
  BY DEF Plan
<1>2. survivorOf = [id \in DOMAIN families |-> Home(id)]
  BY FamilyIs
<1>3. ASSUME NEW n \in Numbers
      PROVE  keptBy[n] \in DOMAIN families /\ families[keptBy[n]].number = n /\ Home(keptBy[n]) = keptBy[n]
  BY KeptIs
<1>4. ASSUME NEW id \in DOMAIN families PROVE Folded(id) \in Text
  BY FoldedIs
<1>5. DOMAIN keptBy = Numbers
  OBVIOUS
<1> HIDE DEF keptBy
<1>6. DOMAIN Plan = DOMAIN NoPlan
  BY <1>1 DEF NoPlan
<1>7. /\ Plan.survivorOf = survivorOf /\ Plan.delete = delete /\ Plan.rewrite = rewrite
      /\ Plan.create = ToCreate /\ Plan.keptBy = keptBy /\ Plan.link = link
  BY <1>1
<1>8. delete = {id \in DOMAIN families : Home(id) # id}
  BY <1>2
<1>9. /\ DOMAIN rewrite = {id \in DOMAIN families :
                Home(id) = id /\ (~families[id].normal \/ Folded(id) # Says(id))}
      /\ \A id \in DOMAIN rewrite : rewrite[id] = Folded(id)
  BY <1>2
<1>10. rewrite \in [DOMAIN rewrite -> Text]
  BY <1>4
<1>11. keptBy \in [Numbers -> DOMAIN families]
  BY <1>3, <1>5 DEF keptBy
<1> HIDE DEF rewrite, delete, survivorOf
<1> QED
  BY <1>2, <1>3, <1>5, <1>6, <1>7, <1>8, <1>9, <1>10, <1>11

\* What is not in the plan needs nothing.
LEMMA PlanSettles ==
    ASSUME CleanupTypes, RecordsKept, PapersKept, NEW p \in (Bills \cup Tickets) \ Plan.link
    PROVE  /\ papers[p].normal
           /\ \/ papers[p].customer \in DOMAIN families \ Plan.delete
              \/ /\ papers[p].customer \notin DOMAIN families
                 /\ papers[p].number \notin Numbers \cup ToCreate
                 /\ ~(papers[p].paid /\ papers[p].number # NoNumber)
<1> DEFINE withNew == [n \in Numbers \cup ToCreate |-> IF n \in Numbers THEN Plan.keptBy[n] ELSE 0]
<1>1. papers[p].normal /\ ResolveCustomer(p, Plan.survivorOf, withNew) = papers[p].customer
  BY PlanIs
<1>2. CASE papers[p].customer \in DOMAIN families
  <2>1. Plan.survivorOf[papers[p].customer] = Home(papers[p].customer)
        /\ papers[p].customer \in DOMAIN Plan.survivorOf
    BY <1>2, PlanIs
  <2>2. Home(papers[p].customer) = papers[p].customer
    BY <1>1, <2>1 DEF ResolveCustomer
  <2> QED
    BY <1>1, <1>2, <2>2, PlanIs
<1>3. CASE papers[p].customer \notin DOMAIN families
  <2>1. papers[p].customer \notin DOMAIN Plan.survivorOf
    BY <1>3, PlanIs
  <2>2. DOMAIN withNew = Numbers \cup ToCreate
    BY PlanIs
  <2>3. ASSUME NEW n \in Numbers PROVE withNew[n] \in DOMAIN families
    BY PlanIs
  <2>4. ASSUME NEW n \in ToCreate PROVE withNew[n] = 0
    <3>1. n \notin Numbers
      BY DEF ToCreate
    <3> QED
      BY <3>1, PlanIs
  <2> HIDE DEF withNew
  <2>5. papers[p].customer # 0
    BY DEF PapersKept
  <2>6. papers[p].number \notin Numbers \cup ToCreate
    BY <1>1, <1>3, <2>1, <2>2, <2>3, <2>4, <2>5 DEF ResolveCustomer
  <2>7. ~(papers[p].paid /\ papers[p].number # NoNumber)
    <3>1. papers[p].paid => p \in Bills
      BY BooksAreDatabases DEF CleanupTypes, PapersKept
    <3> QED
      BY <1>3, <2>6, <3>1 DEF ToCreate
  <2> QED
    BY <1>1, <1>3, <2>6, <2>7
<1> QED
  BY <1>2, <1>3

\* Making the plan.
LEMMA PlanKeepsRInv ==
    ASSUME RInv, PlanCleanup
    PROVE  RInv'
<1> USE DEF RInv, PlanCleanup
<1>1. \A id : OldestOf(id)' = OldestOf(id) /\ Home(id)' = Home(id)
  BY SameBook
<1>2. Numbers' = Numbers /\ RecordsKept' /\ PapersKept'
  BY <1>1 DEF Numbers, RecordsKept, PapersKept
<1>3. ToCreate \cap Numbers = {} /\ ToCreate \subseteq Phones
      /\ Numbers \subseteq Phones
  BY BooksAreDatabases DEF ToCreate, CleanupTypes, StoredPaper, StoredCustomer, Numbers
<1>4. CleanupTypes'
  <2>1. Plan.survivorOf \in [DOMAIN Plan.survivorOf -> DOMAIN families]
    BY PlanIs, HomeIs
  <2>2. Plan.delete \subseteq DOMAIN families /\ Plan.create \subseteq Phones
        /\ Plan.link \subseteq Bills \cup Tickets /\ DOMAIN Plan.rewrite \subseteq DOMAIN families
    BY PlanIs, <1>3
  <2>3. /\ Plan.rewrite \in [DOMAIN Plan.rewrite -> Text]
        /\ Plan.keptBy \in [DOMAIN Plan.keptBy -> DOMAIN families]
        /\ DOMAIN Plan = DOMAIN NoPlan
    BY PlanIs
  <2> HIDE DEF RInv, PlanCleanup
  <2>4. CleanupTypes /\ UNCHANGED <<book, families, papers, deaths>> /\ plan' = Plan /\ doing' = "writing"
    BY DEF RInv, PlanCleanup
  <2> QED
    BY <2>1, <2>2, <2>3, <2>4 DEF CleanupTypes
<1>5. PlanHolds'
  <2> SUFFICES
        /\ Plan.delete = {id \in DOMAIN families : Home(id) # id}
        /\ DOMAIN Plan.rewrite \cap Plan.delete = {}
        /\ \A id \in DOMAIN families \ (Plan.delete \cup DOMAIN Plan.rewrite) : families[id].normal
        /\ Plan.create \cap Numbers = {}
        /\ DOMAIN families \cap DOMAIN book.families \subseteq DOMAIN Plan.survivorOf
        /\ \A id \in DOMAIN Plan.survivorOf : Plan.survivorOf[id] = Home(id)
        /\ DOMAIN Plan.keptBy = Numbers
        /\ \A n \in Numbers : Plan.keptBy[n] \notin Plan.delete /\ families[Plan.keptBy[n]].number = n
        /\ \A p \in (Bills \cup Tickets) \ Plan.link : AtRest(p)'
        /\ \A p \in Bills \cup Tickets : 
              papers[p].paid /\ papers[p].number # NoNumber /\ papers[p].customer \notin DOMAIN Plan.survivorOf
              => papers[p].number \in Numbers \cup Plan.create
    BY <1>1, <1>2 DEF PlanHolds
  <2>1. ASSUME NEW p \in (Bills \cup Tickets) \ Plan.link PROVE AtRest(p)'
    BY <1>2, PlanSettles, PlanIs DEF AtRest
  <2>2. ASSUME NEW p \in Bills \cup Tickets, papers[p].paid, papers[p].number # NoNumber,
               papers[p].customer \notin DOMAIN Plan.survivorOf
        PROVE  papers[p].number \in Numbers \cup Plan.create
    <3>1. p \in Bills
      BY <2>2, BooksAreDatabases DEF CleanupTypes, PapersKept
    <3> QED
      BY <2>2, <3>1, PlanIs DEF ToCreate
  <2>3. DOMAIN Plan.rewrite \cap Plan.delete = {}
    BY PlanIs
  <2>4. \A n \in Numbers : Plan.keptBy[n] \notin Plan.delete /\ families[Plan.keptBy[n]].number = n
    BY PlanIs
  <2> QED
    BY <1>3, <2>1, <2>2, <2>3, <2>4, PlanIs
<1>6. FactsKept'
  <2>1. deaths = 0 => DOMAIN book.families \subseteq DOMAIN Plan.survivorOf
    BY PlanIs DEF FactsKept
  <2>2. ASSUME NEW id \in DOMAIN book.families, deaths = 0 \/ OldestOf(id) = id
        PROVE  StillSaid(id, Outcome(id)')
    <3> DEFINE oldest == OldestOf(id)
    <3>1. oldest \in DOMAIN families /\ Home(oldest) = oldest
      BY OldestIs DEF CleanupTypes, RecordsKept, Home
    <3>2. ASSUME NEW other \in Family(oldest), deaths = 0
          PROVE  other \in DOMAIN book.families /\ OldestOf(other) = oldest
      BY <3>2, OldestIs DEF CleanupTypes, Family, FactsKept
    <3>3. StillSaid(id, Folded(oldest))
      <4>1. CASE deaths = 0
        <5>1. id \in Family(oldest) /\ families = book.families
          BY <4>1, OldestIs DEF CleanupTypes, Family, FactsKept
        <5> HIDE DEF oldest, RInv
        <5>2. CleanupTypes
          BY DEF RInv
        <5> QED
          BY <3>1, <3>2, <4>1, <5>1, <5>2, FoldedIs DEF StillSaid, oldest
      <4>2. CASE OldestOf(id) = id
        <5>1. StillSaid(id, families[id]) /\ id \in Family(id) /\ id \in DOMAIN families
          BY <3>1, <4>2 DEF FactsKept, Family
        <5>2. ASSUME NEW first \in Family(id), first <= id PROVE first = id
          <6>1. Family(id) \in SUBSET Nat
            BY <5>1 DEF Family, CleanupTypes
          <6>2. Min(Family(id)) = id
            BY <3>1, <4>2, <5>1, FamilyIs
          <6>3. id <= first
            BY <5>2, <6>1, <6>2, MinIs
          <6> QED
            BY <5>1, <5>2, <6>1, <6>3
        <5> HIDE DEF RInv
        <5>3. CleanupTypes
          BY DEF RInv
        <5>4. /\ families[id].notes \subseteq Folded(id).notes
              /\ \A field \in Fields : families[id].says[field] # Unsaid =>
                     Folded(id).says[field] = families[id].says[field]
          BY <5>1, <5>2, <5>3, FoldedIs
        <5> QED
          BY <4>2, <5>1, <5>4 DEF StillSaid
      <4> QED
        BY <2>2, <4>1, <4>2
    <3>4. CASE oldest \in DOMAIN Plan.rewrite
      BY <1>1, <3>3, <3>4, PlanIs DEF Outcome
    <3>5. CASE oldest \notin DOMAIN Plan.rewrite
      <4>1. oldest \notin Plan.delete
        BY <3>1, PlanIs
      <4>2. Folded(oldest) = Says(oldest)
        BY <3>1, <3>5, <4>1, PlanIs
      <4>3. Outcome(id)' = families[oldest]
        BY <1>1, <3>5 DEF Outcome
      <4> QED
        BY <3>3, <4>2, <4>3 DEF StillSaid, Says
    <3> QED
      BY <3>4, <3>5
  <2> HIDE DEF RInv
  <2>3. FactsKept /\ plan' = Plan /\ doing' = "writing" /\ UNCHANGED <<book, families, deaths>>
    BY DEF RInv, PlanCleanup
  <2> QED
    BY <1>1, <2>1, <2>2, <2>3 DEF FactsKept, StillSaid
<1>7. DoneHolds'
  BY DEF DoneHolds
<1> QED
  BY <1>2, <1>4, <1>5, <1>6, <1>7

\* A duplicate goes; its oldest is somewhere else.
LEMMA DeleteKeepsRInv ==
    ASSUME RInv, NEW id \in DOMAIN families, DeleteDuplicate(id)
    PROVE  RInv'
<1> USE DEF RInv, DeleteDuplicate
<1>1. \A i : OldestOf(i)' = OldestOf(i) /\ Home(i)' = Home(i)
  BY SameBook
<1>2. /\ DOMAIN families' = DOMAIN families \ {id}
      /\ \A other \in DOMAIN families \ {id} : families'[other] = families[other]
      /\ DOMAIN plan' = DOMAIN plan
      /\ plan'.delete = plan.delete \ {id} /\ plan'.rewrite = plan.rewrite /\ plan'.create = plan.create
      /\ plan'.link = plan.link /\ plan'.survivorOf = plan.survivorOf /\ plan'.keptBy = plan.keptBy
  BY DEF CleanupTypes, NoPlan
<1>3. Home(id) # id
  BY DEF PlanHolds
<1>4. \A i \in DOMAIN families \cup DOMAIN book.families : Home(i) # id
  BY <1>3, HomeIs
<1>5. Numbers' = Numbers
  <2>1. ASSUME NEW n \in Numbers PROVE n \in Numbers'
    <3>1. plan.keptBy[n] \in DOMAIN families \ {id} /\ families[plan.keptBy[n]].number = n /\ n # NoNumber
      BY DEF PlanHolds, CleanupTypes, Numbers
    <3> QED
      BY <1>2, <3>1 DEF Numbers
  <2>2. Numbers' \subseteq Numbers
    BY <1>2 DEF Numbers
  <2> QED
    BY <2>1, <2>2
<1>6. CleanupTypes'
  <2>1. IsFiniteSet(DOMAIN families \ {id})
    BY FS_RemoveElement DEF CleanupTypes
  <2>2. families' \in [DOMAIN families' -> StoredCustomer]
    BY <1>2 DEF CleanupTypes
  <2>3. ASSUME NEW i \in DOMAIN plan.survivorOf PROVE plan.survivorOf[i] # id
    BY <1>3, HomeStays DEF PlanHolds
  <2>4. ASSUME NEW n \in DOMAIN plan.keptBy PROVE plan.keptBy[n] # id
    BY DEF PlanHolds
  <2>5. id \notin DOMAIN plan.rewrite
    BY DEF PlanHolds
  <2> QED
    BY <1>2, <2>1, <2>2, <2>3, <2>4, <2>5 DEF CleanupTypes
<1>7. RecordsKept'
  <2>1. \A i \in DOMAIN book.families : OldestOf(i) # id
    BY <1>4 DEF Home
  <2> QED
    BY <1>1, <1>2, <2>1 DEF RecordsKept
<1>8. PapersKept'
  BY <1>1 DEF PapersKept
<1>9. ASSUME NEW p \in Bills \cup Tickets, AtRest(p) PROVE AtRest(p)'
  BY <1>2, <1>5, <1>9 DEF AtRest
<1>10. PlanHolds'
  <2>1. /\ plan'.delete = {i \in DOMAIN families' : Home(i)' # i}
        /\ DOMAIN plan'.rewrite \cap plan'.delete = {}
        /\ plan'.create \cap Numbers' = {}
        /\ DOMAIN families' \cap DOMAIN book'.families \subseteq DOMAIN plan'.survivorOf
        /\ \A i \in DOMAIN plan'.survivorOf : plan'.survivorOf[i] = Home(i)'
        /\ DOMAIN plan'.keptBy = Numbers'
    BY <1>1, <1>2, <1>5 DEF PlanHolds
  <2>2. \A i \in DOMAIN families' \ (plan'.delete \cup DOMAIN plan'.rewrite) : families'[i].normal
    BY <1>2 DEF PlanHolds
  <2>3. \A n \in Numbers' : plan'.keptBy[n] \notin plan'.delete /\ families'[plan'.keptBy[n]].number = n
    BY <1>2, <1>5 DEF PlanHolds, CleanupTypes
  <2>4. \A p \in (Bills \cup Tickets) \ plan'.link : AtRest(p)'
    BY <1>2, <1>9 DEF PlanHolds
  <2>5. \A p \in Bills \cup Tickets : 
              papers'[p].paid /\ papers'[p].number # NoNumber /\ papers'[p].customer \notin DOMAIN plan'.survivorOf
              => papers'[p].number \in Numbers' \cup plan'.create
    BY <1>2, <1>5 DEF PlanHolds
  <2> QED
    BY <2>1, <2>2, <2>3, <2>4, <2>5 DEF PlanHolds
<1>11. FactsKept'
  <2>1. \A i \in DOMAIN book.families : OldestOf(i) \in DOMAIN families \ {id}
    BY <1>4 DEF Home, RecordsKept
  <2>2. \A i \in DOMAIN book.families : Outcome(i)' = Outcome(i)
    BY <1>1, <1>2, <2>1 DEF Outcome
  <2>3. \A i \in DOMAIN book.families : OldestOf(i) = i => families'[i] = families[i]
    BY <1>2, <2>1
  <2>4. FactsKept /\ doing = "writing" /\ plan'.survivorOf = plan.survivorOf
        /\ UNCHANGED <<book, deaths, doing>>
    BY <1>2
  <2> HIDE DEF RInv, DeleteDuplicate
  <2> QED
    BY <1>1, <2>2, <2>3, <2>4 DEF FactsKept, StillSaid
<1>12. DoneHolds'
  BY DEF DoneHolds
<1> QED
  BY <1>6, <1>7, <1>8, <1>10, <1>11, <1>12

\* When the duplicates are gone no two records have one number.
LEMMA NobodyCollides ==
    ASSUME RInv, doing = "writing", plan.delete = {}, NEW id \in DOMAIN families
    PROVE  ~Collides(id)
BY OneHome DEF RInv, PlanHolds, Collides

\* A survivor is rewritten, and never meets a duplicate key.
LEMMA RewriteKeepsRInv ==
    ASSUME RInv, NEW id \in DOMAIN families, RewriteSurvivor(id)
    PROVE  RInv'
<1> USE DEF RInv
<1>1. \A i : OldestOf(i)' = OldestOf(i) /\ Home(i)' = Home(i)
  BY SameBook DEF RewriteSurvivor
<1>2. /\ doing = "writing" /\ plan.delete = {} /\ id \in DOMAIN plan.rewrite
      /\ families' = [families EXCEPT ![id] = Rewritten(id)]
      /\ plan' = [plan EXCEPT !.rewrite = [other \in DOMAIN @ \ {id} |-> @[other]]]
      /\ UNCHANGED <<book, papers, doing, deaths>>
  BY NobodyCollides DEF RewriteSurvivor
<1>3. /\ DOMAIN families' = DOMAIN families
      /\ \A other \in DOMAIN families \ {id} : families'[other] = families[other]
      /\ families'[id].number = families[id].number /\ families'[id].normal
      /\ families'[id].says = plan.rewrite[id].says /\ families'[id].notes = plan.rewrite[id].notes
      /\ families'[id] \in StoredCustomer
  <2>1. families[id] \in StoredCustomer /\ plan.rewrite[id] \in Text
    BY <1>2 DEF CleanupTypes
  <2>2. families' = [families EXCEPT ![id] = Rewritten(id)] /\ id \in DOMAIN families
    BY <1>2
  <2> HIDE DEF RInv
  <2>3. families'[id] = Rewritten(id) /\ DOMAIN families' = DOMAIN families
        /\ \A other \in DOMAIN families \ {id} : families'[other] = families[other]
    BY <2>2
  <2>4. /\ Rewritten(id).number = families[id].number /\ Rewritten(id).normal
        /\ Rewritten(id).says = plan.rewrite[id].says /\ Rewritten(id).notes = plan.rewrite[id].notes
        /\ Rewritten(id) \in StoredCustomer
    BY <2>1 DEF Rewritten, StoredCustomer, Text
  <2> QED
    BY <2>3, <2>4
<1>4. /\ DOMAIN plan' = DOMAIN plan
      /\ plan'.delete = {} /\ plan'.create = plan.create
      /\ plan'.link = plan.link /\ plan'.survivorOf = plan.survivorOf /\ plan'.keptBy = plan.keptBy
      /\ DOMAIN plan'.rewrite = DOMAIN plan.rewrite \ {id}
      /\ \A other \in DOMAIN plan.rewrite \ {id} : plan'.rewrite[other] = plan.rewrite[other]
      /\ plan'.rewrite \in [DOMAIN plan.rewrite \ {id} -> Text]
  BY <1>2 DEF CleanupTypes, NoPlan
<1>5. Numbers' = Numbers
  <2>1. \A other \in DOMAIN families : families'[other].number = families[other].number
    BY <1>3
  <2> HIDE DEF RInv
  <2> QED
    BY <1>3, <2>1 DEF Numbers
<1>6. CleanupTypes'
  <2>1. families' \in [DOMAIN families -> StoredCustomer]
    BY <1>2, <1>3 DEF CleanupTypes
  <2> QED
    BY <1>2, <1>3, <1>4, <2>1 DEF CleanupTypes
<1>7. RecordsKept'
  BY <1>1, <1>2, <1>3 DEF RecordsKept
<1>8. PapersKept'
  BY <1>1, <1>2 DEF PapersKept
<1>9. ASSUME NEW p \in Bills \cup Tickets, AtRest(p) PROVE AtRest(p)'
  BY <1>2, <1>3, <1>4, <1>5, <1>9 DEF AtRest
<1>10. PlanHolds'
  <2>1. /\ plan'.delete = {i \in DOMAIN families' : Home(i)' # i}
        /\ DOMAIN plan'.rewrite \cap plan'.delete = {}
        /\ plan'.create \cap Numbers' = {}
        /\ DOMAIN families' \cap DOMAIN book'.families \subseteq DOMAIN plan'.survivorOf
        /\ \A i \in DOMAIN plan'.survivorOf : plan'.survivorOf[i] = Home(i)'
        /\ DOMAIN plan'.keptBy = Numbers'
    BY <1>1, <1>2, <1>3, <1>4, <1>5 DEF PlanHolds
  <2>2. \A i \in DOMAIN families' \ (plan'.delete \cup DOMAIN plan'.rewrite) : families'[i].normal
    BY <1>2, <1>3, <1>4 DEF PlanHolds
  <2>3. \A n \in Numbers' : plan'.keptBy[n] \notin plan'.delete /\ families'[plan'.keptBy[n]].number = n
    BY <1>2, <1>3, <1>4, <1>5 DEF PlanHolds, CleanupTypes
  <2>4. \A p \in (Bills \cup Tickets) \ plan'.link : AtRest(p)'
    BY <1>2, <1>4, <1>9 DEF PlanHolds
  <2>5. \A p \in Bills \cup Tickets : 
              papers'[p].paid /\ papers'[p].number # NoNumber /\ papers'[p].customer \notin DOMAIN plan'.survivorOf
              => papers'[p].number \in Numbers' \cup plan'.create
    BY <1>2, <1>4, <1>5 DEF PlanHolds
  <2> QED
    BY <2>1, <2>2, <2>3, <2>4, <2>5 DEF PlanHolds
<1>11. FactsKept'
  <2>1. \A i \in DOMAIN book.families : OldestOf(i) \in DOMAIN families
    BY DEF RecordsKept
  <2>2. ASSUME NEW i \in DOMAIN book.families
        PROVE  /\ Outcome(i)'.says = Outcome(i).says /\ Outcome(i)'.notes = Outcome(i).notes
               /\ OldestOf(i) = i => (families'[i] = families[i] \/ families'[i] = Outcome(i)')
    <3> HIDE DEF RInv
    <3>1. CASE OldestOf(i) = id
      BY <1>1, <1>2, <1>3, <1>4, <2>1, <3>1 DEF Outcome
    <3>2. CASE OldestOf(i) # id
      BY <1>1, <1>2, <1>3, <1>4, <2>1, <3>2 DEF Outcome
    <3> QED
      BY <3>1, <3>2
  <2>3. FactsKept
    OBVIOUS
  <2> HIDE DEF RInv
  <2>4. ASSUME NEW i \in DOMAIN book.families, deaths = 0 \/ OldestOf(i) = i
        PROVE  StillSaid(i, Outcome(i)')
    BY <1>2, <2>2, <2>3, <2>4 DEF FactsKept, StillSaid
  <2>5. ASSUME NEW i \in DOMAIN book.families, OldestOf(i) = i
        PROVE  StillSaid(i, families'[i])
    <3>1. CASE families'[i] = families[i]
      BY <2>3, <2>5, <3>1 DEF FactsKept
    <3>2. CASE families'[i] = Outcome(i)'
      BY <2>4, <2>5, <3>2
    <3> QED
      BY <2>2, <2>5, <3>1, <3>2
  <2> QED
    BY <1>1, <1>2, <1>4, <2>3, <2>4, <2>5 DEF FactsKept, StillSaid
<1>12. DoneHolds'
  BY <1>2 DEF DoneHolds
<1> QED
  BY <1>2, <1>6, <1>7, <1>8, <1>10, <1>11, <1>12

\* The last of some records is one of them.
LEMMA MaxIs ==
    ASSUME NEW S \in SUBSET Nat, IsFiniteSet(S), S # {}
    PROVE  Max(S) \in S /\ \A y \in S : y <= Max(S)
<1> DEFINE itself == [x \in S |-> x]
<1>1. \A x \in S : itself[x] \in Int /\ itself[x] = x
  OBVIOUS
<1> HIDE DEF itself
<1>2. \E x \in S : \A y \in S : itself[y] <= itself[x]
  BY <1>1, FiniteMaximum
<1>3. \E x \in S : \A y \in S : x >= y
  BY <1>1, <1>2
<1> QED
  BY <1>3 DEF Max

\* A new record, for a number no record has or ever had.
LEMMA CreateKeepsRInv ==
    ASSUME RInv, NEW n \in plan.create, CreateFamily(n)
    PROVE  RInv'
<1> DEFINE id == Max(DOMAIN families \cup DOMAIN book.families \cup {0}) + 1
<1> USE DEF RInv
<1>1. \A i : OldestOf(i)' = OldestOf(i) /\ Home(i)' = Home(i)
  BY SameBook DEF CreateFamily
<1>2. id \in Nat \ {0} /\ id \notin DOMAIN families /\ id \notin DOMAIN book.families
  <2> DEFINE S == DOMAIN families \cup DOMAIN book.families \cup {0}
  <2>1. S \in SUBSET Nat /\ S # {}
    BY BooksAreDatabases DEF CleanupTypes
  <2>2. IsFiniteSet(S)
    BY BooksAreDatabases, FS_Union, FS_AddElement DEF CleanupTypes
  <2>3. PICK last \in S : last = Max(S) /\ \A y \in S : y <= last
    BY <2>1, <2>2, MaxIs
  <2>4. id = last + 1
    BY <2>3
  <2> HIDE DEF id
  <2>5. DOMAIN families \subseteq S /\ DOMAIN book.families \subseteq S
    OBVIOUS
  <2> HIDE DEF S
  <2>6. id \in Nat \ {0} /\ id \notin S
    <3> HIDE DEF RInv
    <3> QED
      BY <2>1, <2>3, <2>4
  <2> QED
    BY <2>5, <2>6
<1>3. /\ doing = "writing" /\ plan.delete = {} /\ DOMAIN plan.rewrite = {}
      /\ \E name \in Facts \cup {Unsaid} : families' = Added(families, id, NewFamily(n, name))
      /\ plan' = [plan EXCEPT !.create = @ \ {n}, !.keptBy = Added(@, n, id)]
      /\ UNCHANGED <<book, papers, doing, deaths>>
  BY DEF CreateFamily
<1> HIDE DEF id
<1>20. PICK name \in Facts \cup {Unsaid} : families' = Added(families, id, NewFamily(n, name))
  BY <1>3
<1> DEFINE made == NewFamily(n, name)
<1>4. /\ DOMAIN families' = DOMAIN families \cup {id}
      /\ \A other \in DOMAIN families : families'[other] = families[other]
      /\ families'[id] = made
      /\ families' \in [DOMAIN families \cup {id} -> StoredCustomer]
  <2>1. n \in Phones
    BY <1>3 DEF CleanupTypes
  <2>2. made \in StoredCustomer
    BY <2>1 DEF NewFamily, StoredCustomer
  <2>3. families \in [DOMAIN families -> StoredCustomer]
    BY DEF CleanupTypes
  <2> HIDE DEF made, RInv
  <2>4. families' = Added(families, id, made)
    BY <1>20 DEF made
  <2> QED
    BY <1>2, <2>2, <2>3, <2>4 DEF Added
<1>5. n \in Phones /\ n # NoNumber /\ n \notin Numbers
  BY <1>3, NoNumberIsNone DEF CleanupTypes, PlanHolds
<1>6. /\ DOMAIN plan' = DOMAIN plan
      /\ plan'.delete = {} /\ plan'.create = plan.create \ {n} /\ plan'.rewrite = plan.rewrite
      /\ plan'.link = plan.link /\ plan'.survivorOf = plan.survivorOf
      /\ DOMAIN plan'.keptBy = DOMAIN plan.keptBy \cup {n} /\ plan'.keptBy[n] = id
      /\ \A m \in DOMAIN plan.keptBy \ {n} : plan'.keptBy[m] = plan.keptBy[m]
      /\ plan'.keptBy \in [DOMAIN plan.keptBy \cup {n} -> DOMAIN families \cup {id}]
  BY <1>3 DEF CleanupTypes, NoPlan, Added
<1>7. Numbers' = Numbers \cup {n}
  <2>1. families'[id].number = n /\ \A other \in DOMAIN families : families'[other].number = families[other].number
    BY <1>4 DEF NewFamily
  <2> HIDE DEF RInv
  <2>2. Numbers' = {families'[i].number : i \in DOMAIN families \cup {id}} \ {NoNumber}
    BY <1>4 DEF Numbers
  <2>3. {families'[i].number : i \in DOMAIN families \cup {id}}
            = {families[i].number : i \in DOMAIN families} \cup {n}
    BY <2>1
  <2> QED
    BY <1>5, <2>2, <2>3 DEF Numbers
<1>8. CleanupTypes'
  <2>1. IsFiniteSet(DOMAIN families')
    BY <1>4, FS_AddElement DEF CleanupTypes
  <2>2. plan'.survivorOf \in [DOMAIN plan.survivorOf -> DOMAIN families']
    BY <1>3, <1>4, <1>6 DEF CleanupTypes
  <2> QED
    BY <1>2, <1>3, <1>4, <1>6, <2>1, <2>2 DEF CleanupTypes
<1>9. ASSUME NEW other \in DOMAIN book.families PROVE book.families[other].number # n
  <2>1. Home(other) \in DOMAIN families /\ families[Home(other)].number = book.families[other].number
    BY HomeIs
  <2> QED
    BY <1>5, <2>1 DEF Numbers
<1>10. RecordsKept'
  <2>1. ASSUME NEW other \in DOMAIN families PROVE families[other].number # n
    BY <1>5 DEF Numbers
  <2>2. ASSUME NEW i \in DOMAIN families' \ DOMAIN book'.families
        PROVE /\ families'[i].number # NoNumber
              /\ \A other \in DOMAIN book'.families : book'.families[other].number # families'[i].number
              /\ \A other \in DOMAIN families' : families'[other].number = families'[i].number => other = i
    <3>0. /\ families'[id].number = n
          /\ \A other \in DOMAIN families : families'[other].number = families[other].number
          /\ book' = book
      <4> HIDE DEF RInv
      <4>1. families'[id].number = n
        BY <1>4 DEF NewFamily
      <4> QED
        BY <1>3, <1>4, <4>1
    <3>1. CASE i = id
      <4> HIDE DEF RInv, made
      <4>1. families'[i].number = n
        BY <3>0, <3>1
      <4>2. \A other \in DOMAIN book'.families : book'.families[other].number # n
        BY <1>9, <3>0
      <4>3. \A other \in DOMAIN families' : families'[other].number = n => other = i
        BY <1>4, <2>1, <3>0, <3>1
      <4> QED
        BY <1>5, <4>1, <4>2, <4>3
    <3>2. CASE i \in DOMAIN families
      <4>1. i \in DOMAIN families \ DOMAIN book.families
        BY <3>0, <3>2
      <4>2. /\ families[i].number # NoNumber
            /\ \A other \in DOMAIN book.families : book.families[other].number # families[i].number
            /\ \A other \in DOMAIN families : families[other].number = families[i].number => other = i
        BY <4>1 DEF RecordsKept
      <4> HIDE DEF RInv, made
      <4> QED
        BY <1>4, <2>1, <3>0, <3>2, <4>2
    <3> QED
      BY <1>4, <3>1, <3>2
  <2>3. \A i \in DOMAIN book'.families : OldestOf(i)' \in DOMAIN families'
    BY <1>1, <1>3, <1>4 DEF RecordsKept
  <2>4. \A i \in DOMAIN families' \cap DOMAIN book'.families : families'[i].number = book'.families[i].number
    BY <1>2, <1>3, <1>4 DEF RecordsKept
  <2> QED
    BY <2>2, <2>3, <2>4 DEF RecordsKept
<1>11. PapersKept'
  BY <1>1, <1>3 DEF PapersKept
<1>12. ASSUME NEW p \in Bills \cup Tickets, AtRest(p) PROVE AtRest(p)'
  BY <1>3, <1>4, <1>5, <1>6, <1>7, <1>12 DEF AtRest
<1>13. PlanHolds'
  <2>1. /\ plan'.delete = {i \in DOMAIN families' : Home(i)' # i}
        /\ DOMAIN plan'.rewrite \cap plan'.delete = {}
        /\ plan'.create \cap Numbers' = {}
        /\ DOMAIN families' \cap DOMAIN book'.families \subseteq DOMAIN plan'.survivorOf
        /\ \A i \in DOMAIN plan'.survivorOf : plan'.survivorOf[i] = Home(i)'
        /\ DOMAIN plan'.keptBy = Numbers'
    <3>1. Home(id) = id
      BY <1>2 DEF Home
    <3>2. \A i \in DOMAIN families : Home(i) = i
      BY <1>3 DEF PlanHolds
    <3>3. /\ plan.create \cap Numbers = {} /\ DOMAIN plan.keptBy = Numbers
          /\ DOMAIN families \cap DOMAIN book.families \subseteq DOMAIN plan.survivorOf
          /\ \A i \in DOMAIN plan.survivorOf : plan.survivorOf[i] = Home(i)
      BY <1>3 DEF PlanHolds
    <3> HIDE DEF RInv, made
    <3>4. plan'.delete = {i \in DOMAIN families' : Home(i)' # i}
      BY <1>1, <1>4, <1>6, <3>1, <3>2
    <3>5. DOMAIN families' \cap DOMAIN book'.families \subseteq DOMAIN plan'.survivorOf
      BY <1>2, <1>3, <1>4, <1>6, <3>3
    <3>6. \A i \in DOMAIN plan'.survivorOf : plan'.survivorOf[i] = Home(i)'
      BY <1>1, <1>6, <3>3
    <3> QED
      BY <1>6, <1>7, <3>3, <3>4, <3>5, <3>6
  <2>2. \A i \in DOMAIN families' \ (plan'.delete \cup DOMAIN plan'.rewrite) : families'[i].normal
    <3>1. \A i \in DOMAIN families : families[i].normal
      BY <1>3 DEF PlanHolds
    <3>2. families'[id].normal
      BY <1>4 DEF NewFamily
    <3> HIDE DEF RInv, made
    <3> QED
      BY <1>4, <3>1, <3>2
  <2>3. \A m \in Numbers' : plan'.keptBy[m] \notin plan'.delete /\ families'[plan'.keptBy[m]].number = m
    <3>1. \A m \in Numbers : plan.keptBy[m] \in DOMAIN families /\ families[plan.keptBy[m]].number = m
      BY <1>3 DEF PlanHolds, CleanupTypes
    <3>2. DOMAIN plan.keptBy = Numbers
      BY <1>3 DEF PlanHolds
    <3>3. families'[id].number = n
      BY <1>4 DEF NewFamily
    <3> HIDE DEF RInv, made
    <3> QED
      BY <1>4, <1>5, <1>6, <1>7, <3>1, <3>2, <3>3
  <2>4. \A p \in (Bills \cup Tickets) \ plan'.link : AtRest(p)'
    BY <1>3, <1>6, <1>12 DEF PlanHolds
  <2>5. \A p \in Bills \cup Tickets : 
              papers'[p].paid /\ papers'[p].number # NoNumber /\ papers'[p].customer \notin DOMAIN plan'.survivorOf
              => papers'[p].number \in Numbers' \cup plan'.create
    BY <1>3, <1>6, <1>7 DEF PlanHolds
  <2> QED
    BY <2>1, <2>2, <2>3, <2>4, <2>5 DEF PlanHolds
<1>14. FactsKept'
  <2>1. \A i \in DOMAIN book.families : OldestOf(i) \in DOMAIN families
    BY DEF RecordsKept
  <2>2. FactsKept
    OBVIOUS
  <2> HIDE DEF RInv, made
  <2>3. ASSUME NEW i \in DOMAIN book.families
        PROVE  Outcome(i)' = Outcome(i) /\ (OldestOf(i) = i => families'[i] = families[i])
    BY <1>1, <1>3, <1>4, <1>6, <2>1 DEF Outcome
  <2> QED
    BY <1>1, <1>3, <1>6, <2>2, <2>3 DEF FactsKept, StillSaid
<1>15. DoneHolds'
  BY <1>3 DEF DoneHolds
<1> QED
  BY <1>3, <1>8, <1>10, <1>11, <1>13, <1>14, <1>15

\* The record a paper is linked to: where its customer ended up, or the one with its number.
LEMMA ResolvedIs ==
    ASSUME RInv, doing = "writing", NEW p \in Bills \cup Tickets
    PROVE  LET to == ResolveCustomer(p, plan.survivorOf, plan.keptBy)
               was == book.papers[p].customer
           IN  /\ \/ /\ to \in DOMAIN families \ plan.delete
                     /\ to \in DOMAIN plan.survivorOf \/ papers[p].number \in Numbers
                  \/ /\ to = papers[p].customer /\ papers[p].customer \notin DOMAIN plan.survivorOf
                     /\ papers[p].number \notin Numbers
               /\ was \in DOMAIN book.families /\ (deaths = 0 \/ book.families[was].number = book.papers[p].number)
                  => to \in {was, OldestOf(was)}
<1> DEFINE to == ResolveCustomer(p, plan.survivorOf, plan.keptBy)
           was == book.papers[p].customer
           now == papers[p].customer
           kin == was \in DOMAIN book.families /\ (deaths = 0 \/ book.families[was].number = book.papers[p].number)
<1>0. kin => now \in {was, OldestOf(was)}
  BY DEF RInv, PapersKept
<1>1. CASE now \in DOMAIN plan.survivorOf
  <2>1. to = Home(now) /\ to \in DOMAIN families
    BY <1>1 DEF ResolveCustomer, RInv, PlanHolds, CleanupTypes
  <2>2. to \notin plan.delete /\ to \in DOMAIN plan.survivorOf
    <3>1. to \notin plan.delete
      BY <2>1, HomeStays DEF RInv, PlanHolds
    <3>2. CASE now \in DOMAIN book.families
      <4>1. to \in DOMAIN book.families
        BY <2>1, <3>2, OldestIs DEF Home, RInv, CleanupTypes
      <4> HIDE DEF to
      <4> QED
        BY <2>1, <3>1, <4>1 DEF RInv, PlanHolds
    <3>3. CASE now \notin DOMAIN book.families
      <4>1. to = now
        BY <2>1, <3>3 DEF Home
      <4> HIDE DEF to, now
      <4> QED
        BY <1>1, <3>1, <4>1
    <3> QED
      BY <3>2, <3>3
  <2>3. kin => to = OldestOf(was)
    <3>1. CASE kin
      <4>1. OldestOf(was) \in DOMAIN book.families /\ OldestOf(OldestOf(was)) = OldestOf(was)
        BY <3>1, OldestIs DEF RInv, CleanupTypes
      <4>2. Home(was) = OldestOf(was) /\ Home(OldestOf(was)) = OldestOf(was)
        BY <3>1, <4>1 DEF Home
      <4> HIDE DEF now, was, kin, to
      <4> QED
        BY <1>0, <2>1, <3>1, <4>2
    <3> QED
      BY <3>1
  <2> QED
    BY <2>1, <2>2, <2>3
<1>2. CASE now \notin DOMAIN plan.survivorOf /\ papers[p].number \in DOMAIN plan.keptBy
  <2>1. /\ to = plan.keptBy[papers[p].number] /\ papers[p].number \in Numbers
        /\ to \in DOMAIN families \ plan.delete /\ families[to].number = papers[p].number
    BY <1>2 DEF ResolveCustomer, RInv, PlanHolds, CleanupTypes
  <2>2. kin => to = OldestOf(was)
    <3> SUFFICES ASSUME kin PROVE to = OldestOf(was)
      OBVIOUS
    <3>1. OldestOf(was) \in DOMAIN book.families /\ OldestOf(was) \in DOMAIN families
          /\ OldestOf(OldestOf(was)) = OldestOf(was)
          /\ families[OldestOf(was)].number = book.families[was].number
      BY OldestIs DEF RInv, CleanupTypes, RecordsKept
    <3>2. deaths # 0
      BY <1>0, <1>2, <3>1 DEF RInv, FactsKept
    <3>3. families[OldestOf(was)].number = papers[p].number
      BY <3>1, <3>2 DEF RInv, PapersKept
    <3>4. Home(OldestOf(was)) = OldestOf(was) /\ Home(to) = to
      BY <2>1, <3>1 DEF Home, RInv, PlanHolds
    <3>5. papers[p].number # NoNumber
      BY <2>1 DEF Numbers
    <3> HIDE DEF to, was, kin
    <3> QED
      BY <2>1, <3>1, <3>3, <3>4, <3>5, OneHome DEF RInv
  <2> QED
    BY <2>1, <2>2
<1>3. CASE now \notin DOMAIN plan.survivorOf /\ papers[p].number \notin DOMAIN plan.keptBy
  <2>1. to = now
    BY <1>3 DEF ResolveCustomer
  <2> QED
    BY <1>0, <1>3, <2>1 DEF RInv, PlanHolds
<1> QED
  BY <1>1, <1>2, <1>3

\* A paper is linked.
LEMMA LinkKeepsRInv ==
    ASSUME RInv, NEW p \in Bills \cup Tickets, LinkPaper(p)
    PROVE  RInv'
<1> DEFINE to == ResolveCustomer(p, plan.survivorOf, plan.keptBy)
<1> USE DEF RInv
<1>1. \A i : OldestOf(i)' = OldestOf(i) /\ Home(i)' = Home(i)
  BY SameBook DEF LinkPaper
<1>2. /\ doing = "writing" /\ plan.delete = {} /\ plan.create = {}
      /\ papers' = [papers EXCEPT ![p].normal = TRUE, ![p].customer = to]
      /\ plan' = [plan EXCEPT !.link = @ \ {p}]
      /\ UNCHANGED <<book, families, doing, deaths>>
  BY DEF LinkPaper
<1>3. /\ \/ /\ to \in DOMAIN families \ plan.delete
            /\ to \in DOMAIN plan.survivorOf \/ papers[p].number \in Numbers
         \/ /\ to = papers[p].customer /\ papers[p].customer \notin DOMAIN plan.survivorOf
            /\ papers[p].number \notin Numbers
      /\ book.papers[p].customer \in DOMAIN book.families
         /\ (deaths = 0 \/ book.families[book.papers[p].customer].number = book.papers[p].number)
         => to \in {book.papers[p].customer, OldestOf(book.papers[p].customer)}
  BY <1>2, ResolvedIs
<1> HIDE DEF to
<1>4. to \in Nat \cup {Unlinked} /\ to # 0
  BY <1>3 DEF CleanupTypes, PapersKept, StoredPaper
<1>5. /\ papers' \in [Bills \cup Tickets -> StoredPaper]
      /\ \A q \in (Bills \cup Tickets) \ {p} : papers'[q] = papers[q]
      /\ papers'[p].number = papers[p].number /\ papers'[p].paid = papers[p].paid
      /\ papers'[p].normal /\ papers'[p].customer = to
  BY <1>2, <1>4 DEF CleanupTypes, StoredPaper
<1>6. /\ DOMAIN plan' = DOMAIN plan
      /\ plan'.delete = {} /\ plan'.create = {} /\ plan'.rewrite = plan.rewrite
      /\ plan'.link = plan.link \ {p} /\ plan'.survivorOf = plan.survivorOf /\ plan'.keptBy = plan.keptBy
  BY <1>2 DEF CleanupTypes, NoPlan
<1>7. Numbers' = Numbers
  BY <1>2 DEF Numbers
<1>8. CleanupTypes'
  BY <1>2, <1>5, <1>6 DEF CleanupTypes
<1>9. RecordsKept'
  BY <1>1, <1>2 DEF RecordsKept
<1>10. PapersKept'
  BY <1>1, <1>2, <1>3, <1>4, <1>5 DEF PapersKept
<1>11. ASSUME NEW q \in (Bills \cup Tickets) \ {p}, AtRest(q) PROVE AtRest(q)'
  BY <1>2, <1>5, <1>6, <1>7, <1>11 DEF AtRest
<1>12. AtRest(p)'
  BY <1>2, <1>3, <1>5, <1>6, <1>7 DEF AtRest, PlanHolds
<1>13. PlanHolds'
  <2>1. /\ plan'.delete = {i \in DOMAIN families' : Home(i)' # i}
        /\ DOMAIN plan'.rewrite \cap plan'.delete = {}
        /\ plan'.create \cap Numbers' = {}
        /\ DOMAIN families' \cap DOMAIN book'.families \subseteq DOMAIN plan'.survivorOf
        /\ \A i \in DOMAIN plan'.survivorOf : plan'.survivorOf[i] = Home(i)'
        /\ DOMAIN plan'.keptBy = Numbers'
        /\ \A i \in DOMAIN families' \ (plan'.delete \cup DOMAIN plan'.rewrite) : families'[i].normal
        /\ \A m \in Numbers' : plan'.keptBy[m] \notin plan'.delete /\ families'[plan'.keptBy[m]].number = m
    BY <1>1, <1>2, <1>6, <1>7 DEF PlanHolds
  <2>2. \A q \in (Bills \cup Tickets) \ plan'.link : AtRest(q)'
    BY <1>2, <1>6, <1>11, <1>12 DEF PlanHolds
  <2>3. \A q \in Bills \cup Tickets : 
              papers'[q].paid /\ papers'[q].number # NoNumber /\ papers'[q].customer \notin DOMAIN plan'.survivorOf
              => papers'[q].number \in Numbers' \cup plan'.create
    <3>1. \A q \in Bills \cup Tickets : 
              papers[q].paid /\ papers[q].number # NoNumber /\ papers[q].customer \notin DOMAIN plan.survivorOf
              => papers[q].number \in Numbers
      BY <1>2 DEF PlanHolds
    <3>2. papers[p].paid /\ papers[p].number # NoNumber /\ to \notin DOMAIN plan.survivorOf
              => papers[p].number \in Numbers
      BY <1>3, <3>1
    <3> HIDE DEF RInv
    <3> QED
      BY <1>2, <1>5, <1>6, <1>7, <3>1, <3>2
  <2> QED
    BY <2>1, <2>2, <2>3 DEF PlanHolds
<1>14. FactsKept'
  <2>1. \A i : Outcome(i)' = Outcome(i)
    BY <1>1, <1>2, <1>6 DEF Outcome
  <2>2. FactsKept
    OBVIOUS
  <2> HIDE DEF RInv
  <2> QED
    BY <1>1, <1>2, <1>6, <2>1, <2>2 DEF FactsKept, StillSaid
<1>15. DoneHolds'
  BY <1>2 DEF DoneHolds
<1> QED
  BY <1>2, <1>8, <1>9, <1>10, <1>13, <1>14, <1>15

\* When nothing is left of the plan everything is as it should be.
LEMMA FinishKeepsRInv ==
    ASSUME RInv, FinishCleanup
    PROVE  RInv'
<1> USE DEF RInv
<1>1. \A i : OldestOf(i)' = OldestOf(i) /\ Home(i)' = Home(i)
  BY SameBook DEF FinishCleanup
<1>2. /\ doing = "writing" /\ plan.delete = {} /\ DOMAIN plan.rewrite = {}
      /\ plan.create = {} /\ plan.link = {}
      /\ doing' = "done" /\ plan' = NoPlan /\ UNCHANGED <<book, families, papers, deaths>>
  BY DEF FinishCleanup, NothingLeft
<1>3. CleanupTypes' /\ RecordsKept' /\ PapersKept' /\ PlanHolds' /\ FactsKept'
  <2>1. CleanupTypes'
    BY <1>2 DEF CleanupTypes
  <2>2. RecordsKept' /\ PapersKept'
    BY <1>1, <1>2 DEF RecordsKept, PapersKept
  <2>3. PlanHolds'
    BY <1>2 DEF PlanHolds
  <2>4. \A i : Outcome(i)' = Outcome(i)
    BY <1>1, <1>2 DEF Outcome
  <2>5. FactsKept
    OBVIOUS
  <2> HIDE DEF RInv
  <2>6. FactsKept'
    BY <1>1, <1>2, <2>4, <2>5 DEF FactsKept, StillSaid
  <2> QED
    BY <2>1, <2>2, <2>3, <2>6
<1>4. \A id \in DOMAIN families : Home(id) = id /\ families[id].normal
  BY <1>2 DEF PlanHolds
<1>5. \A p \in Bills \cup Tickets : AtRest(p)
  BY <1>2 DEF PlanHolds
<1>6. ASSUME NEW p \in Bills \cup Tickets
      PROVE  /\ papers[p].normal
             /\ papers[p].customer \notin DOMAIN families =>
                     papers[p].number \notin Numbers /\ ~(papers[p].paid /\ papers[p].number # NoNumber)
  BY <1>2, <1>5 DEF AtRest
<1>7. ASSUME NEW p \in Bills \cup Tickets, book.papers[p].customer \in DOMAIN book.families,
             deaths = 0 \/ book.families[book.papers[p].customer].number = book.papers[p].number
      PROVE  papers[p].customer = OldestOf(book.papers[p].customer)
  <2> DEFINE was == book.papers[p].customer
  <2>1. papers[p].customer \in {was, OldestOf(was)} /\ papers[p].number = book.papers[p].number
    BY <1>7 DEF PapersKept
  <2>2. /\ OldestOf(was) \in DOMAIN book.families /\ OldestOf(was) \in DOMAIN families
        /\ OldestOf(OldestOf(was)) = OldestOf(was)
        /\ families[OldestOf(was)].number = book.families[was].number
        /\ book.families[was].number = NoNumber => OldestOf(was) = was
    BY <1>7, OldestIs DEF CleanupTypes, RecordsKept
  <2>3. papers[p].customer \in DOMAIN families
    <3>1. CASE deaths = 0
      BY <1>2, <1>5, <1>7, <2>1, <2>2, <3>1 DEF AtRest, FactsKept
    <3>2. CASE book.families[was].number = book.papers[p].number
      <4>1. CASE book.families[was].number = NoNumber
        BY <2>1, <2>2, <4>1
      <4>2. CASE book.families[was].number # NoNumber
        <5>1. papers[p].number \in Numbers
          BY <2>1, <2>2, <3>2, <4>2 DEF Numbers
        <5> QED
          BY <1>6, <5>1
      <4> QED
        BY <4>1, <4>2
    <3> QED
      BY <1>7, <3>1, <3>2
  <2>4. Home(papers[p].customer) = papers[p].customer
    BY <1>4, <2>3
  <2>5. Home(papers[p].customer) = OldestOf(was)
    BY <1>7, <2>1, <2>2 DEF Home
  <2> QED
    BY <2>4, <2>5
<1>8. ASSUME NEW p \in Bills \cup Tickets, book.papers[p].paid, book.papers[p].number # NoNumber
      PROVE  papers[p].customer \in DOMAIN families
  BY <1>6, <1>8 DEF PapersKept
<1>9. ASSUME NEW id \in DOMAIN book.families, deaths = 0 \/ OldestOf(id) = id
      PROVE  StillSaid(id, families[OldestOf(id)])
  BY <1>2, <1>9 DEF FactsKept, Outcome
<1>10. NobodyLosesTheirFamily'
  <2> HIDE DEF RInv
  <2> QED
    BY <1>1, <1>2, <1>7, <1>8, <1>9 DEF NobodyLosesTheirFamily, StillSaid
<1>11. Numbers' = Numbers
  BY <1>2 DEF Numbers
<1>12. DoneHolds'
  <2> HIDE DEF RInv
  <2> QED
    BY <1>1, <1>2, <1>4, <1>6, <1>10, <1>11 DEF DoneHolds
<1> QED
  BY <1>2, <1>3, <1>12

\* A death leaves the records and the papers, which is why what it leaves is stated apart from the plan.
LEMMA DeathKeepsRInv ==
    ASSUME RInv, CleanupDies
    PROVE  RInv'
<1>1. \A i : OldestOf(i)' = OldestOf(i) /\ Home(i)' = Home(i)
  BY SameBook DEF CleanupDies
<1>2. /\ doing = "writing" /\ deaths < MaxDeaths
      /\ doing' = "idle" /\ plan' = NoPlan /\ deaths' = deaths + 1
      /\ UNCHANGED <<book, families, papers>>
  BY DEF CleanupDies
<1>3. deaths \in Nat /\ deaths' # 0 /\ deaths' \in 0 .. MaxDeaths
  BY <1>2, DeathsBound DEF RInv, CleanupTypes
<1>4. CleanupTypes' /\ RecordsKept' /\ PlanHolds' /\ DoneHolds'
  BY <1>1, <1>2, <1>3 DEF RInv, CleanupTypes, RecordsKept, PlanHolds, DoneHolds
<1>6. FactsKept'
  BY <1>1, <1>2, <1>3 DEF RInv, FactsKept, StillSaid
<1>5. PapersKept'
  BY <1>1, <1>2, <1>3 DEF RInv, PapersKept
<1> QED
  BY <1>2, <1>4, <1>5, <1>6 DEF RInv

\* The database as it was found.
LEMMA InitRInv == CleanupInit => RInv
<1> SUFFICES ASSUME CleanupInit PROVE RInv
  OBVIOUS
<1>1. /\ book \in Books /\ families = book.families /\ papers = book.papers
      /\ doing = "idle" /\ plan = NoPlan /\ deaths = 0
  BY DEF CleanupInit
<1>2. CleanupTypes
  <2>1. /\ IsFiniteSet(DOMAIN families) /\ DOMAIN families \subseteq Nat \ {0}
        /\ families \in [DOMAIN families -> StoredCustomer]
        /\ papers \in [Bills \cup Tickets -> StoredPaper]
    BY <1>1, BooksAreDatabases
  <2>2. deaths \in 0 .. MaxDeaths
    BY <1>1, DeathsBound
  <2> QED
    BY <1>1, <2>1, <2>2 DEF CleanupTypes
<1>3. RecordsKept
  BY <1>1, OldestIs DEF RecordsKept
<1>4. PapersKept
  BY <1>1, BooksAreDatabases DEF PapersKept
<1>5. FactsKept
  <2>1. ASSUME NEW id \in DOMAIN book.families PROVE StillSaid(id, families[id])
    <3>1. id \in Nat
      BY <1>1, BooksAreDatabases
    <3> QED
      BY <1>1, <3>1 DEF StillSaid
  <2> QED
    BY <1>1, <2>1 DEF FactsKept
<1> QED
  BY <1>1, <1>2, <1>3, <1>4, <1>5 DEF RInv, PlanHolds, DoneHolds

\* Every step of the repair keeps the invariant.
LEMMA NextRInv == RInv /\ [CleanupNext]_cleanupVars => RInv'
<1> SUFFICES ASSUME RInv, [CleanupNext]_cleanupVars PROVE RInv'
  OBVIOUS
<1>1. CASE UNCHANGED cleanupVars
  <2>1. UNCHANGED <<book, families, papers, doing, plan, deaths>>
    BY <1>1 DEF cleanupVars
  <2>2. \A i : OldestOf(i)' = OldestOf(i) /\ Home(i)' = Home(i)
    BY <2>1, SameBook
  <2>3. Numbers' = Numbers /\ NobodyLosesTheirFamily' = NobodyLosesTheirFamily
    BY <2>1, <2>2 DEF Numbers, NobodyLosesTheirFamily, StillSaid
  <2>8. \A i : Outcome(i)' = Outcome(i)
    BY <2>1, <2>2 DEF Outcome
  <2>4. \A p : AtRest(p)' = AtRest(p)
    BY <2>1, <2>3 DEF AtRest
  <2>5. CleanupTypes' /\ RecordsKept' /\ PapersKept'
    BY <2>1, <2>2 DEF RInv, CleanupTypes, RecordsKept, PapersKept
  <2>6. PlanHolds'
    BY <2>1, <2>2, <2>3, <2>4 DEF RInv, PlanHolds
  <2>7. FactsKept' /\ DoneHolds'
    BY <2>1, <2>2, <2>3, <2>8 DEF RInv, FactsKept, DoneHolds, StillSaid
  <2> QED
    BY <2>1, <2>5, <2>6, <2>7 DEF RInv
<1>2. CASE CleanupNext
  BY <1>2, PlanKeepsRInv, FinishKeepsRInv, DeathKeepsRInv, DeleteKeepsRInv, RewriteKeepsRInv,
     CreateKeepsRInv, LinkKeepsRInv DEF CleanupNext
<1> QED
  BY <1>1, <1>2

\* The repair keeps its invariant, wherever it dies and however often it is started again.
THEOREM RepairInvariant == CleanupSpec => []RInv
BY InitRInv, NextRInv, PTL DEF CleanupSpec

\* Types: the customers and papers stay what the database stores, and a plan is about them.
THEOREM RepairTypeCorrect == CleanupSpec => []CleanupTypes
<1>1. RInv => CleanupTypes
  BY DEF RInv
<1> QED
  BY <1>1, RepairInvariant, PTL

\* Every family keeps its bills and tickets, and what was known of it (customerCleanup.ts:103-214),
\* for any database and any number of deaths.
THEOREM NobodyIsLost == CleanupSpec => []NobodyLosesTheirFamily
<1>1. RInv => NobodyLosesTheirFamily
  BY DEF RInv, DoneHolds, NobodyLosesTheirFamily
<1> QED
  BY <1>1, RepairInvariant, PTL

\* A plan made after the end is empty.
LEMMA DoneIsDone ==
    ASSUME RInv, doing = "done"
    PROVE  NothingLeft(Plan)
<1>1. CleanupTypes /\ RecordsKept /\ PapersKept
  BY DEF RInv
<1>2. \A id \in DOMAIN families : Home(id) = id /\ families[id].normal
  BY DEF RInv, DoneHolds
<1>3. Plan.delete = {}
  BY <1>1, <1>2, PlanIs
<1>4. ASSUME NEW id \in DOMAIN families PROVE Folded(id) = Says(id)
  <2>1. Family(id) = {id}
    BY <1>1, <1>2, OneHome DEF Family
  <2>2. families[id].says \in [Fields -> Facts \cup {Unsaid}]
    BY <1>1 DEF CleanupTypes, StoredCustomer
  <2>3. ASSUME NEW field \in Fields PROVE FirstSaid(id, field) = families[id].says[field]
    <3> DEFINE saying == {other \in Family(id) : families[other].says[field] # Unsaid}
    <3>1. CASE families[id].says[field] = Unsaid
      BY <2>1, <3>1 DEF FirstSaid
    <3>2. CASE families[id].says[field] # Unsaid
      <4>1. saying = {id} /\ saying \in SUBSET Nat
        BY <1>1, <2>1, <3>2 DEF CleanupTypes
      <4>2. Min(saying) = id
        BY <4>1, MinIs
      <4> QED
        BY <4>1, <4>2 DEF FirstSaid
    <3> QED
      BY <3>1, <3>2
  <2>4. [field \in Fields |-> FirstSaid(id, field)] = families[id].says
    BY <2>2, <2>3
  <2>5. UNION {families[other].notes : other \in Family(id)} = families[id].notes
    BY <2>1
  <2> QED
    BY <2>4, <2>5 DEF Folded, Says
<1>5. DOMAIN Plan.rewrite = {}
  BY <1>1, <1>2, <1>4, PlanIs DEF Plan
<1>6. ToCreate = {}
  BY DEF RInv, DoneHolds, ToCreate
<1>7. Plan.create = {}
  BY <1>1, <1>6, PlanIs
<1>8. ASSUME NEW p \in Bills \cup Tickets
      PROVE  p \notin Plan.link
  <2>1. papers[p].normal
    BY DEF RInv, DoneHolds
  <2>2. papers[p].customer \notin DOMAIN families => papers[p].number \notin Numbers
    BY DEF RInv, DoneHolds
  <2> DEFINE withNew == [n \in Numbers \cup ToCreate |-> IF n \in Numbers THEN Plan.keptBy[n] ELSE 0]
  <2>3. DOMAIN withNew = Numbers
    BY <1>6
  <2> HIDE DEF withNew
  <2>4. ResolveCustomer(p, Plan.survivorOf, withNew) = papers[p].customer
    <3>1. DOMAIN Plan.survivorOf = DOMAIN families
          /\ \A id \in DOMAIN families : Plan.survivorOf[id] = id
      BY <1>1, <1>2, PlanIs
    <3> QED
      BY <2>2, <2>3, <3>1 DEF ResolveCustomer
  <2> QED
    BY <1>1, <2>1, <2>4, PlanIs DEF withNew
<1>9. Plan.link = {}
  BY <1>1, <1>8, PlanIs
<1> QED
  BY <1>3, <1>5, <1>7, <1>9 DEF NothingLeft

\* An apply meets no duplicate key, and when one has come to its end another finds nothing to do
\* (customerCleanup.ts:25), for any database and any number of deaths.
THEOREM RerunIsIdle == CleanupSpec => []RerunFindsNothing
<1>1. RInv => RerunFindsNothing
  BY DoneIsDone DEF RInv, RerunFindsNothing
<1> QED
  BY <1>1, RepairInvariant, PTL

=============================================================================
