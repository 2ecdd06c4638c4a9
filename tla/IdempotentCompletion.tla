------------------------ MODULE IdempotentCompletion ------------------------
(***************************************************************************)
(* POST /bills/:id/complete with an Idempotency-Key: a till that loses the *)
(* answer, or gives up waiting for it, sends the payment again under the   *)
(* same key.  One bill; the key is a document that is claimed before the   *)
(* payment runs and holds its answer after.                                *)
(*                                                                         *)
(* A request is one arrival at the server, so a retry is another request   *)
(* with the same key.  Steps of different requests interleave: each is one *)
(* database operation with the code up to the next await.                  *)
(***************************************************************************)
EXTENDS Naturals

CONSTANTS
    Requests,      \* requests to complete the bill
    Keys,          \* the idempotency keys the tills send
    NoKey,         \* the header is missing
    KeyOf,         \* the key of each request
    Nobody,        \* no request
    Disturbances   \* what may go wrong in this instance

ASSUME KeysAreKnown == NoKey \notin Keys /\ KeyOf \in [Requests -> Keys \cup {NoKey}]
ASSUME NobodyIsNoRequest == Nobody \notin Requests

(***************************************************************************)
(* "crash"    the process dies and the requests in flight with it          *)
(* "dbError"  an operation on the key throws: the lookup, the claim, the   *)
(*            storing of the answer or the release; or one after the       *)
(*            payment does                                                 *)
(* "expiry"   a day passes and the key is dropped                          *)
(***************************************************************************)
ASSUME KnownDisturbances == Disturbances \subseteq {"crash", "dbError", "expiry"}

VARIABLES
    status,        \* Bill.status
    payer,         \* the request that made it PAID
    key,           \* key[k]: "free", "claimed" (statusCode 0) or "stored"
    body,          \* body[k]: whose answer is stored
    pc,            \* where each request stands
    answer,        \* what it was answered: whose receipt, for a success
    lapsed         \* history: the keys that were ever dropped by the TTL

vars == <<status, payer, key, body, pc, answer, lapsed>>

InFlight == {"find", "claim", "run", "receipt", "store", "release"}
\* "unreleased" is a failure too, whose key was not given back.
Answered == {"ok", "conflict", "refused", "alreadyDone", "failed", "unreleased"}
PC == {"idle"} \cup InFlight \cup Answered \cup {"crashed"}

\* Types of every variable.
TypeOK ==
    /\ status \in {"DRAFT", "PAID", "CANCELLED"}
    /\ payer \in Requests \cup {Nobody}
    /\ key \in [Keys -> {"free", "claimed", "stored"}]
    /\ body \in [Keys -> Requests \cup {Nobody}]
    /\ pc \in [Requests -> PC]
    /\ answer \in [Requests -> PC \cup Requests \cup {Nobody}]
    /\ lapsed \subseteq Keys

Init ==
    /\ status = "DRAFT"
    /\ payer = Nobody
    /\ key = [k \in Keys |-> "free"]
    /\ body = [k \in Keys |-> Nobody]
    /\ pc = [r \in Requests |-> "idle"]
    /\ answer = [r \in Requests |-> Nobody]
    /\ lapsed = {}

Keyed(r) == KeyOf[r] \in Keys
Goto(r, next) == pc' = [pc EXCEPT ![r] = next]
Document == <<status, payer>>
KeyDocuments == <<key, body, lapsed>>

Arrive(r) ==
    /\ pc[r] = "idle"
    /\ Goto(r, IF Keyed(r) THEN "find" ELSE "run")
    /\ UNCHANGED <<Document, KeyDocuments, answer>>

\* Mutants (definitions named "...Mutant") are the code with one plausible mistake in
\* it, next to the definition they replace when a property is put to the test.
\* A stored answer is replayed.
Replay(r) ==
    /\ pc[r] = "find"
    /\ key[KeyOf[r]] = "stored"
    /\ answer' = [answer EXCEPT ![r] = body[KeyOf[r]]]
    /\ Goto(r, "ok")
    /\ UNCHANGED <<Document, KeyDocuments>>

FindNothing(r) ==
    /\ pc[r] = "find"
    /\ key[KeyOf[r]] # "stored"
    /\ Goto(r, "claim")
    /\ UNCHANGED <<Document, KeyDocuments, answer>>

\* The placeholder: creating it again is a duplicate key.
ClaimKey(r) ==
    /\ pc[r] = "claim"
    /\ key[KeyOf[r]] = "free"
    /\ key' = [key EXCEPT ![KeyOf[r]] = "claimed"]
    /\ Goto(r, "run")
    /\ UNCHANGED <<Document, body, lapsed, answer>>

KeyTaken(r) ==
    /\ pc[r] = "claim"
    /\ key[KeyOf[r]] # "free"
    /\ Goto(r, "conflict")
    /\ UNCHANGED <<Document, KeyDocuments, answer>>

PayTwiceMutant(r) ==
    /\ pc[r] = "run"
    /\ status # "CANCELLED"
    /\ status' = "PAID"
    /\ payer' = r
    /\ Goto(r, "receipt")
    /\ UNCHANGED <<KeyDocuments, answer>>

\* fn, up to its write: completeBill makes the DRAFT bill PAID.
Pay(r) ==
    /\ pc[r] = "run"
    /\ status = "DRAFT"
    /\ status' = "PAID"
    /\ payer' = r
    /\ Goto(r, "receipt")
    /\ UNCHANGED <<KeyDocuments, answer>>

\* What a request that throws leads to: a keyed one gives its key back first.
Throw(r, why) ==
    /\ answer' = [answer EXCEPT ![r] = why]
    /\ Goto(r, IF Keyed(r) THEN "release" ELSE why)

\* Paid short, or not allowed to this user: nothing was written.
Refuse(r) ==
    /\ pc[r] = "run"
    /\ Throw(r, "refused")
    /\ UNCHANGED <<Document, KeyDocuments>>

\* "Only draft bills can be completed", "it may have already been completed".
NoDraft(r) ==
    /\ pc[r] = "run"
    /\ status # "DRAFT"
    /\ Throw(r, "alreadyDone")
    /\ UNCHANGED <<Document, KeyDocuments>>

\* The customer is linked, the bill and the settings are read, the receipt is built.
MakeReceipt(r) ==
    /\ pc[r] = "receipt"
    /\ IF Keyed(r) THEN Goto(r, "store") /\ UNCHANGED answer
       ELSE Goto(r, "ok") /\ answer' = [answer EXCEPT ![r] = r]
    /\ UNCHANGED <<Document, KeyDocuments>>

StoreNothingMutant(r) ==
    /\ pc[r] = "store"
    /\ key' = [key EXCEPT ![KeyOf[r]] = "free"]
    /\ answer' = [answer EXCEPT ![r] = r]
    /\ Goto(r, "ok")
    /\ UNCHANGED <<Document, body, lapsed>>

\* findByIdAndUpdate: nothing happens if the key has gone.
StoreAnswer(r) ==
    /\ pc[r] = "store"
    /\ IF key[KeyOf[r]] = "free" THEN UNCHANGED KeyDocuments
       ELSE /\ key' = [key EXCEPT ![KeyOf[r]] = "stored"]
            /\ body' = [body EXCEPT ![KeyOf[r]] = r]
            /\ UNCHANGED lapsed
    /\ answer' = [answer EXCEPT ![r] = r]
    /\ Goto(r, "ok")
    /\ UNCHANGED Document

KeepKeyMutant(r) ==
    /\ pc[r] = "release"
    /\ Goto(r, answer[r])
    /\ UNCHANGED <<Document, KeyDocuments, answer>>

\* The catch block deletes the key, whatever it holds.
ReleaseKey(r) ==
    /\ pc[r] = "release"
    /\ key' = [key EXCEPT ![KeyOf[r]] = "free"]
    /\ body' = [body EXCEPT ![KeyOf[r]] = Nobody]
    /\ Goto(r, answer[r])
    /\ UNCHANGED <<Document, answer, lapsed>>

-----------------------------------------------------------------------------

\* Somebody cancels the bill.
CancelBill ==
    /\ status # "CANCELLED"
    /\ status' = "CANCELLED"
    /\ UNCHANGED <<payer, KeyDocuments, pc, answer>>

\* The lookup or the claim of the key throws: the request ends with nothing written.
FailEarly(r) ==
    /\ "dbError" \in Disturbances
    /\ pc[r] \in {"find", "claim"}
    /\ answer' = [answer EXCEPT ![r] = "failed"]
    /\ Goto(r, "failed")
    /\ UNCHANGED <<Document, KeyDocuments>>

\* The delete in the catch block throws in its turn: the till is told of that error, and
\* the key stays as it is.
ReleaseFails(r) ==
    /\ "dbError" \in Disturbances
    /\ pc[r] = "release"
    /\ answer' = [answer EXCEPT ![r] = "failed"]
    /\ Goto(r, "unreleased")
    /\ UNCHANGED <<Document, KeyDocuments>>

\* Something between the payment and the storing of the answer throws.
FailLate(r) ==
    /\ "dbError" \in Disturbances
    /\ pc[r] \in {"receipt", "store"}
    /\ Throw(r, "failed")
    /\ UNCHANGED <<Document, KeyDocuments>>

Crash ==
    /\ "crash" \in Disturbances
    /\ pc' = [r \in Requests |-> IF pc[r] \in InFlight THEN "crashed" ELSE pc[r]]
    /\ UNCHANGED <<Document, KeyDocuments, answer>>

\* The TTL index: a request takes much less than a day, so none is in flight.
Expire(k) ==
    /\ "expiry" \in Disturbances
    /\ \A r \in Requests : pc[r] \notin InFlight
    /\ key' = [key EXCEPT ![k] = "free"]
    /\ body' = [body EXCEPT ![k] = Nobody]
    /\ lapsed' = lapsed \cup {k}
    /\ UNCHANGED <<Document, pc, answer>>

Step(r) ==
    \/ Replay(r) \/ FindNothing(r) \/ ClaimKey(r) \/ KeyTaken(r)
    \/ Pay(r) \/ Refuse(r) \/ NoDraft(r)
    \/ MakeReceipt(r) \/ StoreAnswer(r) \/ ReleaseKey(r)

Next ==
    \/ \E r \in Requests : Arrive(r) \/ Step(r) \/ FailEarly(r) \/ FailLate(r) \/ ReleaseFails(r)
    \/ \E k \in Keys : Expire(k)
    \/ CancelBill \/ Crash

Spec == Init /\ [][Next]_vars
FairSpec == Spec /\ \A r \in Requests : WF_vars(Step(r))

-----------------------------------------------------------------------------

Succeeded(r) == pc[r] = "ok"

\* Every till that is told the bill is paid holds the receipt of the one payment there
\* was, and under one key all of them hold the same one.
OnePaymentOneReceipt ==
    \A r \in Requests :
        Succeeded(r) =>
            /\ answer[r] = payer
            /\ Keyed(r) => KeyOf[r] = KeyOf[answer[r]]

\* "A retried request with the same key gets the exact stored response"
\* (idempotency.service.ts), and what that comes to when operations fail: a till whose own
\* key paid the bill is told that it is already completed only if the paying request
\* failed after its payment, or if the key has lapsed.
ToldAlreadyDoneWithReason ==
    \A r \in Requests :
        /\ pc[r] = "alreadyDone" /\ Keyed(r) /\ payer # Nobody
        /\ KeyOf[r] = KeyOf[payer]
        => answer[payer] = "failed" \/ KeyOf[r] \in lapsed

\* A till that was refused can try again: its key does not stay claimed, unless the
\* process died under it or its release threw; such a key stays claimed until the TTL
\* drops it.
KeyIsGivenBack ==
    \A k \in Keys :
        key[k] = "claimed" ~>
            \/ key[k] # "claimed"
            \/ \E r \in Requests : KeyOf[r] = k /\ pc[r] \in {"crashed", "unreleased"}

=============================================================================
