----------------------------- MODULE BillNumber -----------------------------
(***************************************************************************)
(* The number a payment gets (billNumberService.generate, and the retry of *)
(* completeBill): the second it is dated to, with a suffix if that second  *)
(* has had others.  One second and the payments dated to it: those of the  *)
(* moment itself, and those an admin dates back to it days later, when the *)
(* row that counted them has expired.                                      *)
(*                                                                         *)
(* Time is counted in half days.  A row expires a day after it is written, *)
(* and a payment takes less than half a day: "dated back" is more than a   *)
(* minute in the code, and a payment recorded within the minute meets a    *)
(* row that cannot have expired yet, like one of the moment itself.        *)
(***************************************************************************)
EXTENDS Integers, FiniteSets

CONSTANTS
    Payments,        \* completions of bills of their own, dated to the second
    MaxAttempts,     \* MAX_BACKDATED_ATTEMPTS
    LastHalfDay      \* the bound on the time that passes

ASSUME BillNumberBounds == MaxAttempts \in Nat \ {0} /\ LastHalfDay \in Nat

VARIABLES
    halfDay,         \* since the second
    counter,         \* the Counter row of the second, if there is one
    paying           \* where each payment stands; raced is history: the others in flight with it

numbersVars == <<halfDay, counter, paying>>

RowLife == 2

NumbersInit ==
    /\ halfDay = 0
    /\ counter = {}
    /\ paying = [p \in Payments |->
        [at |-> "idle", since |-> 0, checks |-> FALSE, tries |-> 0, retried |-> FALSE,
         number |-> 0, raced |-> {}]]

\* The numbers of the bills that are paid: 1 is the plain second, n the suffix "-n".
TakenNumbers == {paying[p].number : p \in {q \in Payments : paying[q].at = "paid"}}

NumberInFlight(p) == paying[p].at \in {"count", "check", "write"}

Becomes(p, next) == paying' = [paying EXCEPT ![p] = next]

\* Mutants (definitions named "...Mutant") are the code with one plausible mistake in
\* it, next to the definition they replace when a property is put to the test.
NeverChecksMutant == FALSE

\* checkExisting: only a number dated back is compared with those of the bills.
ChecksExisting == halfDay > 0

\* A call of generate.
Generate(p, retried) ==
    Becomes(p, [paying[p] EXCEPT !.at = "count", !.checks = ChecksExisting, !.tries = 0,
                                 !.retried = retried])

BeginNumber(p) ==
    /\ paying[p].at = "idle"
    /\ LET others == {q \in Payments : NumberInFlight(q)}
       IN  paying' = [q \in Payments |->
            IF q = p THEN [paying[p] EXCEPT !.at = "count", !.checks = ChecksExisting,
                                            !.since = halfDay, !.raced = others]
            ELSE IF q \in others THEN [paying[q] EXCEPT !.raced = @ \cup {p}]
            ELSE paying[q]]
    /\ UNCHANGED <<halfDay, counter>>

\* The atomic $inc, which writes the row if there is none.
Count(p) ==
    /\ paying[p].at = "count"
    /\ counter' = IF counter = {} THEN {[seq |-> 1, createdAt |-> halfDay]}
                  ELSE {[row EXCEPT !.seq = @ + 1] : row \in counter}
    /\ \E row \in counter' :
        Becomes(p, [paying[p] EXCEPT !.at = IF paying[p].checks THEN "check" ELSE "write",
                                     !.number = row.seq, !.tries = @ + 1])
    /\ UNCHANGED halfDay

\* A candidate no bill has, another attempt, or "Could not find a free bill number".
CheckCandidate(p) ==
    /\ paying[p].at = "check"
    /\ Becomes(p, [paying[p] EXCEPT !.at =
           IF paying[p].number \notin TakenNumbers THEN "write"
           ELSE IF paying[p].tries < MaxAttempts THEN "count" ELSE "noneFree"])
    /\ UNCHANGED <<halfDay, counter>>

\* completeIfDraft under the unique index on billNumber.
WriteNumber(p) ==
    /\ paying[p].at = "write"
    /\ paying[p].number \notin TakenNumbers
    /\ Becomes(p, [paying[p] EXCEPT !.at = "paid"])
    /\ UNCHANGED <<halfDay, counter>>

\* A duplicate number: one more call of generate, and the second time the payment fails.
DuplicateNumber(p) ==
    /\ paying[p].at = "write"
    /\ paying[p].number \in TakenNumbers
    /\ IF paying[p].retried THEN Becomes(p, [paying[p] EXCEPT !.at = "duplicate"]) ELSE Generate(p, TRUE)
    /\ UNCHANGED <<halfDay, counter>>

\* The TTL index.
ExpireRow ==
    /\ \E row \in counter : halfDay >= row.createdAt + RowLife
    /\ counter' = {}
    /\ UNCHANGED <<halfDay, paying>>

HalfDayPasses ==
    /\ halfDay < LastHalfDay
    /\ \A p \in Payments : NumberInFlight(p) => paying[p].since = halfDay
    /\ halfDay' = halfDay + 1
    /\ UNCHANGED <<counter, paying>>

NumbersNext ==
    \/ \E p \in Payments :
        \/ BeginNumber(p) \/ Count(p) \/ CheckCandidate(p)
        \/ WriteNumber(p) \/ DuplicateNumber(p)
    \/ ExpireRow \/ HalfDayPasses

NumbersSpec == NumbersInit /\ [][NumbersNext]_numbersVars

-----------------------------------------------------------------------------

\* "Two backdated payments racing onto the same second [...]. One fresh number settles it"
\* (bill.service.ts, completeBill), though the row may expire between the two: a payment is
\* refused because its second number is taken too only if it raced two others.  And one
\* of the moment itself never needs a second number, "impossible by construction rather than
\* something to detect and retry" (counter.model.ts).
OneFreshNumberSettlesIt ==
    \A p \in Payments :
        /\ paying[p].at = "duplicate" => Cardinality(paying[p].raced) > 1
        /\ paying[p].retried => paying[p].since > 0

=============================================================================
