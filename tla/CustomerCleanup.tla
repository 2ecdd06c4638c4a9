--------------------------- MODULE CustomerCleanup ---------------------------
(***************************************************************************)
(* The one-off repair of the customers of a database from before numbers   *)
(* were normalised (customerCleanup.ts): one spelling per number, one      *)
(* record per family, every bill and ticket linked to it.  The whole       *)
(* change is worked out first and then written document by document; the   *)
(* process may die between two writes, and is then started again.          *)
(*                                                                         *)
(* A number is spelled as it is stored now, "normal", or otherwise.        *)
(* Records are numbered in the order they were made.  The name and the     *)
(* email of a record say one thing each, or nothing; the notes are a text  *)
(* that others are added to: a set.  Nobody else writes meanwhile.         *)
(***************************************************************************)
EXTENDS Integers, FiniteSets, FiniteSetsExt

CONSTANTS
    Bills,
    Tickets,
    Phones,          \* the numbers, as they are stored now
    NoNumber,        \* no number was typed, or nothing with a digit in it
    Facts,           \* what the name, the email and the notes of a record can say
    Unsaid,          \* an empty name or email
    Books,           \* the databases it may find
    MaxDeaths        \* the bound on the times the process dies

\* customerId is null.
Unlinked == -1

Fields == {"parentName", "email"}
Text == [says : [Fields -> Facts \cup {Unsaid}], notes : SUBSET Facts]
StoredCustomer ==
    [number : Phones \cup {NoNumber}, normal : BOOLEAN,
     says : [Fields -> Facts \cup {Unsaid}], notes : SUBSET Facts]
StoredPaper ==
    [number : Phones \cup {NoNumber}, normal : BOOLEAN, customer : Nat \cup {Unlinked}, paid : BOOLEAN]

ASSUME DeathsBound == MaxDeaths \in Nat
ASSUME NoNumberIsNone == NoNumber \notin Phones
ASSUME UnsaidIsNothing == Unsaid \notin Facts
\* A ticket is not what is paid, and the record 0 is nobody's.
ASSUME BooksAreDatabases ==
    \A found \in Books :
        /\ IsFiniteSet(DOMAIN found.families) /\ DOMAIN found.families \subseteq Nat \ {0}
        /\ found.families \in [DOMAIN found.families -> StoredCustomer]
        /\ found.papers \in [Bills \cup Tickets -> StoredPaper]
        /\ \A p \in Bills \cup Tickets :
               found.papers[p].customer # 0 /\ (found.papers[p].paid => p \in Bills)

VARIABLES
    book,            \* history: the database as it was found, and whether the unique index is up
    families,        \* the customers: [number, normal, says, notes]
    papers,          \* the bills and tickets: [number, normal, customer, paid]
    doing,           \* "idle", "writing", "done" or "duplicateKey"
    plan,            \* what the run keeps in memory and has not written yet
    deaths           \* how often the process has died

cleanupVars == <<book, families, papers, doing, plan, deaths>>

NoPlan == [delete |-> {}, rewrite |-> <<>>, create |-> {}, link |-> {},
           survivorOf |-> <<>>, keptBy |-> <<>>]

CleanupInit ==
    /\ book \in Books
    /\ families = book.families /\ papers = book.papers
    /\ doing = "idle" /\ plan = NoPlan /\ deaths = 0

-----------------------------------------------------------------------------
(* The plan.                                                                *)

\* The records with the number of this one, once all are spelled alike.
Family(id) ==
    IF families[id].number = NoNumber THEN {id}
    ELSE {other \in DOMAIN families : families[other].number = families[id].number}

\* The first record of a family to fill in a field is the one that is kept: the oldest's own,
\* else that of the first duplicate that has one.
FirstSaid(id, field) ==
    LET saying == {other \in Family(id) : families[other].says[field] # Unsaid}
    IN  IF saying = {} THEN Unsaid ELSE families[Min(saying)].says[field]

\* What the records of a family say, folded into the oldest; only the notes are joined.
Folded(id) ==
    [says |-> [field \in Fields |-> FirstSaid(id, field)],
     notes |-> UNION {families[other].notes : other \in Family(id)}]

Says(id) == [says |-> families[id].says, notes |-> families[id].notes]

Numbers == {families[id].number : id \in DOMAIN families} \ {NoNumber}

\* Numbers that are paid against, on a bill without a customer, and that no customer has.
ToCreate ==
    {papers[b].number : b \in {b \in Bills :
        papers[b].paid /\ papers[b].customer \notin DOMAIN families}}
    \ (Numbers \cup {NoNumber})

\* Mutants (definitions named "...Mutant") are the code with one plausible mistake in
\* it, next to the definition they replace when a property is put to the test.
NumberFirstMutant(p, survivorOf, keptBy) ==
    IF papers[p].number \in DOMAIN keptBy THEN keptBy[papers[p].number]
    ELSE IF papers[p].customer \in DOMAIN survivorOf THEN survivorOf[papers[p].customer]
    ELSE papers[p].customer

\* What became of the customer it is linked to, else the customer with its number.
ResolveCustomer(p, survivorOf, keptBy) ==
    IF papers[p].customer \in DOMAIN survivorOf THEN survivorOf[papers[p].customer]
    ELSE IF papers[p].number \in DOMAIN keptBy THEN keptBy[papers[p].number]
    ELSE papers[p].customer

\* A customer still to be created stands as the record 0.
Plan ==
    LET survivorOf == [id \in DOMAIN families |-> Min(Family(id))]
        keptBy == [n \in Numbers |-> Min({id \in DOMAIN families : families[id].number = n})]
        withNew == [n \in Numbers \cup ToCreate |-> IF n \in Numbers THEN keptBy[n] ELSE 0]
    IN  [delete |-> {id \in DOMAIN families : survivorOf[id] # id},
         rewrite |-> [id \in {id \in DOMAIN families :
                            survivorOf[id] = id
                            /\ (~families[id].normal \/ Folded(id) # Says(id))}
                        |-> Folded(id)],
         create |-> ToCreate,
         link |-> {p \in Bills \cup Tickets :
                    ~papers[p].normal \/ ResolveCustomer(p, survivorOf, withNew) # papers[p].customer},
         survivorOf |-> survivorOf, keptBy |-> keptBy]

-----------------------------------------------------------------------------
(* The run.  A dry run ends with the plan and leaves everything as it is.   *)

PlanCleanup ==
    /\ doing = "idle"
    /\ plan' = Plan
    /\ doing' = "writing"
    /\ UNCHANGED <<book, families, papers, deaths>>

\* The unique index on the numbers, of the records that have one.
Collides(id) ==
    book.indexed /\ families[id].number # NoNumber /\ \E other \in DOMAIN families \ {id} :
        families[other].number = families[id].number /\ families[other].normal

DeleteDuplicate(id) ==
    /\ doing = "writing" /\ id \in plan.delete
    /\ families' = [other \in DOMAIN families \ {id} |-> families[other]]
    /\ plan' = [plan EXCEPT !.delete = @ \ {id}]
    /\ UNCHANGED <<book, papers, doing, deaths>>

Rewritten(id) ==
    [families[id] EXCEPT !.normal = TRUE, !.says = plan.rewrite[id].says, !.notes = plan.rewrite[id].notes]

RewriteAnyTimeMutant(id) ==
    /\ doing = "writing"
    /\ id \in DOMAIN plan.rewrite
    /\ IF Collides(id) THEN doing' = "duplicateKey" /\ UNCHANGED <<families, plan>>
       ELSE /\ families' = [families EXCEPT ![id] = Rewritten(id)]
            /\ plan' = [plan EXCEPT !.rewrite = [other \in DOMAIN @ \ {id} |-> @[other]]]
            /\ UNCHANGED doing
    /\ UNCHANGED <<book, papers, deaths>>

\* "Duplicates go first", then the survivors are rewritten.
RewriteSurvivor(id) ==
    /\ doing = "writing" /\ plan.delete = {}
    /\ id \in DOMAIN plan.rewrite
    /\ IF Collides(id) THEN doing' = "duplicateKey" /\ UNCHANGED <<families, plan>>
       ELSE /\ families' = [families EXCEPT ![id] = Rewritten(id)]
            /\ plan' = [plan EXCEPT !.rewrite = [other \in DOMAIN @ \ {id} |-> @[other]]]
            /\ UNCHANGED doing
    /\ UNCHANGED <<book, papers, deaths>>

Added(kept, at, value) == [x \in DOMAIN kept \cup {at} |-> IF x = at THEN value ELSE kept[x]]

\* It is given the name that is on its newest bill, which papers leave out here.
NewFamily(n, name) ==
    [number |-> n, normal |-> TRUE,
     says |-> [field \in Fields |-> IF field = "parentName" THEN name ELSE Unsaid], notes |-> {}]

CreateFamily(n) ==
    /\ doing = "writing" /\ plan.delete = {} /\ DOMAIN plan.rewrite = {}
    /\ n \in plan.create
    /\ LET id == Max(DOMAIN families \cup DOMAIN book.families \cup {0}) + 1
       IN  /\ \E name \in Facts \cup {Unsaid} : families' = Added(families, id, NewFamily(n, name))
           /\ plan' = [plan EXCEPT !.create = @ \ {n}, !.keptBy = Added(@, n, id)]
    /\ UNCHANGED <<book, papers, doing, deaths>>

\* Bills, and after them tickets.
LinkPaper(p) ==
    /\ doing = "writing" /\ plan.delete = {} /\ DOMAIN plan.rewrite = {} /\ plan.create = {}
    /\ p \in plan.link /\ (p \in Tickets => plan.link \cap Bills = {})
    /\ papers' = [papers EXCEPT ![p].normal = TRUE,
                    ![p].customer = ResolveCustomer(p, plan.survivorOf, plan.keptBy)]
    /\ plan' = [plan EXCEPT !.link = @ \ {p}]
    /\ UNCHANGED <<book, families, doing, deaths>>

NothingLeft(rest) ==
    rest.delete = {} /\ DOMAIN rest.rewrite = {} /\ rest.create = {} /\ rest.link = {}

\* The merges are logged and the figures of every customer recomputed.
FinishCleanup ==
    /\ doing = "writing" /\ NothingLeft(plan)
    /\ doing' = "done" /\ plan' = NoPlan
    /\ UNCHANGED <<book, families, papers, deaths>>

CleanupDies ==
    /\ doing = "writing" /\ deaths < MaxDeaths
    /\ doing' = "idle" /\ plan' = NoPlan
    /\ deaths' = deaths + 1
    /\ UNCHANGED <<book, families, papers>>

CleanupNext ==
    \/ PlanCleanup \/ FinishCleanup \/ CleanupDies
    \/ \E id \in DOMAIN families : DeleteDuplicate(id) \/ RewriteSurvivor(id)
    \/ \E n \in plan.create : CreateFamily(n)
    \/ \E p \in Bills \cup Tickets : LinkPaper(p)

CleanupSpec == CleanupInit /\ [][CleanupNext]_cleanupVars

-----------------------------------------------------------------------------

\* "Re-running after an apply finds nothing to do" (customerCleanup.ts), and an apply does
\* come to its end: it meets no duplicate key under the unique index, wherever an
\* earlier one has died.
RerunFindsNothing ==
    /\ doing # "duplicateKey"
    /\ doing = "done" => NothingLeft(Plan)

\* The oldest record that was found with the number of this one.
OldestOf(id) ==
    LET before == book.families
    IN  Min({other \in DOMAIN before :
                other = id \/ (before[id].number # NoNumber /\ before[other].number = before[id].number)})

\* What was found in a record is still said by "known": its notes, and of its name and
\* email those of the record of that number that was first to fill them in.
StillSaid(id, known) ==
    LET before == book.families
    IN  /\ before[id].notes \subseteq known.notes
        /\ \A field \in Fields : before[id].says[field] # Unsaid =>
               \E other \in DOMAIN before :
                   /\ other <= id /\ OldestOf(other) = OldestOf(id)
                   /\ before[other].says[field] # Unsaid
                   /\ known.says[field] = before[other].says[field]

\* Nobody loses their family to a merge: what was linked to a customer is linked to the
\* oldest record of that customer's number, which has the notes of all of them and, for each
\* of name and email, what the first of them to fill it in wrote (a later one that differs
\* goes with its record).  A run that died may have deleted a duplicate that was not folded
\* in or repointed yet; after another run the links still hold of all that carries its
\* customer's number, the oldest record has lost nothing of its own, and all that was paid
\* under a number has a family.
NobodyLosesTheirFamily ==
    doing = "done" =>
        \A p \in Bills \cup Tickets :
            LET was == book.papers[p]
                before == book.families
            IN  /\ was.customer \in DOMAIN before
                   /\ (deaths = 0 \/ before[was.customer].number = was.number)
                   => papers[p].customer = OldestOf(was.customer)
                /\ was.paid /\ was.number # NoNumber => papers[p].customer \in DOMAIN families
                /\ \A id \in DOMAIN before :
                    deaths = 0 \/ OldestOf(id) = id => StillSaid(id, families[OldestOf(id)])

=============================================================================
