------------------------------ MODULE RecipeLedger ------------------------------
(* The recipe tables of the agent ledger and the requests that change them.     *)
(*                                                                              *)
(* A window of the API opens one transaction: it reads the rows it needs, moves *)
(* the models in memory and writes whole rows back with the index requests of   *)
(* the same commit.  The transactions run at READ COMMITTED and the reads take  *)
(* no row lock, so another request may commit between the read and the write:   *)
(* a request is its read step, which leaves it in "open", and its Commit.       *)
(* Requests the code refuses (404, 409, 400) change nothing and are stutters.   *)
EXTENDS Naturals, FiniteSets

CONSTANTS
    None,           \* absence
    RecipeIds,      \* identifiers of recipe rows
    TaskIds,        \* tasks an outcome may be reported for
    Outcomes,       \* outcomes reported, of completed, abandoned, superseded
    Bodies,         \* texts a user may write into a recipe
    MaxRequests,    \* bound: instant of the last request that may begin
    MaxOpen,        \* bound: requests open at the same time
    MaxRev          \* bound: revisions an edit may reach

ASSUME LedgerAssumption == MaxRequests \in Nat /\ MaxRev \in Nat /\ None \notin Outcomes

VARIABLES
    recipes,        \* recipe id -> row, for the rows the table holds
    applications,   \* rows of recipe_applications
    outbox,         \* committed rows of search_outbox
    open,           \* requests that have read and not yet committed
    clock           \* instant of the last request that began

ledgerVars == <<recipes, applications, outbox, open, clock>>

Statuses == {"candidate", "active", "dismissed", "superseded", "retired"}

Rows == [status : Statuses, rev : 1 .. MaxRev + 1, body : Bodies,
         parent : RecipeIds \cup {None}, deleted : BOOLEAN, job : Nat]

ApplicationRows(id) == [id : {id}, recipe : RecipeIds, task : TaskIds, via : {"pull", "manual"},
                        outcome : Outcomes \cup {None}, anchored : BOOLEAN]

\* find_by_id answers nothing for a row whose deleted_at is set.
Live(id) == id \in DOMAIN recipes /\ ~recipes[id].deleted

---------------------------------------------------------------------------------
(* The transitions of one row, each defined where the code does not refuse it.  *)
CanAccept(r) == r.status = "candidate"
CanRetire(r) == r.status = "active"
CanDelete(r) == r.status \in {"dismissed", "retired"}
CanEdit(r)   == r.status = "active" /\ r.rev < MaxRev

Resolved(r, status) == [r EXCEPT !.status = status]
Deleted(r)          == [r EXCEPT !.deleted = TRUE]
Edited(r, body)     == [r EXCEPT !.body = body, !.rev = @ + 1]

(* The statistics of a recipe: all applications, those with a report, those     *)
(* whose report is "completed".                                                 *)
Stats(id, apps) ==
    LET mine    == {a \in apps : a.recipe = id}
        decided == {a \in mine : a.outcome # None}
    IN  [applied   |-> Cardinality(mine),
         decided   |-> Cardinality(decided),
         succeeded |-> Cardinality({a \in decided : a.outcome = "completed"})]

\* INSERT .. ON CONFLICT (backend, id) DO UPDATE: recipe and task are kept.
UpsertApplication(apps, row) ==
    IF \E a \in apps : a.id = row.id
    THEN {IF a.id = row.id
          THEN [a EXCEPT !.via = row.via, !.outcome = row.outcome] ELSE a : a \in apps}
    ELSE apps \cup {row}

\* INSERT .. ON CONFLICT (id) DO UPDATE of every column.
Overwrite(rows) ==
    [id \in DOMAIN recipes \cup DOMAIN rows |->
        IF id \in DOMAIN rows THEN rows[id] ELSE recipes[id]]

\* One index request per recipe row written.
Enqueued(at, rows) == {[at |-> at, target |-> id] : id \in DOMAIN rows}

---------------------------------------------------------------------------------
(* The read half of a request.  "writes" are the whole rows it will write back, *)
(* "apps" the application rows it will upsert.                                   *)
Open(writes, apps) ==
    /\ clock < MaxRequests
    /\ Cardinality(open) < MaxOpen
    /\ clock' = clock + 1
    /\ open' = open \cup {[at |-> clock + 1, writes |-> writes, apps |-> apps]}
    /\ UNCHANGED <<recipes, applications, outbox>>

\* The parent a candidate revises, when the user still has it.
OwnedParent(id) == {p \in {recipes[id].parent} \ {None} : Live(p)}

Accept(id) ==
    /\ Live(id)
    /\ CanAccept(recipes[id])
    /\ Open([p \in {id} \cup OwnedParent(id) |->
                Resolved(recipes[p], IF p \in OwnedParent(id) THEN "superseded" ELSE "active")], {})

Dismiss(id) ==
    /\ Live(id)
    /\ CanAccept(recipes[id])
    /\ Open([p \in {id} |-> Resolved(recipes[p], "dismissed")], {})

Retire(id) ==
    /\ Live(id)
    /\ CanRetire(recipes[id])
    /\ Open([p \in {id} |-> Resolved(recipes[p], "retired")], {})

Edit(id, body) ==
    /\ Live(id)
    /\ CanEdit(recipes[id])
    /\ Open([p \in {id} |-> Edited(recipes[p], body)], {})

Delete(id) ==
    /\ Live(id)
    /\ CanDelete(recipes[id])
    /\ Open([p \in {id} |-> Deleted(recipes[p])], {})

(* A report goes to an application of the task that is already there, or to a   *)
(* row made on the spot, which no event anchors.                                *)
ReportOutcome(id, task, outcome) ==
    /\ Live(id)
    /\ LET opened == {a \in applications : a.task = task /\ a.recipe = id}
           manual == [id |-> clock + 1, recipe |-> id, task |-> task,
                      via |-> "manual", outcome |-> None, anchored |-> FALSE]
       IN  \E a \in IF opened = {} THEN {manual} ELSE opened :
               Open(<<>>, {[a EXCEPT !.outcome = outcome]})

(* The write half: the rows as they were read and moved, whatever has been      *)
(* committed since, and one index request per recipe row in the same commit.    *)
Commit(q) ==
    /\ recipes' = Overwrite(q.writes)
    /\ outbox' = outbox \cup Enqueued(q.at, q.writes)
    /\ applications' = IF q.apps = {} THEN applications
                       ELSE UpsertApplication(applications, CHOOSE a \in q.apps : TRUE)
    /\ open' = open \ {q}
    /\ UNCHANGED clock

(* A request that dies or fails before its commit leaves nothing.               *)
Rollback(q) ==
    /\ open' = open \ {q}
    /\ UNCHANGED <<recipes, applications, outbox, clock>>

LedgerInit(now) ==
    /\ recipes = <<>>
    /\ applications = {}
    /\ outbox = {}
    /\ open = {}
    /\ clock = now

LedgerNext ==
    \/ \E id \in DOMAIN recipes :
        \/ Accept(id)
        \/ Dismiss(id)
        \/ Retire(id)
        \/ \E body \in Bodies : Edit(id, body)
        \/ Delete(id)
        \/ \E task \in TaskIds, outcome \in Outcomes : ReportOutcome(id, task, outcome)
    \/ \E q \in open : Commit(q) \/ Rollback(q)
=================================================================================
