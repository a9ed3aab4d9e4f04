------------------------------ MODULE SearchOutbox ------------------------------
(* The drain that carries committed index requests to the search index.         *)
(*                                                                              *)
(* Replicas of the projector drain behind one advisory lock that lives as long  *)
(* as the transaction.  The drain reads a batch of requests, and for each one   *)
(* reads the recipe as it is then and overwrites or deletes its document; the   *)
(* requests it served disappear with its commit.                                *)
EXTENDS RecipeLedger

CONSTANTS
    Drainers,       \* replicas of the projector
    BatchSize,      \* requests one drain reads
    SessionsDrop    \* whether the ledger may end a session under a running drain

ASSUME DrainerAssumption == None \notin Drainers

VARIABLES
    index,          \* recipe id -> document or NoDocument
    lock,           \* replica that holds the advisory lock, or None
    drain           \* per replica: the batch left, the document in hand, rows served

drainVars == <<index, lock, drain>>

NoDocument == None
Idle == [on |-> FALSE, batch |-> {}, row |-> None, doc |-> NoDocument, served |-> {}]

(* The document of a recipe row; a row find_by_id does not answer has none.     *)
Document(id) ==
    IF Live(id)
    THEN [status |-> recipes[id].status, rev |-> recipes[id].rev, body |-> recipes[id].body]
    ELSE NoDocument

\* What a search may answer with: of the index's documents, those marked active.
Found == {id \in RecipeIds : index[id] # NoDocument /\ index[id].status = "active"}

OutboxInit ==
    /\ index = [id \in RecipeIds |-> NoDocument]
    /\ lock = None
    /\ drain = [d \in Drainers |-> Idle]

\* The oldest requests first, as many as a batch holds.
IsBatch(rows) ==
    /\ rows \subseteq outbox
    /\ Cardinality(rows) = IF Cardinality(outbox) < BatchSize
                           THEN Cardinality(outbox) ELSE BatchSize
    /\ \A r \in rows, s \in outbox \ rows : r.at <= s.at

(* A replica that finds the lock taken does nothing until its next interval.    *)
BeginDrain(d) ==
    /\ ~drain[d].on
    /\ lock = None
    /\ outbox # {}
    /\ \E rows \in SUBSET outbox :
        /\ IsBatch(rows)
        /\ drain' = [drain EXCEPT ![d] = [Idle EXCEPT !.on = TRUE, !.batch = rows]]
    /\ lock' = d
    /\ UNCHANGED <<ledgerVars, index>>

ReadRecipe(d) ==
    /\ drain[d].on /\ drain[d].row = None
    /\ lock = d
    /\ \E row \in drain[d].batch :
        /\ \A other \in drain[d].batch : row.at <= other.at
        /\ drain' = [drain EXCEPT ![d].row = row, ![d].batch = @ \ {row},
                                  ![d].doc = Document(row.target)]
    /\ UNCHANGED <<ledgerVars, index, lock>>

\* What follows an index call: the next row, or the end for a session that is gone.
AfterCall(d, served) ==
    drain' = IF lock = d
             THEN [drain EXCEPT ![d].row = None, ![d].doc = NoDocument,
                                ![d].served = @ \cup served]
             ELSE [drain EXCEPT ![d] = Idle]

WriteDocument(d) ==
    /\ drain[d].row # None
    /\ index' = [index EXCEPT ![drain[d].row.target] = drain[d].doc]
    /\ AfterCall(d, {drain[d].row})
    /\ UNCHANGED <<ledgerVars, lock>>

\* Variant: a failed call counts as served.
FailDocumentServed(d) ==
    /\ drain[d].row # None
    /\ UNCHANGED index
    /\ AfterCall(d, {drain[d].row})
    /\ UNCHANGED <<ledgerVars, lock>>

(* The index refuses, is not reached, or answers too late after having written: *)
(* the request stays for a later drain.                                         *)
FailDocument(d) ==
    /\ drain[d].row # None
    /\ \/ UNCHANGED index
       \/ index' = [index EXCEPT ![drain[d].row.target] = drain[d].doc]
    /\ AfterCall(d, {})
    /\ UNCHANGED <<ledgerVars, lock>>

\* Variant: the requests are deleted by their target.
EndDrainByTarget(d) ==
    /\ drain[d].on /\ drain[d].row = None /\ drain[d].batch = {}
    /\ lock = d
    /\ outbox' = {r \in outbox : \A s \in drain[d].served : r.target # s.target}
    /\ drain' = [drain EXCEPT ![d] = Idle]
    /\ lock' = None
    /\ UNCHANGED <<recipes, applications, open, clock, index>>

EndDrain(d) ==
    /\ drain[d].on /\ drain[d].row = None /\ drain[d].batch = {}
    /\ lock = d
    /\ outbox' = outbox \ drain[d].served
    /\ drain' = [drain EXCEPT ![d] = Idle]
    /\ lock' = None
    /\ UNCHANGED <<recipes, applications, open, clock, index>>

(* The transaction fails or its process dies: no request is deleted, what was   *)
(* written to the index stays.                                                  *)
AbortDrain(d) ==
    /\ drain[d].on
    /\ lock = d
    /\ drain' = [drain EXCEPT ![d] = Idle]
    /\ lock' = None
    /\ UNCHANGED <<ledgerVars, index>>

(* The ledger ends the session, and the lock with it, while the replica waits   *)
(* for the index: it notices at its next statement.                             *)
DropSession(d) ==
    /\ SessionsDrop
    /\ drain[d].row # None
    /\ lock = d
    /\ lock' = None
    /\ UNCHANGED <<ledgerVars, index, drain>>

DrainNext ==
    \E d \in Drainers :
        \/ BeginDrain(d) \/ ReadRecipe(d) \/ WriteDocument(d) \/ FailDocument(d)
        \/ EndDrain(d) \/ AbortDrain(d) \/ DropSession(d)
=================================================================================
