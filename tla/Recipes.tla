--------------------------------- MODULE Recipes ---------------------------------
(* The recipe subsystem: the API's requests, the candidates of scans, the drain *)
(* to the search index and the projection of injections, over one ledger.       *)
EXTENDS RecipeCandidates, SearchOutbox, RecipeProjection

CONSTANT Scenarios  \* events published before the start, and the instant of the start

ASSUME ScenarioAssumption == \A s \in Scenarios : s.now \in Nat

(* An injection names a recipe, a task and a way in; its own identifier stands  *)
(* for that recipe and that task, and is never one minted for a report.         *)
ASSUME StreamAssumption ==
    \A s \in Scenarios :
        /\ Len(s.stream) \in Nat
        /\ \A i, j \in 1 .. Len(s.stream) :
              LET e == s.stream[i]
                  f == s.stream[j]
              IN  /\ Selected(e) => /\ e.recipe \in RecipeIds /\ e.task \in TaskIds
                                     /\ e.via \in {"pull", "manual"}
                                     /\ e.app \notin Nat
                  /\ Selected(e) /\ Selected(f) /\ e.app = f.app
                        => e.recipe = f.recipe /\ e.task = f.task

vars == <<ledgerVars, candidateVars, drainVars, projectionVars>>

Init ==
    /\ CandidatesInit
    /\ OutboxInit
    /\ \E s \in Scenarios : LedgerInit(s.now) /\ ProjectionInit(s.stream)

Next ==
    \/ LedgerNext /\ UNCHANGED <<candidateVars, drainVars, projectionVars>>
    \/ CandidatesNext /\ UNCHANGED <<drainVars, projectionVars>>
    \/ DrainNext /\ UNCHANGED <<candidateVars, projectionVars>>
    \/ ProjectionNext /\ UNCHANGED <<candidateVars, drainVars>>

(* The scheduler calls the drain again after every interval, whatever happened  *)
(* to the last one, and a document that keeps being written is not refused for  *)
(* ever.  Nothing is assumed of the requests or of the projection.              *)
Draining(d) == BeginDrain(d) \/ ReadRecipe(d) \/ EndDrain(d)
Indexing(id) == \E d \in Drainers : WriteDocument(d) /\ drain[d].row.target = id

DrainFairness ==
    /\ \A d \in Drainers : WF_vars(Draining(d) /\ UNCHANGED <<candidateVars, projectionVars>>)
    /\ \A d \in Drainers :
          WF_vars((WriteDocument(d) \/ FailDocument(d))
                  /\ UNCHANGED <<candidateVars, projectionVars>>)
    /\ \A id \in RecipeIds : SF_vars(Indexing(id) /\ UNCHANGED <<candidateVars, projectionVars>>)

Spec == Init /\ [][Next]_vars /\ DrainFairness

---------------------------------------------------------------------------------
(* Type invariant: rows, requests and offsets are of their kind. *)
TypeOK ==
    /\ DOMAIN recipes \subseteq RecipeIds
    /\ \A id \in DOMAIN recipes : recipes[id] \in Rows
    /\ \A a \in applications : a \in ApplicationRows(a.id)
    /\ outbox \subseteq [at : 1 .. MaxRequests, target : RecipeIds]
    /\ lock \in Drainers \cup {None}
    /\ committed \in 0 .. Len(stream)

(* A document that differs from the ledger is always announced: some committed  *)
(* index request for that recipe is still in the outbox, whatever drains were   *)
(* interrupted and whatever was committed between their read and their write.   *)
StaleIsPending ==
    \A id \in RecipeIds :
        index[id] # Document(id) => \E row \in outbox : row.target = id

(* Every committed change reaches the index: once requests stop and drains are  *)
(* no longer interrupted, the index agrees with the ledger for good, and a      *)
(* search finds every accepted recipe and nothing that was retired or deleted.  *)
IndexConverges ==
    <>[][~\E d \in Drainers : AbortDrain(d) \/ DropSession(d)]_vars
        => <>[](/\ \A id \in RecipeIds : index[id] = Document(id)
                /\ Found = {id \in RecipeIds : Live(id) /\ recipes[id].status = "active"})

(* An outcome an agent reported is never lost to a redelivered, replayed or     *)
(* repeated injection, so a recipe's decided applications never get fewer.      *)
DecidedNeverDrops ==
    [][\A id \in RecipeIds :
        Stats(id, applications').decided >= Stats(id, applications).decided]_vars

(* However often an injection is delivered, and however often a task brings the *)
(* same recipe in, one event-made application counts for the pair.              *)
InjectedOnce ==
    \A a, b \in applications :
        a.anchored /\ b.anchored /\ a.recipe = b.recipe /\ a.task = b.task => a = b

(* A scan's candidates are written once, also when a user has deleted them and  *)
(* the writer is called again: its own guard (outputs.py), behind the one of    *)
(* finalize, whose settle lets one delivery of a job through (JobLedger).       *)
OneSetPerJob == \A job \in Jobs : CountBySourceJob(job) <= 1
=================================================================================
