---------------------------- MODULE RecipeCandidates ----------------------------
(* The candidates a finished recipe scan writes into the recipe tables.         *)
EXTENDS RecipeLedger

CONSTANT Jobs       \* executions of the scan: numbers

ASSUME JobsAssumption == Jobs \subseteq Nat

VARIABLE writing    \* job -> the rows an attempt is about to write, and its instant

candidateVars == <<writing>>

CandidatesInit == writing = [j \in Jobs |-> None]

\* Variant: a candidate that revises nothing has no revision of its own.
CandidateUnnumbered(job, body, named, seenRev) ==
    [status |-> "candidate", body |-> body, deleted |-> FALSE, job |-> job,
     rev |-> IF named = None THEN 0 ELSE seenRev + 1, parent |-> named]

(* A candidate revises the recipe it names only while that recipe still has the *)
(* revision the scan saw; otherwise it is written as a recipe of its own.       *)
Candidate(job, body, named, seenRev) ==
    LET holds == named # None /\ Live(named) /\ recipes[named].rev = seenRev
    IN  [status |-> "candidate", body |-> body, deleted |-> FALSE, job |-> job,
         rev |-> IF holds THEN seenRev + 1 ELSE 1,
         parent |-> IF holds THEN named ELSE None]

CountBySourceJob(job) == Cardinality({id \in DOMAIN recipes : recipes[id].job = job})

Fresh(id) ==
    /\ id \notin DOMAIN recipes
    /\ \A job \in Jobs : writing[job] # None => id \notin DOMAIN writing[job].rows

\* Variant: candidates the user has deleted do not count.
BeginCandidatesUncounted(job) ==
    /\ writing[job] = None
    /\ ~\E id \in DOMAIN recipes : recipes[id].job = job /\ Live(id)
    /\ clock < MaxRequests
    /\ \E id \in RecipeIds, body \in Bodies, named \in DOMAIN recipes \cup {None},
          seenRev \in 1 .. MaxRev :
        /\ Fresh(id)
        /\ named = None => seenRev = 1
        /\ writing' = [writing EXCEPT ![job] =
                [at |-> clock + 1, rows |-> [p \in {id} |-> Candidate(job, body, named, seenRev)]]]
    /\ clock' = clock + 1
    /\ UNCHANGED <<recipes, applications, outbox, open>>

(* The read half of an attempt: nothing is written when the job already has     *)
(* candidates, deleted ones included.  One candidate per scan in the model.     *)
BeginCandidates(job) ==
    /\ writing[job] = None
    /\ CountBySourceJob(job) = 0
    /\ clock < MaxRequests
    /\ \E id \in RecipeIds, body \in Bodies, named \in DOMAIN recipes \cup {None},
          seenRev \in 1 .. MaxRev :
        /\ Fresh(id)
        /\ named = None => seenRev = 1
        /\ writing' = [writing EXCEPT ![job] =
                [at |-> clock + 1, rows |-> [p \in {id} |-> Candidate(job, body, named, seenRev)]]]
    /\ clock' = clock + 1
    /\ UNCHANGED <<recipes, applications, outbox, open>>

(* All the candidates of the attempt and their index requests in one commit, or *)
(* none of them: a failed write is logged and the job stays completed.          *)
CommitCandidates(job) ==
    /\ writing[job] # None
    /\ recipes' = Overwrite(writing[job].rows)
    /\ outbox' = outbox \cup Enqueued(writing[job].at, writing[job].rows)
    /\ writing' = [writing EXCEPT ![job] = None]
    /\ UNCHANGED <<applications, open, clock>>

LoseCandidates(job) ==
    /\ writing[job] # None
    /\ writing' = [writing EXCEPT ![job] = None]
    /\ UNCHANGED ledgerVars

CandidatesNext ==
    \E job \in Jobs : BeginCandidates(job) \/ CommitCandidates(job) \/ LoseCandidates(job)
=================================================================================
