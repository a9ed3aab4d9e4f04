------------------------------- MODULE AgentJob ------------------------------
(* One agent job from POST to closed workflow: the intake (claim the row, then *)
(* start the workflow: two steps of an API process), the cancel endpoint       *)
(* (Temporal cancel, then the ledger), AgentJobWorkflow on Temporal, and the   *)
(* activity attempts the workers run.  Temporal delivers an activity at least  *)
(* once: an attempt given up for lost is scheduled again while the old one may *)
(* still act on the ledger.                                                    *)
EXTENDS JobLedger

CONSTANTS
    Requests,      \* POST /jobs calls; the call that creates a row names the job
    Key,           \* Key[r]: the (user, kind, idempotency key) of call r, or NoKey
    InputHash,     \* InputHash[r]: the hash of the input call r carries
    NoKey,         \* a call without an idempotency key
    Cancels,       \* POST /jobs/{id}/cancel calls
    AttemptIds,    \* the attempt numbers an activity may reach
    MaxAttempts,   \* MaxAttempts[a]: the retry policy of activity a
    MaxLost        \* bound: attempts lost in one behaviour (crash, timeout, error)

Jobs       == Requests
NoJob      == NoKey
Activities == {"prepare", "generate", "finalize", "fail", "settleCanceled"}
Closing    == {"fail", "settleCanceled"}
Outcomes   == {"completed", "failed", "canceled"}

ASSUME AttemptAssumption ==
    /\ AttemptIds \subseteq Nat \ {0}
    /\ MaxAttempts \in [Activities -> AttemptIds]
    /\ \A a \in Activities : 1 .. MaxAttempts[a] \subseteq AttemptIds
ASSUME BoundAssumption == MaxLost \in Nat
ASSUME NoJobAssumption == NoJob \notin Jobs

VARIABLES
    row,       \* ai_jobs, one row per job
    recorded,  \* whether the job's observation and steps are committed
    req,       \* intake calls in flight
    can,       \* cancel calls in flight
    wf,        \* the workflow execution of each job, as Temporal holds it
    att,       \* att[j][a][n]: attempt n of activity a of job j, on a worker
    told,      \* statuses announced to the user's open screens
    outputs,   \* committed output transactions (recipes or suggestions)
    lost       \* attempts lost so far

vars     == <<row, recorded, req, can, wf, att, told, outputs, lost>>
apiVars  == <<req, can>>
effects  == <<recorded, told, outputs>>

Phases   == {"none", "closed"} \cup Activities
Workflow == [phase   : Phases,
             n       : AttemptIds,                       \* current attempt
             cancel  : {"no", "requested", "delivered"},  \* Temporal cancellation
             out     : Outcomes \cup {"none"},           \* what generate returned
             gaveUp  : BOOLEAN]                          \* a closing activity ran out of attempts
Attempt  == {"idle", "scheduled", "marked", "model", "settled", "notified", "blocked", "done"}

Init ==
    /\ row      = [j \in Jobs |-> NoRow]
    /\ recorded = [j \in Jobs |-> FALSE]
    /\ req      = [r \in Requests |-> [pc |-> "new", job |-> NoJob]]
    /\ can      = [c \in Cancels |-> [pc |-> "new", job |-> NoJob]]
    /\ wf       = [j \in Jobs |-> [phase |-> "none", n |-> 1, cancel |-> "no",
                                   out |-> "none", gaveUp |-> FALSE]]
    /\ att      = [j \in Jobs |-> [a \in Activities |-> [n \in AttemptIds |-> "idle"]]]
    /\ told     = [j \in Jobs |-> {}]
    /\ outputs  = [j \in Jobs |-> 0]
    /\ lost     = 0

------------------------------------------------------------------------------
(* Intake: JobIntake.claim, then JobIntake.start.                            *)

(* Rows the unique (user, kind, idempotency key) index finds for call r. *)
KeyHolders(r) ==
    {j \in Jobs : /\ Key[r] # NoKey
                  /\ Key[j] = Key[r]
                  /\ row[j].status # "absent"}

(* No row holds the key: the INSERT wins and this call must start the job. *)
ClaimNew(r) ==
    /\ req[r].pc = "new"
    /\ KeyHolders(r) = {}
    /\ row[r].status = "absent"      \* ON CONFLICT (id) DO NOTHING
    /\ row' = [row EXCEPT ![r] = Pending]
    /\ req' = [req EXCEPT ![r] = [pc |-> "claimed", job |-> r]]
    /\ UNCHANGED <<recorded, can, wf, att, told, outputs, lost>>

(* A faulty form: the idempotent replay that does not compare input hashes. *)
ClaimReplayAnyInput(r) ==
    /\ req[r].pc = "new"
    /\ \E j \in KeyHolders(r) :
         req' = [req EXCEPT ![r] =
                   [pc |-> IF row[j].status = "pending" THEN "claimed" ELSE "answered", job |-> j]]
    /\ UNCHANGED <<row, recorded, can, wf, att, told, outputs, lost>>

(* The key is taken: another input is a conflict, a pending job is started    *)
(* again, any other job is only reported.                                     *)
ClaimReplay(r) ==
    /\ req[r].pc = "new"
    /\ \E j \in KeyHolders(r) :
         req' = [req EXCEPT ![r] =
                   IF InputHash[j] # InputHash[r] THEN [pc |-> "conflict", job |-> NoJob]
                   ELSE IF row[j].status = "pending" THEN [pc |-> "claimed", job |-> j]
                   ELSE [pc |-> "answered", job |-> j]]
    /\ UNCHANGED <<row, recorded, can, wf, att, told, outputs, lost>>

(* start_workflow under REJECT_DUPLICATE: a job id that has, or had, a        *)
(* workflow is left alone.                                                    *)
Start(r) ==
    /\ req[r].pc = "claimed"
    /\ LET j == req[r].job IN
         IF wf[j].phase = "none"
         THEN /\ wf'  = [wf EXCEPT ![j].phase = "prepare"]
              /\ att' = [att EXCEPT ![j]["prepare"][1] = "scheduled"]
         ELSE UNCHANGED <<wf, att>>
    /\ req' = [req EXCEPT ![r].pc = "answered"]
    /\ UNCHANGED <<row, recorded, can, told, outputs, lost>>

(* The API process dies, or Temporal refuses, between claim and start. *)
IntakeLost(r) ==
    /\ req[r].pc = "claimed"
    /\ req' = [req EXCEPT ![r] = [pc |-> "lost", job |-> NoJob]]
    /\ UNCHANGED <<row, recorded, can, wf, att, told, outputs, lost>>

------------------------------------------------------------------------------
(* Cancel: cancel_job asks Temporal first, then the ledger.                   *)

Open(j) == wf[j].phase \notin {"none", "closed"}

(* NOT_FOUND (no workflow, or a closed one) is not an error: the call goes on. *)
CancelDispatch(c, j) ==
    /\ can[c].pc = "new"
    /\ row[j].status # "absent"
    /\ wf'  = IF Open(j) /\ wf[j].cancel = "no"
              THEN [wf EXCEPT ![j].cancel = "requested"] ELSE wf
    /\ can' = [can EXCEPT ![c] = [pc |-> "dispatched", job |-> j]]
    /\ UNCHANGED <<row, recorded, req, att, told, outputs, lost>>

CancelLedger(c) ==
    /\ can[c].pc = "dispatched"
    /\ row' = [row EXCEPT ![can[c].job] = Cancel(@)]
    /\ can' = [can EXCEPT ![c].pc = "done"]
    /\ UNCHANGED <<recorded, req, wf, att, told, outputs, lost>>

(* The call dies between its two halves. *)
CancelLost(c) ==
    /\ can[c].pc = "dispatched"
    /\ can' = [can EXCEPT ![c].pc = "done"]
    /\ UNCHANGED <<row, recorded, req, wf, att, told, outputs, lost>>

------------------------------------------------------------------------------
(* AgentJobWorkflow: which activity follows which.                            *)

Current(j, a, n) == wf[j].phase = a /\ wf[j].n = n

(* The workflow of j, left with the record w and the attempts slots, schedules *)
(* its next activity or closes.                                                *)
Enter(j, slots, w, next) ==
    /\ wf'  = [wf EXCEPT ![j] = [w EXCEPT !.phase = next, !.n = 1]]
    /\ att' = [att EXCEPT ![j] = IF next = "closed" THEN slots
                                 ELSE [slots EXCEPT ![next][1] = "scheduled"]]

(* Attempt n of a ends.  Temporal takes the report of the current attempt and  *)
(* drops the report of any earlier one.                                        *)
Report(j, a, n, w, next) ==
    LET slots == [att[j] EXCEPT ![a][n] = "done"] IN
    IF Current(j, a, n) THEN Enter(j, slots, w, next)
    ELSE att' = [att EXCEPT ![j] = slots] /\ UNCHANGED wf

Step(j, a, n, from, to) ==
    /\ att[j][a][n] = from
    /\ att' = [att EXCEPT ![j][a][n] = to]

(* A faulty form: a failed generate ends the workflow without closing the row. *)
AfterErrorUnclosed(a) == IF a \in {"prepare", "finalize"} THEN "fail" ELSE "closed"

(* An activity that failed for good: every stage but the closing ones fails   *)
(* the row.                                                                   *)
AfterError(a) == IF a \in Closing THEN "closed" ELSE "fail"

(* A faulty form: an abandoned prepare ends the workflow with its row open. *)
DeliverCancelUnsettled(j) ==
    /\ wf[j].cancel = "requested"
    /\ LET w == [wf[j] EXCEPT !.cancel = "delivered"] IN
         \/ wf[j].phase = "prepare"  /\ Enter(j, att[j], w, "closed")
         \/ wf[j].phase = "generate" /\ wf' = [wf EXCEPT ![j] = w] /\ UNCHANGED att
    /\ UNCHANGED <<row, recorded, req, can, told, outputs, lost>>

(* Cancellation reaches the workflow.  prepare is abandoned where it is        *)
(* (TRY_CANCEL); generate is asked to stop and waited for                      *)
(* (WAIT_CANCELLATION_COMPLETED); the closing calls are shielded.              *)
DeliverCancel(j) ==
    /\ wf[j].cancel = "requested"
    /\ LET w == [wf[j] EXCEPT !.cancel = "delivered"] IN
         \/ wf[j].phase = "prepare"  /\ Enter(j, att[j], w, "settleCanceled")
         \/ wf[j].phase = "generate" /\ wf' = [wf EXCEPT ![j] = w] /\ UNCHANGED att
    /\ UNCHANGED <<row, recorded, req, can, told, outputs, lost>>

(* The current attempt is lost: its worker crashed, its heartbeat or            *)
(* start-to-close timeout passed, or it raised.  It may still be running.       *)
(* Temporal schedules the next attempt unless the policy is exhausted or the    *)
(* activity was asked to cancel.                                                *)
LoseAttempt(j) ==
    /\ Open(j)
    /\ lost < MaxLost
    /\ lost' = lost + 1
    /\ LET a == wf[j].phase
           n == wf[j].n
           final == n >= MaxAttempts[a] \/ (a = "generate" /\ wf[j].cancel = "delivered")
       IN  \/ /\ final
              /\ Enter(j, att[j], [wf[j] EXCEPT !.gaveUp = a \in Closing], AfterError(a))
           \/ /\ ~final
              /\ wf'  = [wf EXCEPT ![j].n = n + 1]
              /\ att' = [att EXCEPT ![j][a][n + 1] = "scheduled"]
    /\ UNCHANGED <<row, recorded, req, can, told, outputs>>

------------------------------------------------------------------------------
(* Activity attempts.                                                          *)

(* mark_running; a row that is already closed is a non-retryable error. *)
PrepareMark(j, n) ==
    /\ att[j]["prepare"][n] = "scheduled"
    /\ IF Live(row[j])
       THEN /\ Step(j, "prepare", n, "scheduled", "marked")
            /\ UNCHANGED wf
       ELSE Report(j, "prepare", n, wf[j], AfterError("prepare"))
    /\ row' = [row EXCEPT ![j] = MarkRunning(@)]
    /\ UNCHANGED <<recorded, req, can, told, outputs, lost>>

PrepareReturn(j, n) ==
    /\ att[j]["prepare"][n] = "marked"
    /\ told' = [told EXCEPT ![j] = @ \cup {"running"}]
    /\ Report(j, "prepare", n, wf[j], "generate")
    /\ UNCHANGED <<row, recorded, req, can, outputs, lost>>

(* The envelope is issued and the graph starts to call the paid model. *)
GenerateStart(j, n) ==
    /\ Step(j, "generate", n, "scheduled", "model")
    /\ UNCHANGED <<row, recorded, req, can, wf, told, outputs, lost>>

(* A cancel that finds the attempt before the graph started ends it as a       *)
(* cancelled activity.                                                         *)
GenerateCanceled(j, n) ==
    /\ Current(j, "generate", n)
    /\ att[j]["generate"][n] = "scheduled"
    /\ wf[j].cancel = "delivered"
    /\ Report(j, "generate", n, wf[j], "settleCanceled")
    /\ UNCHANGED <<row, recorded, req, can, told, outputs, lost>>

(* execute() turns every end of the graph, cancellation included, into a       *)
(* response, so the activity returns an outcome and never raises.              *)
GenerateReturn(j, n, out) ==
    /\ att[j]["generate"][n] = "model"
    /\ out = "canceled" => wf[j].cancel = "delivered"
    /\ Report(j, "generate", n, [wf[j] EXCEPT !.out = out], "finalize")
    /\ UNCHANGED <<row, recorded, req, can, told, outputs, lost>>

(* A faulty form: a refused transition rolls the trajectory back with it. *)
FinalizeCommitAllOrNothing(j, n) ==
    /\ Step(j, "finalize", n, "scheduled", IF Live(row[j]) THEN "settled" ELSE "blocked")
    /\ recorded' = [recorded EXCEPT ![j] = @ \/ Live(row[j])]
    /\ row' = [row EXCEPT ![j] = Settle(@, wf[j].out, TRUE)]
    /\ UNCHANGED <<req, can, wf, told, outputs, lost>>

(* A faulty form: finalize that takes every transition as accepted. *)
FinalizeCommitIgnoringRefusal(j, n) ==
    /\ Step(j, "finalize", n, "scheduled", "settled")
    /\ recorded' = [recorded EXCEPT ![j] = TRUE]
    /\ row' = [row EXCEPT ![j] = Settle(@, wf[j].out, TRUE)]
    /\ UNCHANGED <<req, can, wf, told, outputs, lost>>

(* JobExecutionWriter.finalize: observation, steps and settle in one           *)
(* transaction, which commits the first two whether or not settle moved the    *)
(* row.                                                                        *)
FinalizeCommit(j, n) ==
    /\ Step(j, "finalize", n, "scheduled", IF Live(row[j]) THEN "settled" ELSE "blocked")
    /\ recorded' = [recorded EXCEPT ![j] = TRUE]
    /\ row' = [row EXCEPT ![j] = Settle(@, wf[j].out, TRUE)]
    /\ UNCHANGED <<req, can, wf, told, outputs, lost>>

FinalizeNotify(j, n) ==
    /\ Step(j, "finalize", n, "settled", "notified")
    /\ told' = [told EXCEPT ![j] = @ \cup {wf[j].out}]
    /\ UNCHANGED <<row, recorded, req, can, wf, outputs, lost>>

(* A faulty form: a shielded closing call that is started anew on a cancel     *)
(* instead of being waited for.                                                *)
FinalizeReturnRestarted(j, n) ==
    /\ att[j]["finalize"][n] \in {"blocked", "notified"}
    /\ Report(j, "finalize", n, wf[j],
              IF wf[j].cancel = "requested" THEN "finalize" ELSE "closed")
    /\ UNCHANGED <<row, recorded, req, can, told, outputs, lost>>

(* settle_outputs runs after the row is closed and only for a completed job;   *)
(* write_output swallows its failure.  A cancel that arrived meanwhile makes   *)
(* the workflow close the row again.                                           *)
FinalizeReturn(j, n) ==
    /\ att[j]["finalize"][n] \in {"blocked", "notified"}
    /\ \E written \in IF att[j]["finalize"][n] = "notified" /\ wf[j].out = "completed"
                      THEN {0, 1} ELSE {0} :
         outputs' = [outputs EXCEPT ![j] = @ + written]
    /\ Report(j, "finalize", n, wf[j],
              IF wf[j].cancel = "requested" THEN "settleCanceled" ELSE "closed")
    /\ UNCHANGED <<row, recorded, req, can, told, lost>>

FailSettle(j, n) ==
    /\ Step(j, "fail", n, "scheduled", IF Live(row[j]) THEN "settled" ELSE "blocked")
    /\ row' = [row EXCEPT ![j] = Settle(@, "failed", FALSE)]
    /\ UNCHANGED <<recorded, req, can, wf, told, outputs, lost>>

FailReturn(j, n) ==
    /\ att[j]["fail"][n] \in {"settled", "blocked"}
    /\ told' = IF att[j]["fail"][n] = "settled"
               THEN [told EXCEPT ![j] = @ \cup {"failed"}] ELSE told
    /\ Report(j, "fail", n, wf[j], "closed")
    /\ UNCHANGED <<row, recorded, req, can, outputs, lost>>

SettleCanceled(j, n) ==
    /\ att[j]["settleCanceled"][n] = "scheduled"
    /\ row' = [row EXCEPT ![j] = Settle(@, "canceled", FALSE)]
    /\ Report(j, "settleCanceled", n, wf[j], "closed")
    /\ UNCHANGED <<recorded, req, can, told, outputs, lost>>

------------------------------------------------------------------------------
Intake == \E r \in Requests : ClaimNew(r) \/ ClaimReplay(r) \/ Start(r) \/ IntakeLost(r)

CancelApi == \E c \in Cancels : \/ \E j \in Jobs : CancelDispatch(c, j)
                                \/ CancelLedger(c)
                                \/ CancelLost(c)

(* What the worker does with attempt n. *)
Work(j, n) ==
    \/ PrepareMark(j, n)    \/ PrepareReturn(j, n)
    \/ GenerateStart(j, n)  \/ GenerateCanceled(j, n)
    \/ \E out \in Outcomes : GenerateReturn(j, n, out)
    \/ FinalizeCommit(j, n) \/ FinalizeNotify(j, n) \/ FinalizeReturn(j, n)
    \/ FailSettle(j, n)     \/ FailReturn(j, n)
    \/ SettleCanceled(j, n)

Temporal == \E j \in Jobs : DeliverCancel(j) \/ LoseAttempt(j)

Next == Intake \/ CancelApi \/ Temporal \/ \E j \in Jobs, n \in AttemptIds : Work(j, n)

Spec == Init /\ [][Next]_vars

(* The attempt Temporal waits for makes progress: what does not is lost, and  *)
(* LoseAttempt stands for it.  Nothing is assumed of attempts given up, of    *)
(* API calls, which may die, or of losses.                                    *)
WorkOnCurrent(j) ==
    \E n \in AttemptIds :
        /\ Open(j) /\ wf[j].n = n
        /\ Work(j, n)
        /\ att'[j][wf[j].phase][n] # att[j][wf[j].phase][n]

Fairness == \A j \in Jobs : WF_vars(WorkOnCurrent(j)) /\ WF_vars(DeliverCancel(j))

FairSpec == Spec /\ Fairness

------------------------------------------------------------------------------
(* Type invariant. *)
TypeOK ==
    /\ row \in [Jobs -> Rows]
    /\ recorded \in [Jobs -> BOOLEAN]
    /\ req \in [Requests -> [pc : {"new", "claimed", "answered", "conflict", "lost"},
                             job : Jobs \cup {NoJob}]]
    /\ can \in [Cancels -> [pc : {"new", "dispatched", "done"}, job : Jobs \cup {NoJob}]]
    /\ wf \in [Jobs -> Workflow]
    /\ att \in [Jobs -> [Activities -> [AttemptIds -> Attempt]]]
    /\ told \in [Jobs -> SUBSET Statuses]
    /\ outputs \in [Jobs -> Nat]
    /\ lost \in Nat

Served(r) == req[r].pc \in {"claimed", "answered"}

(* Two accepted calls with one idempotency key answer with one job, and every *)
(* accepted call with a job of its own input: a retried POST never buys a     *)
(* second run, and never gets another input's result (JobIntake.claim).       *)
IdempotentIntake ==
    \A r, s \in Requests :
        /\ Served(r) => InputHash[req[r].job] = InputHash[r]
        /\ (Served(r) /\ Served(s) /\ Key[r] = Key[s] /\ Key[r] # NoKey) =>
              req[r].job = req[s].job

(* A status that ends a job is final, with its attempts and its usage: no     *)
(* late attempt, retry or cancel rewrites a closed row (jobs_ledger.py).      *)
TerminalIsFinal ==
    [][\A j \in Jobs : row[j].status \in Terminal => row'[j] = row[j]]_vars

(* ARCHITECTURE.md:355: after a refused transition neither outputs nor an     *)
(* announcement go out, whichever of finalize, fail and cancel came first.    *)
RefusedIsSilent ==
    \A j \in Jobs :
        /\ told[j] \cap Terminal \subseteq {row[j].status}
        /\ outputs[j] > 0 => row[j].status = "completed"

(* However often finalize is delivered, a job's outputs are written once. *)
OutputsOnce == \A j \in Jobs : outputs[j] <= 1

(* A closed workflow leaves a closed row, whatever failed, timed out or was   *)
(* cancelled on the way, unless the closing activity itself ran out of        *)
(* attempts.                                                                  *)
ClosedWorkflowClosesRow ==
    \A j \in Jobs : (wf[j].phase = "closed" /\ ~wf[j].gaveUp) => row[j].status \in Terminal

(* Once generate returned, the observation and the steps reach the ledger     *)
(* even when the row was closed by a cancel first; only an exhausted finalize *)
(* loses them.                                                                *)
TrajectoryKept ==
    \A j \in Jobs :
        (/\ wf[j].out # "none"
         /\ wf[j].phase \in {"settleCanceled", "closed"}
         /\ att[j]["fail"][1] = "idle") => recorded[j]

Lifecycle == INSTANCE JobLifecycle WITH
    status    <- [j \in Jobs |-> row[j].status],
    announced <- [j \in Jobs |-> told[j] \cap Terminal],
    published <- [j \in Jobs |-> outputs[j] > 0]

(* The code implements JobLifecycle: accepted once, closed once, announced as  *)
(* what it is, published only after it was announced as completed.             *)
ImplementsLifecycle == Lifecycle!Spec

(* Every started workflow ends, and so does its row. *)
StartedJobCloses ==
    \A j \in Jobs : Open(j) ~> (row[j].status \in Terminal \/ wf[j].gaveUp)

(* A cancel that reached Temporal ends the workflow. *)
CancelEndsWorkflow ==
    \A j \in Jobs : (wf[j].cancel # "no") ~> (wf[j].phase = "closed")

(* jobs_intake.py:109: the cancel is dispatched first so that no job is       *)
(* recorded as canceled while its paid run goes on uncancelled.               *)
CanceledStopsPaying ==
    \A j \in Jobs :
        row[j].status = "canceled" =>
            ~ (/\ wf[j].phase = "generate"
               /\ wf[j].cancel = "no"
               /\ att[j]["generate"][wf[j].n] = "model")
==============================================================================
