------------------------------- MODULE ChatTurn ------------------------------
(* The turns of one chat thread: POST (check, insert and signal, three steps   *)
(* of an API process), cancel (ledger first, then Temporal), the thread        *)
(* workflow that runs one turn at a time, the execution workflow of each turn, *)
(* the activity attempts the workers run, the 20-minute lease on a running row *)
(* and the sweep a starting worker makes.                                      *)
EXTENDS ChatLedger, FiniteSets

CONSTANTS
    Requests,      \* POST calls; the call that inserts a row names the execution
    Key,           \* Key[r]: the client request id of call r
    InputHash,     \* InputHash[r]: the hash of the input call r carries
    Created,       \* Created[r]: the time of call r, the created_at of its row
    NoExec,        \* no execution
    Cancels,       \* cancel calls
    AttemptIds,    \* attempt numbers of an activity
    MaxRounds,     \* THREAD_BUSY_MAX_ROUNDS
    MaxChildren,   \* THREAD_MAX_CHILDREN
    Scenes         \* the calls that are made, and how often each fault may happen

Execs      == Requests
Activities == {"prepare", "generate", "finalize", "fail"}

ASSUME AttemptAssumption == /\ AttemptIds \subseteq Nat \ {0}
                            /\ 1 \in AttemptIds
ASSUME CreatedAssumption == Created \in [Requests -> Nat]
ASSUME BoundAssumption   == {MaxRounds, MaxChildren} \subseteq Nat

(* Bounds of the model: the faults of one behaviour.                          *)
Faults == {"lost",      \* attempts lost (crash, timeout, blank answer)
           "errors",    \* attempts the model provider fails
           "stale",     \* running rows whose lease runs out
           "restarts"}  \* worker starts

ASSUME SceneAssumption   == Scenes \subseteq [requests : SUBSET Requests, cancels : SUBSET Cancels,
                                            faults : [Faults -> Nat]]
ASSUME NoExecAssumption  == NoExec \notin Execs

VARIABLES
    row,    \* chat_executions
    obs,    \* agent_run_observations: the status attempt n of an execution left
    req,    \* POST calls in flight
    can,    \* cancel calls in flight
    thr,    \* the thread workflow
    wf,     \* the execution workflows
    att,    \* att[e][a][n]: attempt n of activity a of execution e, on a worker
    scene,  \* what may happen; never changes
    used    \* how often each fault has happened

vars == <<row, obs, req, can, thr, wf, att, scene, used>>

Phases   == {"none", "busy", "closed"} \cup Activities
Outcomes == {"none", "answer", "partial", "blank"}
Workflow == [phase  : Phases,
             n      : AttemptIds,                        \* current attempt
             round  : Nat,                               \* prepare rounds so far
             cancel : {"no", "requested", "delivered"},
             out    : Outcomes,                          \* what generate returned
             by     : AttemptIds,                        \* the attempt that returned it
             spoke  : BOOLEAN,                           \* it had written an answer
             failed : BOOLEAN,                           \* closed, and not as completed
             gaveUp : BOOLEAN]                           \* fail never came to an end
Attempt  == {"idle", "scheduled", "blocked", "recovered", "claimed",
             "model", "spoke", "retryable", "final", "committed"}
Thread   == [phase  : {"closed", "waiting", "asking", "told", "running"},
             wake   : BOOLEAN,
             cur    : Execs \cup {NoExec},
             failed : Execs \cup {NoExec},
             served : Nat]

Idle == [phase |-> "waiting", wake |-> FALSE, cur |-> NoExec, failed |-> NoExec, served |-> 0]

Init ==
    /\ row  = [e \in Execs |-> NoRow]
    /\ obs  = [e \in Execs |-> [n \in AttemptIds |-> "none"]]
    /\ req  = [r \in Requests |-> [pc |-> "new", exec |-> NoExec]]
    /\ can  = [c \in Cancels |-> [pc |-> "new", exec |-> NoExec]]
    /\ thr  = [Idle EXCEPT !.phase = "closed"]
    /\ wf   = [e \in Execs |-> [phase |-> "none", n |-> 1, round |-> 1, cancel |-> "no",
                                out |-> "none", by |-> 1, spoke |-> FALSE,
                                failed |-> FALSE, gaveUp |-> FALSE]]
    /\ att  = [e \in Execs |-> [a \in Activities |-> [n \in AttemptIds |-> "idle"]]]
    /\ scene \in Scenes
    /\ used = [f \in Faults |-> 0]

Seen(e) == {obs[e][n] : n \in AttemptIds} \ {"none"}

Use(fault) == used[fault] < scene.faults[fault] /\ used' = [used EXCEPT ![fault] = @ + 1]

------------------------------------------------------------------------------
(* The thread workflow's mailbox: signal-with-start.                          *)

(* The thread workflow after a signal: opened anew when it was closed. *)
Signalled == IF thr.phase = "closed" THEN [Idle EXCEPT !.wake = TRUE]
             ELSE [thr EXCEPT !.wake = TRUE]

------------------------------------------------------------------------------
(* Intake.                                                                    *)

KeyHolders(r) == {e \in Execs : Key[e] = Key[r] /\ row[e].status # "absent"}

(* The answer to call r when e already holds its client request id. *)
Existing(r, e) ==
    IF InputHash[e] # InputHash[r]      THEN [pc |-> "conflict", exec |-> NoExec]
    ELSE IF row[e].status = "queued"    THEN [pc |-> "accepted", exec |-> e]
    ELSE                                     [pc |-> "answered", exec |-> e]

(* The two reads of the intake transaction: the client request id, then the   *)
(* active turn.  READ COMMITTED holds neither until the insert.               *)
PostCheck(r) ==
    /\ r \in scene.requests /\ req[r].pc = "new"
    /\ req' = [req EXCEPT ![r] =
         IF KeyHolders(r) # {} THEN Existing(r, CHOOSE e \in KeyHolders(r) : TRUE)
         ELSE IF \E e \in Execs : row[e].status \in Live THEN [pc |-> "busy", exec |-> NoExec]
         ELSE [pc |-> "checked", exec |-> NoExec]]
    /\ UNCHANGED <<row, obs, can, thr, wf, att, used>>

(* A faulty form: the insert that does not mind the unique client request id. *)
PostInsertBlindly(r) ==
    /\ req[r].pc = "checked"
    /\ row[r].status = "absent"
    /\ row' = [row EXCEPT ![r] = Queued]
    /\ req' = [req EXCEPT ![r] = [pc |-> "accepted", exec |-> r]]
    /\ UNCHANGED <<obs, can, thr, wf, att, used>>

(* The insert; a unique violation answers with the row that won. *)
PostInsert(r) ==
    /\ req[r].pc = "checked"
    /\ row[r].status = "absent"
    /\ IF KeyHolders(r) = {}
       THEN /\ row' = [row EXCEPT ![r] = Queued]
            /\ req' = [req EXCEPT ![r] = [pc |-> "accepted", exec |-> r]]
       ELSE /\ req' = [req EXCEPT ![r] = Existing(r, CHOOSE e \in KeyHolders(r) : TRUE)]
            /\ UNCHANGED row
    /\ UNCHANGED <<obs, can, thr, wf, att, used>>

PostSignal(r) ==
    /\ req[r].pc = "accepted"
    /\ thr' = Signalled
    /\ req' = [req EXCEPT ![r].pc = "answered"]
    /\ UNCHANGED <<row, obs, can, wf, att, used>>

(* The API process dies, or Temporal refuses, before the signal. *)
PostLost(r) ==
    /\ req[r].pc = "accepted"
    /\ req' = [req EXCEPT ![r].pc = "lost"]
    /\ UNCHANGED <<row, obs, can, thr, wf, att, used>>

------------------------------------------------------------------------------
(* Cancel: the ledger first, then Temporal, whose NOT_FOUND is an error.      *)

Open(e) == wf[e].phase \notin {"none", "closed"}

CancelClose(c, e) ==
    /\ c \in scene.cancels /\ can[c].pc = "new"
    /\ row[e].status # "absent"
    /\ row' = IF MayCancel(row[e], Seen(e)) THEN [row EXCEPT ![e] = Cancel(@)] ELSE row
    /\ can' = [can EXCEPT ![c] = [pc |-> "closed", exec |-> e]]
    /\ UNCHANGED <<obs, req, thr, wf, att, used>>

CancelDispatch(c) ==
    /\ can[c].pc = "closed"
    /\ LET e == can[c].exec IN
         IF Open(e)
         THEN /\ wf'  = IF wf[e].cancel = "no" THEN [wf EXCEPT ![e].cancel = "requested"] ELSE wf
              /\ can' = [can EXCEPT ![c].pc = "answered"]
         ELSE can' = [can EXCEPT ![c].pc = "error"] /\ UNCHANGED wf
    /\ UNCHANGED <<row, obs, req, thr, att, used>>

CancelLost(c) ==
    /\ can[c].pc = "closed"
    /\ can' = [can EXCEPT ![c].pc = "error"]
    /\ UNCHANGED <<row, obs, req, thr, wf, att, used>>

------------------------------------------------------------------------------
(* ChatThreadWorkflow.                                                        *)

ThreadWake ==
    /\ thr.phase = "waiting" /\ thr.wake
    /\ thr' = [thr EXCEPT !.phase = "asking", !.wake = FALSE, !.failed = NoExec]
    /\ UNCHANGED <<row, obs, req, can, wf, att, used>>

(* Idle for 120 seconds. *)
ThreadIdle ==
    /\ thr.phase = "waiting" /\ ~thr.wake
    /\ thr' = [thr EXCEPT !.phase = "closed"]
    /\ UNCHANGED <<row, obs, req, can, wf, att, used>>

QueuedExecs == {e \in Execs : row[e].status = "queued"}

(* Two queued rows come from two racing POSTs, so the order of their times     *)
(* says nothing of the order of their inserts.                                 *)
Oldest == {e \in QueuedExecs : \A f \in QueuedExecs : Created[e] <= Created[f]}

(* getNextChatExecution reads the head of the queue; by the time the workflow  *)
(* is told, the queue may have moved.                                          *)
ThreadAsk ==
    /\ thr.phase = "asking"
    /\ \E e \in IF QueuedExecs = {} THEN {NoExec} ELSE Oldest :
         thr' = [thr EXCEPT !.phase = "told", !.cur = e]
    /\ UNCHANGED <<row, obs, req, can, wf, att, used>>

(* A faulty form: the wake flag is lowered after the drain, not before it. *)
ThreadDrainedLowersWake ==
    /\ thr.phase = "told"
    /\ thr.cur \in {NoExec, thr.failed}
    /\ thr' = [thr EXCEPT !.phase = "waiting", !.wake = FALSE]
    /\ UNCHANGED <<row, obs, req, can, wf, att, used>>

(* Nothing is left, or only the turn that has just failed. *)
ThreadDrained ==
    /\ thr.phase = "told"
    /\ thr.cur \in {NoExec, thr.failed}
    /\ thr' = [thr EXCEPT !.phase = "waiting"]
    /\ UNCHANGED <<row, obs, req, can, wf, att, used>>

(* The child workflow, under REJECT_DUPLICATE: an execution that has, or had,  *)
(* a workflow counts as failed.                                                *)
ThreadStart ==
    /\ thr.phase = "told"
    /\ thr.cur \notin {NoExec, thr.failed}
    /\ LET e == thr.cur IN
         IF wf[e].phase = "none"
         THEN /\ wf'  = [wf EXCEPT ![e].phase = "prepare"]
              /\ att' = [att EXCEPT ![e]["prepare"][1] = "scheduled"]
              /\ thr' = [thr EXCEPT !.phase = "running"]
         ELSE /\ thr' = [thr EXCEPT !.phase = "asking", !.failed = e]
              /\ UNCHANGED <<wf, att>>
    /\ UNCHANGED <<row, obs, req, can, used>>

(* What the thread does once its child ended: a failed child is remembered, a  *)
(* hundred completed ones continue the thread as a new run, whose wake flag is *)
(* down.                                                                       *)
AfterChild ==
    IF wf[thr.cur].failed            THEN [thr EXCEPT !.phase = "asking", !.failed = thr.cur]
    ELSE IF thr.served + 1 >= MaxChildren THEN Idle
    ELSE [thr EXCEPT !.phase = "asking", !.failed = NoExec, !.served = @ + 1]

(* A faulty form: the thread goes on as soon as the turn's row is closed. *)
ThreadChildClosedRow ==
    /\ thr.phase = "running"
    /\ row[thr.cur].status \in Terminal
    /\ thr' = AfterChild
    /\ UNCHANGED <<row, obs, req, can, wf, att, used>>

ThreadChild ==
    /\ thr.phase = "running"
    /\ wf[thr.cur].phase = "closed"
    /\ thr' = AfterChild
    /\ UNCHANGED <<row, obs, req, can, wf, att, used>>

------------------------------------------------------------------------------
(* ChatExecutionWorkflow: which activity follows which.                       *)

Current(e, a, n) == wf[e].phase = a /\ wf[e].n = n

(* The workflow of e, left with record w and attempts slots, goes on to next. *)
Enter(e, slots, w, next) ==
    /\ wf'  = [wf EXCEPT ![e] = [w EXCEPT !.phase = next, !.n = 1]]
    /\ att' = [att EXCEPT ![e] = IF next \in Activities
                                 THEN [slots EXCEPT ![next][1] = "scheduled"] ELSE slots]

(* Attempt n of a ends; only the report of the current attempt counts. *)
Report(e, a, n, w, next) ==
    LET slots == [att[e] EXCEPT ![a][n] = "idle"] IN
    IF Current(e, a, n) THEN Enter(e, slots, w, next)
    ELSE att' = [att EXCEPT ![e] = slots] /\ UNCHANGED wf

Step(e, a, n, from, to) ==
    /\ att[e][a][n] = from
    /\ att' = [att EXCEPT ![e][a][n] = to]

(* The attempt is not retried: the policy is exhausted, or the activity was    *)
(* asked to cancel.                                                            *)
LastTry(e, a, n) ==
    n + 1 \notin AttemptIds \/ (a = "generate" /\ wf[e].cancel = "delivered")

(* A stage that failed for good ends in fail; fail itself ends the workflow.   *)
(* A cancel that was waiting on a shielded finalize is used up.                *)
Broken(e, a) ==
    [wf[e] EXCEPT !.failed = TRUE, !.gaveUp = (a = "fail"),
                  !.cancel = IF a = "finalize" /\ @ = "requested" THEN "delivered" ELSE @]

(* A faulty form: an error of the generate stage is not written down. *)
AfterErrorUnclosed(a) == IF a \in {"generate", "fail"} THEN "closed" ELSE "fail"

AfterError(a) == IF a = "fail" THEN "closed" ELSE "fail"

(* Attempt n of a raised an error Temporal may retry. *)
Raise(e, a, n) ==
    IF LastTry(e, a, n) \/ ~Current(e, a, n)
    THEN Report(e, a, n, Broken(e, a), AfterError(a))
    ELSE /\ wf'  = [wf EXCEPT ![e].n = n + 1]
         /\ att' = [att EXCEPT ![e][a] = [@ EXCEPT ![n] = "idle", ![n + 1] = "scheduled"]]

(* Cancellation reaches the workflow: prepare is abandoned and fails the turn, *)
(* the wait for the thread just ends, generate is asked to stop and waited     *)
(* for, finalize is shielded, fail is abandoned.                               *)
DeliverCancel(e) ==
    /\ wf[e].cancel = "requested"
    /\ LET w == [wf[e] EXCEPT !.cancel = "delivered"] IN
         \/ wf[e].phase = "prepare"  /\ Enter(e, att[e], [w EXCEPT !.failed = TRUE], "fail")
         \/ wf[e].phase = "busy"     /\ Enter(e, att[e], [w EXCEPT !.failed = TRUE], "closed")
         \/ wf[e].phase = "generate" /\ wf' = [wf EXCEPT ![e] = w] /\ UNCHANGED att
         \/ /\ wf[e].phase = "fail"
            /\ Enter(e, att[e], [w EXCEPT !.gaveUp = TRUE], "closed")
    /\ UNCHANGED <<row, obs, req, can, thr, used>>

(* The current attempt is lost: worker crash, timeout, or an answer that came  *)
(* out blank.  It may still be running.                                        *)
LoseAttempt(e) ==
    /\ wf[e].phase \in Activities
    /\ Use("lost")
    /\ LET a == wf[e].phase
           n == wf[e].n
       IN  IF LastTry(e, a, n) THEN Enter(e, att[e], Broken(e, a), AfterError(a))
           ELSE /\ wf'  = [wf EXCEPT ![e].n = n + 1]
                /\ att' = [att EXCEPT ![e][a][n + 1] = "scheduled"]
    /\ UNCHANGED <<row, obs, req, can, thr>>

(* asyncio.sleep(60) between two prepare rounds. *)
BusyWake(e) ==
    /\ wf[e].phase = "busy"
    /\ Enter(e, att[e], [wf[e] EXCEPT !.round = @ + 1], "prepare")
    /\ UNCHANGED <<row, obs, req, can, thr, used>>

------------------------------------------------------------------------------
(* prepare.                                                                   *)

(* The partial unique index: one running row per thread. *)
Seat == \A e \in Execs : row[e].status # "running"

ReportBusy(e, n) ==
    IF wf[e].round < MaxRounds THEN Report(e, "prepare", n, wf[e], "busy")
    ELSE Report(e, "prepare", n, Broken(e, "prepare"), AfterError("prepare"))

(* A turn that does not run (any more) fails for good. *)
ReportPrepared(e, n) ==
    IF row[e].status = "running" THEN Report(e, "prepare", n, wf[e], "generate")
    ELSE Report(e, "prepare", n, Broken(e, "prepare"), AfterError("prepare"))

(* The read, and the claim of a queued row. *)
PrepareClaim(e, n) ==
    /\ att[e]["prepare"][n] = "scheduled"
    /\ \/ /\ row[e].status = "queued" /\ Seat
          /\ Step(e, "prepare", n, "scheduled", "claimed")
          /\ row' = [row EXCEPT ![e] = Claim(@)]
          /\ UNCHANGED wf
       \/ /\ row[e].status = "queued" /\ ~Seat
          /\ Step(e, "prepare", n, "scheduled", "blocked")
          /\ UNCHANGED <<row, wf>>
       \/ /\ row[e].status # "queued"
          /\ ReportPrepared(e, n)
          /\ UNCHANGED row
    /\ UNCHANGED <<obs, req, can, thr, used>>

(* The thread is taken: rows whose lease ran out give the seat back. *)
PrepareRecover(e, n) ==
    /\ att[e]["prepare"][n] = "blocked"
    /\ row' = [f \in Execs |-> Recover(row[f])]
    /\ IF \E f \in Execs : MayRecover(row[f])
       THEN Step(e, "prepare", n, "blocked", "recovered") /\ UNCHANGED wf
       ELSE ReportBusy(e, n)
    /\ UNCHANGED <<obs, req, can, thr, used>>

PrepareReclaim(e, n) ==
    /\ att[e]["prepare"][n] = "recovered"
    /\ IF row[e].status = "queued" /\ Seat
       THEN Step(e, "prepare", n, "recovered", "claimed") /\ row' = [row EXCEPT ![e] = Claim(@)] /\ UNCHANGED wf
       ELSE ReportBusy(e, n) /\ UNCHANGED row
    /\ UNCHANGED <<obs, req, can, thr, used>>

(* The second read, of a row that was queued. *)
PrepareReturn(e, n) ==
    /\ att[e]["prepare"][n] = "claimed"
    /\ ReportPrepared(e, n)
    /\ UNCHANGED <<row, obs, req, can, thr, used>>

------------------------------------------------------------------------------
(* generate.                                                                  *)

(* The envelope, then begin_attempt: a refusal is an error Temporal retries. *)
GenerateBegin(e, n) ==
    /\ att[e]["generate"][n] = "scheduled"
    /\ IF MayBegin(row[e], n)
       THEN /\ Step(e, "generate", n, "scheduled", "model")
            /\ row' = [row EXCEPT ![e] = BeginAttempt(@, n)]
            /\ UNCHANGED wf
       ELSE Raise(e, "generate", n) /\ UNCHANGED row
    /\ UNCHANGED <<obs, req, can, thr, used>>

(* A cancel that finds the attempt before the graph started. *)
GenerateCanceled(e, n) ==
    /\ Current(e, "generate", n)
    /\ att[e]["generate"][n] = "scheduled"
    /\ wf[e].cancel = "delivered"
    /\ Report(e, "generate", n, Broken(e, "generate"), AfterError("generate"))
    /\ UNCHANGED <<row, obs, req, can, thr, used>>

InModel(e, n) == att[e]["generate"][n] \in {"model", "spoke"}

(* A draft goes out: stored, or refused because the row moved on. *)
Draft(e, n) ==
    /\ InModel(e, n)
    /\ MayCheckpoint(row[e], n)
    /\ row' = [row EXCEPT ![e] = Checkpoint(@, n)]
    /\ UNCHANGED <<obs, req, can, thr, wf, att, used>>

(* The model ends one of its turns: its text is in the attempt's trajectory. *)
Speak(e, n) ==
    /\ Step(e, "generate", n, "model", "spoke")
    /\ UNCHANGED <<row, obs, req, can, thr, wf, used>>

(* A refused draft of a closed row makes the next push raise                  *)
(* ChatExecutionClosed, which is recorded as a failed run and not retried.    *)
DraftClosed(e, n) ==
    /\ InModel(e, n)
    /\ row[e].status \in Terminal
    /\ obs' = [obs EXCEPT ![e][n] = "failed"]
    /\ wf'  = IF Current(e, "generate", n)
              THEN [wf EXCEPT ![e].spoke = (att[e]["generate"][n] = "spoke")] ELSE wf
    /\ att' = [att EXCEPT ![e]["generate"][n] = "final"]
    /\ UNCHANGED <<row, req, can, thr, used>>

(* The run failed: the observation is committed before the error is raised. *)
GenerateFail(e, n) ==
    /\ InModel(e, n)
    /\ Use("errors")
    /\ obs' = [obs EXCEPT ![e][n] = "failed"]
    /\ \E kind \in {"retryable", "final"} : att' = [att EXCEPT ![e]["generate"][n] = kind]
    /\ UNCHANGED <<row, req, can, thr, wf>>

GenerateRaise(e, n) ==
    /\ \/ att[e]["generate"][n] = "retryable" /\ Raise(e, "generate", n)
       \/ /\ att[e]["generate"][n] = "final"
          /\ Report(e, "generate", n, Broken(e, "generate"), AfterError("generate"))
    /\ UNCHANGED <<row, obs, req, can, thr, used>>

(* An answer, or what a cancelled run had written by then. *)
GenerateReturn(e, n, out) ==
    /\ InModel(e, n)
    /\ out \in {"partial", "blank"} => wf[e].cancel = "delivered"
    /\ (out = "blank") <=> (att[e]["generate"][n] = "model")
    /\ Report(e, "generate", n,
              [wf[e] EXCEPT !.out = out, !.by = n, !.spoke = (out # "blank")], "finalize")
    /\ UNCHANGED <<row, obs, req, can, thr, used>>

------------------------------------------------------------------------------
(* finalize and fail.                                                         *)

(* The transition finalize asks for, given the statuses seen. *)
Settled(e, seen) ==
    IF wf[e].out = "partial"
    THEN IF MayRecordCanceled(row[e], seen) THEN RecordCanceled(row[e]) ELSE row[e]
    ELSE IF MayComplete(row[e], seen) THEN Complete(row[e]) ELSE row[e]

(* The observation and the transition, in one transaction that commits the     *)
(* observation even when the transition is refused.  A stored observation that *)
(* differs raises, and that of a streamed answer always does: the row is read  *)
(* back without ttft_ms.                                                       *)
FinalizeCommit(e, n) ==
    /\ att[e]["finalize"][n] = "scheduled"
    /\ wf[e].out # "blank"
    /\ LET status == IF wf[e].out = "partial" THEN "cancelled" ELSE "succeeded"
           stored == obs[e][wf[e].by] # "none"
       IN  IF stored /\ wf[e].out = "answer"
           THEN Raise(e, "finalize", n) /\ UNCHANGED <<row, obs>>
           ELSE /\ Step(e, "finalize", n, "scheduled", "committed")
                /\ obs' = [obs EXCEPT ![e][wf[e].by] = status]
                /\ row' = [row EXCEPT ![e] = Settled(e, Seen(e) \cup {status})]
                /\ UNCHANGED wf
    /\ UNCHANGED <<req, can, thr, used>>

(* A cancelled turn without text leaves the row as it is.  A cancel that came  *)
(* during finalize is raised after it.                                         *)
FinalizeReturn(e, n) ==
    /\ \/ att[e]["finalize"][n] = "committed"
       \/ att[e]["finalize"][n] = "scheduled" /\ wf[e].out = "blank"
    /\ Report(e, "finalize", n, [wf[e] EXCEPT !.failed = (wf[e].cancel = "requested")], "closed")
    /\ UNCHANGED <<row, obs, req, can, thr, used>>

(* fail_active; a second delivery finds a closed row and changes nothing. *)
FailClose(e, n) ==
    /\ att[e]["fail"][n] = "scheduled"
    /\ row' = IF MayFail(row[e], Seen(e)) THEN [row EXCEPT ![e] = Fail(@)] ELSE row
    /\ Report(e, "fail", n, wf[e], "closed")
    /\ UNCHANGED <<obs, req, can, thr, used>>

------------------------------------------------------------------------------
(* Time and recovery.                                                         *)

(* The lease outlives an attempt (20 against 15 minutes), so a row only goes   *)
(* stale while no current attempt is in the model.                             *)
GoStale(e) ==
    /\ row[e].status = "running" /\ ~row[e].stale
    /\ ~ (wf[e].phase = "generate" /\ InModel(e, wf[e].n))
    /\ Use("stale")
    /\ row' = [row EXCEPT ![e].stale = TRUE]
    /\ UNCHANGED <<obs, req, can, thr, wf, att>>

(* A chat worker starts: it takes stale rows back and signals every turn that  *)
(* has not ended.                                                              *)
WorkerStart ==
    /\ Use("restarts")
    /\ row' = [e \in Execs |-> Recover(row[e])]
    /\ thr' = IF \E e \in Execs : row[e].status \in Live THEN Signalled ELSE thr
    /\ UNCHANGED <<obs, req, can, wf, att>>

------------------------------------------------------------------------------
Post == \E r \in Requests : PostCheck(r) \/ PostInsert(r) \/ PostSignal(r) \/ PostLost(r)

CancelApi == \E c \in Cancels : \/ \E e \in Execs : CancelClose(c, e)
                                \/ CancelDispatch(c)
                                \/ CancelLost(c)

ThreadRun == ThreadWake \/ ThreadIdle \/ ThreadAsk \/ ThreadDrained \/ ThreadStart \/ ThreadChild

Work(e, n) ==
    \/ PrepareClaim(e, n) \/ PrepareRecover(e, n) \/ PrepareReclaim(e, n) \/ PrepareReturn(e, n)
    \/ GenerateBegin(e, n) \/ GenerateCanceled(e, n) \/ Draft(e, n) \/ Speak(e, n)
    \/ DraftClosed(e, n) \/ GenerateFail(e, n) \/ GenerateRaise(e, n)
    \/ \E out \in Outcomes \ {"none"} : GenerateReturn(e, n, out)
    \/ FinalizeCommit(e, n) \/ FinalizeReturn(e, n) \/ FailClose(e, n)

Temporal == \E e \in Execs : DeliverCancel(e) \/ LoseAttempt(e) \/ BusyWake(e)

Next ==
    /\ \/ Post \/ CancelApi \/ ThreadRun \/ Temporal
       \/ \E e \in Execs, n \in AttemptIds : Work(e, n)
       \/ \E e \in Execs : GoStale(e)
       \/ WorkerStart
    /\ UNCHANGED scene

Spec == Init /\ [][Next]_vars

(* The attempt Temporal waits for reaches its end or is lost; a thread and a   *)
(* sleeping turn go on.  Nothing is assumed of API calls or of lost attempts.  *)
WorkOnCurrent(e) ==
    \E n \in AttemptIds :
        /\ wf[e].phase \in Activities /\ wf[e].n = n
        /\ Work(e, n)
        /\ att'[e][wf[e].phase][n] # att[e][wf[e].phase][n]
        /\ UNCHANGED scene

Fairness ==
    /\ WF_vars(ThreadRun /\ UNCHANGED scene)
    /\ \A e \in Execs : /\ WF_vars(WorkOnCurrent(e))
                       /\ WF_vars(DeliverCancel(e) /\ UNCHANGED scene)
                       /\ WF_vars(BusyWake(e) /\ UNCHANGED scene)

FairSpec == Spec /\ Fairness

------------------------------------------------------------------------------
(* Type invariant: every row, workflow and attempt is of its kind, whatever    *)
(* came first.                                                                 *)
TypeOK ==
    /\ row \in [Execs -> Rows]
    /\ obs \in [Execs -> [AttemptIds -> {"none", "failed", "succeeded", "cancelled"}]]
    /\ req \in [Requests -> [pc : {"new", "checked", "accepted", "answered", "busy", "conflict", "lost"},
                             exec : Execs \cup {NoExec}]]
    /\ can \in [Cancels -> [pc : {"new", "closed", "answered", "error"}, exec : Execs \cup {NoExec}]]
    /\ thr \in Thread
    /\ wf \in [Execs -> Workflow]
    /\ att \in [Execs -> [Activities -> [AttemptIds -> Attempt]]]
    /\ scene \in Scenes
    /\ used \in [Faults -> Nat]

(* However a POST is retried and raced, one client request id has one turn,    *)
(* and an accepted call is answered with a turn of its own input (turn.py).    *)
PostOnce ==
    \A r, s \in Requests :
        LET served(q) == req[q].pc \in {"accepted", "answered", "lost"} IN
        /\ served(r) => InputHash[req[r].exec] = InputHash[r]
        /\ (served(r) /\ served(s) /\ Key[r] = Key[s]) => req[r].exec = req[s].exec

(* The turns of a thread run one after the other: no two of their workflows    *)
(* are open at once (chat_workflows.py, ChatThreadWorkflow).                    *)
OneTurnAtATime == \A e, f \in Execs : (Open(e) /\ Open(f)) => e = f

(* The draft on the screen was written by the attempt that owns the row: an    *)
(* attempt given up for lost never writes over its successor's draft.          *)
DraftIsCurrent == \A e \in Execs : row[e].draft \in {0, row[e].attempt}

(* A closed turn stays closed, and only a canceled one may still be given its  *)
(* partial answer, once.                                                       *)
ClosedTurnIsFinal ==
    [][\A e \in Execs :
         row[e].status \in Terminal =>
            /\ row'[e].status = row[e].status
            /\ row'[e].message # row[e].message => row[e].status = "canceled" /\ row'[e].message]_vars

(* What a cancelled run had written reaches the thread, also when the cancel   *)
(* closed the row first; only a row the lease took back misses it.             *)
PartialAnswerKept ==
    \A e \in Execs :
        (wf[e].phase = "closed" /\ wf[e].out = "partial" /\ ~wf[e].failed) =>
            row[e].message \/ row[e].retaken

(* The ways in which the workflow of a turn may leave its row open: fail was   *)
(* given up, the lease took the row back, or the turn was cancelled without a  *)
(* text after a failed attempt.                                                *)
LeftOpen(e) == \/ wf[e].gaveUp
               \/ row[e].retaken
               \/ wf[e].out = "blank" /\ "failed" \in Seen(e)

(* A closed workflow leaves its row closed, and these are the only ways out    *)
(* (chat_workflows.py, ChatExecutionWorkflow: records the failure to the end). *)
OrphansExplained ==
    \A e \in Execs : (wf[e].phase = "closed" /\ row[e].status \in Live) => LeftOpen(e)

(* A turn of the thread sits in front of the queue and cannot be started again *)
(* (REJECT_DUPLICATE): the lease took its row back, or its fail was given up.   *)
Stuck == \E e \in Execs : row[e].retaken \/ wf[e].gaveUp

(* A thread workflow that closes leaves no turn behind whose POST signalled    *)
(* it, but behind a stuck one (chat_workflows.py:138).                         *)
IdleMeansDrained ==
    thr.phase = "closed" /\ ~Stuck =>
        \A r \in Requests, e \in Execs :
            (req[r] = [pc |-> "answered", exec |-> e] /\ row[e].status = "queued") =>
                wf[e].phase # "none"

(* Every started turn ends, whatever attempts are lost, errors raised and      *)
(* cancels sent, with the same ways out.                                       *)
StartedTurnEnds ==
    \A e \in Execs :
        Open(e) ~> (row[e].status \in Terminal \/ (wf[e].phase = "closed" /\ LeftOpen(e)))

(* A turn whose POST was answered is run or closed, unless one is stuck. *)
AcceptedTurnStarts ==
    \A r \in Requests, e \in Execs :
        (req[r] = [pc |-> "answered", exec |-> e]) ~>
            (wf[e].phase # "none" \/ row[e].status \in Terminal \/ Stuck)

(* cancel.py:32: a cancel closes the turn in progress.  A cancel that was       *)
(* answered leaves no active row behind, once the workflow is closed and no    *)
(* attempt of it is left.                                                      *)
CanceledTurnCloses ==
    \A c \in Cancels, e \in Execs :
        /\ can[c] = [pc |-> "answered", exec |-> e]
        /\ wf[e].phase = "closed"
        /\ \A a \in Activities, n \in AttemptIds : att[e][a][n] = "idle"
        => row[e].status \in Terminal

(* chat_activities.py:135: a canceled turn keeps what the model had written by *)
(* then.                                                                       *)
CanceledAnswerKept ==
    \A e \in Execs :
        (wf[e].phase = "closed" /\ row[e].status = "canceled" /\ wf[e].spoke) => row[e].message
==============================================================================
