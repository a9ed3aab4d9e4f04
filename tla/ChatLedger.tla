------------------------------ MODULE ChatLedger -----------------------------
(* One row of chat_executions and the conditional UPDATEs that move it        *)
(* (shared/agents/chat/execution_ledger.py).  Four of them also read the      *)
(* statuses of the execution's rows in agent_run_observations: the set seen.  *)
EXTENDS Naturals

Live     == {"queued", "running"}
Terminal == {"completed", "failed", "canceled"}
Statuses == {"absent"} \cup Live \cup Terminal

(* started: started_at is set.  attempt: the generate attempt that owns the    *)
(* row.  draft: the attempt whose text draft_text holds, 0 for none.  message: *)
(* assistant_message_id is set, and the message exists.  stale: updated_at is  *)
(* older than the 20-minute lease.  retaken, history: the lease has taken the  *)
(* row back to the queue.                                                     *)
Rows  == [status : Statuses, started : BOOLEAN, attempt : Nat, draft : Nat,
          message : BOOLEAN, stale : BOOLEAN, retaken : BOOLEAN]
NoRow == [status |-> "absent", started |-> FALSE, attempt |-> 0, draft |-> 0,
          message |-> FALSE, stale |-> FALSE, retaken |-> FALSE]

Queued == [NoRow EXCEPT !.status = "queued"]

Touch(row, status) == [row EXCEPT !.status = status, !.stale = FALSE]

(* The row's observations allow an end of this kind, or say nothing. *)
Agrees(seen, status) == seen = {} \/ status \in seen

MayRecover(row) == row.status = "running" /\ row.stale
Recover(row)    == IF MayRecover(row) THEN [Touch(row, "queued") EXCEPT !.started = FALSE, !.retaken = TRUE]
                   ELSE row

Claim(row) == [Touch(row, "running") EXCEPT !.started = TRUE]

MayBegin(row, n)     == row.status = "running" /\ row.attempt <= n
BeginAttempt(row, n) == [Touch(row, "running") EXCEPT !.attempt = n, !.draft = 0]

(* A faulty form: a checkpoint that only asks whether the turn still runs. *)
MayCheckpointAny(row, n) == row.status = "running"

MayCheckpoint(row, n) == row.status = "running" /\ row.attempt = n
Checkpoint(row, n)    == [Touch(row, "running") EXCEPT !.draft = n]

(* A faulty form: completion without the status condition. *)
MayCompleteAny(row, seen) == Agrees(seen, "succeeded")

MayComplete(row, seen) == row.status = "running" /\ Agrees(seen, "succeeded")
Complete(row)          == [Touch(row, "completed") EXCEPT !.message = TRUE]

(* A faulty form: an outcome is only taken while the turn still runs. *)
MayRecordRunning(row, seen) ==
    ~row.message /\ row.status = "running" /\ "cancelled" \in seen

MayRecordCanceled(row, seen) ==
    /\ ~row.message
    /\ row.status = "canceled" \/ (row.status = "running" /\ "cancelled" \in seen)
RecordCanceled(row) == [Touch(row, "canceled") EXCEPT !.message = TRUE]

MayFail(row, seen) ==
    row.status = "queued" \/ (row.status = "running" /\ Agrees(seen, "failed"))
Fail(row) == Touch(row, "failed")

MayCancel(row, seen) ==
    row.status = "queued" \/ (row.status = "running" /\ Agrees(seen, "cancelled"))

(* A faulty form: the status as agent_run_observations spells it. *)
CancelAsObserved(row) == Touch(row, "cancelled")

Cancel(row) == Touch(row, "canceled")
==============================================================================
