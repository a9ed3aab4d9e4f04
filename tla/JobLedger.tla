------------------------------ MODULE JobLedger ------------------------------
(* One row of ai_jobs and the conditional UPDATEs that are the only way it    *)
(* moves (shared/workflows/jobs_ledger.py).  Each operator maps the row a     *)
(* statement finds to the row it leaves; Live(row) is the WHERE clause whose  *)
(* failure the Python methods return as False.                                *)
EXTENDS Naturals

LiveStatuses == {"pending", "running"}
Terminal     == {"completed", "failed", "canceled"}
Statuses     == {"absent"} \cup LiveStatuses \cup Terminal

(* usage: whether the row carries what a run spent (model, tokens, cost). *)
Rows  == [status : Statuses, attempts : Nat, usage : BOOLEAN]
NoRow == [status |-> "absent", attempts |-> 0, usage |-> FALSE]

Live(row) == row.status \in LiveStatuses

Pending == [NoRow EXCEPT !.status = "pending"]

(* A faulty form: the WHERE clause without its status condition. *)
MarkRunningAnyStatus(row) ==
    [row EXCEPT !.status = "running", !.attempts = @ + 1]

MarkRunning(row) ==
    IF Live(row) THEN [row EXCEPT !.status = "running", !.attempts = @ + 1] ELSE row

(* A faulty form: the UPDATE keyed by id alone. *)
SettleAnyStatus(row, status, usage) ==
    [row EXCEPT !.status = status, !.usage = usage]

Settle(row, status, usage) ==
    IF Live(row) THEN [row EXCEPT !.status = status, !.usage = usage] ELSE row

(* A faulty form: the error subtype "cancelled" written as the status. *)
CancelWithSubtype(row) ==
    IF Live(row) THEN [row EXCEPT !.status = "cancelled"] ELSE row

Cancel(row) ==
    IF Live(row) THEN [row EXCEPT !.status = "canceled"] ELSE row
==============================================================================
