--------------------------- MODULE CleanupSuggestions ---------------------------
(* Suggestions to archive one task: written by scans, accepted or dismissed by   *)
(* calls, each of several steps (cleanup/service.py, store.py, archiver.py,      *)
(* worker/agents/task_cleanup/outputs.py).  The task and its archive belong to   *)
(* the tracer, which archives it unless something happened since the time the    *)
(* call names.                                                                   *)
EXTENDS Naturals, FiniteSets

CONSTANTS
    Suggestions,    \* rows a scan may insert
    Callers,        \* calls that accept or dismiss
    Scans,
    MaxEvents       \* bound: events of the task

VARIABLES
    suggestion,     \* task_cleanup_suggestions: status and observed_last_event_at
    task,           \* the tracer's task: its last event, and whether it is archived
    call,           \* the calls
    scan            \* the scans that write their suggestion

cleanupVars == <<suggestion, task, call, scan>>

CleanupInit ==
    /\ suggestion = [s \in Suggestions |-> [status |-> "absent", observed |-> 0]]
    /\ task = [last |-> 0, archived |-> FALSE]
    /\ call = [a \in Callers |-> [pc |-> "new", on |-> {}, since |-> 0]]
    /\ scan = [x \in Scans |-> [pc |-> "new", observed |-> 0, standing |-> {}]]

PendingRows == {s \in Suggestions : suggestion[s].status = "pending"}

Step(a, pc) == call' = [call EXCEPT ![a].pc = pc]

\* A new event of the task.
Event ==
    /\ task.last < MaxEvents
    /\ task' = [task EXCEPT !.last = @ + 1]
    /\ UNCHANGED <<suggestion, call, scan>>

------------------------------------------------------------------------------
\* The scan asks the tracer for the last event, outside its transaction.
Observe(x) ==
    /\ scan[x].pc = "new"
    /\ scan' = [scan EXCEPT ![x].pc = "observed", ![x].observed = task.last]
    /\ UNCHANGED <<suggestion, task, call>>

FindStanding(x) ==
    /\ scan[x].pc = "observed"
    /\ scan' = [scan EXCEPT ![x].pc = "writing", ![x].standing = PendingRows]
    /\ UNCHANGED <<suggestion, task, call>>

\* The row the scan found gets a new reason and time, whatever became of it.
RefreshPending(x) ==
    suggestion' = [s \in Suggestions |-> IF s \in scan[x].standing
                      THEN [suggestion[s] EXCEPT !.observed = scan[x].observed]
                      ELSE suggestion[s]]

\* A second pending row of the task is refused, and with it all the scan would have
\* written.
InsertSuggestion(x) ==
    IF PendingRows = {}
    THEN \E s \in Suggestions :
            /\ suggestion[s].status = "absent"
            /\ suggestion' = [suggestion EXCEPT ![s] = [status |-> "pending",
                                                        observed |-> scan[x].observed]]
    ELSE UNCHANGED suggestion

WriteOne(x) ==
    /\ scan[x].pc = "writing"
    /\ \/ scan[x].standing # {} /\ RefreshPending(x)
       \/ scan[x].standing = {} /\ InsertSuggestion(x)
    /\ scan' = [scan EXCEPT ![x].pc = "done"]
    /\ UNCHANGED <<task, call>>

------------------------------------------------------------------------------
\* owned_suggestion, and what the row's status lets the call do.
AcceptCleanup(a, s) ==
    /\ call[a].pc = "new"
    /\ call' = [call EXCEPT ![a] =
         [on |-> {s}, since |-> suggestion[s].observed,
          pc |-> CASE suggestion[s].status = "accepted" -> "again"
                   [] suggestion[s].status = "pending"  -> "accepting"
                   [] OTHER                             -> "refused"]]
    /\ UNCHANGED <<suggestion, task, scan>>

DismissCleanup(a, s) ==
    /\ call[a].pc = "new"
    /\ call' = [call EXCEPT ![a] =
         [on |-> {s}, since |-> suggestion[s].observed,
          pc |-> IF suggestion[s].status = "pending" THEN "dismissing" ELSE "refused"]]
    /\ UNCHANGED <<suggestion, task, scan>>

Becomes(a, status) ==
    suggestion' = [s \in Suggestions |-> IF s \in call[a].on
                      THEN [suggestion[s] EXCEPT !.status = status] ELSE suggestion[s]]

\* The resolution is written over whatever status the row has by now.
SaveAcceptance(a) ==
    /\ call[a].pc = "accepting"
    /\ Becomes(a, "accepted")
    /\ Step(a, "archiving")
    /\ UNCHANGED <<task, scan>>

SaveDismissal(a) ==
    /\ call[a].pc = "dismissing"
    /\ Becomes(a, "dismissed")
    /\ Step(a, "answered")
    /\ UNCHANGED <<task, scan>>

\* A faulty form: silence of the tracer is taken for an archive.
ArchiveHopeful(a) ==
    /\ call[a].pc \in {"archiving", "again"}
    /\ \/ /\ task.last <= call[a].since
          /\ task' = [task EXCEPT !.archived = TRUE]
          /\ Step(a, "answered")
       \/ UNCHANGED task /\ Step(a, "answered")
    /\ UNCHANGED <<suggestion, scan>>

\* The tracer archives and answers, archives and is not heard, or does not archive.
Archive(a) ==
    /\ call[a].pc \in {"archiving", "again"}
    /\ LET failed == IF call[a].pc = "archiving" THEN "reverting" ELSE "refused"
       IN  \/ /\ task.last <= call[a].since
              /\ task' = [task EXCEPT !.archived = TRUE]
              /\ Step(a, "answered") \/ Step(a, failed)
           \/ UNCHANGED task /\ Step(a, failed)
    /\ UNCHANGED <<suggestion, scan>>

\* Only one row of the task may be pending: the revert fails when a scan has
\* written another meanwhile, and the row stays accepted.
Revert(a) ==
    /\ call[a].pc = "reverting"
    /\ IF PendingRows \subseteq call[a].on
       THEN Becomes(a, "pending") /\ Step(a, "refused")
       ELSE UNCHANGED suggestion /\ Step(a, "stuck")
    /\ UNCHANGED <<task, scan>>

\* The process dies with the acceptance written and the archive not asked for.
CallLost(a) ==
    /\ call[a].pc \in {"archiving", "reverting"}
    /\ Step(a, "lost")
    /\ UNCHANGED <<suggestion, task, scan>>

CallStep(a) ==
    SaveAcceptance(a) \/ SaveDismissal(a) \/ Archive(a) \/ Revert(a) \/ CallLost(a)

ScanStep == \E x \in Scans : Observe(x) \/ FindStanding(x) \/ WriteOne(x)
=================================================================================
