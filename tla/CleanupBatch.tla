------------------------------ MODULE CleanupBatch ------------------------------
(* Which tasks a cleanup considers, from the tasks the tracer lists.  A task is  *)
(* [id, origin, title, begun, active, idle, children]: whether it has events,    *)
(* whether its status is one of work under way, the time since it last did       *)
(* anything, and its children still at work.  The batch is made once, when the   *)
(* job is prepared, and all attempts see the same one.                           *)
EXTENDS BudgetShares, SequencesExt

CONSTANTS
    ScanLimit,      \* listed tasks that are looked at
    ListLimit,      \* candidates shown to the triage
    RecentActivity, \* a task idle for less is left alone
    StaleAfter      \* a task under way and idle for longer is stale

\* Of the tasks at these places of the list, in its order.
Foremost(n, places) == {i \in places : Cardinality({j \in places : j < i}) < n}

\* The limit is on what is listed, before the server's own tasks are left out.
Scanned(tasks) ==
    {i \in Foremost(ScanLimit, DOMAIN tasks) : tasks[i].origin # "server-sdk"}

\* Titles are compared without case and outer spaces.
Reasons(i, tasks, scan) ==
    {reason \in {"no_events", "duplicate_title", "placeholder_title", "stale"} :
        CASE reason = "no_events" -> ~tasks[i].begun
          [] reason = "duplicate_title" -> \E j \in scan \ {i} : tasks[i].title = tasks[j].title
          [] reason = "placeholder_title" -> tasks[i].title = "placeholder"
          [] reason = "stale" -> tasks[i].active /\ tasks[i].idle >= StaleAfter}

\* The children of the tasks that qualify are asked for one by one.
Qualifies(i, tasks, scan) ==
    /\ tasks[i].idle >= RecentActivity
    /\ Reasons(i, tasks, scan) # {}
    /\ tasks[i].children = 0

Qualifying(tasks) ==
    LET scan == Scanned(tasks)
    IN  {i \in scan : Qualifies(i, tasks, scan)}

Batch(tasks) == {tasks[i] : i \in Qualifying(tasks)}

Listed(tasks) == {tasks[i] : i \in Foremost(ListLimit, Qualifying(tasks))}

Ids(tasks) == {task.id : task \in tasks}

Begun(tasks) == Ids({task \in tasks : task.begun})
=================================================================================
