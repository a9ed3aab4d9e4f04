------------------------------- MODULE AgentTools -------------------------------
(* What the tools of the job agents find, and what of it a call may cite.        *)
(*                                                                              *)
(* A ledger is what the tracer holds for the user: events and their tasks, the   *)
(* turns some events belong to, rules and their review states, recipes and       *)
(* whether they have a revision.  What a tool returns is recorded as evidence:   *)
(* <<"event", e>>, <<"turn", t>>, <<"rule", r>>, <<"recipe", r>>, and for a      *)
(* cleanup <<"page", task>> once a page of the task's events was read.  Each     *)
(* operator is the set of what one call may record.                              *)
EXTENDS CleanupBatch

\* A task of somebody else is not found, a refused or failed call tells the model so.
Nothing == {{}}

Item(kind, ids) == {<<kind, id>> : id \in ids}

EventsOf(ledger, task) == {e \in DOMAIN ledger.tasks : ledger.tasks[e] = task}

TurnsOf(ledger, events) == {ledger.turns[e] : e \in events \cap DOMAIN ledger.turns}

---------------------------------------------------------------------------------
(* Tools of a recipe scan.                                                       *)

\* A summary names no event.
GetTaskSummary(ledger) == Nothing

\* A page of any task of the user's, with the turns of its events.
GetTaskEvents(ledger) ==
    UNION {{Item("event", page) \cup Item("turn", TurnsOf(ledger, page)) :
              page \in SUBSET EventsOf(ledger, task)} : task \in Range(ledger.tasks)}

\* Hits may be of several tasks and do not carry their turns.
SearchEvents(ledger) == {Item("event", hits) : hits \in SUBSET DOMAIN ledger.tasks}

\* Rules that wait for review are not shown.
ListRules(ledger) ==
    Nothing \cup {Item("rule", {r \in DOMAIN ledger.rules : ledger.rules[r] = "active"})}

\* A recipe without a revision is shown but cannot be revised.
SearchRecipes(ledger) ==
    {Item("recipe", {r \in hits : ledger.revised[r]}) : hits \in SUBSET DOMAIN ledger.revised}

\* Names of tasks are not evidence.
FindSimilarTasks(ledger) == Nothing

Specialists == {"timeline", "rules", "repetition"}

\* A specialist has the tools of its own source only.
ProbeFinds(probe, ledger) ==
    CASE probe = "timeline" ->
           GetTaskSummary(ledger) \cup GetTaskEvents(ledger) \cup SearchEvents(ledger)
      [] probe = "rules" -> ListRules(ledger) \cup SearchRecipes(ledger)
      [] probe = "repetition" -> SearchEvents(ledger) \cup FindSimilarTasks(ledger)

---------------------------------------------------------------------------------
(* Tools of the other jobs.                                                      *)

\* Any task of the batch, whichever is inspected; a page may be empty.
GetBatchEvents(batch, ledger) ==
    Nothing \cup UNION {{{<<"page", task>>} \cup Item("event", page) :
                           page \in SUBSET EventsOf(ledger, task)} : task \in Ids(batch)}

\* A title cites nothing.
GetTitleEvents(ledger) == Nothing

Finds(r, node, slot) ==
    CASE r.kind = "recipe" /\ node = "probe" -> ProbeFinds(slot, r.ledger)
      [] r.kind = "recipe" /\ node # "probe" -> GetTaskSummary(r.ledger)
      [] r.kind = "cleanup" -> GetBatchEvents(Batch(r.scan), r.ledger)
      [] r.kind = "title" -> GetTitleEvents(r.ledger)
=================================================================================
