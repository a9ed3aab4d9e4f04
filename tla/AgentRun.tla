-------------------------------- MODULE AgentRun --------------------------------
(* One execution of a job agent: the attempts of its activity, the supersteps of *)
(* its graph, and the model loops of the nodes that run in parallel in each.     *)
(*                                                                              *)
(* The state of the graph is saved without waiting for the save, so a crashed    *)
(* attempt is resumed from any state it had at or after its last save.           *)
EXTENDS RecipeScanGraph, TaskCleanupGraph, TitleGraph, FiniteSetsExt

CONSTANT Scenarios      \* the runs to consider, see ModelLoop's "run"

(* What an execution may spend, and what its calls may cost.                     *)
Priced(s) ==
    /\ s.limits.turns \in Nat /\ s.limits.usd \in Nat /\ s.attempts \in Nat
    /\ s.costs \subseteq Nat /\ s.costs # {} /\ IsFiniteSet(s.costs)

\* A recipe scan has its specialists to send, a cleanup names tasks.
Sendings(s) == Seq(Assignments(IF s.kind = "recipe" THEN Specialists ELSE STRING))

ASSUME ScenariosAssumption ==
    \A s \in Scenarios :
        /\ s.kind \in {"recipe", "cleanup", "title"}
        /\ Priced(s)
        /\ s.plans \subseteq Sendings(s)
        /\ s.kind # "title" => {d.redispatch : d \in s.drafts} \subseteq Sendings(s)
        /\ s.kind = "title" => IsFiniteSet(s.usable)

VARIABLES
    channels,   \* the graph state at the start of the superstep
    attempt,    \* number, phase and leases of the activity's attempt
    saved       \* the checkpoint: channels and tasks, or None

vars == <<loopVars, channels, attempt, saved>>

\* Nodes whose policy retries a transient failure.
Retried == IF run.kind = "title" THEN {} ELSE {"survey", "triage", "investigate"}

\* Nodes that may call tools before they answer.
UsesTools(node) == run.kind = "title" \/ node \in {"survey", "probe", "inspect"}

FirstNode(kind) ==
    CASE kind = "recipe" -> "survey"
      [] kind = "cleanup" -> "triage"
      [] kind = "title" -> "investigate"

NextTasks(node, ch) ==
    CASE run.kind = "recipe" -> RecipeNext(node, ch)
      [] run.kind = "cleanup" -> CleanupNext(node, ch)
      [] run.kind = "title" -> TitleNext(node, ch)

LeaseFor(t) ==
    CASE run.kind = "recipe" -> RecipeLease(t, channels, attempt.leases)
      [] run.kind = "cleanup" -> CleanupLease(t, channels, attempt.leases)
      [] run.kind = "title" -> TitleLease(t, channels, attempt.leases)

\* What a node returns without asking a model; {} when it asks one.
Unasked(k, t) ==
    CASE run.kind = "recipe" -> RecipeUnasked(k, t, channels, attempt.leases)
      [] run.kind = "cleanup" -> CleanupUnasked(k, t, channels, attempt.leases)
      [] run.kind = "title" -> TitleUnasked(t, channels, attempt.leases)

\* What a node may return when its loop has ended; {} when it raises.
Returned(k, t) ==
    CASE run.kind = "recipe" -> RecipeReturned(k, t, channels, attempt.leases)
      [] run.kind = "cleanup" -> CleanupReturned(k, t, channels, attempt.leases)
      [] run.kind = "title" -> TitleReturned(t)

---------------------------------------------------------------------------------
(* Attempts.  The limits of an execution hold for all its attempts together: an  *)
(* attempt opens with what the state it resumes says was spent.                  *)
Leases(r, prior) ==
    IF r.kind = "title" THEN TitleLeasesOf(r.limits, prior) ELSE LeasesOf(r.limits, prior)

OpenAccount(r, prior) == [max |-> r.limits.usd, spent |-> prior.cost, peak |-> 0]

\* A task before it starts.
Planned(t) == [node |-> t.node, lease |-> t.lease, tools |-> UsesTools(t.node),
               tries |-> 1, stage |-> "waiting", loop |-> None, update |-> None]

Opened(planned) == [k \in DOMAIN planned |-> Planned(planned[k])]

Init ==
    /\ run \in Scenarios
    /\ account = OpenAccount(run, NoSpend)
    /\ attempt = [number |-> 1, phase |-> "open", leases |-> Leases(run, NoSpend)]
    /\ channels = FreshChannels(attempt.leases.pool)
    /\ tasks = Opened(One(FirstNode(run.kind)))
    /\ saved = None
    /\ observed = [read |-> {}, paid |-> 0, lost |-> 0, loops |-> 0, failed |-> FALSE]

Running == attempt.phase = "open"

Return(k, u) ==
    tasks' = [tasks EXCEPT ![k].stage = "returned", ![k].loop = None, ![k].update = u]

---------------------------------------------------------------------------------
(* Running a node.                                                               *)
Waiting(k) == tasks[k].stage = "waiting"

\* Without turns, or without a question, no model is called.
PassNode(k) ==
    /\ Waiting(k)
    /\ \E u \in Unasked(k, tasks[k]) : Return(k, u)
    /\ UNCHANGED <<run, account, observed>>

OpenLoop(k) ==
    LET lease == LeaseFor(tasks[k]) IN
    /\ Waiting(k)
    /\ Unasked(k, tasks[k]) = {}
    /\ tasks' = [tasks EXCEPT ![k].stage = "running", ![k].lease = lease,
                              ![k].loop = NewLoop(lease.usd)]
    /\ observed' = [observed EXCEPT !.loops = @ + 1]
    /\ UNCHANGED <<run, account>>

Ended(k) == Looping(k) /\ tasks[k].loop.phase \in LoopEnds

Retryable(k) ==
    /\ tasks[k].loop.phase = "transient"
    /\ tasks[k].node \in Retried
    /\ tasks[k].tries < NodeTries

\* The node runs again from its start; what the failed loop cost stays on the account.
RetryNode(k) ==
    /\ Ended(k)
    /\ Retryable(k)
    /\ tasks' = [tasks EXCEPT ![k].stage = "waiting", ![k].loop = None, ![k].tries = @ + 1]
    /\ observed' = [observed EXCEPT !.lost = @ + tasks[k].loop.spent]
    /\ UNCHANGED <<run, account>>

\* A loop of a scan that ended without an output, and left no report that works.
LosesWork(l, u) ==
    run.kind = "recipe" /\ l.phase # "output" /\ \A r \in u.reports : ~r.works

\* A degraded survey writes no spending.
Unwritten(t) == IF t.node = "survey" /\ t.loop.phase # "output" THEN t.loop.spent ELSE 0

FinishNode(k) ==
    LET l == tasks[k].loop IN
    /\ Ended(k)
    /\ ~Retryable(k)
    /\ \E u \in Returned(k, tasks[k]) :
          /\ Return(k, u)
          /\ observed' = [observed EXCEPT !.lost = @ + Unwritten(tasks[k]),
                                          !.failed = @ \/ LosesWork(l, u)]
    /\ UNCHANGED <<run, account>>

NodeStep(k) ==
    /\ Running
    /\ \/ PassNode(k)
       \/ OpenLoop(k)
       \/ Ask(k)
       \/ ReachTurnLimit(k)
       \/ Answer(k)
       \/ RetryNode(k)
       \/ FinishNode(k)
    /\ UNCHANGED <<channels, attempt, saved>>

---------------------------------------------------------------------------------
(* Supersteps.  The updates of all tasks are written, then the edges are taken.  *)
Finished(k) == tasks[k].stage = "returned"

NodeOf(ts) == (CHOOSE t \in {ts[k] : k \in DOMAIN ts} : TRUE).node

Advance ==
    /\ Running
    /\ \A k \in DOMAIN tasks : Finished(k)
    /\ channels' = AllWritten(channels, [k \in DOMAIN tasks |-> tasks[k].update])
    /\ tasks' = Opened(NextTasks(NodeOf(tasks), channels'))
    /\ attempt' = [attempt EXCEPT !.phase = IF tasks' = <<>> THEN "done" ELSE @]
    /\ UNCHANGED <<run, account, saved, observed>>

---------------------------------------------------------------------------------
(* Failure.  What a node raises, and the deadline of the whole run, is caught and *)
(* answered as a failed execution, so the activity succeeds and is not retried;   *)
(* only the loss of its worker is.                                               *)
EndRun(phase) ==
    /\ attempt' = [attempt EXCEPT !.phase = phase]
    /\ UNCHANGED <<loopVars, channels, saved>>

FailRun(k) ==
    /\ Running
    /\ Ended(k)
    /\ ~Retryable(k)
    /\ Returned(k, tasks[k]) = {}
    /\ EndRun("failed")

\* The run as a whole takes too long, while some call is out.
PassDeadline ==
    /\ Running
    /\ "late" \in run.answers
    /\ \E k \in DOMAIN tasks : Asking(k)
    /\ EndRun("failed")

\* The worker stops; the activity is retried when its heartbeat stays away.
Crash ==
    /\ Running
    /\ run.attempts > 1
    /\ EndRun(IF attempt.number < run.attempts THEN "retry" ELSE "failed")

\* Tasks that have returned are kept with the state, the others run again.
Save ==
    /\ Running
    /\ attempt.number < run.attempts
    /\ saved' = [channels |-> channels, failed |-> observed.failed,
                 tasks |-> [k \in DOMAIN tasks |->
                              IF Finished(k) THEN tasks[k] ELSE Planned(tasks[k])]]
    /\ saved' # saved
    /\ UNCHANGED <<loopVars, channels, attempt>>

\* The spending a saved state carries, the returned tasks' included.
PriorSpend ==
    IF saved = None THEN NoSpend
    ELSE LET done == {k \in DOMAIN saved.tasks : saved.tasks[k].stage = "returned"}
         IN  AllWritten(saved.channels, [k \in done |-> saved.tasks[k].update]).spend

Resume ==
    /\ attempt.phase = "retry"
    /\ \E prior \in {PriorSpend} :
          /\ attempt' = [number |-> attempt.number + 1, phase |-> "open",
                         leases |-> Leases(run, prior)]
          /\ account' = OpenAccount(run, prior)
          /\ observed' = [observed EXCEPT !.paid = prior.cost, !.lost = 0,
                                          !.failed = saved # None /\ saved.failed]
    /\ channels' = IF saved = None THEN FreshChannels(attempt'.leases.pool) ELSE saved.channels
    /\ tasks' = IF saved = None THEN Opened(One(FirstNode(run.kind))) ELSE saved.tasks
    /\ UNCHANGED <<run, saved>>

---------------------------------------------------------------------------------
Over == attempt.phase \in {"done", "failed"}

Ending == Over /\ UNCHANGED vars

Work == (\E k \in DOMAIN tasks : NodeStep(k) \/ FailRun(k))
        \/ PassDeadline \/ Advance \/ Resume

Next == Work \/ Crash \/ Save \/ Ending

Spec == Init /\ [][Next]_vars /\ WF_vars(Work)

---------------------------------------------------------------------------------
(* Properties.                                                                   *)

(* A fan-out hands out every turn that was asked for and is left, never more     *)
(* turns or money than what is left, no branch more than it asked for, a turn to *)
(* each when there are enough, and never more to the smaller of two requests;    *)
(* also in a second round, after a first one that used more or less than leased  *)
(* (quote_shares, _fan_out).                                                     *)
FanOutIsFair ==
    LET sent  == {k \in DOMAIN tasks : tasks[k].node \in {"probe", "inspect"}}
        plan  == IF channels.redispatch # None THEN channels.redispatch ELSE channels.plan
        asked == [k \in sent |-> (CHOOSE a \in Range(plan) : a.slot = k).share]
        turns == [k \in sent |-> tasks[k].lease.turns]
    IN  sent # {} =>
          /\ Total(turns) = AtMost(Total(asked), RemainingTurns(channels))
          /\ Total([k \in sent |-> tasks[k].lease.usd]) <= RemainingCost(channels)
          /\ \A k \in sent : turns[k] <= asked[k]
          /\ Cardinality(sent) <= RemainingTurns(channels) => \A k \in sent : turns[k] > 0
          /\ \A j, k \in sent : asked[j] > asked[k] => turns[j] >= turns[k]

(* Landing leaves room for the last call: when all calls cost the same, a loop   *)
(* that runs alone is cut off by its first call or never.  A call that must be   *)
(* repeated, or cannot be priced, is not provided for.                           *)
LastCallFits ==
    \A k \in DOMAIN tasks :
        /\ Cardinality(run.costs) = 1
        /\ run.answers \cap {"rejected", "unpriced"} = {}
        /\ tasks[k].node \notin {"probe", "inspect"}
        /\ Looping(k) /\ tasks[k].loop.phase = "budget"
        => tasks[k].loop.turns = 0

(* What was billed is on the account, and in the graph state or on its way there *)
(* once: in a running loop, or in the update of a task that has returned.  Only  *)
(* a loop whose node is retried and a degraded survey are written nowhere.       *)
SettledOnce ==
    LET held(t) == CASE t.stage = "waiting"  -> 0
                     [] t.stage = "running"  -> t.loop.spent
                     [] t.stage = "returned" -> t.update.spend.cost
    IN  run.kind # "chat" =>
        /\ account.spent = observed.paid
        /\ account.spent = channels.spend.cost + observed.lost
                             + Total([k \in DOMAIN tasks |-> held(tasks[k])])

(* However many loops run side by side or one after the other, each passes the   *)
(* hard end of the execution by at most one call.                                *)
OverrunBounded ==
    account.spent <= account.max * Backstop + Max(run.costs) * observed.loops

(* Nothing is delivered on evidence nobody read: a recipe rests on an event of   *)
(* its anchor that was read, names tasks some event of which was read, cites     *)
(* nothing else, no pending rule among it, and shares no turn with another; a    *)
(* suggestion is about a task at rest that somebody looked at if it had events,  *)
(* and cites events of it that were read; titles are usable and enough to choose *)
(* from (validate_recipe_candidates, filter_valid_suggestions).                  *)
OnlyReadIsCited ==
    run.kind # "chat" /\ channels.result # None =>
        CASE run.kind = "recipe" ->
               \A c \in channels.result :
                   /\ \E i \in c.slices \cap observed.read :
                         i[1] = "event" /\ run.ledger.tasks[i[2]] = "anchor"
                   /\ \A i \in c.slices \cup c.notes :
                         \/ i \in observed.read
                         \/ /\ i[1] = "task"
                            /\ \E e \in EventsOf(run.ledger, i[2]) : <<"event", e>> \in observed.read
                   /\ \A r \in DOMAIN run.ledger.rules :
                         <<"rule", r>> \in c.notes => run.ledger.rules[r] = "active"
                   /\ \A d \in channels.result \ {c} : \A i \in c.slices \cap d.slices : i[1] # "turn"
          [] run.kind = "cleanup" ->
               \A s \in channels.result :
                   /\ \E task \in Range(run.scan) :
                         /\ task.id = s.slot
                         /\ task.idle >= RecentActivity
                         /\ task.children = 0
                         /\ task.origin # "server-sdk"
                         /\ task.begun => <<"page", s.slot>> \in observed.read
                   /\ \A e \in s.cites :
                         <<"event", e>> \in observed.read /\ run.ledger.tasks[e] = s.slot
          [] run.kind = "title" ->
               /\ channels.result \subseteq run.usable
               /\ channels.result # {} => Cardinality(channels.result) >= MinTitles

(* A scan that found nothing because a node failed, or because its candidates    *)
(* were never valid, says so: it is not reported as a task without a pattern.    *)
FailureIsTold ==
    /\ run.kind = "recipe"
    /\ channels.result = {}
    /\ observed.failed \/ channels.invalid
    => channels.told = Degraded

(* Whatever the models answer, redispatches, repairs, retries and attempts are   *)
(* numbered, and every execution ends.                                           *)
RunEnds == <>Over
=================================================================================
