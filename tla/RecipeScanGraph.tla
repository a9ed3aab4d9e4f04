---------------------------- MODULE RecipeScanGraph ----------------------------
(* The nodes of a recipe scan: a survey plans, specialists probe in parallel,    *)
(* a synthesis drafts or asks for another round, validation, one repair.         *)
EXTENDS AgentState

---------------------------------------------------------------------------------
(* Survey.  Without turns it plans nothing; when it fails the run goes on to its *)
(* empty end, and what the survey cost is in no channel.                         *)
SurveyIdle == Update([plan |-> <<>>], ReservedSpend(0, 0))

Surveyed(plan, l) == Update([plan |-> plan], ReservedSpend(l.spent, l.turns))

SurveyDegraded == Update([plan |-> None, reason |-> Degraded], NoSpend)

---------------------------------------------------------------------------------
(* Probe.  A probe never fails the run: a rejected report that only broke its    *)
(* bounds is cut to them, any other failure is reported; both take all turns it  *)
(* was given.                                                                    *)
Report(slot, exhausted, works) == [slot |-> slot, exhausted |-> exhausted, works |-> works]

ProbeIdle(slot) == Reporting({Report(slot, TRUE, TRUE)}, {}, {}, PoolSpend(0, 0))

Catalog(l) == l.read

Probed(slot, l, exhausted) ==
    Reporting({Report(slot, exhausted, TRUE)}, {}, Catalog(l), PoolSpend(l.spent, l.turns))

ProbeSalvaged(slot, lease, l, exhausted) ==
    Reporting({Report(slot, exhausted, TRUE)}, {}, Catalog(l), PoolSpend(l.spent, lease.turns))

ProbeFailed(slot, lease, l) ==
    Reporting({Report(slot, FALSE, FALSE)}, {slot}, Catalog(l), PoolSpend(l.spent, lease.turns))

\* The error's chain is searched for a report, and whatever was raised while one was
\* being charged or repaired is chained to it.
CarriesReport(l) ==
    l.again /\ l.phase \in {"schema", "budget", "truncated", "transient", "lost"}

ProbeUpdates(slot, lease, l) ==
    IF l.phase = "output" THEN {Probed(slot, l, exhausted) : exhausted \in BOOLEAN}
    ELSE {ProbeFailed(slot, lease, l)}
           \cup {ProbeSalvaged(slot, lease, l, exhausted) :
                    exhausted \in IF CarriesReport(l) THEN BOOLEAN ELSE {}}

---------------------------------------------------------------------------------
(* Synthesis: what is left of its floor and of the pool.  A draft holds either   *)
(* candidates or a redispatch.                                                   *)
RecipeSynthesisLease(ch, leases) ==
    CombineLeases(FloorLease(ch, leases.floor), Remaining(ch))

RecipeInvestigated(ch, leases, draft, cost, turns) ==
    LET spend == FloorThenPoolSpend(FloorLease(ch, leases.floor), cost, turns)
        again == Redispatched(draft.redispatch, ch, spend)
    IN  Update([drafts |-> draft.items, redispatch |-> again,
                rounds |-> ch.rounds + (IF again = None THEN 0 ELSE 1)], spend)

---------------------------------------------------------------------------------
(* Validation: every candidate rests on an event of the anchor, names and cites  *)
(* only what probes read, and no two candidates claim the same turn.             *)
\* Its contributing slices name tasks, turns and events; its notes are what its steps,
\* corrections, pitfalls and recoveries, its rules and the recipe it revises cite.
Candidate(slices, notes) == [slices |-> slices, notes |-> notes]

\* Variant: anything cited passes.
CandidateIsAnything(ch, c) == c.slices # {}

Supported(read, item) ==
    IF item[1] = "task" THEN \E e \in EventsOf(run.ledger, item[2]) : <<"event", e>> \in read
    ELSE item \in read

CandidateIsValid(ch, c) ==
    /\ c.slices \cap Item("event", EventsOf(run.ledger, "anchor")) # {}
    /\ \A item \in c.slices \cup c.notes : Supported(ch.read, item)

ClaimedTwice(drafts) ==
    \E c, d \in drafts : c # d /\ \E item \in c.slices \cap d.slices : item[1] = "turn"

RecipeValidated(ch) ==
    Update([invalid |-> \/ \E c \in ch.drafts : ~CandidateIsValid(ch, c)
                        \/ ClaimedTwice(ch.drafts)], NoSpend)

---------------------------------------------------------------------------------
(* Repair: one call on its own reservation.                                      *)
RecipeRepairPasses(ch) == ch.drafts = {}

RecipeRepaired(ch, draft, cost, turns) ==
    Update([drafts |-> IF draft.redispatch # <<>> /\ draft.items = {}
                       THEN ch.drafts ELSE draft.items,
            repaired |-> TRUE], ReservedSpend(cost, turns))

RecipeRepairKept(ch) == Update([repaired |-> TRUE], ReservedSpend(0, 0))

\* A repair cut by its budget loses the candidates.
RecipeRepairCut(lease, l) ==
    Update([drafts |-> {}, reason |-> Degraded, repaired |-> TRUE],
           ReservedSpend(l.spent, lease.turns))

---------------------------------------------------------------------------------
(* The end, and why it is empty.                                                 *)
\* Variant: a failed probe counts as thin evidence.
EmptyResultReasonThin(ch) ==
    CASE ch.reason # None -> ch.reason
      [] ch.reason = None /\ ch.invalid -> Degraded
      [] OTHER -> IF \E r \in ch.reports : r.exhausted THEN Insufficient ELSE NoPattern

EmptyResultReason(ch) ==
    CASE ch.reason # None -> ch.reason
      [] ch.reason = None /\ (ch.invalid \/ ch.failed # {}) -> Degraded
      [] OTHER -> IF \E r \in ch.reports : r.exhausted THEN Insufficient ELSE NoPattern

RecipeFinalized(ch) ==
    Update([result |-> ch.drafts,
            told |-> IF ch.drafts = {} THEN EmptyResultReason(ch) ELSE None], NoSpend)

RecipeEmpty(ch) == Update([result |-> {}, told |-> EmptyResultReason(ch)], NoSpend)

---------------------------------------------------------------------------------
(* Running a node: its lease, what it returns without a model, and after one.    *)
RecipeLease(t, ch, leases) ==
    CASE t.node = "survey" -> leases.survey
      [] t.node = "probe" -> t.lease
      [] t.node = "investigate" -> RecipeSynthesisLease(ch, leases)
      [] t.node = "repair" -> leases.repair
      [] OTHER -> Lease(0, 0)

RecipeUnasked(k, t, ch, leases) ==
    CASE t.node = "validate" -> {RecipeValidated(ch)}
      [] t.node = "finalize" -> {RecipeFinalized(ch)}
      [] t.node = "empty"    -> {RecipeEmpty(ch)}
      [] t.node = "repair" /\ RecipeRepairPasses(ch) -> {RecipeRepairKept(ch)}
      [] OTHER ->
           IF RecipeLease(t, ch, leases).turns > 0 THEN {}
           ELSE CASE t.node = "survey" -> {SurveyIdle}
                  [] t.node = "probe" -> {ProbeIdle(k)}
                  [] t.node = "investigate" ->
                       {RecipeInvestigated(ch, leases, EmptyDraft, 0, 0)}
                  [] t.node = "repair" -> {RecipeRepaired(ch, EmptyDraft, 0, 0)}

RecipeReturned(k, t, ch, leases) ==
    LET l == t.loop IN
    CASE t.node = "survey" /\ l.phase = "output" -> {Surveyed(p, l) : p \in Plans}
      [] t.node = "survey" /\ l.phase # "output" -> {SurveyDegraded}
      [] t.node = "probe" -> ProbeUpdates(k, t.lease, l)
      [] t.node = "investigate" /\ l.phase = "output" ->
           {RecipeInvestigated(ch, leases, d, l.spent, l.turns) : d \in Drafts}
      [] t.node = "repair" /\ l.phase = "output" ->
           {RecipeRepaired(ch, d, l.spent, l.turns) : d \in Drafts}
      [] t.node = "repair" /\ l.phase = "budget" -> {RecipeRepairCut(t.lease, l)}
      [] OTHER -> {}

---------------------------------------------------------------------------------
(* Topology: the node tasks that follow a superstep.                             *)
RecipeFanOut(plan, ch, otherwise) ==
    IF Sendable(plan, ch) THEN Sends("probe", plan, ch) ELSE One(otherwise)

RecipeDispatch(ch) == RecipeFanOut(ch.plan, ch, "empty")

RecipeAfterInvestigate(ch) == RecipeFanOut(ch.redispatch, ch, "validate")

RecipeRoute(ch) ==
    LET route == ValidationRoute(ch, TRUE)
    IN  One(IF route = "exhausted" THEN "empty" ELSE route)

RecipeNext(node, ch) ==
    CASE node = "survey"      -> RecipeDispatch(ch)
      [] node = "probe"       -> One("investigate")
      [] node = "investigate" -> RecipeAfterInvestigate(ch)
      [] node = "validate"    -> RecipeRoute(ch)
      [] node = "repair"      -> One("validate")
      [] OTHER                -> <<>>
=================================================================================
