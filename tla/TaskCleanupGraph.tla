---------------------------- MODULE TaskCleanupGraph ----------------------------
(* The nodes of a task cleanup: a triage picks tasks of the batch, inspections   *)
(* read them in parallel, a decision suggests or asks for another round,         *)
(* validation keeps what is sound, one repair.                                   *)
(* run.scan: the tasks the batch of the request was made of.                     *)
(* Lists are sets: a draft names a task once, the code drops the later ones.     *)
EXTENDS AgentState

---------------------------------------------------------------------------------
(* Triage.  What the plan names outside the batch is dropped.                    *)
TriageIdle == Update([plan |-> <<>>], ReservedSpend(0, 0))

InBatch(plan) ==
    LET listed   == Ids(Listed(run.scan))
        kept     == {i \in DOMAIN plan : plan[i].slot \in listed}
        place(n) == CHOOSE i \in kept : Cardinality({j \in kept : j < i}) = n - 1
    IN  [n \in 1 .. Cardinality(kept) |-> plan[place(n)]]

Triaged(plan, l) ==
    Update([plan |-> InBatch(plan), exposed |-> Ids(Listed(run.scan))],
           ReservedSpend(l.spent, l.turns))

---------------------------------------------------------------------------------
(* Inspection.  A failed one keeps its task and takes all turns it was given.    *)
Inspection(slot, archivable) == [slot |-> slot, archivable |-> archivable]

InspectIdle(slot) == Reporting({Inspection(slot, FALSE)}, {}, {}, PoolSpend(0, 0))

Inspected(slot, l, archivable, turns) ==
    Reporting({Inspection(slot, archivable)}, {}, l.read, PoolSpend(l.spent, turns))

InspectUpdates(slot, lease, l) ==
    IF l.phase = "output"
    THEN {Inspected(slot, l, archivable, l.turns) : archivable \in BOOLEAN}
    ELSE {Inspected(slot, l, FALSE, lease.turns)}

---------------------------------------------------------------------------------
(* Decision: what is left of its floor and of the pool.                          *)
DecisionLease(ch, leases) == CombineLeases(FloorLease(ch, leases.floor), Remaining(ch))

CleanupInvestigated(ch, leases, draft, cost, turns) ==
    LET spend == FloorThenPoolSpend(FloorLease(ch, leases.floor), cost, turns)
        again == Redispatched(draft.redispatch, ch, spend)
    IN  Update([drafts |-> draft.items, redispatch |-> again,
                rounds |-> ch.rounds + (IF again = None THEN 0 ELSE 1)], spend)

---------------------------------------------------------------------------------
(* Validation: a suggestion names a task that was shown, cites only events of it *)
(* that were read, and one at least when some were; a task that had events when  *)
(* the batch was made has been looked at.                                        *)
Suggests(slot, cites) == [slot |-> slot, cites |-> cites]

SuggestionIsValid(ch, s) ==
    LET supported == {e \in EventsOf(run.ledger, s.slot) : <<"event", e>> \in ch.read} IN
    /\ s.slot \in ch.exposed
    /\ s.cites \subseteq supported
    /\ s.slot \in Begun(Batch(run.scan)) => <<"page", s.slot>> \in ch.read
    /\ supported # {} => s.cites # {}

\* The valid ones stay, up to the number the request allows.
CleanupValidations(ch) ==
    LET valid == {s \in ch.drafts : SuggestionIsValid(ch, s)}
        kept == {k \in SUBSET valid : Cardinality(k) = AtMost(Cardinality(valid), run.most)}
    IN  {Update([drafts |-> k, invalid |-> valid # ch.drafts], NoSpend) : k \in kept}

---------------------------------------------------------------------------------
(* Repair: one call on its own reservation; cut by its budget it changes nothing.*)
CleanupRepaired(ch, draft, cost, turns) ==
    Update([drafts |-> IF draft.redispatch # <<>> /\ draft.items = {}
                       THEN ch.drafts ELSE draft.items,
            repaired |-> TRUE], ReservedSpend(cost, turns))

CleanupRepairCut(ch, lease, l) ==
    Update([repaired |-> TRUE], ReservedSpend(l.spent, lease.turns))

---------------------------------------------------------------------------------
(* The end.                                                                      *)
CleanupFinalized(ch) == Update([result |-> ch.drafts], NoSpend)

CleanupEmpty(ch) == Update([result |-> {}], NoSpend)

---------------------------------------------------------------------------------
(* Running a node: its lease, what it returns without a model, and after one.    *)
CleanupLease(t, ch, leases) ==
    CASE t.node = "triage" -> leases.survey
      [] t.node = "inspect" -> t.lease
      [] t.node = "investigate" -> DecisionLease(ch, leases)
      [] t.node = "repair" -> leases.repair
      [] OTHER -> Lease(0, 0)

CleanupUnasked(k, t, ch, leases) ==
    CASE t.node = "validate" -> CleanupValidations(ch)
      [] t.node = "finalize" -> {CleanupFinalized(ch)}
      [] t.node = "empty"    -> {CleanupEmpty(ch)}
      [] OTHER ->
           IF CleanupLease(t, ch, leases).turns > 0 THEN {}
           ELSE CASE t.node = "triage" -> {TriageIdle}
                  [] t.node = "inspect" -> {InspectIdle(k)}
                  [] t.node = "investigate" ->
                       {CleanupInvestigated(ch, leases, EmptyDraft, 0, 0)}
                  [] t.node = "repair" -> {CleanupRepaired(ch, EmptyDraft, 0, 0)}

CleanupReturned(k, t, ch, leases) ==
    LET l == t.loop IN
    CASE t.node = "triage" /\ l.phase = "output" -> {Triaged(p, l) : p \in Plans}
      [] t.node = "inspect" -> InspectUpdates(k, t.lease, l)
      [] t.node = "investigate" /\ l.phase = "output" ->
           {CleanupInvestigated(ch, leases, d, l.spent, l.turns) : d \in Drafts}
      [] t.node = "repair" /\ l.phase = "output" ->
           {CleanupRepaired(ch, d, l.spent, l.turns) : d \in Drafts}
      [] t.node = "repair" /\ l.phase = "budget" -> {CleanupRepairCut(ch, t.lease, l)}
      [] OTHER -> {}

---------------------------------------------------------------------------------
(* Topology: the node tasks that follow a superstep.                             *)
CleanupFanOut(plan, ch, otherwise) ==
    IF Sendable(plan, ch) THEN Sends("inspect", plan, ch) ELSE One(otherwise)

CleanupDispatch(ch) == CleanupFanOut(ch.plan, ch, "empty")

CleanupAfterInvestigate(ch) == CleanupFanOut(ch.redispatch, ch, "validate")

HasSuggestions(ch) == ch.drafts # {}

CleanupRoute(ch) ==
    LET route == ValidationRoute(ch, HasSuggestions(ch))
    IN  One(IF route # "exhausted" THEN route
            ELSE IF HasSuggestions(ch) THEN "finalize" ELSE "empty")

CleanupNext(node, ch) ==
    CASE node = "triage"      -> CleanupDispatch(ch)
      [] node = "inspect"     -> One("investigate")
      [] node = "investigate" -> CleanupAfterInvestigate(ch)
      [] node = "validate"    -> CleanupRoute(ch)
      [] node = "repair"      -> One("validate")
      [] OTHER                -> <<>>
=================================================================================
