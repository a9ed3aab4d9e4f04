------------------------------- MODULE TitleGraph -------------------------------
(* The nodes of a title suggestion: one investigation, validation, one repair.   *)
(* A draft is a set of titles; run.usable are those that are neither the current *)
(* title nor a placeholder (two that normalise to the same are one).             *)
EXTENDS AgentState

MinTitles == 2

TitleInvestigateLease(ch) == Remaining(ch)

TitleIdle == Update([drafts |-> {}], PoolSpend(0, 0))

TitleInvestigated(draft, cost, turns) == Update([drafts |-> draft], PoolSpend(cost, turns))

(* An empty draft is an answer; otherwise two usable titles must remain.         *)
TitleValidated(ch) ==
    LET kept == ch.drafts \cap run.usable
    IN  Update([drafts |-> kept,
                invalid |-> ch.drafts # {} /\ Cardinality(kept) < MinTitles], NoSpend)

TitleRepairKept == Update([repaired |-> TRUE], ReservedSpend(0, 0))

TitleRepaired(draft, cost, turns) ==
    Update([drafts |-> draft, repaired |-> TRUE], ReservedSpend(cost, turns))

TitleFinalized(ch) == Update([result |-> ch.drafts], NoSpend)

TitleEmpty == Update([result |-> {}], NoSpend)

TitleLease(t, ch, leases) ==
    CASE t.node = "investigate" -> TitleInvestigateLease(ch)
      [] t.node = "repair" -> leases.repair
      [] OTHER -> Lease(0, 0)

TitleUnasked(t, ch, leases) ==
    CASE t.node = "validate" -> {TitleValidated(ch)}
      [] t.node = "finalize" -> {TitleFinalized(ch)}
      [] t.node = "empty"    -> {TitleEmpty}
      [] OTHER ->
           IF TitleLease(t, ch, leases).turns > 0 THEN {}
           ELSE IF t.node = "investigate" THEN {TitleIdle} ELSE {TitleRepairKept}

TitleReturned(t) ==
    LET l == t.loop IN
    CASE t.node = "investigate" /\ l.phase = "output" ->
           {TitleInvestigated(d, l.spent, l.turns) : d \in run.drafts}
      [] t.node = "repair" /\ l.phase = "output" ->
           {TitleRepaired(d, l.spent, l.turns) : d \in run.drafts}
      [] OTHER -> {}

TitleRoute(ch) ==
    LET route == ValidationRoute(ch, TRUE)
    IN  One(IF route = "exhausted" THEN "empty" ELSE route)

TitleNext(node, ch) ==
    CASE node = "investigate" -> One("validate")
      [] node = "validate"    -> TitleRoute(ch)
      [] node = "repair"      -> One("validate")
      [] OTHER                -> <<>>
=================================================================================
