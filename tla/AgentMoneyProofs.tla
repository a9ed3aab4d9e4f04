-------------------------- MODULE AgentMoneyProofs ---------------------------
(* The money of an execution, for any plans, prices, limits and attempts: each *)
(* call is settled once, and each loop passes the hard end by at most one.     *)
EXTENDS AgentTalkProofs, BudgetSharesProofs

------------------------------------------------------------------------------
(* The graph of a job.                                                        *)

PlanTyped(p) == p # None => IsFiniteSet(DOMAIN p)

UpdateTyped(u) ==
    /\ u.spend["cost"] \in Nat
    /\ "spend" \notin DOMAIN u.set
    /\ \A c \in DOMAIN u.set \cap {"plan", "redispatch"} : PlanTyped(u.set[c])

ChannelNames ==
    {"pool", "plan", "redispatch", "rounds", "reports", "failed", "read", "exposed", "drafts",
     "invalid", "repaired", "reason", "result", "told", "spend"}

ChannelsTyped(ch) ==
    /\ ch = [c \in ChannelNames |-> ch[c]]
    /\ ch.spend["cost"] \in Nat
    /\ PlanTyped(ch.plan)
    /\ PlanTyped(ch.redispatch)

Nodes ==
    IF run.kind = "recipe"
    THEN {"survey", "probe", "investigate", "validate", "repair", "finalize", "empty"}
    ELSE IF run.kind = "cleanup"
    THEN {"triage", "inspect", "investigate", "validate", "repair", "finalize", "empty"}
    ELSE {"investigate", "validate", "repair", "finalize", "empty"}

JobTask(t) == t.node \in Nodes /\ (t.stage = "returned" => UpdateTyped(t.update))

Scenario ==
    /\ run.kind \in {"recipe", "cleanup", "title"}
    /\ Priced(run)
    /\ \A p \in run.plans : IsFiniteSet(DOMAIN p)
    /\ run.kind # "title" => \A d \in run.drafts : IsFiniteSet(DOMAIN d.redispatch)

\* What each kind of spending says the calls cost.
LEMMA SpendCosts ==
    ASSUME NEW c, NEW t, NEW f, NEW a, NEW b
    PROVE  /\ NoSpend["cost"] = 0
           /\ ReservedSpend(c, t)["cost"] = c
           /\ PoolSpend(c, t)["cost"] = c
           /\ FloorThenPoolSpend(f, c, t)["cost"] = c
           /\ AddSpend(a, b)["cost"] = a["cost"] + b["cost"]
BY DEF NoSpend, ReservedSpend, PoolSpend, FloorThenPoolSpend, AddSpend, SpendFields

\* Plans and redispatches are finite.
LEMMA EndlessPlans ==
    ASSUME NEW s \in Scenarios
    PROVE  /\ \A p \in s.plans : IsFiniteSet(DOMAIN p)
           /\ s.kind # "title" => \A d \in s.drafts : IsFiniteSet(DOMAIN d.redispatch)
<1>1. ASSUME NEW p \in Sendings(s) PROVE IsFiniteSet(DOMAIN p)
  <2>1. DOMAIN p = 1 .. Len(p) /\ Len(p) \in Int BY DEF Sendings
  <2> QED BY <2>1, FS_Interval
<1> QED BY <1>1, ScenariosAssumption

(* What a superstep writes. *)
LEMMA WrittenCosts ==
    ASSUME NEW ch, ChannelsTyped(ch), NEW us, IsFiniteSet(DOMAIN us),
           \A k \in DOMAIN us : UpdateTyped(us[k])
    PROVE  /\ ChannelsTyped(AllWritten(ch, us))
           /\ AllWritten(ch, us).spend["cost"]
                = ch.spend["cost"] + Total([k \in DOMAIN us |-> us[k].spend["cost"]])
<1> DEFINE o == Overwritten(ch, us)
           T == Total([k \in DOMAIN us |-> us[k].spend["cost"]])
<1>1. DOMAIN ch = ChannelNames BY DEF ChannelsTyped
<1>2. \A c \in ChannelNames :
         \/ o[c] = ch[c]
         \/ \E k \in DOMAIN us : c \in DOMAIN us[k].set /\ o[c] = us[k].set[c]
  BY <1>1 DEF Overwritten
<1>3. DOMAIN o = ChannelNames BY <1>1 DEF Overwritten
<1> HIDE DEF o
<1>4. o["spend"] = ch["spend"] BY <1>2 DEF UpdateTyped, ChannelNames
<1>5. PlanTyped(o["plan"]) /\ PlanTyped(o["redispatch"])
  BY <1>2 DEF UpdateTyped, ChannelNames, ChannelsTyped
<1>6. T \in Nat
  <2>1. [k \in DOMAIN us |-> us[k].spend["cost"]] \in [DOMAIN us -> Nat] BY DEF UpdateTyped
  <2> QED BY <2>1, TotalType
<1>7. SpendOf(us)["cost"] = T BY DEF SpendOf, SpendFields
<1>8. AddSpend(o["spend"], SpendOf(us))["cost"] = ch.spend["cost"] + T
  BY <1>4, <1>7, SpendCosts
<1> DEFINE w == AllWritten(ch, us)
<1>9. /\ w = [c \in ChannelNames |-> w[c]]
      /\ w["spend"] = AddSpend(o["spend"], SpendOf(us))
      /\ w["plan"] = o["plan"] /\ w["redispatch"] = o["redispatch"]
  <2> DEFINE a == o.reports \cup UNION {us[k].reports : k \in DOMAIN us}
             b == o.failed \cup UNION {us[k].failed : k \in DOMAIN us}
             c == o.read \cup UNION {us[k].read : k \in DOMAIN us}
             e == AddSpend(o["spend"], SpendOf(us))
  <2>1. w = [o EXCEPT !.reports = a, !.failed = b, !.read = c, !.spend = e]
    BY DEF AllWritten, o
  <2> HIDE DEF a, b, c, w
  <2>2. DOMAIN w = ChannelNames BY <1>3, <2>1
  <2>3. w["spend"] = e /\ w["plan"] = o["plan"] /\ w["redispatch"] = o["redispatch"]
    <3> HIDE DEF e
    <3> QED BY <1>3, <2>1 DEF ChannelNames
  <2>4. w = [x \in DOMAIN w |-> w[x]] BY <2>1
  <2> QED BY <2>2, <2>3, <2>4
<1> HIDE DEF w, T
<1>10. ch.spend["cost"] \in Nat BY DEF ChannelsTyped
<1> QED BY <1>5, <1>6, <1>8, <1>9, <1>10 DEF ChannelsTyped, w, T

\* An update that touches neither the spending nor a plan.
Touches(u, names) == DOMAIN u.set \subseteq names

PlainChannels == {"drafts", "invalid", "repaired", "reason", "result", "told"}

\* An update that sets no plan.
LEMMA PlainUpdate ==
    ASSUME NEW u, Touches(u, PlainChannels), u.spend["cost"] \in Nat
    PROVE  UpdateTyped(u)
BY DEF Touches, PlainChannels, UpdateTyped

\* An update that sets a plan, or a redispatch.
LEMMA PlanUpdate ==
    ASSUME NEW u, u.spend["cost"] \in Nat,
           \/ /\ Touches(u, {"plan", "reason", "exposed"})
              /\ PlanTyped(u.set["plan"])
           \/ /\ Touches(u, {"drafts", "redispatch", "rounds"})
              /\ PlanTyped(u.set["redispatch"])
    PROVE  UpdateTyped(u)
BY DEF Touches, UpdateTyped

(* What a node returns without a model costs nothing. *)
LEMMA UnaskedCosts ==
    ASSUME Scenario, NEW k, NEW t, t.node \in Nodes, NEW u \in Unasked(k, t)
    PROVE  UpdateTyped(u) /\ u.spend["cost"] = 0
<1>1. PlanTyped(<<>>) /\ PlanTyped(None)
  BY FS_EmptySet DEF PlanTyped
<1>2. /\ EmptyDraft.redispatch = <<>>
      /\ \A sp : Redispatched(<<>>, channels, sp) = None
  BY DEF EmptyDraft, Draft, Redispatched
<1>3. CASE run.kind = "recipe"
  <2>1. \/ u = RecipeValidated(channels) \/ u = RecipeFinalized(channels)
        \/ u = RecipeEmpty(channels) \/ u = RecipeRepairKept(channels)
        \/ u = SurveyIdle \/ u = ProbeIdle(k)
        \/ u = RecipeInvestigated(channels, attempt.leases, EmptyDraft, 0, 0)
        \/ u = RecipeRepaired(channels, EmptyDraft, 0, 0)
    BY <1>3 DEF Unasked, RecipeUnasked, Nodes
  <2>2. CASE u = RecipeInvestigated(channels, attempt.leases, EmptyDraft, 0, 0)
    <3>1. u.spend["cost"] = 0 BY <2>2, SpendCosts DEF RecipeInvestigated, Update
    <3>2. Touches(u, {"drafts", "redispatch", "rounds"}) /\ u.set["redispatch"] = None
      BY <1>2, <2>2 DEF RecipeInvestigated, Update, Touches
    <3> QED BY <1>1, <3>1, <3>2, PlanUpdate
  <2>3. CASE u = SurveyIdle
    <3>1. u.spend["cost"] = 0 BY <2>3, SpendCosts DEF SurveyIdle, Update
    <3>2. Touches(u, {"plan", "reason", "exposed"}) /\ u.set["plan"] = <<>>
      BY <2>3 DEF SurveyIdle, Update, Touches
    <3> QED BY <1>1, <3>1, <3>2, PlanUpdate
  <2>4. CASE u = ProbeIdle(k)
    <3>1. u.set = <<>> /\ u.spend = PoolSpend(0, 0) BY <2>4 DEF ProbeIdle, Reporting
    <3>2. u.spend["cost"] = 0 /\ Touches(u, PlainChannels) BY <3>1, SpendCosts DEF Touches
    <3> QED BY <3>2, PlainUpdate
  <2>5. CASE \/ u = RecipeValidated(channels) \/ u = RecipeFinalized(channels)
             \/ u = RecipeEmpty(channels) \/ u = RecipeRepairKept(channels)
             \/ u = RecipeRepaired(channels, EmptyDraft, 0, 0)
    <3>1. u.spend["cost"] = 0
      BY <2>5, SpendCosts DEF RecipeValidated, RecipeFinalized, RecipeEmpty,
         RecipeRepairKept, RecipeRepaired, Update
    <3>2. Touches(u, PlainChannels)
      BY <2>5 DEF RecipeValidated, RecipeFinalized, RecipeEmpty,
         RecipeRepairKept, RecipeRepaired, Update, Touches, PlainChannels
    <3> QED BY <3>1, <3>2, PlainUpdate
  <2> QED BY <2>1, <2>2, <2>3, <2>4, <2>5
<1>4. CASE run.kind = "cleanup"
  <2>1. \/ u \in CleanupValidations(channels) \/ u = CleanupFinalized(channels)
        \/ u = CleanupEmpty(channels) \/ u = TriageIdle \/ u = InspectIdle(k)
        \/ u = CleanupInvestigated(channels, attempt.leases, EmptyDraft, 0, 0)
        \/ u = CleanupRepaired(channels, EmptyDraft, 0, 0)
    BY <1>4 DEF Unasked, CleanupUnasked, Nodes
  <2>2. CASE u = CleanupInvestigated(channels, attempt.leases, EmptyDraft, 0, 0)
    <3>1. u.spend["cost"] = 0 BY <2>2, SpendCosts DEF CleanupInvestigated, Update
    <3>2. Touches(u, {"drafts", "redispatch", "rounds"}) /\ u.set["redispatch"] = None
      BY <1>2, <2>2 DEF CleanupInvestigated, Update, Touches
    <3> QED BY <1>1, <3>1, <3>2, PlanUpdate
  <2>3. CASE u = TriageIdle
    <3>1. u.spend["cost"] = 0 BY <2>3, SpendCosts DEF TriageIdle, Update
    <3>2. Touches(u, {"plan", "reason", "exposed"}) /\ u.set["plan"] = <<>>
      BY <2>3 DEF TriageIdle, Update, Touches
    <3> QED BY <1>1, <3>1, <3>2, PlanUpdate
  <2>4. CASE u = InspectIdle(k)
    <3>1. u.set = <<>> /\ u.spend = PoolSpend(0, 0) BY <2>4 DEF InspectIdle, Reporting
    <3>2. u.spend["cost"] = 0 /\ Touches(u, PlainChannels) BY <3>1, SpendCosts DEF Touches
    <3> QED BY <3>2, PlainUpdate
  <2>5. CASE u \in CleanupValidations(channels)
    <3>1. PICK d, i : u = Update([drafts |-> d, invalid |-> i], NoSpend)
      BY <2>5 DEF CleanupValidations
    <3>2. u.spend["cost"] = 0 /\ Touches(u, PlainChannels)
      BY <3>1, SpendCosts DEF Update, Touches, PlainChannels
    <3> QED BY <3>2, PlainUpdate
  <2>6. CASE \/ u = CleanupFinalized(channels) \/ u = CleanupEmpty(channels)
             \/ u = CleanupRepaired(channels, EmptyDraft, 0, 0)
    <3>1. u.spend["cost"] = 0 /\ Touches(u, PlainChannels)
      BY <2>6, SpendCosts DEF CleanupFinalized, CleanupEmpty,
         CleanupRepaired, Update, Touches, PlainChannels
    <3> QED BY <3>1, PlainUpdate
  <2> QED BY <2>1, <2>2, <2>3, <2>4, <2>5, <2>6
<1>5. CASE run.kind = "title"
  <2>1. \/ u = TitleValidated(channels) \/ u = TitleFinalized(channels) \/ u = TitleEmpty
        \/ u = TitleIdle \/ u = TitleRepairKept
    BY <1>5 DEF Unasked, TitleUnasked, Nodes
  <2>2. u.spend["cost"] = 0
    BY <2>1, SpendCosts DEF TitleValidated, TitleFinalized, TitleEmpty, TitleIdle,
       TitleRepairKept, Update
  <2>3. Touches(u, PlainChannels)
    BY <2>1 DEF TitleValidated, TitleFinalized, TitleEmpty, TitleIdle, TitleRepairKept, Update,
       Touches, PlainChannels
  <2> QED BY <2>2, <2>3, PlainUpdate
<1> QED BY <1>3, <1>4, <1>5 DEF Scenario

(* What a node returns after its loop costs what the loop spent, and what a     *)
(* degraded survey spent is in no update.                                     *)
LEMMA ReturnedCosts ==
    ASSUME Scenario, NEW k, NEW t, t.node \in Nodes, LoopTyped(t.loop), t.loop.phase \in LoopEnds,
           NEW u \in Returned(k, t)
    PROVE  UpdateTyped(u) /\ u.spend["cost"] + Unwritten(t) = t.loop.spent
<1> DEFINE l == t.loop
           Adds == u.spend["cost"] = l.spent /\ (t.node # "survey" \/ l.phase = "output")
<1>0. l.spent \in Nat BY DEF LoopTyped
<1>1. Adds => u.spend["cost"] \in Nat /\ u.spend["cost"] + Unwritten(t) = t.loop.spent
  BY <1>0 DEF Unwritten
<1>2. PlanTyped(None) BY DEF PlanTyped
<1>3. ASSUME NEW d \in run.drafts, NEW sp, run.kind # "title"
      PROVE  PlanTyped(Redispatched(d.redispatch, channels, sp))
  BY <1>2, <1>3 DEF Scenario, Redispatched, PlanTyped
<1>4. CASE run.kind = "recipe"
  <2>1. \/ t.node = "survey" /\ l.phase = "output" /\ \E p \in Plans : u = Surveyed(p, l)
        \/ t.node = "survey" /\ l.phase # "output" /\ u = SurveyDegraded
        \/ t.node = "probe" /\ u \in ProbeUpdates(k, t.lease, l)
        \/ /\ t.node = "investigate"
           /\ \E d \in Drafts : u = RecipeInvestigated(channels, attempt.leases, d, l.spent, l.turns)
        \/ t.node = "repair" /\ \E d \in Drafts : u = RecipeRepaired(channels, d, l.spent, l.turns)
        \/ t.node = "repair" /\ u = RecipeRepairCut(t.lease, l)
    BY <1>4 DEF Returned, RecipeReturned, Nodes
  <2>2. ASSUME t.node = "survey", l.phase = "output", NEW p \in Plans, u = Surveyed(p, l)
        PROVE  UpdateTyped(u) /\ Adds
    <3>1. PlanTyped(p) BY <2>2 DEF Plans, Scenario, PlanTyped
    <3>2. u.spend["cost"] = l.spent BY <2>2, SpendCosts DEF Surveyed, Update
    <3>3. Touches(u, {"plan", "reason", "exposed"}) /\ u.set["plan"] = p
      BY <2>2 DEF Surveyed, Update, Touches
    <3> QED BY <1>0, <2>2, <3>1, <3>2, <3>3, PlanUpdate
  <2>3. CASE t.node = "survey" /\ l.phase # "output" /\ u = SurveyDegraded
    <3>1. u.spend["cost"] = 0 BY <2>3, SpendCosts DEF SurveyDegraded, Update
    <3>2. Touches(u, {"plan", "reason", "exposed"}) /\ u.set["plan"] = None
      BY <2>3 DEF SurveyDegraded, Update, Touches
    <3>3. UpdateTyped(u) BY <1>2, <3>1, <3>2, PlanUpdate
    <3>4. Unwritten(t) = l.spent BY <2>3 DEF Unwritten
    <3> QED BY <1>0, <3>1, <3>3, <3>4
  <2>4. CASE t.node = "probe" /\ u \in ProbeUpdates(k, t.lease, l)
    <3>1. PICK r, f, n : u = Reporting(r, f, l.read, PoolSpend(l.spent, n))
      BY <2>4 DEF ProbeUpdates, Probed, ProbeSalvaged, ProbeFailed, Catalog
    <3>2. u.set = <<>> /\ u.spend = PoolSpend(l.spent, n) BY <3>1 DEF Reporting
    <3>3. u.spend["cost"] = l.spent /\ Touches(u, PlainChannels) BY <3>2, SpendCosts DEF Touches
    <3> QED BY <1>0, <1>1, <2>4, <3>3, PlainUpdate
  <2>5. ASSUME t.node = "investigate", NEW d \in Drafts,
               u = RecipeInvestigated(channels, attempt.leases, d, l.spent, l.turns)
        PROVE  UpdateTyped(u) /\ Adds
    <3>1. d \in run.drafts BY DEF Drafts
    <3> DEFINE sp == FloorThenPoolSpend(FloorLease(channels, attempt.leases.floor), l.spent, l.turns)
    <3>2. PlanTyped(Redispatched(d.redispatch, channels, sp)) BY <1>3, <1>4, <3>1
    <3>3. u.spend["cost"] = l.spent BY <2>5, SpendCosts DEF RecipeInvestigated, Update
    <3>4. /\ Touches(u, {"drafts", "redispatch", "rounds"})
          /\ u.set["redispatch"] = Redispatched(d.redispatch, channels, sp)
      BY <2>5 DEF RecipeInvestigated, Update, Touches
    <3> HIDE DEF sp
    <3> QED BY <1>0, <2>5, <3>2, <3>3, <3>4, PlanUpdate
  <2>6. CASE t.node = "repair" /\ (u = RecipeRepairCut(t.lease, l)
                \/ \E d \in Drafts : u = RecipeRepaired(channels, d, l.spent, l.turns))
    <3>1. u.spend["cost"] = l.spent
      BY <2>6, SpendCosts DEF RecipeRepaired, RecipeRepairCut, Update
    <3>2. Touches(u, PlainChannels)
      BY <2>6 DEF RecipeRepaired, RecipeRepairCut, Update, Touches, PlainChannels
    <3> QED BY <1>0, <1>1, <2>6, <3>1, <3>2, PlainUpdate
  <2> HIDE DEF Adds
  <2> QED BY <1>1, <2>1, <2>2, <2>3, <2>4, <2>5, <2>6
<1>5. CASE run.kind = "cleanup"
  <2>0. t.node # "survey" BY <1>5 DEF Nodes
  <2>1. \/ \E p \in Plans : u = Triaged(p, l)
        \/ u \in InspectUpdates(k, t.lease, l)
        \/ \E d \in Drafts : u = CleanupInvestigated(channels, attempt.leases, d, l.spent, l.turns)
        \/ \E d \in Drafts : u = CleanupRepaired(channels, d, l.spent, l.turns)
        \/ u = CleanupRepairCut(channels, t.lease, l)
    BY <1>5 DEF Returned, CleanupReturned, Nodes
  <2>2. ASSUME NEW p \in Plans, u = Triaged(p, l) PROVE UpdateTyped(u) /\ Adds
    <3>1. PlanTyped(InBatch(p))
      <4> DEFINE kept == {i \in DOMAIN p : p[i].slot \in Ids(Listed(run.scan))}
      <4>1. IsFiniteSet(DOMAIN p) BY DEF Plans, Scenario
      <4>2. IsFiniteSet(kept) BY <4>1, FS_Subset
      <4>3. Cardinality(kept) \in Int BY <4>2, FS_CardinalityType
      <4>4. DOMAIN InBatch(p) = 1 .. Cardinality(kept) BY DEF InBatch
      <4> QED BY <4>3, <4>4, FS_Interval DEF PlanTyped
    <3>2. u.spend["cost"] = l.spent BY <2>2, SpendCosts DEF Triaged, Update
    <3>3. Touches(u, {"plan", "reason", "exposed"}) /\ u.set["plan"] = InBatch(p)
      BY <2>2 DEF Triaged, Update, Touches
    <3> QED BY <1>0, <2>0, <3>1, <3>2, <3>3, PlanUpdate
  <2>4. CASE u \in InspectUpdates(k, t.lease, l)
    <3>1. PICK r, n : u = Reporting(r, {}, l.read, PoolSpend(l.spent, n))
      BY <2>4 DEF InspectUpdates, Inspected
    <3>2. u.set = <<>> /\ u.spend = PoolSpend(l.spent, n) BY <3>1 DEF Reporting
    <3>3. u.spend["cost"] = l.spent /\ Touches(u, PlainChannels) BY <3>2, SpendCosts DEF Touches
    <3> QED BY <1>0, <1>1, <2>0, <3>3, PlainUpdate
  <2>5. ASSUME NEW d \in Drafts,
               u = CleanupInvestigated(channels, attempt.leases, d, l.spent, l.turns)
        PROVE  UpdateTyped(u) /\ Adds
    <3>1. d \in run.drafts BY DEF Drafts
    <3> DEFINE sp == FloorThenPoolSpend(FloorLease(channels, attempt.leases.floor), l.spent, l.turns)
    <3>2. PlanTyped(Redispatched(d.redispatch, channels, sp)) BY <1>3, <1>5, <3>1
    <3>3. u.spend["cost"] = l.spent BY <2>5, SpendCosts DEF CleanupInvestigated, Update
    <3>4. /\ Touches(u, {"drafts", "redispatch", "rounds"})
          /\ u.set["redispatch"] = Redispatched(d.redispatch, channels, sp)
      BY <2>5 DEF CleanupInvestigated, Update, Touches
    <3> HIDE DEF sp
    <3> QED BY <1>0, <2>0, <3>2, <3>3, <3>4, PlanUpdate
  <2>6. CASE u = CleanupRepairCut(channels, t.lease, l)
              \/ \E d \in Drafts : u = CleanupRepaired(channels, d, l.spent, l.turns)
    <3>1. u.spend["cost"] = l.spent /\ Touches(u, PlainChannels)
      BY <2>6, SpendCosts DEF CleanupRepaired, CleanupRepairCut, Update, Touches, PlainChannels
    <3> QED BY <1>0, <1>1, <2>0, <3>1, PlainUpdate
  <2> HIDE DEF Adds
  <2> QED BY <1>1, <2>1, <2>2, <2>4, <2>5, <2>6
<1>6. CASE run.kind = "title"
  <2>1. t.node \notin {"survey"} /\ u \in TitleReturned(t) BY <1>6 DEF Nodes, Returned
  <2>2. CASE \/ \E d \in run.drafts : u = TitleInvestigated(d, l.spent, l.turns)
             \/ \E d \in run.drafts : u = TitleRepaired(d, l.spent, l.turns)
    <3>1. u.spend["cost"] = l.spent /\ Touches(u, PlainChannels)
      BY <2>2, SpendCosts DEF TitleInvestigated, TitleRepaired, Update, Touches, PlainChannels
    <3> QED BY <1>0, <1>1, <2>1, <3>1, PlainUpdate
  <2> QED BY <2>1, <2>2 DEF TitleReturned
<1> QED BY <1>4, <1>5, <1>6 DEF Scenario

------------------------------------------------------------------------------
(* What the tasks of a superstep hold, and the books of a job.                *)

Held(t) == CASE t.stage = "waiting"  -> 0
             [] t.stage = "running"  -> t.loop.spent
             [] t.stage = "returned" -> t.update.spend.cost

HeldSum(ts) == Total([k \in DOMAIN ts |-> Held(ts[k])])

JobTasks(ts) == TasksTyped(ts) /\ \A k \in DOMAIN ts : JobTask(ts[k])

AtRest(ts) == \A k \in DOMAIN ts : ts[k].stage \in {"waiting", "returned"}

SavedTyped ==
    saved # None =>
        ChannelsTyped(saved.channels) /\ JobTasks(saved.tasks) /\ AtRest(saved.tasks)

JobTyped ==
    /\ LoopsTyped
    /\ JobTasks(tasks)
    /\ Scenario
    /\ ChannelsTyped(channels)
    /\ SavedTyped

Settled ==
    /\ account.spent = observed.paid
    /\ account.spent = channels.spend["cost"] + observed.lost + HeldSum(tasks)

JobInv == JobTyped /\ Settled

\* What a task holds, by its stage.
LEMMA HeldTyped ==
    ASSUME NEW t, TaskTyped(t)
    PROVE  /\ Held(t) \in Nat
           /\ t.stage = "waiting" => Held(t) = 0
           /\ t.stage = "running" => Held(t) = t.loop.spent
           /\ t.stage = "returned" => Held(t) = t.update.spend["cost"]
<1>1. t.stage = "running" => t.loop.spent \in Nat BY DEF TaskTyped, LoopTyped
<1> QED BY <1>1 DEF TaskTyped, Held

\* What tasks hold together is a number.
LEMMA HeldSumTyped ==
    ASSUME NEW ts, TasksTyped(ts)
    PROVE  HeldSum(ts) \in Nat
<1>1. [k \in DOMAIN ts |-> Held(ts[k])] \in [DOMAIN ts -> Nat] BY HeldTyped DEF TasksTyped
<1> QED BY <1>1, TotalType DEF HeldSum, TasksTyped

\* When one task changes, what is held changes by as much.
LEMMA HeldChange ==
    ASSUME NEW ts, TasksTyped(ts), NEW us, TasksTyped(us), DOMAIN us = DOMAIN ts,
           NEW k \in DOMAIN ts, \A j \in DOMAIN ts \ {k} : us[j] = ts[j]
    PROVE  HeldSum(us) + Held(ts[k]) = HeldSum(ts) + Held(us[k])
<1> DEFINE D == DOMAIN ts
           f == [j \in D |-> Held(ts[j])]
           h == [j \in D |-> Held(us[j])]
<1>1. f \in [D -> Nat] /\ h \in [D -> Nat] BY HeldTyped DEF TasksTyped
<1>2. IsFiniteSet(D) BY DEF TasksTyped
<1>3. \A j \in D \ {k} : h[j] = f[j] OBVIOUS
<1>4. f[k] = Held(ts[k]) /\ h[k] = Held(us[k]) OBVIOUS
<1>5. HeldSum(ts) = Total(f) /\ HeldSum(us) = Total(h) BY DEF HeldSum
<1> HIDE DEF f, h, D
<1>6. k \in D BY DEF D
<1> QED BY <1>1, <1>2, <1>3, <1>4, <1>5, <1>6, TotalExcept

\* Tasks that wait hold nothing.
LEMMA WaitingHoldNothing ==
    ASSUME NEW ts, TasksTyped(ts), \A k \in DOMAIN ts : ts[k].stage = "waiting"
    PROVE  HeldSum(ts) = 0
<1> DEFINE f == [j \in DOMAIN ts |-> Held(ts[j])]
<1>1. f \in [DOMAIN ts -> Nat] /\ \A j \in DOMAIN ts : f[j] = 0 BY HeldTyped DEF TasksTyped
<1>2. IsFiniteSet(DOMAIN ts) BY DEF TasksTyped
<1> HIDE DEF f
<1>3. Total(f) = 0 BY <1>1, <1>2, TotalZero
<1> QED BY <1>3 DEF f, HeldSum

\* Of tasks at rest, those that have returned hold everything.
LEMMA ReturnedHoldAll ==
    ASSUME NEW ts, TasksTyped(ts), AtRest(ts),
           NEW done, done = {k \in DOMAIN ts : ts[k].stage = "returned"}
    PROVE  HeldSum(ts) = Total([k \in done |-> ts[k].update.spend["cost"]])
<1> DEFINE f == [j \in DOMAIN ts |-> Held(ts[j])]
           e == [j \in done |-> ts[j].update.spend["cost"]]
<1>1. f \in [DOMAIN ts -> Nat] BY HeldTyped DEF TasksTyped
<1>2. IsFiniteSet(DOMAIN ts) /\ done \in SUBSET DOMAIN ts BY DEF TasksTyped
<1>3. \A j \in done : e[j] = f[j] BY HeldTyped DEF TasksTyped
<1>4. \A j \in DOMAIN ts \ done : f[j] = 0 BY HeldTyped DEF TasksTyped, AtRest
<1>5. e \in [done -> Nat] BY <1>1, <1>2, <1>3
<1>6. \A j \in done : e[j] <= f[j]
  <2> HIDE DEF e, f
  <2> QED BY <1>1, <1>2, <1>3
<1> HIDE DEF f, e
<1>7. Total(e) = Total(f) BY <1>1, <1>2, <1>3, <1>4, <1>5, <1>6, TotalMono
<1> QED BY <1>7 DEF f, e, HeldSum

\* Planned tasks wait, at nodes of the graph.
LEMMA OpenedTyped ==
    ASSUME NEW p, IsFiniteSet(DOMAIN p), \A k \in DOMAIN p : p[k].node \in Nodes
    PROVE  /\ JobTasks(Opened(p))
           /\ \A k \in DOMAIN Opened(p) : Opened(p)[k].stage = "waiting"
<1>1. \A k \in DOMAIN p : /\ TaskTyped(Planned(p[k])) /\ Planned(p[k]).stage = "waiting"
                          /\ Planned(p[k]).node = p[k].node
  BY DEF Planned, TaskTyped
<1>2. DOMAIN Opened(p) = DOMAIN p /\ \A k \in DOMAIN p : Opened(p)[k] = Planned(p[k])
  BY DEF Opened
<1>3. Opened(p) = [k \in DOMAIN Opened(p) |-> Opened(p)[k]] BY DEF Opened
<1> QED BY <1>1, <1>2, <1>3 DEF JobTasks, TasksTyped, JobTask

\* The next node alone.
LEMMA OneTyped ==
    ASSUME NEW node, node \in Nodes
    PROVE  IsFiniteSet(DOMAIN One(node)) /\ \A k \in DOMAIN One(node) : One(node)[k].node \in Nodes
<1>1. DOMAIN One(node) = {node} /\ \A k \in {node} : One(node)[k].node = node BY DEF One
<1> QED BY <1>1, FS_Singleton

\* The branches of a fan-out.
LEMMA SendsTyped ==
    ASSUME NEW node, node \in Nodes, NEW plan, NEW ch, IsFiniteSet(DOMAIN plan)
    PROVE  /\ IsFiniteSet(DOMAIN Sends(node, plan, ch))
           /\ \A k \in DOMAIN Sends(node, plan, ch) : Sends(node, plan, ch)[k].node \in Nodes
<1> DEFINE T == {plan[i].slot : i \in DOMAIN plan}
           f == [i \in DOMAIN plan |-> plan[i].slot]
<1>1. f \in Surjection(DOMAIN plan, T) BY DEF Surjection
<1>2. IsFiniteSet(T)
  <2> HIDE DEF f, T
  <2> QED BY <1>1, FS_Surjection
<1>3. DOMAIN Sends(node, plan, ch) = T BY DEF Sends
<1>4. \A k \in T : Sends(node, plan, ch)[k].node = node BY DEF Sends
<1> HIDE DEF T
<1> QED BY <1>2, <1>3, <1>4

\* Whatever the edges choose, finitely many nodes of the graph come next.
LEMMA NextTyped ==
    ASSUME Scenario, NEW ch, ChannelsTyped(ch), NEW node
    PROVE  /\ IsFiniteSet(DOMAIN NextTasks(node, ch))
           /\ \A k \in DOMAIN NextTasks(node, ch) : NextTasks(node, ch)[k].node \in Nodes
<1> DEFINE Good(p) == IsFiniteSet(DOMAIN p) /\ \A k \in DOMAIN p : p[k].node \in Nodes
<1>1. ASSUME NEW n \in Nodes PROVE Good(One(n)) BY <1>1, OneTyped
<1>2. Good(<<>>) BY FS_EmptySet
<1>3. ASSUME NEW n \in Nodes, NEW plan, PlanTyped(plan), Sendable(plan, ch)
      PROVE  Good(Sends(n, plan, ch))
  BY <1>3, SendsTyped DEF PlanTyped, Sendable
<1>4. PlanTyped(ch.plan) /\ PlanTyped(ch.redispatch) BY DEF ChannelsTyped
<1>5. ASSUME NEW r PROVE ValidationRoute(ch, r) \in {"finalize", "empty", "repair", "exhausted"}
  BY DEF ValidationRoute
<1> HIDE DEF Good
<1>6. CASE run.kind = "recipe"
  <2>1. NextTasks(node, ch) = RecipeNext(node, ch) BY <1>6 DEF NextTasks
  <2>2. {"survey", "probe", "investigate", "validate", "repair", "finalize", "empty"} = Nodes
    BY <1>6 DEF Nodes
  <2>3. Good(RecipeDispatch(ch)) /\ Good(RecipeAfterInvestigate(ch))
    BY <1>1, <1>3, <1>4, <2>2 DEF RecipeDispatch, RecipeAfterInvestigate, RecipeFanOut
  <2>4. Good(RecipeRoute(ch)) BY <1>1, <1>5, <2>2 DEF RecipeRoute
  <2> QED BY <1>1, <1>2, <2>1, <2>2, <2>3, <2>4 DEF RecipeNext, Good
<1>7. CASE run.kind = "cleanup"
  <2>1. NextTasks(node, ch) = CleanupNext(node, ch) BY <1>7 DEF NextTasks
  <2>2. {"triage", "inspect", "investigate", "validate", "repair", "finalize", "empty"} = Nodes
    BY <1>7 DEF Nodes
  <2>3. Good(CleanupDispatch(ch)) /\ Good(CleanupAfterInvestigate(ch))
    BY <1>1, <1>3, <1>4, <2>2 DEF CleanupDispatch, CleanupAfterInvestigate, CleanupFanOut
  <2>4. Good(CleanupRoute(ch)) BY <1>1, <1>5, <2>2 DEF CleanupRoute
  <2> QED BY <1>1, <1>2, <2>1, <2>2, <2>3, <2>4 DEF CleanupNext, Good
<1>8. CASE run.kind = "title"
  <2>1. NextTasks(node, ch) = TitleNext(node, ch) BY <1>8 DEF NextTasks
  <2>2. {"investigate", "validate", "repair", "finalize", "empty"} = Nodes BY <1>8 DEF Nodes
  <2>4. Good(TitleRoute(ch)) BY <1>1, <1>5, <2>2 DEF TitleRoute
  <2> QED BY <1>1, <1>2, <2>1, <2>2, <2>4 DEF TitleNext, Good
<1> QED BY <1>6, <1>7, <1>8 DEF Scenario

------------------------------------------------------------------------------
(* The steps of a node.                                                       *)
ObservedTyped(o) ==
    o \in [read : {o.read}, paid : Nat, lost : Nat, loops : Nat, failed : {o.failed}]

\* A node's task is replaced; what it held before and after, and what is lost, balance.
LEMMA TaskChange ==
    ASSUME JobInv, UNCHANGED <<run, account, channels, saved>>, NEW k \in DOMAIN tasks, NEW t,
           tasks' = [tasks EXCEPT ![k] = t], TaskTyped(t), JobTask(t),
           ObservedTyped(observed'), observed'.paid = observed.paid,
           Held(t) + observed'.lost = Held(tasks[k]) + observed.lost
    PROVE  JobInv'
<1>1. /\ DOMAIN tasks' = DOMAIN tasks /\ tasks'[k] = t
      /\ \A j \in DOMAIN tasks \ {k} : tasks'[j] = tasks[j]
      /\ tasks' = [j \in DOMAIN tasks' |-> tasks'[j]]
  BY DEF JobInv, JobTyped, JobTasks, TasksTyped
<1>2. TasksTyped(tasks) BY DEF JobInv, JobTyped, JobTasks
<1>3. TasksTyped(tasks') BY <1>1, <1>2 DEF TasksTyped
<1>4. JobTasks(tasks)'
  <2>1. Nodes' = Nodes BY DEF Nodes
  <2>2. \A j \in DOMAIN tasks : JobTask(tasks[j]) BY DEF JobInv, JobTyped, JobTasks
  <2>3. \A j \in DOMAIN tasks' : JobTask(tasks'[j]) BY <1>1, <2>2
  <2> QED BY <1>3, <2>1, <2>3 DEF JobTasks, JobTask
<1>5. BooksTyped' BY DEF JobInv, JobTyped, LoopsTyped, BooksTyped, ObservedTyped
<1>6. Scenario' /\ ChannelsTyped(channels') /\ SavedTyped'
  <2>1. Nodes' = Nodes BY DEF Nodes
  <2> QED BY <2>1 DEF JobInv, JobTyped, Scenario, SavedTyped, JobTasks, JobTask
<1>7. HeldSum(tasks') + Held(tasks[k]) = HeldSum(tasks) + Held(t)
  BY <1>1, <1>2, <1>3, HeldChange
<1>8. HeldSum(tasks') \in Nat /\ HeldSum(tasks) \in Nat BY <1>2, <1>3, HeldSumTyped
<1>9. Held(t) \in Nat /\ Held(tasks[k]) \in Nat BY <1>2, HeldTyped DEF TasksTyped
<1>10. /\ observed.lost \in Nat /\ observed'.lost \in Nat /\ channels.spend["cost"] \in Nat
       /\ account.spent \in Nat
  BY DEF JobInv, JobTyped, LoopsTyped, BooksTyped, ChannelsTyped, ObservedTyped
<1>11. account.spent = channels.spend["cost"] + observed'.lost + HeldSum(tasks')
  <2> DEFINE c == channels.spend["cost"]
             h == HeldSum(tasks)
             i == HeldSum(tasks')
             x == Held(tasks[k])
             y == Held(t)
             l == observed.lost
             m == observed'.lost
  <2>1. i + x = h + y /\ y + m = x + l BY <1>7
  <2>2. /\ c \in Nat /\ h \in Nat /\ i \in Nat /\ x \in Nat /\ y \in Nat /\ l \in Nat
        /\ m \in Nat
    BY <1>8, <1>9, <1>10
  <2>3. account.spent = c + l + h BY DEF JobInv, Settled
  <2> HIDE DEF c, h, i, x, y, l, m
  <2>6. i = (h + y) - x BY <2>1, <2>2
  <2>7. m = (x + l) - y BY <2>1, <2>2
  <2>5. c + m + i = c + l + h BY <2>2, <2>6, <2>7
  <2>4. account.spent = c + m + i BY <2>3, <2>5
  <2> QED BY <2>4 DEF c, i, m
<1>12. Settled' BY <1>11 DEF JobInv, Settled
<1> QED BY <1>3, <1>4, <1>5, <1>6, <1>12 DEF JobInv, JobTyped, LoopsTyped

\* A call that is answered goes to the account, the observer and the loop alike.
LEMMA LoopBalances ==
    ASSUME JobInv, UNCHANGED <<run, channels, saved>>, NEW k \in DOMAIN tasks, Looping(k),
           LoopMoves(k)
    PROVE  JobInv'
<1>0. LoopsTyped /\ TasksTyped(tasks) /\ TaskTyped(tasks[k])
  BY DEF JobInv, JobTyped, LoopsTyped, TasksTyped
<1>1. /\ LoopsTyped'
      /\ DOMAIN tasks' = DOMAIN tasks
      /\ \A j \in DOMAIN tasks \ {k} : tasks'[j] = tasks[j]
      /\ tasks'[k] = [tasks[k] EXCEPT !.loop = tasks'[k].loop]
      /\ LoopTyped(tasks'[k].loop)
  BY <1>0, LoopChanges
<1>2. TasksTyped(tasks') BY <1>1 DEF LoopsTyped
<1>3. tasks'[k].stage = "running" /\ tasks'[k].node = tasks[k].node
  BY <1>0, <1>1 DEF TaskTyped, Looping
<1>4. JobTasks(tasks)'
  <2>1. Nodes' = Nodes BY DEF Nodes
  <2>2. \A j \in DOMAIN tasks : JobTask(tasks[j]) BY DEF JobInv, JobTyped, JobTasks
  <2>3. \A j \in DOMAIN tasks' : JobTask(tasks'[j]) BY <1>1, <1>3, <2>2 DEF JobTask
  <2> QED BY <1>2, <2>1, <2>3 DEF JobTasks, JobTask
<1>5. Scenario' /\ ChannelsTyped(channels') /\ SavedTyped'
  <2>1. Nodes' = Nodes BY DEF Nodes
  <2> QED BY <2>1 DEF JobInv, JobTyped, Scenario, SavedTyped, JobTasks, JobTask
<1>6. HeldSum(tasks') + Held(tasks[k]) = HeldSum(tasks) + Held(tasks'[k])
  BY <1>0, <1>1, <1>2, HeldChange
<1>7. HeldSum(tasks') \in Nat /\ HeldSum(tasks) \in Nat BY <1>0, <1>2, HeldSumTyped
<1>8. Held(tasks[k]) = tasks[k].loop.spent /\ Held(tasks'[k]) = tasks'[k].loop.spent
  <2>1. TaskTyped(tasks'[k]) BY <1>1, <1>2 DEF TasksTyped
  <2> QED BY <1>0, <1>3, <2>1, HeldTyped DEF Looping
<1>9. /\ observed.lost \in Nat /\ observed.paid \in Nat /\ channels.spend["cost"] \in Nat
      /\ account.spent \in Nat /\ tasks[k].loop.spent \in Nat
  BY <1>0 DEF JobInv, JobTyped, LoopsTyped, BooksTyped, ChannelsTyped, TaskTyped, LoopTyped, Looping
<1>10. \/ /\ tasks'[k].loop.spent = tasks[k].loop.spent
          /\ account'.spent = account.spent
          /\ observed'.paid = observed.paid /\ observed'.lost = observed.lost
       \/ \E c \in Nat :
            /\ tasks'[k].loop.spent = tasks[k].loop.spent + c
            /\ account'.spent = account.spent + c
            /\ observed'.paid = observed.paid + c /\ observed'.lost = observed.lost
  <2>1. CASE Free(k) BY <1>0, <2>1 DEF Free, Becomes, TasksTyped, TaskTyped
  <2>2. ASSUME NEW c \in run.costs, Pays(k, c)
        PROVE  /\ tasks'[k].loop.spent = tasks[k].loop.spent + c
               /\ account'.spent = account.spent + c
               /\ observed'.paid = observed.paid + c /\ observed'.lost = observed.lost
    <3>1. PICK l : /\ Becomes(k, l)
                   /\ l.spent = tasks[k].loop.spent + c
                   /\ account' = Billed(c)
                   /\ observed' = [observed EXCEPT !.paid = @ + c, !.read = @ \cup l.read]
      BY <2>2 DEF Pays
    <3>2. tasks'[k].loop = l
      <4>1. Becomes(k, l) BY <3>1
      <4> QED BY <1>0, <4>1 DEF Becomes, TasksTyped, TaskTyped
    <3>3. account'.spent = account.spent + c
      <4>1. account \in [max : Nat, spent : Nat, peak : Nat] BY <1>0 DEF LoopsTyped, BooksTyped
      <4> QED BY <3>1, <4>1 DEF Billed
    <3>4. observed'.paid = observed.paid + c /\ observed'.lost = observed.lost
      <4>1. observed \in [read : {observed.read}, paid : Nat, lost : Nat, loops : Nat,
                          failed : {observed.failed}]
        BY <1>0 DEF LoopsTyped, BooksTyped
      <4> QED BY <3>1, <4>1
    <3> QED BY <3>1, <3>2, <3>3, <3>4
  <2>3. run.costs \subseteq Nat BY <1>0 DEF LoopsTyped, BooksTyped
  <2> QED BY <2>1, <2>2, <2>3 DEF LoopMoves
<1>11. Settled'
  <2>1. account'.spent = channels.spend["cost"] + observed'.lost + HeldSum(tasks')
    BY <1>6, <1>7, <1>8, <1>9, <1>10 DEF JobInv, Settled
  <2>2. account'.spent = observed'.paid BY <1>9, <1>10 DEF JobInv, Settled
  <2> QED BY <2>1, <2>2 DEF Settled
<1> QED BY <1>1, <1>4, <1>5, <1>11 DEF JobInv, JobTyped

\* Every step of a node keeps the books balanced.
LEMMA NodeBalances ==
    ASSUME JobInv, NEW k \in DOMAIN tasks, NodeStep(k)
    PROVE  JobInv'
<1>0. LoopsTyped /\ TaskTyped(tasks[k]) /\ JobTask(tasks[k]) /\ ObservedTyped(observed)
      /\ UNCHANGED <<channels, attempt, saved>> /\ Scenario
  BY DEF JobInv, JobTyped, LoopsTyped, TasksTyped, JobTasks, BooksTyped, ObservedTyped, NodeStep
<1> DEFINE t == tasks[k]
<1>1. CASE PassNode(k)
  <2>1. PICK u \in Unasked(k, t) : Return(k, u) BY <1>1 DEF PassNode
  <2>2. UpdateTyped(u) /\ u.spend["cost"] = 0 BY <1>0, <2>1, UnaskedCosts DEF JobTask
  <2> DEFINE n == [t EXCEPT !.stage = "returned", !.loop = None, !.update = u]
  <2>3. tasks' = [tasks EXCEPT ![k] = n] BY <1>0, <2>1 DEF Return
  <2>4. TaskTyped(n) /\ n.stage = "returned" /\ n.update = u /\ n.node = t.node
    BY <1>0, <2>2 DEF TaskTyped, UpdateTyped
  <2>5. UNCHANGED <<run, account, observed>> /\ t.stage = "waiting" BY <1>1 DEF PassNode, Waiting
  <2> HIDE DEF n
  <2>6. JobTask(n) BY <1>0, <2>2, <2>4 DEF JobTask
  <2>7. Held(n) = 0 /\ Held(t) = 0 BY <1>0, <2>2, <2>4, <2>5, HeldTyped
  <2> QED BY <1>0, <2>3, <2>4, <2>5, <2>6, <2>7, TaskChange
<1>2. CASE OpenLoop(k)
  <2> DEFINE lease == LeaseFor(t)
             l == NewLoop(lease.usd)
             n == [t EXCEPT !.stage = "running", !.lease = lease, !.loop = l]
  <2>1. tasks' = [tasks EXCEPT ![k] = n] BY <1>0, <1>2 DEF OpenLoop
  <2>2. LoopTyped(l) /\ l.spent = 0 BY DEF NewLoop, LoopTyped
  <2> HIDE DEF l, lease
  <2>4. TaskTyped(n) /\ n.stage = "running" /\ n.loop = l /\ n.node = t.node
    BY <1>0, <2>2 DEF TaskTyped
  <2>5. UNCHANGED <<run, account>> /\ t.stage = "waiting"
    BY <1>2 DEF OpenLoop, Waiting
  <2>6. ObservedTyped(observed') /\ observed'.paid = observed.paid /\ observed'.lost = observed.lost
    BY <1>0, <1>2 DEF OpenLoop, ObservedTyped
  <2> HIDE DEF n
  <2>7. JobTask(n) BY <1>0, <2>4 DEF JobTask
  <2>8. Held(n) = 0 /\ Held(t) = 0 BY <1>0, <2>2, <2>4, <2>5, HeldTyped
  <2> QED BY <1>0, <2>1, <2>4, <2>5, <2>6, <2>7, <2>8, TaskChange
<1>3. CASE Ask(k) \/ ReachTurnLimit(k)
  <2>1. LoopMoves(k) /\ UNCHANGED run /\ Looping(k)
    BY <1>0, <1>3, AskMoves DEF LoopMoves, Ask, ReachTurnLimit
  <2> QED BY <1>0, <2>1, LoopBalances
<1>4. CASE Answer(k)
  <2>1. LoopMoves(k) BY <1>0, <1>4, AnswerMoves
  <2>2. UNCHANGED run /\ Looping(k)
    BY <1>4 DEF Answer, Asking, CallTool, Output, AnswerInText, Truncate, Reject, Unpriced,
                Unavailable, Lose
  <2> QED BY <1>0, <2>1, <2>2, LoopBalances
<1>5. CASE RetryNode(k)
  <2> DEFINE n == [t EXCEPT !.stage = "waiting", !.loop = None, !.tries = @ + 1]
  <2>1. tasks' = [tasks EXCEPT ![k] = n] BY <1>0, <1>5 DEF RetryNode
  <2>2. t.stage = "running" /\ LoopTyped(t.loop) BY <1>0, <1>5 DEF RetryNode, Ended, Looping, TaskTyped
  <2>4. TaskTyped(n) /\ n.stage = "waiting" /\ n.node = t.node BY <1>0 DEF TaskTyped
  <2>5. UNCHANGED <<run, account>> BY <1>5 DEF RetryNode
  <2>6. /\ ObservedTyped(observed') /\ observed'.paid = observed.paid
        /\ observed'.lost = observed.lost + t.loop.spent
    <3>1. t.loop.spent \in Nat BY <2>2 DEF LoopTyped
    <3>2. observed.lost + t.loop.spent \in Nat BY <1>0, <3>1 DEF ObservedTyped
    <3> QED BY <1>0, <1>5, <3>2 DEF RetryNode, ObservedTyped
  <2> HIDE DEF n
  <2>7. JobTask(n) BY <1>0, <2>4 DEF JobTask
  <2>8. Held(n) = 0 /\ Held(t) = t.loop.spent BY <1>0, <2>2, <2>4, HeldTyped
  <2>9. t.loop.spent \in Nat /\ observed.lost \in Nat BY <1>0, <2>2 DEF LoopTyped, ObservedTyped
  <2>10. Held(n) + observed'.lost = Held(t) + observed.lost BY <2>6, <2>8, <2>9
  <2> QED BY <1>0, <2>1, <2>4, <2>5, <2>6, <2>7, <2>10, TaskChange
<1>6. CASE FinishNode(k)
  <2>1. PICK u \in Returned(k, t) :
          /\ Return(k, u)
          /\ observed' = [observed EXCEPT !.lost = @ + Unwritten(t),
                                          !.failed = @ \/ LosesWork(t.loop, u)]
    BY <1>6 DEF FinishNode
  <2>2. /\ t.stage = "running" /\ LoopTyped(t.loop) /\ t.loop.phase \in LoopEnds
        /\ t.loop.spent \in Nat
    BY <1>0, <1>6 DEF FinishNode, Ended, Looping, TaskTyped, LoopTyped
  <2>3. UpdateTyped(u) /\ u.spend["cost"] + Unwritten(t) = t.loop.spent
    BY <1>0, <2>1, <2>2, ReturnedCosts DEF JobTask
  <2> DEFINE n == [t EXCEPT !.stage = "returned", !.loop = None, !.update = u]
  <2>4. tasks' = [tasks EXCEPT ![k] = n] BY <1>0, <2>1 DEF Return
  <2>5. TaskTyped(n) /\ n.stage = "returned" /\ n.update = u /\ n.node = t.node
    BY <1>0, <2>3 DEF TaskTyped, UpdateTyped
  <2>6. UNCHANGED <<run, account>> BY <1>6 DEF FinishNode
  <2>7. Unwritten(t) \in Nat BY <2>2 DEF Unwritten
  <2>8. /\ ObservedTyped(observed') /\ observed'.paid = observed.paid
        /\ observed'.lost = observed.lost + Unwritten(t)
    <3> DEFINE x == Unwritten(t)
    <3>1. observed.lost + x \in Nat BY <1>0, <2>7 DEF ObservedTyped
    <3>2. observed' = [observed EXCEPT !.lost = @ + x, !.failed = @ \/ LosesWork(t.loop, u)]
      BY <2>1
    <3> HIDE DEF x
    <3> QED BY <1>0, <3>1, <3>2 DEF ObservedTyped, x
  <2> HIDE DEF n
  <2>9. JobTask(n) BY <1>0, <2>3, <2>5 DEF JobTask
  <2>10. Held(n) = u.spend["cost"] /\ Held(t) = t.loop.spent BY <1>0, <2>2, <2>5, HeldTyped
  <2>11. observed.lost \in Nat /\ u.spend["cost"] \in Nat BY <1>0, <2>3 DEF ObservedTyped, UpdateTyped
  <2>12. Held(n) + observed'.lost = Held(t) + observed.lost
    BY <2>3, <2>7, <2>8, <2>10, <2>11
  <2> QED BY <1>0, <2>4, <2>5, <2>6, <2>8, <2>9, <2>12, TaskChange
<1> QED BY <1>1, <1>2, <1>3, <1>4, <1>5, <1>6 DEF NodeStep

------------------------------------------------------------------------------
(* The steps of an execution.                                                 *)

\* A step beside the books: the attempt changes, or what is saved.
LEMMA BesideBalances ==
    ASSUME JobInv, UNCHANGED <<run, account, tasks, observed, channels>>, SavedTyped'
    PROVE  JobInv'
<1>1. Nodes' = Nodes BY DEF Nodes
<1>2. LoopsTyped' BY DEF JobInv, JobTyped, LoopsTyped, BooksTyped
<1>3. JobTasks(tasks)' BY <1>1 DEF JobInv, JobTyped, JobTasks, JobTask
<1>4. Scenario' /\ ChannelsTyped(channels)' BY DEF JobInv, JobTyped, Scenario
<1>5. Settled' BY DEF JobInv, Settled
<1> QED BY <1>2, <1>3, <1>4, <1>5 DEF JobInv, JobTyped

\* The end of an attempt leaves the books as they are.
LEMMA EndRunBalances ==
    ASSUME JobInv, NEW phase, EndRun(phase)
    PROVE  JobInv'
<1>1. UNCHANGED <<run, account, tasks, observed, channels, saved>> BY DEF EndRun, loopVars
<1>2. Nodes' = Nodes BY <1>1 DEF Nodes
<1>3. SavedTyped' BY <1>1, <1>2 DEF JobInv, JobTyped, SavedTyped, JobTasks, JobTask
<1> QED BY <1>1, <1>3, BesideBalances

\* What is saved holds what has been returned.
LEMMA SaveBalances ==
    ASSUME JobInv, Save
    PROVE  JobInv'
<1> DEFINE ts == [k \in DOMAIN tasks |-> IF Finished(k) THEN tasks[k] ELSE Planned(tasks[k])]
           s == [channels |-> channels, failed |-> observed.failed, tasks |-> ts]
<1>1. saved' = s /\ UNCHANGED <<run, account, tasks, observed, channels>>
  BY DEF Save, loopVars
<1>2. \A k \in DOMAIN tasks : TaskTyped(tasks[k]) /\ JobTask(tasks[k])
  BY DEF JobInv, JobTyped, JobTasks, TasksTyped
<1>3. ASSUME NEW k \in DOMAIN tasks
      PROVE  TaskTyped(ts[k]) /\ JobTask(ts[k]) /\ ts[k].stage \in {"waiting", "returned"}
  <2>1. CASE Finished(k) BY <1>2, <2>1 DEF Finished
  <2>2. CASE ~Finished(k)
    <3>1. /\ TaskTyped(Planned(tasks[k])) /\ Planned(tasks[k]).stage = "waiting"
          /\ Planned(tasks[k]).node = tasks[k].node
      BY DEF Planned, TaskTyped
    <3> QED BY <1>2, <2>2, <3>1 DEF JobTask
  <2> QED BY <2>1, <2>2
<1>4. DOMAIN ts = DOMAIN tasks /\ ts = [k \in DOMAIN ts |-> ts[k]] OBVIOUS
<1>5. s.channels = channels /\ s.tasks = ts OBVIOUS
<1>6. IsFiniteSet(DOMAIN tasks) BY DEF JobInv, JobTyped, JobTasks, TasksTyped
<1> HIDE DEF ts, s
<1>7. JobTasks(ts) /\ AtRest(ts) BY <1>3, <1>4, <1>6 DEF JobTasks, TasksTyped, AtRest
<1>8. Nodes' = Nodes BY <1>1 DEF Nodes
<1>9. SavedTyped'
  BY <1>1, <1>5, <1>7, <1>8 DEF JobInv, JobTyped, SavedTyped, JobTasks, JobTask
<1> QED BY <1>1, <1>9, BesideBalances

\* A superstep moves what its tasks held to the channels, once (Advance).
LEMMA AdvanceBalances ==
    ASSUME JobInv, Advance
    PROVE  JobInv'
<1> DEFINE us == [k \in DOMAIN tasks |-> tasks[k].update]
           ch == AllWritten(channels, us)
           p == NextTasks(NodeOf(tasks), ch)
<1>1. /\ channels' = ch /\ tasks' = Opened(NextTasks(NodeOf(tasks), channels'))
      /\ UNCHANGED <<run, account, saved, observed>>
      /\ \A k \in DOMAIN tasks : tasks[k].stage = "returned"
  BY DEF Advance, Finished
<1>2. /\ TasksTyped(tasks) /\ ChannelsTyped(channels) /\ Scenario /\ IsFiniteSet(DOMAIN tasks)
      /\ \A k \in DOMAIN tasks : JobTask(tasks[k])
  BY DEF JobInv, JobTyped, JobTasks, TasksTyped
<1>3. IsFiniteSet(DOMAIN us) /\ \A k \in DOMAIN us : UpdateTyped(us[k])
  BY <1>1, <1>2 DEF JobTask
<1>4. /\ ChannelsTyped(ch)
      /\ ch.spend["cost"] = channels.spend["cost"]
                              + Total([k \in DOMAIN us |-> us[k].spend["cost"]])
  <2> HIDE DEF us
  <2> QED BY <1>2, <1>3, WrittenCosts
<1>5. HeldSum(tasks) = Total([k \in DOMAIN us |-> us[k].spend["cost"]])
  <2>1. AtRest(tasks) BY <1>1 DEF AtRest
  <2>2. DOMAIN tasks = {k \in DOMAIN tasks : tasks[k].stage = "returned"} BY <1>1
  <2>3. HeldSum(tasks) = Total([k \in DOMAIN tasks |-> tasks[k].update.spend["cost"]])
    BY <1>2, <2>1, <2>2, ReturnedHoldAll
  <2>4. [k \in DOMAIN us |-> us[k].spend["cost"]]
          = [k \in DOMAIN tasks |-> tasks[k].update.spend["cost"]]
    OBVIOUS
  <2> QED BY <2>3, <2>4
<1> HIDE DEF ch, us
<1>6. tasks' = Opened(p) BY <1>1
<1>7. IsFiniteSet(DOMAIN p) /\ \A k \in DOMAIN p : p[k].node \in Nodes
  BY <1>2, <1>4, NextTyped
<1> HIDE DEF p
<1>8. JobTasks(tasks') /\ \A k \in DOMAIN tasks' : tasks'[k].stage = "waiting"
  BY <1>6, <1>7, OpenedTyped
<1>9. HeldSum(tasks') = 0 BY <1>8, WaitingHoldNothing DEF JobTasks
<1>10. Settled'
  <2>1. HeldSum(tasks) \in Nat BY <1>2, HeldSumTyped
  <2>2. channels.spend["cost"] \in Nat /\ observed.lost \in Nat
    BY <1>2 DEF ChannelsTyped, JobInv, JobTyped, LoopsTyped, BooksTyped
  <2>3. account.spent = ch.spend["cost"] + observed.lost + 0
    BY <1>4, <1>5, <2>1, <2>2 DEF JobInv, Settled
  <2>4. channels' = ch /\ account' = account /\ observed' = observed BY <1>1
  <2> QED BY <1>9, <2>3, <2>4 DEF JobInv, Settled
<1>11. Nodes' = Nodes BY <1>1 DEF Nodes
<1>12. LoopsTyped' /\ JobTasks(tasks)'
  BY <1>1, <1>8, <1>11 DEF JobInv, JobTyped, LoopsTyped, JobTasks, JobTask, BooksTyped
<1>13. Scenario' /\ ChannelsTyped(channels') /\ SavedTyped'
  BY <1>1, <1>4, <1>11 DEF JobInv, JobTyped, Scenario, SavedTyped, JobTasks, JobTask
<1> QED BY <1>10, <1>12, <1>13 DEF JobInv, JobTyped

\* What a new attempt opens with.
LEMMA FirstTyped ==
    ASSUME Scenario, NEW pool
    PROVE  /\ ChannelsTyped(FreshChannels(pool)) /\ FreshChannels(pool).spend["cost"] = 0
           /\ JobTasks(Opened(One(FirstNode(run.kind))))
           /\ HeldSum(Opened(One(FirstNode(run.kind)))) = 0
           /\ \A k \in DOMAIN Opened(One(FirstNode(run.kind))) :
                 Opened(One(FirstNode(run.kind)))[k].stage = "waiting"
<1>1. FreshChannels(pool).spend["cost"] = 0 BY SpendCosts DEF FreshChannels
<1>2. ChannelsTyped(FreshChannels(pool))
  <2>1. FreshChannels(pool) = [c \in ChannelNames |-> FreshChannels(pool)[c]]
    BY DEF FreshChannels, ChannelNames
  <2>2. FreshChannels(pool).plan = None /\ FreshChannels(pool).redispatch = None
    BY DEF FreshChannels
  <2> QED BY <1>1, <2>1, <2>2 DEF ChannelsTyped, PlanTyped
<1>3. FirstNode(run.kind) \in Nodes BY DEF Scenario, FirstNode, Nodes
<1> DEFINE p == One(FirstNode(run.kind))
<1>4. IsFiniteSet(DOMAIN p) /\ \A k \in DOMAIN p : p[k].node \in Nodes BY <1>3, OneTyped
<1> HIDE DEF p
<1>5. JobTasks(Opened(p)) /\ \A k \in DOMAIN Opened(p) : Opened(p)[k].stage = "waiting"
  BY <1>4, OpenedTyped
<1>6. HeldSum(Opened(p)) = 0 BY <1>5, WaitingHoldNothing DEF JobTasks
<1> QED BY <1>1, <1>2, <1>5, <1>6 DEF p

(* The spending a saved state s carries is its own and that of its tasks. *)
Carried(s) ==
    LET done == {k \in DOMAIN s.tasks : s.tasks[k].stage = "returned"}
    IN  AllWritten(s.channels, [k \in done |-> s.tasks[k].update]).spend

\* At rest, the spend a resumed run starts from is what the channel holds.
LEMMA PriorIsHeld ==
    ASSUME NEW s, ChannelsTyped(s.channels), JobTasks(s.tasks), AtRest(s.tasks)
    PROVE  Carried(s)["cost"] = s.channels.spend["cost"] + HeldSum(s.tasks)
<1> DEFINE ts == s.tasks
           done == {k \in DOMAIN ts : ts[k].stage = "returned"}
           us == [k \in done |-> ts[k].update]
<1>2. IsFiniteSet(DOMAIN us) /\ \A k \in DOMAIN us : UpdateTyped(us[k])
  <2>1. IsFiniteSet(DOMAIN ts) /\ done \in SUBSET DOMAIN ts BY DEF JobTasks, TasksTyped
  <2>2. IsFiniteSet(done) BY <2>1, FS_Subset
  <2>3. \A k \in DOMAIN ts : JobTask(ts[k]) BY DEF JobTasks
  <2> QED BY <2>2, <2>3 DEF JobTask
<1>3. Carried(s) = AllWritten(s.channels, us).spend BY DEF Carried
<1>4. [k \in DOMAIN us |-> us[k].spend["cost"]] = [k \in done |-> ts[k].update.spend["cost"]]
  OBVIOUS
<1>5. HeldSum(ts) = Total([k \in done |-> ts[k].update.spend["cost"]])
  <2>1. TasksTyped(ts) BY DEF JobTasks
  <2> QED BY <2>1, ReturnedHoldAll
<1> HIDE DEF us
<1>6. Carried(s)["cost"] = s.channels.spend["cost"]
                             + Total([k \in DOMAIN us |-> us[k].spend["cost"]])
  BY <1>2, <1>3, WrittenCosts
<1> QED BY <1>4, <1>5, <1>6

\* A resumed attempt opens with what the state it resumes holds (prior_spend).
LEMMA ResumeBalances ==
    ASSUME JobInv, Resume
    PROVE  JobInv'
<1> DEFINE spent == PriorSpend["cost"]
<1>1. /\ account' = [max |-> run.limits.usd, spent |-> spent, peak |-> 0]
      /\ \E f : observed' = [observed EXCEPT !.paid = spent, !.lost = 0, !.failed = f]
      /\ UNCHANGED <<run, saved>>
      /\ IF saved = None
         THEN /\ channels' = FreshChannels(attempt'.leases.pool)
              /\ tasks' = Opened(One(FirstNode(run.kind)))
         ELSE channels' = saved.channels /\ tasks' = saved.tasks
  BY DEF Resume, OpenAccount
<1>2. Scenario /\ SavedTyped BY DEF JobInv, JobTyped
<1>3. /\ ChannelsTyped(channels') /\ JobTasks(tasks')
      /\ spent \in Nat /\ spent = channels'.spend["cost"] + HeldSum(tasks')
  <2>1. CASE saved = None
    <3>1. spent = 0 BY <2>1, SpendCosts DEF PriorSpend
    <3> HIDE DEF spent
    <3> QED BY <1>1, <1>2, <2>1, <3>1, FirstTyped
  <2>2. CASE saved # None
    <3>1. spent = channels'.spend["cost"] + HeldSum(tasks')
      BY <1>1, <1>2, <2>2, PriorIsHeld DEF PriorSpend, Carried, SavedTyped
    <3>2. ChannelsTyped(channels') /\ JobTasks(tasks') BY <1>1, <1>2, <2>2 DEF SavedTyped
    <3>3. HeldSum(tasks') \in Nat /\ channels'.spend["cost"] \in Nat
      BY <3>2, HeldSumTyped DEF JobTasks, ChannelsTyped
    <3> QED BY <3>1, <3>2, <3>3
  <2> QED BY <2>1, <2>2
<1> HIDE DEF spent
<1>4. /\ observed'.paid = spent /\ observed'.lost = 0 /\ account'.spent = spent
      /\ BooksTyped'
  <2>1. run.limits.usd \in Nat BY <1>2 DEF Scenario, Priced
  <2>2. BooksTyped BY DEF JobInv, JobTyped, LoopsTyped
  <2>3. ObservedTyped(observed) BY <2>2 DEF BooksTyped, ObservedTyped
  <2>6. PICK f : observed' = [observed EXCEPT !.paid = spent, !.lost = 0, !.failed = f]
    BY <1>1
  <2>7. observed.loops \in Nat /\ DOMAIN observed = {"read", "paid", "lost", "loops", "failed"}
    BY <2>3 DEF ObservedTyped
  <2>4. ObservedTyped(observed') /\ observed'.paid = spent /\ observed'.lost = 0
    BY <1>3, <2>3, <2>6 DEF ObservedTyped
  <2>5. account' \in [max : Nat, spent : Nat, peak : Nat] BY <1>1, <1>3, <2>1
  <2> QED BY <1>1, <2>2, <2>4, <2>5 DEF BooksTyped, ObservedTyped
<1>5. Settled'
  <2>1. HeldSum(tasks') \in Nat /\ channels'.spend["cost"] \in Nat
    BY <1>3, HeldSumTyped DEF JobTasks, ChannelsTyped
  <2>2. account'.spent = channels'.spend["cost"] + observed'.lost + HeldSum(tasks')
    BY <1>3, <1>4, <2>1
  <2> QED BY <1>4, <2>2 DEF Settled
<1>6. Nodes' = Nodes BY <1>1 DEF Nodes
<1>7. LoopsTyped' /\ JobTasks(tasks)'
  BY <1>3, <1>4, <1>6 DEF LoopsTyped, JobTasks, JobTask
<1>8. Scenario' /\ SavedTyped' BY <1>1, <1>2, <1>6 DEF Scenario, SavedTyped, JobTasks, JobTask
<1> QED BY <1>3, <1>5, <1>7, <1>8 DEF JobInv, JobTyped

\* The books balance at first.
LEMMA InitBalances == Init => JobInv
<1> SUFFICES ASSUME Init PROVE JobInv OBVIOUS
<1>1. Scenario
  BY ScenariosAssumption, EndlessPlans DEF Init, Scenario
<1>2. /\ channels = FreshChannels(attempt.leases.pool)
      /\ tasks = Opened(One(FirstNode(run.kind)))
      /\ account = [max |-> run.limits.usd, spent |-> 0, peak |-> 0]
      /\ saved = None
      /\ observed = [read |-> {}, paid |-> 0, lost |-> 0, loops |-> 0, failed |-> FALSE]
  BY SpendCosts DEF Init, OpenAccount
<1>3. /\ ChannelsTyped(channels) /\ channels.spend["cost"] = 0
      /\ JobTasks(tasks) /\ HeldSum(tasks) = 0
  BY <1>1, <1>2, FirstTyped
<1>4. BooksTyped BY <1>1, <1>2 DEF BooksTyped, Scenario, Priced
<1> QED BY <1>1, <1>2, <1>3, <1>4 DEF JobInv, JobTyped, Settled, SavedTyped, LoopsTyped, JobTasks

\* Every step of a job keeps the books balanced.
LEMMA JobBalances ==
    ASSUME JobInv, Work \/ Crash \/ Save \/ Ending \/ UNCHANGED vars
    PROVE  JobInv'
<1>1. CASE Ending \/ UNCHANGED vars
  <2>1. UNCHANGED <<run, account, tasks, observed, channels, saved>>
    BY <1>1 DEF Ending, vars, loopVars
  <2>2. Nodes' = Nodes BY <2>1 DEF Nodes
  <2>3. SavedTyped' BY <2>1, <2>2 DEF JobInv, JobTyped, SavedTyped, JobTasks, JobTask
  <2> QED BY <2>1, <2>3, BesideBalances
<1>2. CASE Crash \/ PassDeadline \/ \E k \in DOMAIN tasks : FailRun(k)
  BY <1>2, EndRunBalances DEF Crash, PassDeadline, FailRun
<1> QED BY <1>1, <1>2, NodeBalances, AdvanceBalances, ResumeBalances, SaveBalances DEF Work

\* The books of a job balance, always.
LEMMA JobsBalance == AgentsSpec => [](~IsTurn => JobInv)
<1>1. AgentsInit => (~IsTurn => JobInv)
  <2>1. ChatInit => IsTurn BY ChatScenariosAssumption DEF ChatInit, IsTurn
  <2> QED BY <2>1, InitBalances DEF AgentsInit
<1>2. (~IsTurn => JobInv) /\ [AgentsNext]_vars => (~IsTurn => JobInv)'
  <2> SUFFICES ASSUME ~IsTurn => JobInv, [AgentsNext]_vars, ~IsTurn' PROVE JobInv'
    OBVIOUS
  <2>1. ~IsTurn BY RunStays DEF IsTurn
  <2> QED BY <2>1, JobBalances DEF AgentsNext, AgentsWork
<1> QED BY <1>1, <1>2, PTL DEF AgentsSpec

(* What was billed is on the account, and in the graph state or on its way there*)
(* once; only a retried loop's and a degraded survey's is written nowhere.   *)
THEOREM EveryCallIsSettledOnce == AgentsSpec => []SettledOnce
<1>1. ASSUME ~IsTurn => JobInv PROVE SettledOnce
  BY <1>1 DEF SettledOnce, IsTurn, JobInv, Settled, HeldSum, Held
<1> QED BY <1>1, JobsBalance, PTL

------------------------------------------------------------------------------
(* The hard end of the budget.                                                *)

Dearest == Max(run.costs)

\* The loops that may still bill a call.
Live == {k \in DOMAIN tasks : Looping(k) /\ tasks[k].loop.phase \notin LoopEnds}

\* The loops that have ended, or that a resumed attempt does without.
Gone == observed.loops - Cardinality(Live)

HardEnd == run.limits.usd * Backstop

Within ==
    /\ Priced(run)
    /\ account.max = run.limits.usd
    /\ Cardinality(Live) <= observed.loops
    /\ account.spent <= HardEnd + Dearest * Gone

PriorWithin == ~IsTurn => PriorSpend["cost"] <= HardEnd + Dearest * observed.loops

\* There is a dearest call.
LEMMA DearestCall ==
    ASSUME Priced(run)
    PROVE  Dearest \in Nat /\ \A c \in run.costs : c <= Dearest
<1> DEFINE S == run.costs
           Up(x) == {y \in S : y >= x}
           B == {Up(x) : x \in S}
<1>1. S \subseteq Nat /\ S # {} /\ IsFiniteSet(S) BY DEF Priced
<1>2. B \subseteq SUBSET S /\ B # {} BY <1>1
<1>3. PICK T \in B : \A U \in B : U \subseteq T => U = T
  <2> HIDE DEF B
  <2> QED BY <1>1, <1>2, Smallest
<1>4. PICK x \in S : T = Up(x) OBVIOUS
<1>5. ASSUME NEW z \in S PROVE x >= z
  <2> SUFFICES ASSUME z > x PROVE FALSE BY <1>1
  <2>1. x \notin Up(z) /\ x \in Up(x) BY <1>1
  <2>2. Up(z) \subseteq Up(x) BY <1>1
  <2>3. Up(z) \in B OBVIOUS
  <2> QED BY <1>3, <1>4, <2>1, <2>2, <2>3
<1>6. Dearest = CHOOSE m \in S : \A y \in S : m >= y BY DEF Dearest, Max
<1> HIDE DEF S
<1>7. Dearest \in S /\ \A y \in S : Dearest >= y BY <1>4, <1>5, <1>6
<1> QED BY <1>1, <1>7 DEF S

\* What D calls cost grows with D, by one call at a time.
LEMMA Grows ==
    ASSUME NEW a \in Nat, NEW b \in Nat, NEW c \in Nat, b <= c
    PROVE  a * b \in Nat /\ a * b <= a * c /\ a * (b + 1) = a * b + a
<1>1. a * b \in Nat /\ a * c \in Nat /\ a * (c - b) \in Nat OBVIOUS
<1>2. a * c = a * b + a * (c - b) OBVIOUS
<1>3. a * (b + 1) = a * b + a OBVIOUS
<1> DEFINE x == a * b
           y == a * c
           z == a * (c - b)
<1>4. x \in Nat /\ y \in Nat /\ z \in Nat /\ y = x + z BY <1>1, <1>2
<1> HIDE DEF x, y, z
<1>5. x <= y BY <1>4
<1> QED BY <1>1, <1>3, <1>5 DEF x, y

\* Finitely many loops are live.
LEMMA LiveFinite ==
    ASSUME TasksTyped(tasks)
    PROVE  IsFiniteSet(Live) /\ Cardinality(Live) \in Nat
<1>1. Live \subseteq DOMAIN tasks /\ IsFiniteSet(DOMAIN tasks) BY DEF Live, TasksTyped
<1> QED BY <1>1, FS_Subset, FS_CardinalityType

\* The hard end is an amount of money.
LEMMA HardEndTyped == ASSUME Priced(run) PROVE HardEnd \in Nat
BY BudgetAssumption DEF Priced, HardEnd

\* Nothing is billed; no more loops are live than were, or than were opened.
LEMMA IdleWithin ==
    ASSUME Within, LoopsTyped, LoopsTyped', UNCHANGED <<run, account>>,
           Cardinality(Live') <= observed'.loops, Gone <= Gone'
    PROVE  Within'
<1>1. /\ Cardinality(Live) \in Nat /\ Cardinality(Live') \in Nat
      /\ observed.loops \in Nat /\ observed'.loops \in Nat /\ account.spent \in Nat
  <2>1. TasksTyped(tasks) /\ TasksTyped(tasks') BY DEF LoopsTyped
  <2>2. IsFiniteSet(Live) /\ IsFiniteSet(Live')
    <3>1. Live \subseteq DOMAIN tasks /\ Live' \subseteq DOMAIN tasks' BY DEF Live
    <3> QED BY <2>1, <3>1, FS_Subset DEF TasksTyped
  <2> QED BY <2>2, FS_CardinalityType DEF LoopsTyped, BooksTyped
<1>2. Gone \in Nat /\ Gone' \in Nat BY <1>1 DEF Gone, Within
<1>3. Dearest \in Nat /\ HardEnd \in Nat /\ Dearest' = Dearest /\ HardEnd' = HardEnd
  BY DearestCall, HardEndTyped DEF Within, Dearest, HardEnd
<1>4. Dearest * Gone <= Dearest * Gone' /\ Dearest * Gone \in Nat /\ Dearest * Gone' \in Nat
  <2> DEFINE a == Dearest
             x == Gone
             y == Gone'
  <2>1. a \in Nat /\ x \in Nat /\ y \in Nat /\ x <= y BY <1>2, <1>3
  <2> HIDE DEF a, x, y
  <2>2. a * x \in Nat /\ a * x <= a * y /\ a * y \in Nat BY <2>1, Grows
  <2> QED BY <2>2 DEF a, x, y
<1>5. account.spent <= HardEnd + Dearest * Gone BY DEF Within
<1>6. account.spent <= HardEnd + Dearest * Gone'
  <2> DEFINE x == Dearest * Gone
             y == Dearest * Gone'
  <2> HIDE DEF x, y
  <2>1. x <= y /\ x \in Nat /\ y \in Nat /\ account.spent <= HardEnd + x BY <1>4, <1>5 DEF x, y
  <2>2. account.spent <= HardEnd + y BY <1>1, <1>3, <2>1
  <2> QED BY <2>2 DEF y
<1> QED BY <1>3, <1>6 DEF Within, Priced

\* Nothing is billed and no loop is left alive.
LEMMA QuietWithin ==
    ASSUME Within, LoopsTyped, LoopsTyped', UNCHANGED <<run, account, observed>>, Live' = {}
    PROVE  Within'
<1>1. Cardinality({}) = 0 BY FS_EmptySet
<1>2. Cardinality(Live) \in Nat /\ observed.loops \in Nat BY LiveFinite DEF LoopsTyped, BooksTyped
<1> QED BY <1>1, <1>2, IdleWithin DEF Gone

\* A loop bills a call within the hard end, or ends with the call that passes it.
LEMMA LoopWithin ==
    ASSUME Within, LoopsTyped, UNCHANGED run, NEW k \in DOMAIN tasks, Looping(k), LoopMoves(k)
    PROVE  Within'
<1>1. /\ LoopsTyped' /\ DOMAIN tasks' = DOMAIN tasks
      /\ \A j \in DOMAIN tasks \ {k} : tasks'[j] = tasks[j]
      /\ tasks'[k] = [tasks[k] EXCEPT !.loop = tasks'[k].loop]
  BY LoopChanges
<1>2. tasks[k].loop.phase \notin LoopEnds /\ observed'.loops = observed.loops
  BY DEF LoopMoves, Free, Pays, Becomes, LoopsTyped, BooksTyped
<1>3. k \in Live BY <1>2 DEF Live
<1>4. tasks'[k].stage = "running"
  BY <1>1 DEF Looping, LoopsTyped, TasksTyped, TaskTyped
<1>5. Live' = IF tasks'[k].loop.phase \in LoopEnds THEN Live \ {k} ELSE Live
  BY <1>1, <1>3, <1>4 DEF Live, Looping
<1>6. IsFiniteSet(Live) /\ Cardinality(Live) \in Nat /\ observed.loops \in Nat
  BY LiveFinite DEF LoopsTyped, BooksTyped
<1>7. Cardinality(Live \ {k}) = Cardinality(Live) - 1 /\ Cardinality(Live \ {k}) \in Nat
  BY <1>3, <1>6, FS_RemoveElement, FS_CardinalityType
<1>8. Cardinality(Live) <= observed.loops BY DEF Within
<1>9. /\ Cardinality(Live') <= observed'.loops
      /\ Gone \in Nat /\ Gone' \in Nat
      /\ Gone' = IF tasks'[k].loop.phase \in LoopEnds THEN Gone + 1 ELSE Gone
  BY <1>2, <1>5, <1>6, <1>7, <1>8 DEF Gone
<1>10. CASE Free(k)
  <2>1. UNCHANGED account BY <1>10 DEF Free
  <2> QED BY <1>1, <1>9, <2>1, IdleWithin
<1>11. ASSUME NEW c \in run.costs, Pays(k, c) PROVE Within'
  <2>1. PICK l :
          /\ tasks' = [tasks EXCEPT ![k].loop = l]
          /\ account' = Billed(c)
          /\ l.phase \in LoopEnds \/ ~Breaks(tasks[k].loop, c)
    BY <1>11 DEF Pays, Becomes
  <2>2. account \in [max : Nat, spent : Nat, peak : Nat] /\ c \in Nat
    BY <1>11 DEF LoopsTyped, BooksTyped
  <2>3. account'.max = account.max /\ account'.spent = account.spent + c
    <3>1. AtLeast(account.peak, c) \in Nat BY <2>2 DEF AtLeast
    <3> HIDE DEF AtLeast
    <3> QED BY <2>1, <2>2 DEF Billed
  <2>4. tasks'[k].loop = l BY <2>1 DEF LoopsTyped, TasksTyped, TaskTyped
  <2>5. /\ Dearest \in Nat /\ HardEnd \in Nat /\ c <= Dearest
        /\ Dearest' = Dearest /\ HardEnd' = HardEnd
    BY <1>11, DearestCall, HardEndTyped DEF Within, Dearest, HardEnd
  <2>6. /\ Dearest * Gone \in Nat /\ Dearest * Gone' \in Nat
        /\ Dearest * (Gone + 1) = Dearest * Gone + Dearest
    BY <1>9, <2>5, Grows
  <2>7. account.spent + c <= HardEnd + Dearest * Gone'
    <3> DEFINE x == Dearest * Gone
               y == Dearest * Gone'
    <3>1. CASE l.phase \in LoopEnds
      <4>1. y = x + Dearest BY <1>9, <2>4, <2>6, <3>1
      <4>2. account.spent <= HardEnd + x BY DEF Within
      <4>3. x \in Nat /\ y \in Nat BY <2>6
      <4> HIDE DEF x, y
      <4>4. account.spent + c <= HardEnd + y BY <2>2, <2>5, <4>1, <4>2, <4>3
      <4> QED BY <4>4 DEF y
    <3>2. CASE ~Breaks(tasks[k].loop, c)
      <4> DEFINE e == Ceiling(account.max, account.peak, tasks[k].loop.landed)
      <4>1. e \in Nat BY <2>2, BudgetAssumption DEF Ceiling
      <4>2. account.max * Backstop = HardEnd BY DEF Within, HardEnd
      <4>3. account.spent + c <= AtMost(e, HardEnd)
        <5>1. ~(account.spent + c > ExecutionCeiling(account.max, account.peak, tasks[k].loop.landed))
          BY <3>2 DEF Breaks
        <5>2. ExecutionCeiling(account.max, account.peak, tasks[k].loop.landed) = AtMost(e, HardEnd)
          BY <4>2 DEF ExecutionCeiling
        <5> HIDE DEF e
        <5>3. AtMost(e, HardEnd) \in Nat BY <2>5, <4>1 DEF AtMost
        <5> QED BY <2>2, <5>1, <5>2, <5>3
      <4> HIDE DEF e
      <4>4. account.spent + c <= HardEnd BY <2>2, <2>5, <4>1, <4>3 DEF AtMost
      <4>5. y \in Nat BY <2>6
      <4> HIDE DEF y
      <4>6. account.spent + c <= HardEnd + y BY <2>2, <2>5, <4>4, <4>5
      <4> QED BY <4>6 DEF y
    <3> QED BY <2>1, <3>1, <3>2
  <2> QED BY <1>9, <2>3, <2>5, <2>7 DEF Within, Priced
<1> QED BY <1>10, <1>11 DEF LoopMoves

\* Every step of a node stays within the bound.
LEMMA NodeWithin ==
    ASSUME Within, JobInv, JobInv', NEW k \in DOMAIN tasks, NodeStep(k)
    PROVE  Within' /\ observed'.loops >= observed.loops
<1>1. /\ LoopsTyped /\ LoopsTyped' /\ TaskTyped(tasks[k])
      /\ observed.loops \in Nat
  BY DEF JobInv, JobTyped, LoopsTyped, TasksTyped, BooksTyped
<1>2. IsFiniteSet(Live) /\ Cardinality(Live) \in Nat BY <1>1, LiveFinite DEF LoopsTyped
<1>3. CASE Ask(k) \/ ReachTurnLimit(k) \/ Answer(k)
  <2>1. Looping(k) /\ UNCHANGED run
    BY <1>3 DEF Ask, ReachTurnLimit, Answer, Asking, CallTool, Output, AnswerInText, Truncate,
                Reject, Unpriced, Unavailable, Lose
  <2>2. LoopMoves(k) BY <1>1, <1>3, AskMoves, AnswerMoves DEF LoopMoves
  <2>3. observed'.loops = observed.loops
    BY <1>1, <2>2 DEF LoopMoves, Free, Pays, LoopsTyped, BooksTyped
  <2>4. Within' BY <1>1, <2>1, <2>2, LoopWithin
  <2> QED BY <1>1, <2>3, <2>4
\* The task is not live before and not live after.
<1>4. ASSUME UNCHANGED <<run, account>>, observed'.loops = observed.loops, k \notin Live,
             NEW t, tasks' = [tasks EXCEPT ![k] = t], t.stage # "running"
      PROVE  Within'
  <2>1. Live' = Live
    BY <1>1, <1>4 DEF Live, Looping, LoopsTyped, TasksTyped
  <2>2. Gone' = Gone BY <1>4, <2>1 DEF Gone
  <2>3. Gone \in Int BY <1>1, <1>2 DEF Gone
  <2> QED BY <1>1, <1>4, <2>1, <2>2, <2>3, IdleWithin DEF Within
<1>5. CASE PassNode(k)
  <2>1. PICK u : tasks' = [tasks EXCEPT ![k].stage = "returned", ![k].loop = None, ![k].update = u]
    BY <1>5 DEF PassNode, Return
  <2> DEFINE t == [tasks[k] EXCEPT !.stage = "returned", !.loop = None, !.update = u]
  <2>2. tasks' = [tasks EXCEPT ![k] = t] BY <1>1, <2>1 DEF LoopsTyped, TasksTyped
  <2>3. t.stage # "running" BY <1>1 DEF TaskTyped
  <2> HIDE DEF t
  <2>4. k \notin Live BY <1>5 DEF PassNode, Waiting, Live, Looping
  <2>5. observed'.loops = observed.loops BY <1>5 DEF PassNode
  <2>6. UNCHANGED <<run, account>> BY <1>5 DEF PassNode
  <2>7. Within' BY <1>4, <2>2, <2>3, <2>4, <2>5, <2>6
  <2> QED BY <1>1, <2>5, <2>7
<1>6. CASE FinishNode(k)
  <2>1. PICK u : tasks' = [tasks EXCEPT ![k].stage = "returned", ![k].loop = None, ![k].update = u]
    BY <1>6 DEF FinishNode, Return
  <2> DEFINE t == [tasks[k] EXCEPT !.stage = "returned", !.loop = None, !.update = u]
  <2>2. tasks' = [tasks EXCEPT ![k] = t] BY <1>1, <2>1 DEF LoopsTyped, TasksTyped
  <2>3. t.stage # "running" BY <1>1 DEF TaskTyped
  <2> HIDE DEF t
  <2>4. k \notin Live BY <1>6 DEF FinishNode, Ended, Live
  <2>5. observed'.loops = observed.loops BY <1>1, <1>6 DEF FinishNode, LoopsTyped, BooksTyped
  <2>6. UNCHANGED <<run, account>> BY <1>6 DEF FinishNode
  <2>7. Within' BY <1>4, <2>2, <2>3, <2>4, <2>5, <2>6
  <2> QED BY <1>1, <2>5, <2>7
<1>7. CASE RetryNode(k)
  <2>1. tasks' = [tasks EXCEPT ![k].stage = "waiting", ![k].loop = None, ![k].tries = @ + 1]
    BY <1>7 DEF RetryNode
  <2> DEFINE t == [tasks[k] EXCEPT !.stage = "waiting", !.loop = None, !.tries = @ + 1]
  <2>2. tasks' = [tasks EXCEPT ![k] = t] BY <1>1, <2>1 DEF LoopsTyped, TasksTyped
  <2>3. t.stage # "running" BY <1>1 DEF TaskTyped
  <2> HIDE DEF t
  <2>4. k \notin Live BY <1>7 DEF RetryNode, Ended, Live
  <2>5. observed'.loops = observed.loops BY <1>1, <1>7 DEF RetryNode, LoopsTyped, BooksTyped
  <2>6. UNCHANGED <<run, account>> BY <1>7 DEF RetryNode
  <2>7. Within' BY <1>4, <2>2, <2>3, <2>4, <2>5, <2>6
  <2> QED BY <1>1, <2>5, <2>7
<1>8. CASE OpenLoop(k)
  <2>1. observed'.loops = observed.loops + 1 /\ UNCHANGED <<run, account>>
    BY <1>1, <1>8 DEF OpenLoop, LoopsTyped, BooksTyped
  <2>2. k \notin Live BY <1>8 DEF OpenLoop, Waiting, Live, Looping
  <2>3. DOMAIN tasks' = DOMAIN tasks /\ \A j \in DOMAIN tasks \ {k} : tasks'[j] = tasks[j]
    BY <1>8 DEF OpenLoop
  <2>4. Live' \in {Live, Live \cup {k}} BY <2>2, <2>3 DEF Live, Looping
  <2>5. Cardinality(Live \cup {k}) = Cardinality(Live) + 1 BY <1>2, <2>2, FS_AddElement
  <2>6. Cardinality(Live) <= observed.loops BY DEF Within
  <2>7. Cardinality(Live') <= observed'.loops /\ Gone <= Gone'
    <3>1. Cardinality(Live') \in {Cardinality(Live), Cardinality(Live) + 1} BY <2>4, <2>5
    <3> QED BY <1>1, <1>2, <2>1, <2>6, <3>1 DEF Gone
  <2> QED BY <1>1, <2>1, <2>7, IdleWithin
<1>9. CASE RetryNode(k) \/ FinishNode(k) \/ OpenLoop(k) \/ PassNode(k)
  <2>1. observed'.loops \in {observed.loops, observed.loops + 1}
    BY <1>1, <1>9 DEF PassNode, FinishNode, RetryNode, OpenLoop, LoopsTyped, BooksTyped
  <2> QED BY <1>1, <2>1, <1>5, <1>6, <1>7, <1>8, <1>9
<1> QED BY <1>3, <1>9 DEF NodeStep

\* What is spent is at most the hard end and a call for each loop opened.
LEMMA SpentWithin ==
    ASSUME Within, LoopsTyped
    PROVE  account.spent <= HardEnd + Dearest * observed.loops
<1>1. /\ Cardinality(Live) \in Nat /\ observed.loops \in Nat /\ account.spent \in Nat
      /\ Dearest \in Nat /\ HardEnd \in Nat
  BY LiveFinite, DearestCall, HardEndTyped DEF LoopsTyped, BooksTyped, Within
<1>2. Gone \in Nat /\ Gone <= observed.loops BY <1>1 DEF Gone, Within
<1>3. Dearest * Gone \in Nat /\ Dearest * Gone <= Dearest * observed.loops
  BY <1>1, <1>2, Grows
<1>4. Dearest * observed.loops \in Nat BY <1>1
<1>5. account.spent <= HardEnd + Dearest * Gone BY DEF Within
<1> DEFINE x == Dearest * Gone
           y == Dearest * observed.loops
<1>6. x \in Nat /\ y \in Nat /\ x <= y /\ account.spent <= HardEnd + x BY <1>3, <1>4, <1>5
<1> HIDE DEF x, y
<1>7. account.spent <= HardEnd + y BY <1>1, <1>6
<1> QED BY <1>7 DEF y

\* What is carried over a crash is within the hard end, too.
LEMMA SaveWithin ==
    ASSUME Within, JobInv, Save
    PROVE  PriorSpend'["cost"] <= HardEnd + Dearest * observed.loops
<1> DEFINE ts == [k \in DOMAIN tasks |-> IF Finished(k) THEN tasks[k] ELSE Planned(tasks[k])]
<1>1. saved' # None => saved'.channels = channels /\ saved'.tasks = ts BY DEF Save
<1>2. TasksTyped(tasks) /\ \A k \in DOMAIN tasks : JobTask(tasks[k])
  BY DEF JobInv, JobTyped, JobTasks
<1>3. ASSUME NEW k \in DOMAIN tasks
      PROVE  /\ TaskTyped(ts[k]) /\ JobTask(ts[k]) /\ ts[k].stage \in {"waiting", "returned"}
             /\ Held(ts[k]) \in Nat /\ Held(tasks[k]) \in Nat /\ Held(ts[k]) <= Held(tasks[k])
  <2>0. TaskTyped(tasks[k]) /\ JobTask(tasks[k]) /\ Held(tasks[k]) \in Nat
    BY <1>2, HeldTyped DEF TasksTyped
  <2>1. CASE Finished(k) BY <2>0, <2>1 DEF Finished
  <2>2. CASE ~Finished(k)
    <3> DEFINE t == Planned(tasks[k])
    <3>1. TaskTyped(t) /\ t.stage = "waiting" /\ t.node = tasks[k].node
      BY DEF Planned, TaskTyped
    <3>2. ts[k] = t BY <2>2
    <3> HIDE DEF t, ts
    <3>3. Held(t) = 0 BY <3>1, HeldTyped
    <3> QED BY <2>0, <3>1, <3>2, <3>3 DEF JobTask
  <2> QED BY <2>1, <2>2
<1>4. DOMAIN ts = DOMAIN tasks /\ ts = [k \in DOMAIN ts |-> ts[k]] OBVIOUS
<1> HIDE DEF ts
<1>5. TasksTyped(ts) /\ JobTasks(ts) /\ AtRest(ts)
  BY <1>2, <1>3, <1>4 DEF TasksTyped, JobTasks, AtRest
<1>6. HeldSum(ts) <= HeldSum(tasks) /\ HeldSum(ts) \in Nat /\ HeldSum(tasks) \in Nat
  <2> DEFINE D == DOMAIN tasks
             f == [k \in D |-> Held(tasks[k])]
             e == [k \in D |-> Held(ts[k])]
  <2>1. f \in [D -> Nat] /\ e \in [D -> Nat] /\ \A x \in D : e[x] <= f[x] BY <1>3
  <2>2. IsFiniteSet(D) /\ D \in SUBSET D BY <1>2 DEF TasksTyped
  <2>3. HeldSum(tasks) = Total(f) /\ HeldSum(ts) = Total(e) BY <1>4 DEF HeldSum
  <2> HIDE DEF D, f, e
  <2>4. Total(e) <= Total(f) BY <2>1, <2>2, TotalMono
  <2> QED BY <1>2, <1>5, <2>3, <2>4, HeldSumTyped
<1>7. saved' # None
      => PriorSpend'["cost"] = channels.spend["cost"] + HeldSum(ts)
  <2> SUFFICES ASSUME saved' # None
               PROVE  PriorSpend'["cost"] = channels.spend["cost"] + HeldSum(ts)
    OBVIOUS
  <2>1. PriorSpend' = Carried(saved') BY DEF PriorSpend, Carried
  <2>2. /\ ChannelsTyped(saved'.channels) /\ JobTasks(saved'.tasks) /\ AtRest(saved'.tasks)
        /\ saved'.channels = channels /\ saved'.tasks = ts
    BY <1>1, <1>5 DEF JobInv, JobTyped
  <2>3. Carried(saved')["cost"] = saved'.channels.spend["cost"] + HeldSum(saved'.tasks)
    BY <2>2, PriorIsHeld
  <2> QED BY <2>1, <2>2, <2>3
<1>8. saved' = None => PriorSpend'["cost"] = 0 BY SpendCosts DEF PriorSpend
<1>9. /\ channels.spend["cost"] \in Nat /\ observed.lost \in Nat /\ observed.loops \in Nat
      /\ account.spent \in Nat
      /\ account.spent = channels.spend["cost"] + observed.lost + HeldSum(tasks)
  BY DEF JobInv, JobTyped, ChannelsTyped, LoopsTyped, BooksTyped, Settled
<1>10. account.spent <= HardEnd + Dearest * observed.loops
  BY SpentWithin DEF JobInv, JobTyped
<1>11. HardEnd \in Nat /\ Dearest * observed.loops \in Nat
  BY <1>9, HardEndTyped, DearestCall DEF Within
<1> DEFINE x == Dearest * observed.loops
           c == channels.spend["cost"]
           p == PriorSpend'["cost"]
<1>12. /\ x \in Nat /\ c \in Nat /\ account.spent <= HardEnd + x
       /\ account.spent = c + observed.lost + HeldSum(tasks)
       /\ p = 0 \/ p = c + HeldSum(ts)
  BY <1>7, <1>8, <1>9, <1>10, <1>11
<1> HIDE DEF x, c, p
<1>13. p <= HardEnd + x
  BY <1>6, <1>9, <1>11, <1>12
<1> QED BY <1>13 DEF p, x

(* At most one call for each loop that was opened. *)
OverInv == Within /\ PriorWithin

\* A step that moves no loop and no money stays within the bound.
LEMMA EndRunWithin ==
    ASSUME Within, LoopsTyped, LoopsTyped',
           UNCHANGED <<run, account, tasks, observed>>
    PROVE  Within'
BY DEF Within, Priced, Live, Looping, Gone, HardEnd, Dearest

\* Every step of a job stays within the bound, crashes and resumed attempts among them.
LEMMA JobWithin ==
    ASSUME ~IsTurn, OverInv, JobInv, JobInv', Work \/ Crash \/ Save \/ Ending \/ UNCHANGED vars
    PROVE  OverInv'
<1>0. LoopsTyped /\ LoopsTyped' /\ Within /\ observed.loops \in Nat
  BY DEF JobInv, JobTyped, OverInv, LoopsTyped, BooksTyped
<1>1. Dearest \in Nat /\ HardEnd \in Nat /\ PriorSpend["cost"] <= HardEnd + Dearest * observed.loops
  BY <1>0, DearestCall, HardEndTyped DEF Within, OverInv, PriorWithin
<1>2. ASSUME UNCHANGED <<run, saved>>, observed'.loops \in Nat, observed'.loops >= observed.loops
      PROVE  PriorWithin'
  <2>1. PriorSpend' = PriorSpend /\ HardEnd' = HardEnd /\ Dearest' = Dearest
    BY <1>2 DEF PriorSpend, HardEnd, Dearest
  <2> DEFINE a == Dearest
             x == observed.loops
             y == observed'.loops
             p == PriorSpend["cost"]
  <2>2. a \in Nat /\ x \in Nat /\ y \in Nat /\ x <= y /\ p <= HardEnd + a * x
    BY <1>0, <1>1, <1>2
  <2>3. p \in Nat
    <3>1. saved # None => p = saved.channels.spend["cost"] + HeldSum(saved.tasks)
      BY PriorIsHeld DEF JobInv, JobTyped, SavedTyped, PriorSpend, Carried
    <3>2. saved # None => saved.channels.spend["cost"] \in Nat /\ HeldSum(saved.tasks) \in Nat
      BY HeldSumTyped DEF JobInv, JobTyped, SavedTyped, ChannelsTyped, JobTasks
    <3>3. saved = None => p = 0 BY SpendCosts DEF PriorSpend
    <3> QED BY <3>1, <3>2, <3>3
  <2> HIDE DEF a, x, y, p
  <2>4. a * x \in Nat /\ a * x <= a * y /\ a * y \in Nat BY <2>2, Grows
  <2> DEFINE m == a * x
             n == a * y
  <2>5. m \in Nat /\ n \in Nat /\ m <= n /\ p <= HardEnd + m BY <2>2, <2>4
  <2> HIDE DEF m, n
  <2>6. p <= HardEnd + n BY <1>1, <2>3, <2>5
  <2> QED BY <2>1, <2>6 DEF PriorWithin, a, y, n, p
<1>3. CASE Crash \/ PassDeadline \/ Ending \/ UNCHANGED vars \/ \E k \in DOMAIN tasks : FailRun(k)
  <2>1. UNCHANGED <<run, account, tasks, observed, saved>>
    BY <1>3 DEF Crash, PassDeadline, FailRun, EndRun, Ending, vars, loopVars
  <2>2. Within' BY <1>0, <2>1, EndRunWithin
  <2>3. PriorWithin' BY <1>0, <1>2, <2>1
  <2> QED BY <2>2, <2>3 DEF OverInv
<1>4. CASE Save
  <2>1. UNCHANGED <<run, account, tasks, observed>> BY <1>4 DEF Save, loopVars
  <2>2. Within' BY <1>0, <2>1, EndRunWithin
  <2>3. HardEnd' = HardEnd /\ Dearest' = Dearest BY <2>1 DEF HardEnd, Dearest
  <2>4. PriorWithin' BY <1>0, <1>4, <2>1, <2>3, SaveWithin DEF PriorWithin
  <2> QED BY <2>2, <2>4 DEF OverInv
<1>5. ASSUME NEW k \in DOMAIN tasks, NodeStep(k) PROVE OverInv'
  <2>1. Within' /\ observed'.loops >= observed.loops BY <1>0, <1>5, NodeWithin
  <2>2. UNCHANGED saved BY <1>5 DEF NodeStep
  <2>3. run' = run /\ observed'.loops \in Nat
    <3>1. [AgentsNext]_vars BY <1>5 DEF AgentsNext, AgentsWork, Work
    <3> QED BY <1>0, <3>1, RunStays DEF LoopsTyped, BooksTyped
  <2> QED BY <1>2, <2>1, <2>2, <2>3 DEF OverInv
<1>6. CASE Advance
  <2>1. UNCHANGED <<run, account, observed, saved>> BY <1>6 DEF Advance
  <2>2. \A k \in DOMAIN tasks' : tasks'[k].stage = "waiting"
    BY <1>6 DEF Advance, Opened, Planned
  <2>3. Live' = {} BY <2>2 DEF Live, Looping
  <2>4. Within' BY <1>0, <2>1, <2>3, QuietWithin
  <2>5. PriorWithin' BY <1>0, <1>2, <2>1
  <2> QED BY <2>4, <2>5 DEF OverInv
<1>7. CASE Resume
  <2>1. /\ account' = [max |-> run.limits.usd, spent |-> PriorSpend.cost, peak |-> 0]
        /\ UNCHANGED <<run, saved>>
        /\ tasks' = IF saved = None THEN Opened(One(FirstNode(run.kind))) ELSE saved.tasks
    BY <1>7 DEF Resume, OpenAccount
  <2>2. observed'.loops = observed.loops BY <1>0, <1>7 DEF Resume, LoopsTyped, BooksTyped
  <2>3. Live' = {}
    <3>1. \A k \in DOMAIN tasks' : tasks'[k].stage # "running"
      <4>1. CASE saved = None BY <2>1, <4>1 DEF Opened, Planned
      <4>2. CASE saved # None BY <2>1, <4>2 DEF JobInv, JobTyped, SavedTyped, AtRest
      <4> QED BY <4>1, <4>2
    <3> QED BY <3>1 DEF Live, Looping
  <2>4. Gone' = observed.loops /\ Cardinality(Live') = 0
    BY <1>0, <2>2, <2>3, FS_EmptySet DEF Gone
  <2>5. HardEnd' = HardEnd /\ Dearest' = Dearest BY <2>1 DEF HardEnd, Dearest
  <2>6. account'.max = run.limits.usd /\ account'.spent = PriorSpend["cost"] BY <2>1
  <2>7. Within' BY <1>0, <1>1, <2>1, <2>2, <2>4, <2>5, <2>6 DEF Within, Priced
  <2>8. PriorWithin' BY <1>0, <1>2, <2>1, <2>2
  <2> QED BY <2>7, <2>8 DEF OverInv
<1> QED BY <1>3, <1>4, <1>5, <1>6, <1>7 DEF Work

\* Every step of a turn stays within the bound.
LEMMA TurnWithin ==
    ASSUME IsTurn, Within, TalkInv, TalkInv',
           TurnWork \/ Crash \/ SaveTurn \/ Ending \/ UNCHANGED vars
    PROVE  Within'
<1>0. /\ LoopsTyped /\ LoopsTyped' /\ observed.loops \in Nat
      /\ attempt.step = Turn => Turn \in DOMAIN tasks /\ Looping(Turn) /\ TaskTyped(tasks[Turn])
  BY DEF TalkInv, LoopsTyped, BooksTyped, TalkTyped, Looping, TasksTyped
<1>1. CASE \/ LoadContext \/ ContextUnreached \/ ContextRefused \/ SeedCheckpoint
           \/ EndTurn \/ FailTurn \/ TurnTooLong \/ SettleTurn \/ DeliverTurn
           \/ Crash \/ SaveTurn \/ Ending \/ UNCHANGED vars
  <2>1. UNCHANGED <<run, account, tasks, observed>>
    BY <1>1 DEF LoadContext, ContextUnreached, ContextRefused, SeedCheckpoint, EndTurn, FailTurn,
                TurnTooLong, SettleTurn, DeliverTurn, Crash, SaveTurn, EndRun, Ending, vars, loopVars
  <2> QED BY <1>0, <2>1, EndRunWithin
<1>2. CASE AskChat \/ (At(Turn) /\ ChatAnswer)
  <2>1. LoopMoves(Turn) BY <1>2, AskTalk, AnswerTalk
  <2>2. attempt.step = Turn BY <1>2 DEF AskChat, At
  <2>3. UNCHANGED run
    <3>1. [AgentsNext]_vars BY <1>2 DEF AgentsNext, AgentsWork, TurnWork
    <3> QED BY <3>1, RunStays
  <2> QED BY <1>0, <2>1, <2>2, <2>3, LoopWithin
<1>3. CASE ReadReturns \/ RecallReturns \/ WriteRefused \/ Propose \/ ToolUnreached
  <2>1. /\ UNCHANGED <<run, account, observed>> /\ attempt.step = Turn
        /\ tasks[Turn].loop.phase \in Tools
    BY <1>3 DEF ReadReturns, RecallReturns, WriteRefused, ResultReturns, Propose, ToolUnreached,
                ToolAnswered, Tooling, At, Loop
  <2>2. /\ DOMAIN tasks' = DOMAIN tasks
        /\ \A j \in DOMAIN tasks \ {Turn} : tasks'[j] = tasks[j]
    BY <1>3 DEF ReadReturns, RecallReturns, WriteRefused, ResultReturns, Propose, ToolUnreached,
                ToolAnswered
  <2>3. Turn \in Live BY <1>0, <2>1 DEF Live, LoopEnds, Tools
  <2>4. Live' \in {Live, Live \ {Turn}} BY <2>2, <2>3 DEF Live, Looping
  <2>5. IsFiniteSet(Live) /\ Cardinality(Live) \in Nat BY <1>0, LiveFinite DEF LoopsTyped
  <2>6. Cardinality(Live') \in {Cardinality(Live), Cardinality(Live) - 1}
    BY <2>3, <2>4, <2>5, FS_RemoveElement
  <2>7. Cardinality(Live) <= observed.loops BY DEF Within
  <2>8. Cardinality(Live') <= observed'.loops /\ Gone <= Gone'
    BY <1>0, <2>1, <2>5, <2>6, <2>7 DEF Gone
  <2> QED BY <1>0, <2>1, <2>8, IdleWithin
<1>4. CASE OpenTurn
  <2>1. /\ UNCHANGED <<run, account>> /\ DOMAIN tasks' = {Turn}
        /\ observed'.loops = observed.loops + 1
    BY <1>0, <1>4 DEF OpenTurn, LoopsTyped, BooksTyped
  <2>2. Live' \in {{}, {Turn}} BY <2>1 DEF Live
  <2>3. Cardinality(Live') \in {0, 1} BY <2>2, FS_EmptySet, FS_Singleton
  <2>4. Cardinality(Live) \in Nat /\ Cardinality(Live) <= observed.loops
    BY <1>0, LiveFinite DEF LoopsTyped, Within
  <2>5. Cardinality(Live') <= observed'.loops /\ Gone <= Gone'
    BY <1>0, <2>1, <2>3, <2>4 DEF Gone
  <2> QED BY <1>0, <2>1, <2>5, IdleWithin
<1>5. CASE ResumeTurn
  <2>1. /\ account' = [account EXCEPT !.spent = 0, !.peak = 0] /\ tasks' = <<>>
        /\ UNCHANGED <<run, observed>>
    BY <1>5 DEF ResumeTurn
  <2>2. Live' = {} BY <2>1 DEF Live
  <2>3. Gone' = observed.loops /\ Cardinality(Live') = 0
    BY <1>0, <2>1, <2>2, FS_EmptySet DEF Gone
  <2>4. account'.max = run.limits.usd /\ account'.spent = 0
    BY <1>0, <2>1 DEF LoopsTyped, BooksTyped, Within
  <2>5. HardEnd \in Nat /\ HardEnd' = HardEnd /\ Dearest' = Dearest
        /\ Dearest \in Nat
    BY <2>1, HardEndTyped, DearestCall DEF HardEnd, Dearest, Within
  <2>6. Dearest * observed.loops \in Nat BY <1>0, <2>5
  <2> QED BY <1>0, <2>1, <2>3, <2>4, <2>5, <2>6 DEF Within, Priced
<1> QED BY <1>1, <1>2, <1>3, <1>4, <1>5 DEF TurnWork

\* At first nothing is spent.
LEMMA InitWithin == AgentsInit => OverInv
<1> SUFFICES ASSUME AgentsInit PROVE OverInv OBVIOUS
<1>1. /\ Priced(run) /\ account = [max |-> run.limits.usd, spent |-> 0, peak |-> 0]
      /\ observed.loops = 0 /\ saved = None
  BY ScenariosAssumption, ChatScenariosAssumption, SpendCosts
     DEF AgentsInit, Init, ChatInit, OpenAccount
<1>2. Live = {}
  <2>1. \A k \in DOMAIN tasks : tasks[k].stage # "running"
    BY DEF AgentsInit, Init, ChatInit, Opened, Planned
  <2> QED BY <2>1 DEF Live, Looping
<1>3. Cardinality(Live) = 0 /\ Gone = 0 BY <1>1, <1>2, FS_EmptySet DEF Gone
<1>4. Dearest \in Nat /\ HardEnd \in Nat BY <1>1, DearestCall, HardEndTyped
<1>5. PriorSpend["cost"] = 0 BY <1>1, SpendCosts DEF PriorSpend
<1> QED BY <1>1, <1>3, <1>4, <1>5 DEF OverInv, Within, PriorWithin

(* However many loops run side by side or one after the other, and however often*)
(* an attempt is resumed, each passes the hard end by at most one call.      *)
THEOREM OverrunIsBounded == AgentsSpec => []OverrunBounded
<1> DEFINE Typed == (IsTurn => TalkInv) /\ (~IsTurn => JobInv)
<1>1. AgentsInit => OverInv BY InitWithin
<1>2. OverInv /\ Typed /\ Typed' /\ [AgentsNext]_vars => OverInv'
  <2> SUFFICES ASSUME OverInv, Typed, Typed', [AgentsNext]_vars PROVE OverInv'
    OBVIOUS
  <2>1. IsTurn' = IsTurn BY RunStays DEF IsTurn
  <2>2. CASE IsTurn
    <3>1. Within' BY <2>1, <2>2, TurnWithin DEF OverInv, AgentsNext, AgentsWork
    <3> QED BY <2>1, <2>2, <3>1 DEF OverInv, PriorWithin
  <2>3. CASE ~IsTurn
    BY <2>1, <2>3, JobWithin DEF AgentsNext, AgentsWork
  <2> QED BY <2>2, <2>3
<1>3. OverInv /\ Typed => OverrunBounded
  <2> SUFFICES ASSUME OverInv, Typed PROVE OverrunBounded OBVIOUS
  <2>1. LoopsTyped /\ Within BY DEF TalkInv, JobInv, JobTyped, OverInv
  <2>2. account.spent <= HardEnd + Dearest * observed.loops BY <2>1, SpentWithin
  <2> QED BY <2>1, <2>2 DEF OverrunBounded, Within, HardEnd, Dearest
<1> QED
  <2>1. AgentsSpec => []Typed BY TalkIsOrderly, JobsBalance, PTL
  <2> HIDE DEF Typed
  <2> QED BY <1>1, <1>2, <1>3, <2>1, PTL DEF AgentsSpec
==============================================================================
