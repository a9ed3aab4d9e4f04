--------------------------- MODULE AgentGraphProofs --------------------------
(* The graph of a job, whatever its models plan, draft and answer: what is     *)
(* delivered was read and found valid, a failure is told, a fan-out is fair,   *)
(* and landing leaves room for the last call of a loop that runs alone.        *)
EXTENDS AgentMoneyProofs

------------------------------------------------------------------------------
(* What the graph carries.                                                    *)

LeaseTyped(l) == l \in [turns : Nat, usd : Nat]

LeasesTyped(leases) ==
    \A name \in {"repair", "survey", "floor", "pool"} : LeaseTyped(leases[name])

SpendTyped(s) == s \in [SpendFields -> Nat]

PlanSound(p) == p # None => p \in Sendings(run) /\ NamesOnce(p)

(* seen is what has been read in the execution so far. *)
ChannelsSound(ch, seen) ==
    /\ LeaseTyped(ch.pool)
    /\ SpendTyped(ch.spend)
    /\ PlanSound(ch.plan) /\ PlanSound(ch.redispatch)
    /\ ch.read \subseteq seen
    /\ ch.exposed \subseteq Ids(Listed(run.scan))
    /\ ch.reason \in {None, Degraded}
    /\ ch.result = None

Branches == {"probe", "inspect"}

\* The channels a node may overwrite.
Writes(node) ==
    IF node \in Branches THEN {}
    ELSE IF node \in {"survey", "triage"} THEN {"plan", "exposed", "reason"}
    ELSE IF node \in {"finalize", "empty"} THEN {"result", "told"}
    ELSE {"redispatch", "rounds", "drafts", "invalid", "repaired", "reason"}

\* What the nodes that ask no model return.
Verdicts(node, ch) ==
    CASE run.kind = "recipe" -> (CASE node = "validate" -> {RecipeValidated(ch)}
                                   [] node = "finalize" -> {RecipeFinalized(ch)}
                                   [] OTHER             -> {RecipeEmpty(ch)})
      [] run.kind = "cleanup" -> (CASE node = "validate" -> CleanupValidations(ch)
                                    [] node = "finalize" -> {CleanupFinalized(ch)}
                                    [] OTHER             -> {CleanupEmpty(ch)})
      [] run.kind = "title" -> (CASE node = "validate" -> {TitleValidated(ch)}
                                  [] node = "finalize" -> {TitleFinalized(ch)}
                                  [] OTHER             -> {TitleEmpty})

UpdateSound(ch, node, u, seen) ==
    /\ SpendTyped(u.spend)
    /\ u.read \subseteq seen
    /\ DOMAIN u.set \subseteq Writes(node)
    /\ \A c \in DOMAIN u.set \cap {"plan", "redispatch"} : PlanSound(u.set[c])
    /\ "exposed" \in DOMAIN u.set => u.set["exposed"] \subseteq Ids(Listed(run.scan))
    /\ "reason" \in DOMAIN u.set => u.set["reason"] = Degraded
    /\ node \in {"validate", "finalize", "empty"} => u \in Verdicts(node, ch)

\* Drafts that may be delivered.
Deliverable(ch) ==
    CASE run.kind = "recipe" ->
           (\A c \in ch.drafts : CandidateIsValid(ch, c)) /\ ~ClaimedTwice(ch.drafts)
      [] run.kind = "cleanup" -> \A s \in ch.drafts : SuggestionIsValid(ch, s)
      [] run.kind = "title" ->
           /\ ch.drafts \subseteq run.usable
           /\ ch.drafts # {} => Cardinality(ch.drafts) >= MinTitles

\* The plan the branches of a superstep were sent by.
SentBy(ch) == IF ch.redispatch # None THEN ch.redispatch ELSE ch.plan

TaskSound(ch, k, t, seen) ==
    /\ t.node \in Branches => t.lease = Sends(t.node, SentBy(ch), ch)[k].lease
    /\ t.node \in {"survey", "triage"} => ch.redispatch = None
    /\ t.node = "finalize" => Deliverable(ch)
    /\ t.stage = "running" =>
          LeaseTyped(t.lease) /\ t.loop.max \in Nat /\ t.loop.read \subseteq seen
    /\ t.stage = "returned" => UpdateSound(ch, t.node, t.update, seen)

\* The branches of one fan-out, or one node alone.
Superstep(ch, ts) ==
    \E node \in Nodes :
        /\ \A k \in DOMAIN ts : ts[k].node = node
        /\ IF node \in Branches
           THEN Sendable(SentBy(ch), ch) /\ DOMAIN ts = DOMAIN Sends(node, SentBy(ch), ch)
           ELSE DOMAIN ts = {node}

\* A lost report is in the channels, or about to be.
TellsFailure(u) == u.failed # {} \/ "reason" \in DOMAIN u.set

Told(ch, ts, failed) ==
    failed => \/ ch.reason # None
              \/ ch.failed # {}
              \/ \E k \in DOMAIN ts : ts[k].stage = "returned" /\ TellsFailure(ts[k].update)

GraphSound(ch, ts, failed, seen) ==
    /\ ChannelsSound(ch, seen)
    /\ Superstep(ch, ts)
    /\ \A k \in DOMAIN ts : TaskSound(ch, k, ts[k], seen)
    /\ Told(ch, ts, failed)

\* A scan is not shown rules that wait for review.
RulesShown(seen) ==
    run.kind = "recipe" =>
        \A r \in DOMAIN run.ledger.rules : <<"rule", r>> \in seen => run.ledger.rules[r] = "active"

\* What its models may plan and draft.
Answerable ==
    /\ run.plans \subseteq Sendings(run)
    /\ run.kind # "title" => \A d \in run.drafts : d.redispatch \in Sendings(run)
    /\ run.kind = "title" => IsFiniteSet(run.usable)

AttemptTyped ==
    attempt \in [number : {attempt.number}, phase : {attempt.phase}, leases : {attempt.leases}]

GraphInv ==
    /\ Answerable
    /\ AttemptTyped
    /\ LeasesTyped(attempt.leases)
    /\ RulesShown(observed.read)
    /\ IF attempt.phase = "done" THEN tasks = <<>> /\ OnlyReadIsCited /\ FailureIsTold
       ELSE GraphSound(channels, tasks, observed.failed, observed.read)
    /\ saved # None => GraphSound(saved.channels, saved.tasks, saved.failed, observed.read)

------------------------------------------------------------------------------
(* The room for the last call, when all calls cost c.                         *)

Level == Cardinality(run.costs) = 1 /\ run.answers \cap {"rejected", "unpriced"} = {}

Steady(l, c) ==
    /\ l.peak = c /\ account.peak = c /\ c <= account.spent
    /\ l.spent <= l.max /\ account.spent <= account.max

Paced(l, c) ==
    /\ l.max \in Nat /\ l.peak <= c
    /\ l.phase = "budget" => l.turns = 0
    /\ l.phase \in {"ready"} \cup Tools /\ l.turns # 0 => Steady(l, c) /\ ~l.landed
    /\ l.phase = "asking" /\ l.turns # 0 => Steady(l, c) /\ (l.landed \/ ~Landing(l))

PaceInv ==
    /\ IsTurn => \A k \in DOMAIN tasks : k = Turn /\ tasks[k].node = Turn
    /\ Level => \A c \in run.costs :
                   /\ account.peak <= c
                   /\ \A k \in DOMAIN tasks :
                         Looping(k) /\ tasks[k].node \notin Branches => Paced(tasks[k].loop, c)

------------------------------------------------------------------------------
(* The run stays.                                                             *)

\* What is said of a graph depends on the run alone, and the run stays.
LEMMA ValidStays ==
    ASSUME UNCHANGED run, NEW ch
    PROVE  /\ \A c : CandidateIsValid(ch, c)' <=> CandidateIsValid(ch, c)
           /\ \A s : SuggestionIsValid(ch, s)' <=> SuggestionIsValid(ch, s)
<1>1. ASSUME NEW c PROVE CandidateIsValid(ch, c)' <=> CandidateIsValid(ch, c)
  BY DEF CandidateIsValid, Supported
<1>2. ASSUME NEW s PROVE SuggestionIsValid(ch, s)' <=> SuggestionIsValid(ch, s)
  BY DEF SuggestionIsValid
<1> QED BY <1>1, <1>2

\* What the checks said of a node's answer reads only the channels given.
LEMMA VerdictsStay ==
    ASSUME UNCHANGED run, NEW ch, NEW node
    PROVE  Verdicts(node, ch)' = Verdicts(node, ch)
<1>1. RecipeValidated(ch)' = RecipeValidated(ch)
   BY ValidStays DEF RecipeValidated
<1>2. CleanupValidations(ch)' = CleanupValidations(ch)
   <2>1. {s \in ch.drafts : SuggestionIsValid(ch, s)'} = {s \in ch.drafts : SuggestionIsValid(ch, s)}
     BY ValidStays
   <2> QED BY <2>1 DEF CleanupValidations
<1>3. TitleValidated(ch)' = TitleValidated(ch)
   BY DEF TitleValidated
<1> QED BY <1>1, <1>2, <1>3 DEF Verdicts

\* A sound update of a node stays sound while the run stands still.
LEMMA UpdateStays ==
    ASSUME UNCHANGED run, NEW ch, NEW node, NEW u, NEW seen, UpdateSound(ch, node, u, seen)
    PROVE  UpdateSound(ch, node, u, seen)'
<1>1. \A p : PlanSound(p) => PlanSound(p)' BY DEF PlanSound, Sendings
<1>2. Listed(run.scan)' = Listed(run.scan) OBVIOUS
<1> QED BY <1>1, <1>2, VerdictsStay DEF UpdateSound

\* A deliverable ending stays deliverable while the run stands still.
LEMMA DeliverableStays ==
    ASSUME UNCHANGED run, NEW ch, Deliverable(ch) PROVE Deliverable(ch)'
BY ValidStays DEF Deliverable

\* A sound task stays sound while the run stands still.
LEMMA TaskStays ==
    ASSUME UNCHANGED run, NEW ch, NEW k, NEW t, NEW seen, TaskSound(ch, k, t, seen)
    PROVE  TaskSound(ch, k, t, seen)'
BY UpdateStays, DeliverableStays DEF TaskSound

\* A sound graph stays sound while the run stands still.
LEMMA GraphStays ==
    ASSUME UNCHANGED run, NEW ch, NEW ts, NEW failed, NEW seen, GraphSound(ch, ts, failed, seen)
    PROVE  GraphSound(ch, ts, failed, seen)'
<1>1. ChannelsSound(ch, seen)' BY DEF GraphSound, ChannelsSound, PlanSound, Sendings
<1>2. Superstep(ch, ts)' BY DEF GraphSound, Superstep, Nodes
<1>3. \A k \in DOMAIN ts : TaskSound(ch, k, ts[k], seen)' BY TaskStays DEF GraphSound
<1>4. Told(ch, ts, failed)' BY DEF GraphSound, Told
<1> QED BY <1>1, <1>2, <1>3, <1>4 DEF GraphSound

------------------------------------------------------------------------------
(* What the nodes return that ask no model.                                   *)

\* Spending is counted in natural numbers.
LEMMA SpendsTyped ==
    ASSUME NEW cost \in Nat, NEW turns \in Nat
    PROVE  /\ SpendTyped(NoSpend)
           /\ SpendTyped(ReservedSpend(cost, turns))
           /\ SpendTyped(PoolSpend(cost, turns))
           /\ \A f : LeaseTyped(f) => SpendTyped(FloorThenPoolSpend(f, cost, turns))
           /\ \A a, b : SpendTyped(a) /\ SpendTyped(b) => SpendTyped(AddSpend(a, b))
<1>1. SpendTyped(NoSpend) BY DEF SpendTyped, NoSpend
<1>2. SpendTyped(ReservedSpend(cost, turns)) /\ SpendTyped(PoolSpend(cost, turns))
  BY DEF SpendTyped, ReservedSpend, PoolSpend, NoSpend, SpendFields
<1>3. ASSUME NEW f, LeaseTyped(f) PROVE SpendTyped(FloorThenPoolSpend(f, cost, turns))
  <2>1. AtMost(cost, f.usd) \in Nat /\ AtMost(turns, f.turns) \in Nat
        /\ cost - AtMost(cost, f.usd) \in Nat /\ turns - AtMost(turns, f.turns) \in Nat
    BY <1>3 DEF LeaseTyped, AtMost
  <2> HIDE DEF AtMost
  <2> QED BY <2>1 DEF SpendTyped, FloorThenPoolSpend, SpendFields
<1>4. ASSUME NEW a, NEW b, SpendTyped(a), SpendTyped(b) PROVE SpendTyped(AddSpend(a, b))
  BY <1>4 DEF SpendTyped, AddSpend
<1> QED BY <1>1, <1>2, <1>3, <1>4

\* What is left of a lease is one.
LEMMA LeftTyped == ASSUME NEW a \in Nat, NEW b \in Nat PROVE Left(a, b) \in Nat
BY DEF Left

\* What is left of a sound run's budget: turns and an amount of money.
LEMMA RemainingTyped ==
    ASSUME NEW ch, NEW seen, ChannelsSound(ch, seen)
    PROVE  /\ RemainingTurns(ch) \in Nat /\ RemainingCost(ch) \in Nat
           /\ LeaseTyped(Remaining(ch))
           /\ \A f : LeaseTyped(f) => LeaseTyped(FloorLease(ch, f))
<1>1. /\ ch.pool.turns \in Nat /\ ch.pool.usd \in Nat
      /\ \A f \in SpendFields : ch.spend[f] \in Nat
  BY DEF ChannelsSound, LeaseTyped, SpendTyped
<1>2. RemainingTurns(ch) \in Nat /\ RemainingCost(ch) \in Nat
  BY <1>1 DEF RemainingTurns, RemainingCost, Left, SpendFields
<1>3. ASSUME NEW f, LeaseTyped(f) PROVE LeaseTyped(FloorLease(ch, f))
  BY <1>1, <1>3 DEF FloorLease, Left, LeaseTyped, Lease, SpendFields
<1> QED BY <1>2, <1>3 DEF Remaining, Lease, LeaseTyped

\* A plan of nothing is a plan.
LEMMA EmptyPlan == PlanSound(<<>>) /\ PlanSound(None)
BY DEF PlanSound, Sendings, NamesOnce, IsInjective

\* An update that sets no more than drafts, rounds and flags.
LEMMA PlainSound ==
    ASSUME NEW ch, NEW node, NEW u, NEW seen, SpendTyped(u.spend), u.read \subseteq seen,
           \/ node \in Branches /\ u.set = <<>>
           \/ /\ node \notin Branches \cup {"survey", "triage", "validate", "finalize", "empty"}
              /\ DOMAIN u.set \subseteq {"drafts", "rounds", "repaired"}
    PROVE  UpdateSound(ch, node, u, seen)
BY DEF UpdateSound, Writes, Branches

\* What decides for another round, and plans it.
LEMMA DecidedSound ==
    ASSUME NEW ch, NEW seen, ChannelsSound(ch, seen), NEW floor, LeaseTyped(floor),
           NEW cost \in Nat, NEW turns \in Nat, NEW wanted, PlanSound(wanted), NEW x, NEW y,
           NEW spend, spend = FloorThenPoolSpend(FloorLease(ch, floor), cost, turns),
           NEW u, u = Update([drafts |-> x, redispatch |-> Redispatched(wanted, ch, spend),
                              rounds |-> y], spend)
    PROVE  UpdateSound(ch, "investigate", u, seen)
<1>1. SpendTyped(spend) BY SpendsTyped, RemainingTyped
<1>2. PlanSound(Redispatched(wanted, ch, spend)) BY EmptyPlan DEF Redispatched
<1>3. /\ u.spend = spend /\ u.read = {}
      /\ DOMAIN u.set = {"drafts", "redispatch", "rounds"}
      /\ u.set["redispatch"] = Redispatched(wanted, ch, spend)
  BY DEF Update
<1> QED BY <1>1, <1>2, <1>3 DEF UpdateSound, Writes, Branches

\* The repair keeps the drafts, or takes new ones.
LEMMA RepairedSound ==
    ASSUME NEW ch, NEW seen, NEW cost \in Nat, NEW turns \in Nat, NEW u,
           \/ \E x : u = Update([drafts |-> x, repaired |-> TRUE], ReservedSpend(cost, turns))
           \/ u = Update([repaired |-> TRUE], ReservedSpend(cost, turns))
    PROVE  UpdateSound(ch, "repair", u, seen)
<1>1. /\ u.spend = ReservedSpend(cost, turns) /\ u.read = {}
      /\ DOMAIN u.set \subseteq {"drafts", "rounds", "repaired"}
  BY DEF Update
<1> QED BY <1>1, SpendsTyped, PlainSound DEF Branches

\* What validates, or delivers.
LEMMA VerdictSound ==
    ASSUME Scenario, NEW ch, NEW seen, NEW node \in {"validate", "finalize", "empty"},
           NEW u \in Verdicts(node, ch)
    PROVE  UpdateSound(ch, node, u, seen)
<1> DEFINE Decides(set) ==
             /\ node = "validate" => DOMAIN set \subseteq {"drafts", "invalid"}
             /\ node # "validate" => DOMAIN set \subseteq {"result", "told"}
<1>1. \E set : u = Update(set, NoSpend) /\ Decides(set)
  <2>1. CASE run.kind = "recipe"
    <3>1. CASE node = "validate"
      <4>1. u = RecipeValidated(ch) BY <2>1, <3>1 DEF Verdicts
      <4> QED BY <3>1, <4>1 DEF RecipeValidated
    <3>2. CASE node # "validate"
      <4>1. u = RecipeFinalized(ch) \/ u = RecipeEmpty(ch) BY <2>1, <3>2 DEF Verdicts
      <4> QED BY <3>2, <4>1 DEF RecipeFinalized, RecipeEmpty
    <3> QED BY <3>1, <3>2
  <2>2. CASE run.kind = "cleanup"
    <3>1. CASE node = "validate"
      <4>1. u \in CleanupValidations(ch) BY <2>2, <3>1 DEF Verdicts
      <4> QED BY <3>1, <4>1 DEF CleanupValidations
    <3>2. CASE node # "validate"
      <4>1. u = CleanupFinalized(ch) \/ u = CleanupEmpty(ch) BY <2>2, <3>2 DEF Verdicts
      <4> QED BY <3>2, <4>1 DEF CleanupFinalized, CleanupEmpty
    <3> QED BY <3>1, <3>2
  <2>3. CASE run.kind = "title"
    <3>1. CASE node = "validate"
      <4>1. u = TitleValidated(ch) BY <2>3, <3>1 DEF Verdicts
      <4> QED BY <3>1, <4>1 DEF TitleValidated
    <3>2. CASE node # "validate"
      <4>1. u = TitleFinalized(ch) \/ u = TitleEmpty BY <2>3, <3>2 DEF Verdicts
      <4> QED BY <3>2, <4>1 DEF TitleFinalized, TitleEmpty
    <3> QED BY <3>1, <3>2
  <2> QED BY <2>1, <2>2, <2>3 DEF Scenario
<1>2. u.spend = NoSpend /\ u.read = {} BY <1>1 DEF Update
<1>3. Decides(u.set) BY <1>1 DEF Update
<1>4. SpendTyped(u.spend) BY <1>2, SpendsTyped
<1> QED BY <1>2, <1>3, <1>4 DEF UpdateSound, Writes, Branches

\* What plans.
LEMMA PlannedSound ==
    ASSUME NEW ch, NEW node \in {"survey", "triage"}, NEW u, NEW seen,
           SpendTyped(u.spend), u.read \subseteq seen,
           DOMAIN u.set \subseteq {"plan", "exposed", "reason"}, PlanSound(u.set["plan"]),
           "exposed" \in DOMAIN u.set => u.set["exposed"] \subseteq Ids(Listed(run.scan)),
           "reason" \in DOMAIN u.set => u.set["reason"] = Degraded
    PROVE  UpdateSound(ch, node, u, seen)
BY DEF UpdateSound, Writes, Branches

(* What a node returns without a model. *)
LEMMA UnaskedSound ==
    ASSUME Scenario, LeasesTyped(attempt.leases), NEW seen, ChannelsSound(channels, seen),
           NEW k, NEW t, t.node \in Nodes, NEW u \in Unasked(k, t)
    PROVE  UpdateSound(channels, t.node, u, seen)
<1>1. LeaseTyped(attempt.leases.floor) BY DEF LeasesTyped
<1>2. EmptyDraft.redispatch = <<>> BY DEF EmptyDraft, Draft
<1>3. CASE run.kind = "recipe"
  <2>1. \/ t.node \in {"validate", "finalize", "empty"} /\ u \in Verdicts(t.node, channels)
        \/ t.node = "survey" /\ u = SurveyIdle
        \/ t.node = "probe" /\ u = ProbeIdle(k)
        \/ /\ t.node = "investigate"
           /\ u = RecipeInvestigated(channels, attempt.leases, EmptyDraft, 0, 0)
        \/ /\ t.node = "repair"
           /\ \/ u = RecipeRepairKept(channels)
              \/ u = RecipeRepaired(channels, EmptyDraft, 0, 0)
    BY <1>3 DEF Unasked, RecipeUnasked, Nodes, Verdicts
  <2>2. CASE t.node = "survey" /\ u = SurveyIdle
    <3>1. u.spend = ReservedSpend(0, 0) /\ u.read = {} /\ u.set = [plan |-> <<>>]
      BY <2>2 DEF SurveyIdle, Update
    <3>2. SpendTyped(u.spend) /\ u.read \subseteq seen BY <3>1, SpendsTyped
    <3>3. PlanSound(u.set["plan"]) /\ DOMAIN u.set = {"plan"} BY <3>1, EmptyPlan
    <3>4. t.node \in {"survey", "triage"} BY <2>2
    <3> QED BY <3>2, <3>3, <3>4, PlannedSound
  <2>3. CASE t.node = "probe" /\ u = ProbeIdle(k)
    <3>1. u.spend = PoolSpend(0, 0) /\ u.read = {} /\ u.set = <<>>
      BY <2>3 DEF ProbeIdle, Reporting
    <3> QED BY <2>3, <3>1, SpendsTyped, PlainSound DEF Branches
  <2>4. CASE /\ t.node = "investigate"
             /\ u = RecipeInvestigated(channels, attempt.leases, EmptyDraft, 0, 0)
    BY <1>1, <1>2, <2>4, EmptyPlan, DecidedSound DEF RecipeInvestigated
  <2>5. CASE /\ t.node = "repair"
             /\ \/ u = RecipeRepairKept(channels)
                \/ u = RecipeRepaired(channels, EmptyDraft, 0, 0)
    BY <2>5, RepairedSound DEF RecipeRepairKept, RecipeRepaired
  <2> QED BY <2>1, <2>2, <2>3, <2>4, <2>5, VerdictSound
<1>4. CASE run.kind = "cleanup"
  <2>1. \/ t.node \in {"validate", "finalize", "empty"} /\ u \in Verdicts(t.node, channels)
        \/ t.node = "triage" /\ u = TriageIdle
        \/ t.node = "inspect" /\ u = InspectIdle(k)
        \/ /\ t.node = "investigate"
           /\ u = CleanupInvestigated(channels, attempt.leases, EmptyDraft, 0, 0)
        \/ t.node = "repair" /\ u = CleanupRepaired(channels, EmptyDraft, 0, 0)
    BY <1>4 DEF Unasked, CleanupUnasked, Nodes, Verdicts
  <2>2. CASE t.node = "triage" /\ u = TriageIdle
    <3>1. u.spend = ReservedSpend(0, 0) /\ u.read = {} /\ u.set = [plan |-> <<>>]
      BY <2>2 DEF TriageIdle, Update
    <3>2. SpendTyped(u.spend) /\ u.read \subseteq seen BY <3>1, SpendsTyped
    <3>3. PlanSound(u.set["plan"]) /\ DOMAIN u.set = {"plan"} BY <3>1, EmptyPlan
    <3>4. t.node \in {"survey", "triage"} BY <2>2
    <3> QED BY <3>2, <3>3, <3>4, PlannedSound
  <2>3. CASE t.node = "inspect" /\ u = InspectIdle(k)
    <3>1. u.spend = PoolSpend(0, 0) /\ u.read = {} /\ u.set = <<>>
      BY <2>3 DEF InspectIdle, Reporting
    <3> QED BY <2>3, <3>1, SpendsTyped, PlainSound DEF Branches
  <2>4. CASE /\ t.node = "investigate"
             /\ u = CleanupInvestigated(channels, attempt.leases, EmptyDraft, 0, 0)
    BY <1>1, <1>2, <2>4, EmptyPlan, DecidedSound DEF CleanupInvestigated
  <2>5. CASE t.node = "repair" /\ u = CleanupRepaired(channels, EmptyDraft, 0, 0)
    BY <2>5, RepairedSound DEF CleanupRepaired
  <2> QED BY <2>1, <2>2, <2>3, <2>4, <2>5, VerdictSound
<1>5. CASE run.kind = "title"
  <2>1. \/ t.node \in {"validate", "finalize", "empty"} /\ u \in Verdicts(t.node, channels)
        \/ t.node = "investigate" /\ u = TitleIdle
        \/ t.node = "repair" /\ u = TitleRepairKept
    BY <1>5 DEF Unasked, TitleUnasked, Nodes, Verdicts
  <2>2. CASE t.node = "investigate" /\ u = TitleIdle
    <3>1. u.spend = PoolSpend(0, 0) /\ u.read = {} /\ u.set = [drafts |-> {}]
      BY <2>2 DEF TitleIdle, Update
    <3> QED BY <2>2, <3>1, SpendsTyped, PlainSound DEF Branches
  <2>3. CASE t.node = "repair" /\ u = TitleRepairKept
    BY <2>3, RepairedSound DEF TitleRepairKept
  <2> QED BY <2>1, <2>2, <2>3, VerdictSound
<1> QED BY <1>3, <1>4, <1>5 DEF Scenario

\* The tasks of the batch that a plan names are a plan.
LEMMA InBatchSound ==
    ASSUME NEW p, p \in Sendings(run), NamesOnce(p)
    PROVE  PlanSound(InBatch(p))
<1> DEFINE S == {i \in DOMAIN p : p[i].slot \in Ids(Listed(run.scan))}
           place(n) == CHOOSE i \in S : Cardinality({j \in S : j < i}) = n - 1
           R == {e \in S \X S : e[1] < e[2]}
           N == Cardinality(S)
           b == InBatch(p)
           A == Assignments(IF run.kind = "recipe" THEN Specialists ELSE STRING)
<1>1. p \in Seq(A) /\ \A i, j \in DOMAIN p : p[i].slot = p[j].slot => i = j
  BY DEF Sendings, NamesOnce, IsInjective
<1>2. DOMAIN p = 1 .. Len(p) /\ Len(p) \in Nat /\ \A i \in DOMAIN p : p[i] \in A
  <2> HIDE DEF A
  <2> QED BY <1>1
<1>3. IsFiniteSet(S) /\ S \subseteq Nat /\ N \in Nat
  <2>1. IsFiniteSet(1 .. Len(p)) BY <1>2, FS_Interval
  <2>2. IsFiniteSet(S) BY <1>2, <2>1, FS_Subset
  <2> QED BY <1>2, <2>2, FS_CardinalityType
<1>4. InLine(S, R)
  <2> HIDE DEF S
  <2> QED BY <1>3 DEF InLine
<1>5. \A i \in S : Below(S, R, i) = {j \in S : j < i}
  <2> HIDE DEF S
  <2> QED BY DEF Below
<1>6. \A n \in 1 .. N : place(n) \in S /\ Cardinality({j \in S : j < place(n)}) = n - 1
  <2> SUFFICES ASSUME NEW n \in 1 .. N
               PROVE  place(n) \in S /\ Cardinality({j \in S : j < place(n)}) = n - 1
    OBVIOUS
  <2>1. n - 1 \in 0 .. N - 1 BY <1>3
  <2>2. \E i \in S : Cardinality(Below(S, R, i)) = n - 1
    <3> HIDE DEF S, R
    <3> QED BY <1>3, <1>4, <2>1, Ranked
  <2>3. \E i \in S : Cardinality({j \in S : j < i}) = n - 1
    <3> HIDE DEF S, R
    <3> QED BY <1>5, <2>2
  <2> HIDE DEF S
  <2> QED BY <2>3
<1>7. b = [n \in 1 .. N |-> p[place(n)]] BY DEF InBatch
<1>8. S \subseteq DOMAIN p OBVIOUS
<1> HIDE DEF S, place, b, A
<1>9. \A n \in 1 .. N : b[n] = p[place(n)] /\ b[n] \in A BY <1>2, <1>6, <1>7, <1>8
<1>10. b \in Seq(A) BY <1>3, <1>7, <1>9
<1>11. \A m, n \in 1 .. N : b[m].slot = b[n].slot => m = n
  <2> SUFFICES ASSUME NEW m \in 1 .. N, NEW n \in 1 .. N, b[m].slot = b[n].slot PROVE m = n
    OBVIOUS
  <2>1. place(m) = place(n) BY <1>1, <1>6, <1>8, <1>9
  <2>2. m - 1 = n - 1 BY <1>6, <2>1
  <2> QED BY <1>3, <2>2
<1>12. NamesOnce(b) BY <1>7, <1>11 DEF NamesOnce, IsInjective
<1> QED BY <1>10, <1>12 DEF PlanSound, Sendings, A, b

------------------------------------------------------------------------------
(* What the nodes return that ask one.                                        *)

\* What an answer may plan, or ask for in another round.
LEMMA AnswersSound ==
    ASSUME Answerable
    PROVE  /\ \A p \in Plans : p \in Sendings(run) /\ NamesOnce(p)
           /\ \A p \in Plans : PlanSound(p)
           /\ run.kind # "title" => \A d \in Drafts : PlanSound(d.redispatch)
BY DEF Answerable, Plans, Drafts, WellFormed, PlanSound

\* A branch that reports.
LEMMA ReportSound ==
    ASSUME NEW ch, NEW node \in Branches, NEW seen, NEW cost \in Nat, NEW turns \in Nat,
           NEW r, NEW f, NEW read, read \subseteq seen, NEW u,
           u = Reporting(r, f, read, PoolSpend(cost, turns))
    PROVE  UpdateSound(ch, node, u, seen)
<1>1. u.spend = PoolSpend(cost, turns) /\ u.read = read /\ u.set = <<>> BY DEF Reporting
<1>2. SpendTyped(u.spend) BY <1>1, SpendsTyped
<1> QED BY <1>1, <1>2, PlainSound

(* What a node returns after its loop; a scan that loses work says so. *)
LEMMA ReturnedSound ==
    ASSUME Scenario, Answerable, LeasesTyped(attempt.leases),
           NEW seen, ChannelsSound(channels, seen), NEW k, NEW t, t.node \in Nodes,
           LeaseTyped(t.lease), LoopTyped(t.loop), t.loop.read \subseteq seen,
           NEW u \in Returned(k, t)
    PROVE  UpdateSound(channels, t.node, u, seen) /\ (LosesWork(t.loop, u) => TellsFailure(u))
<1> DEFINE l == t.loop
<1>1. LeaseTyped(attempt.leases.floor) BY DEF LeasesTyped
<1>2. l.spent \in Nat /\ l.turns \in Nat /\ t.lease.turns \in Nat BY DEF LoopTyped, LeaseTyped
<1>3. CASE run.kind = "recipe"
  <2>1. \/ t.node = "survey" /\ l.phase = "output" /\ \E p \in Plans : u = Surveyed(p, l)
        \/ t.node = "survey" /\ u = SurveyDegraded
        \/ t.node = "probe" /\ u \in ProbeUpdates(k, t.lease, l)
        \/ /\ t.node = "investigate" /\ l.phase = "output"
           /\ \E d \in Drafts : u = RecipeInvestigated(channels, attempt.leases, d, l.spent, l.turns)
        \/ /\ t.node = "repair" /\ l.phase = "output"
           /\ \E d \in Drafts : u = RecipeRepaired(channels, d, l.spent, l.turns)
        \/ t.node = "repair" /\ u = RecipeRepairCut(t.lease, l)
    BY <1>3 DEF Returned, RecipeReturned, Nodes
  <2>2. l.phase = "output" => ~LosesWork(l, u) BY DEF LosesWork
  <2>3. ASSUME t.node = "survey", NEW p \in Plans, u = Surveyed(p, l)
        PROVE  UpdateSound(channels, t.node, u, seen)
    <3>1. u.spend = ReservedSpend(l.spent, l.turns) /\ u.read = {} /\ u.set = [plan |-> p]
      BY <2>3 DEF Surveyed, Update
    <3>2. SpendTyped(u.spend) /\ u.read \subseteq seen BY <1>2, <3>1, SpendsTyped
    <3>3. PlanSound(u.set["plan"]) /\ DOMAIN u.set = {"plan"} BY <3>1, AnswersSound
    <3>4. t.node \in {"survey", "triage"} BY <2>3
    <3> QED BY <3>2, <3>3, <3>4, PlannedSound
  <2>4. CASE t.node = "survey" /\ u = SurveyDegraded
    <3>1. u.spend = NoSpend /\ u.read = {} /\ u.set = [plan |-> None, reason |-> Degraded]
      BY <2>4 DEF SurveyDegraded, Update
    <3>2. SpendTyped(u.spend) /\ u.read \subseteq seen BY <1>2, <3>1, SpendsTyped
    <3>3. /\ PlanSound(u.set["plan"]) /\ DOMAIN u.set = {"plan", "reason"}
          /\ u.set["reason"] = Degraded
      BY <3>1, EmptyPlan
    <3>4. t.node \in {"survey", "triage"} BY <2>4
    <3>5. TellsFailure(u) BY <3>3 DEF TellsFailure
    <3> QED BY <3>2, <3>3, <3>4, <3>5, PlannedSound
  <2>5. CASE t.node = "probe" /\ u \in ProbeUpdates(k, t.lease, l)
    <3>1. \/ \E x : u = Probed(k, l, x) /\ l.phase = "output"
          \/ \E x : u = ProbeSalvaged(k, t.lease, l, x)
          \/ u = ProbeFailed(k, t.lease, l)
      BY <2>5 DEF ProbeUpdates
    <3>2. \E r, f : \/ u = Reporting(r, f, l.read, PoolSpend(l.spent, l.turns))
                    \/ u = Reporting(r, f, l.read, PoolSpend(l.spent, t.lease.turns))
      BY <3>1 DEF Probed, ProbeSalvaged, ProbeFailed, Catalog
    <3>3. UpdateSound(channels, t.node, u, seen)
      <4>1. t.node \in Branches BY <2>5 DEF Branches
      <4> QED BY <1>2, <3>2, <4>1, ReportSound
    <3>4. ASSUME NEW x, u = ProbeSalvaged(k, t.lease, l, x)
          PROVE  ~LosesWork(l, u)
      <4>1. u.reports = {Report(k, x, TRUE)} BY <3>4 DEF ProbeSalvaged, Reporting
      <4>2. Report(k, x, TRUE).works BY DEF Report
      <4> QED BY <4>1, <4>2 DEF LosesWork
    <3>5. CASE u = ProbeFailed(k, t.lease, l)
      <4>1. u.failed = {k} BY <3>5 DEF ProbeFailed, Reporting
      <4> QED BY <3>3, <4>1 DEF TellsFailure
    <3> QED BY <2>2, <3>1, <3>3, <3>4, <3>5
  <2>6. ASSUME t.node = "investigate", NEW d \in Drafts,
               u = RecipeInvestigated(channels, attempt.leases, d, l.spent, l.turns)
        PROVE  UpdateSound(channels, t.node, u, seen)
    <3>1. PlanSound(d.redispatch) BY <1>3, AnswersSound
    <3> HIDE DEF l
    <3> QED BY <1>1, <1>2, <2>6, <3>1, DecidedSound DEF RecipeInvestigated
  <2>7. ASSUME t.node = "repair", NEW d \in Drafts, u = RecipeRepaired(channels, d, l.spent, l.turns)
        PROVE  UpdateSound(channels, t.node, u, seen)
    BY <1>2, <2>7, RepairedSound DEF RecipeRepaired
  <2>8. CASE t.node = "repair" /\ u = RecipeRepairCut(t.lease, l)
    <3>1. /\ u.spend = ReservedSpend(l.spent, t.lease.turns) /\ u.read = {}
          /\ DOMAIN u.set = {"drafts", "reason", "repaired"} /\ u.set["reason"] = Degraded
      BY <2>8 DEF RecipeRepairCut, Update
    <3>2. SpendTyped(u.spend) BY <1>2, <3>1, SpendsTyped
    <3>3. UpdateSound(channels, t.node, u, seen)
      BY <2>8, <3>1, <3>2 DEF UpdateSound, Writes, Branches
    <3> QED BY <3>1, <3>3 DEF TellsFailure
  <2> QED BY <2>1, <2>2, <2>3, <2>4, <2>5, <2>6, <2>7, <2>8
<1>4. CASE run.kind = "cleanup"
  <2>0. ~LosesWork(l, u) BY <1>4 DEF LosesWork
  <2>1. \/ t.node = "triage" /\ \E p \in Plans : u = Triaged(p, l)
        \/ t.node = "inspect" /\ u \in InspectUpdates(k, t.lease, l)
        \/ /\ t.node = "investigate"
           /\ \E d \in Drafts :
                 u = CleanupInvestigated(channels, attempt.leases, d, l.spent, l.turns)
        \/ t.node = "repair" /\ \E d \in Drafts : u = CleanupRepaired(channels, d, l.spent, l.turns)
        \/ t.node = "repair" /\ u = CleanupRepairCut(channels, t.lease, l)
    BY <1>4 DEF Returned, CleanupReturned, Nodes
  <2>2. ASSUME t.node = "triage", NEW p \in Plans, u = Triaged(p, l)
        PROVE  UpdateSound(channels, t.node, u, seen)
    <3>1. /\ u.spend = ReservedSpend(l.spent, l.turns) /\ u.read = {}
          /\ u.set = [plan |-> InBatch(p), exposed |-> Ids(Listed(run.scan))]
      BY <2>2 DEF Triaged, Update
    <3>2. SpendTyped(u.spend) /\ u.read \subseteq seen BY <1>2, <3>1, SpendsTyped
    <3>3. /\ u.set["plan"] = InBatch(p) /\ DOMAIN u.set = {"plan", "exposed"}
          /\ u.set["exposed"] = Ids(Listed(run.scan))
      BY <3>1
    <3>5. PlanSound(InBatch(p)) BY AnswersSound, InBatchSound
    <3>6. t.node \in {"survey", "triage"} BY <2>2
    <3> QED BY <3>2, <3>3, <3>5, <3>6, PlannedSound
  <2>3. CASE t.node = "inspect" /\ u \in InspectUpdates(k, t.lease, l)
    <3>1. \E r, f : \/ u = Reporting(r, f, l.read, PoolSpend(l.spent, l.turns))
                    \/ u = Reporting(r, f, l.read, PoolSpend(l.spent, t.lease.turns))
      BY <2>3 DEF InspectUpdates, Inspected
    <3>2. t.node \in Branches BY <2>3 DEF Branches
    <3> QED BY <1>2, <2>0, <3>1, <3>2, ReportSound
  <2>4. ASSUME t.node = "investigate", NEW d \in Drafts,
               u = CleanupInvestigated(channels, attempt.leases, d, l.spent, l.turns)
        PROVE  UpdateSound(channels, t.node, u, seen)
    <3>1. PlanSound(d.redispatch) BY <1>4, AnswersSound
    <3> HIDE DEF l
    <3> QED BY <1>1, <1>2, <2>4, <3>1, DecidedSound DEF CleanupInvestigated
  <2>5. ASSUME t.node = "repair", NEW d \in Drafts,
               u = CleanupRepaired(channels, d, l.spent, l.turns)
        PROVE  UpdateSound(channels, t.node, u, seen)
    BY <1>2, <2>5, RepairedSound DEF CleanupRepaired
  <2>6. CASE t.node = "repair" /\ u = CleanupRepairCut(channels, t.lease, l)
    BY <1>2, <2>0, <2>6, RepairedSound DEF CleanupRepairCut
  <2> QED BY <2>0, <2>1, <2>2, <2>3, <2>4, <2>5, <2>6
<1>5. CASE run.kind = "title"
  <2>0. ~LosesWork(l, u) BY <1>5 DEF LosesWork
  <2>1. \/ t.node = "investigate" /\ \E d : u = TitleInvestigated(d, l.spent, l.turns)
        \/ t.node = "repair" /\ \E d : u = TitleRepaired(d, l.spent, l.turns)
    BY <1>5 DEF Returned, TitleReturned, Nodes
  <2>2. ASSUME t.node = "investigate", NEW d, u = TitleInvestigated(d, l.spent, l.turns)
        PROVE  UpdateSound(channels, t.node, u, seen)
    <3>1. u.spend = PoolSpend(l.spent, l.turns) /\ u.read = {} /\ DOMAIN u.set = {"drafts"}
      BY <2>2 DEF TitleInvestigated, Update
    <3>2. SpendTyped(u.spend) BY <1>2, <3>1, SpendsTyped
    <3> QED BY <2>2, <3>1, <3>2, PlainSound DEF Branches
  <2>3. ASSUME t.node = "repair", NEW d, u = TitleRepaired(d, l.spent, l.turns)
        PROVE  UpdateSound(channels, t.node, u, seen)
    BY <1>2, <2>3, RepairedSound DEF TitleRepaired
  <2> QED BY <2>0, <2>1, <2>2, <2>3
<1> QED BY <1>3, <1>4, <1>5 DEF Scenario

------------------------------------------------------------------------------
(* What loops read, and what tools find.                                      *)

\* What was read stays read.
LEMMA ReadMore ==
    ASSUME NEW ch, NEW ts, NEW failed, NEW seen, NEW more, seen \subseteq more,
           GraphSound(ch, ts, failed, seen)
    PROVE  GraphSound(ch, ts, failed, more)
<1>1. ChannelsSound(ch, more) BY DEF GraphSound, ChannelsSound
<1>2. ASSUME NEW node, NEW u, UpdateSound(ch, node, u, seen) PROVE UpdateSound(ch, node, u, more)
  BY <1>2 DEF UpdateSound
<1>3. \A k \in DOMAIN ts : TaskSound(ch, k, ts[k], more)
  BY <1>2 DEF GraphSound, TaskSound
<1> QED BY <1>1, <1>3 DEF GraphSound

(* A task that goes on, with what it returns and loses told. *)
LEMMA TaskGoesOn ==
    ASSUME NEW ch, NEW ts, ts = [k \in DOMAIN ts |-> ts[k]], NEW failed, NEW seen,
           GraphSound(ch, ts, failed, seen),
           NEW k \in DOMAIN ts, NEW t, t.node = ts[k].node, ts[k].stage # "returned",
           NEW more, seen \subseteq more, TaskSound(ch, k, t, more),
           NEW fails, fails => failed \/ (t.stage = "returned" /\ TellsFailure(t.update))
    PROVE  GraphSound(ch, [ts EXCEPT ![k] = t], fails, more)
<1> DEFINE us == [ts EXCEPT ![k] = t]
<1>1. GraphSound(ch, ts, failed, more) BY ReadMore
<1>2. DOMAIN us = DOMAIN ts /\ us[k] = t /\ \A j \in DOMAIN ts \ {k} : us[j] = ts[j]
  OBVIOUS
<1> HIDE DEF us
<1>3. Superstep(ch, us) BY <1>1, <1>2 DEF GraphSound, Superstep
<1>4. \A j \in DOMAIN us : TaskSound(ch, j, us[j], more) BY <1>1, <1>2 DEF GraphSound
<1>5. Told(ch, us, fails) BY <1>1, <1>2 DEF GraphSound, Told
<1> QED BY <1>1, <1>3, <1>4, <1>5 DEF GraphSound, us

(* What a superstep writes, to the channels that are overwritten and the others. *)
Overwrites(w, ch, us) ==
    \A c \in ChannelNames \ {"reports", "failed", "read", "spend"} :
        \/ w[c] = ch[c] /\ \A k \in DOMAIN us : c \notin DOMAIN us[k].set
        \/ \E k \in DOMAIN us : c \in DOMAIN us[k].set /\ w[c] = us[k].set[c]

Gathers(w, ch, us) ==
    /\ \A i : i \in w.read <=> i \in ch.read \/ \E k \in DOMAIN us : i \in us[k].read
    /\ \A i : i \in w.failed <=> i \in ch.failed \/ \E k \in DOMAIN us : i \in us[k].failed

(* A superstep overwrites, gathers and adds; what it gathers was read.           *)
LEMMA Written ==
    ASSUME NEW ch, NEW seen, ChannelsTyped(ch), SpendTyped(ch.spend), ch.read \subseteq seen,
           NEW us, IsFiniteSet(DOMAIN us), NEW node,
           \A k \in DOMAIN us : UpdateSound(ch, node, us[k], seen),
           NEW w, w = AllWritten(ch, us)
    PROVE  /\ Overwrites(w, ch, us) /\ Gathers(w, ch, us)
           /\ w.read \subseteq seen /\ SpendTyped(w.spend)
<1> DEFINE o == Overwritten(ch, us)
           a == o.reports \cup UNION {us[k].reports : k \in DOMAIN us}
           b == o.failed \cup UNION {us[k].failed : k \in DOMAIN us}
           c == o.read \cup UNION {us[k].read : k \in DOMAIN us}
           e == AddSpend(o["spend"], SpendOf(us))
<1>1. DOMAIN ch = ChannelNames BY DEF ChannelsTyped
<1>2. \A x \in ChannelNames :
         \/ o[x] = ch[x] /\ \A k \in DOMAIN us : x \notin DOMAIN us[k].set
         \/ \E k \in DOMAIN us : x \in DOMAIN us[k].set /\ o[x] = us[k].set[x]
  BY <1>1 DEF Overwritten
<1>3. DOMAIN o = ChannelNames BY <1>1 DEF Overwritten
<1>4. w = [o EXCEPT !.reports = a, !.failed = b, !.read = c, !.spend = e] BY DEF AllWritten
<1> HIDE DEF o
<1>5. \A k \in DOMAIN us : {"reports", "failed", "read", "spend"} \cap DOMAIN us[k].set = {}
  BY DEF UpdateSound, Writes
<1>6. o.failed = ch.failed /\ o.read = ch.read /\ o["spend"] = ch.spend
  BY <1>2, <1>5 DEF ChannelNames
<1> HIDE DEF a, b, c, e
<1>7. /\ \A x \in ChannelNames \ {"reports", "failed", "read", "spend"} : w[x] = o[x]
      /\ w.failed = b /\ w.read = c /\ w.spend = e
  BY <1>3, <1>4 DEF ChannelNames
<1>8. SpendTyped(SpendOf(us))
  <2>1. ASSUME NEW f \in SpendFields PROVE Total([k \in DOMAIN us |-> us[k].spend[f]]) \in Nat
    <3>1. [k \in DOMAIN us |-> us[k].spend[f]] \in [DOMAIN us -> Nat] BY DEF UpdateSound, SpendTyped
    <3> QED BY <3>1, TotalType
  <2> QED BY <2>1 DEF SpendTyped, SpendOf
<1>9. SpendTyped(e) BY <1>6, <1>8, SpendsTyped DEF e
<1>10. UNION {us[k].read : k \in DOMAIN us} \subseteq seen BY DEF UpdateSound
<1>11. /\ \A i : i \in w.read <=> i \in ch.read \/ \E k \in DOMAIN us : i \in us[k].read
       /\ \A i : i \in w.failed <=> i \in ch.failed \/ \E k \in DOMAIN us : i \in us[k].failed
  BY <1>6, <1>7 DEF b, c
<1> QED BY <1>2, <1>7, <1>9, <1>10, <1>11 DEF Overwrites, Gathers

(* What a job's loop reads is found by a tool, and recorded for the observer. *)
Reads(k, found) ==
    LET l == tasks[k].loop
        m == tasks'[k].loop
    IN  /\ m.max = l.max
        /\ m.read \subseteq l.read \cup observed'.read
        /\ observed.read \subseteq observed'.read
        /\ observed'.read \subseteq observed.read \cup l.read \cup found
        /\ observed'.failed = observed.failed

\* A call that settles reads what its answer found.
LEMMA SettleReads ==
    ASSUME LoopsTyped, NEW k \in DOMAIN tasks, Asking(k), NEW cost \in run.costs,
           NEW truncated \in BOOLEAN, NEW next, Settle(k, cost, truncated, next),
           NEW found,
           ~truncated => next.max = tasks[k].loop.max /\ next.read \subseteq tasks[k].loop.read \cup found
    PROVE  Reads(k, found)
<1> DEFINE l == tasks[k].loop
           g == Charged(l, cost)
           after == IF Breaks(l, cost) THEN Raised(g, next, "budget")
                    ELSE IF truncated THEN Raised(g, next, "truncated")
                    ELSE next
<1>1. LoopTyped(l) /\ cost \in Nat /\ ObservedTyped(observed)
  BY DEF LoopsTyped, TasksTyped, TaskTyped, BooksTyped, Asking, Looping, ObservedTyped
<1>2. /\ tasks' = [tasks EXCEPT ![k].loop = after]
      /\ observed' = [observed EXCEPT !.paid = @ + cost, !.read = @ \cup after.read]
  BY DEF Settle, SetLoop, Observe
<1>3. LoopTyped(g) /\ g.max = l.max /\ g.read = l.read
  <2>1. g.max = l.max /\ g.read = l.read BY <1>1 DEF Charged, LoopTyped
  <2> QED BY <1>1, <2>1, ChargedLoop
<1> HIDE DEF g
<1>7. \A p \in {"budget", "truncated"} :
         Raised(g, next, p).max = l.max /\ Raised(g, next, p).read = l.read
  BY <1>3, RaisedLoop DEF LoopEnds
<1>4. after.max = l.max /\ after.read \subseteq l.read \cup found BY <1>7
<1> HIDE DEF after
<1>5. tasks'[k].loop = after BY <1>2 DEF LoopsTyped, TasksTyped, TaskTyped
<1>6. observed'.read = observed.read \cup after.read /\ observed'.failed = observed.failed
  BY <1>1, <1>2 DEF ObservedTyped
<1> QED BY <1>4, <1>5, <1>6 DEF Reads

\* A loop of a job reads what its tools find.
LEMMA LoopReads ==
    ASSUME LoopsTyped, NEW k \in DOMAIN tasks, Ask(k) \/ ReachTurnLimit(k) \/ Answer(k)
    PROVE  \E found \in {{}} \cup Finds(run, tasks[k].node, k) : Reads(k, found)
<1> DEFINE l == tasks[k].loop
<1>1. LoopTyped(l) /\ TaskTyped(tasks[k]) /\ run.costs \subseteq Nat
  BY DEF LoopsTyped, TasksTyped, TaskTyped, BooksTyped, Ask, ReachTurnLimit, Answer, Asking, Looping
<1>2. ASSUME NEW n, tasks' = [tasks EXCEPT ![k].loop = n], n.max = l.max, n.read = l.read,
             UNCHANGED observed
      PROVE  Reads(k, {})
  <2>1. tasks'[k].loop = n BY <1>1, <1>2 DEF TaskTyped, LoopsTyped, TasksTyped
  <2> QED BY <1>2, <2>1 DEF Reads
<1>3. CASE \/ Ask(k) \/ ReachTurnLimit(k) \/ \E rejected : Unpriced(k, rejected)
           \/ Unavailable(k) \/ Lose(k)
  <2>0. \A p : [l EXCEPT !.phase = p].max = l.max /\ [l EXCEPT !.phase = p].read = l.read
    BY <1>1 DEF LoopTyped
  <2>1. PICK n : tasks' = [tasks EXCEPT ![k].loop = n] /\ n.max = l.max /\ n.read = l.read
    <3>1. CASE Ask(k)
      <4> DEFINE n == [l EXCEPT !.phase = "asking", !.model = "primary", !.landed = @ \/ Landing(l)]
      <4>1. tasks' = [tasks EXCEPT ![k].loop = n] BY <3>1 DEF Ask, SetLoop
      <4>2. n.max = l.max /\ n.read = l.read BY <1>1 DEF LoopTyped
      <4> HIDE DEF n
      <4> QED BY <4>1, <4>2
    <3>2. CASE tasks' = [tasks EXCEPT ![k].loop = [l EXCEPT !.model = "fallback"]]
      <4> DEFINE n == [l EXCEPT !.model = "fallback"]
      <4>1. n.max = l.max /\ n.read = l.read BY <1>1 DEF LoopTyped
      <4> QED BY <3>2, <4>1
    <3>3. CASE \E p : tasks' = [tasks EXCEPT ![k].loop = [l EXCEPT !.phase = p]]
      <4>1. PICK p : tasks' = [tasks EXCEPT ![k].loop = [l EXCEPT !.phase = p]] BY <3>3
      <4> DEFINE n == [l EXCEPT !.phase = p]
      <4>2. n.max = l.max /\ n.read = l.read BY <2>0
      <4> QED BY <4>1, <4>2
    <3>4. CASE ReachTurnLimit(k)
      <4>1. tasks' = [tasks EXCEPT ![k].loop = [l EXCEPT !.phase = "limit"]]
        BY <3>4 DEF ReachTurnLimit, SetLoop
      <4> QED BY <3>3, <4>1
    <3>5. CASE Lose(k)
      <4>1. tasks' = [tasks EXCEPT ![k].loop = [l EXCEPT !.phase = "lost"]]
        BY <3>5 DEF Lose, SetLoop
      <4> HIDE DEF l
      <4> QED BY <3>3, <4>1
    <3>7. CASE \E rejected : Unpriced(k, rejected)
      <4>1. PICK rejected : Unpriced(k, rejected) BY <3>7
      <4> DEFINE n == [l EXCEPT !.phase = "budget", !.again = @ \/ rejected]
      <4>2. tasks' = [tasks EXCEPT ![k].loop = n] BY <4>1 DEF Unpriced, SetLoop
      <4>3. n.max = l.max /\ n.read = l.read BY <1>1 DEF LoopTyped
      <4> HIDE DEF n
      <4> QED BY <4>2, <4>3
    <3>6. CASE Unavailable(k)
      <4>1. \/ tasks' = [tasks EXCEPT ![k].loop = [l EXCEPT !.model = "fallback"]]
            \/ tasks' = [tasks EXCEPT ![k].loop = [l EXCEPT !.phase = "transient"]]
        BY <3>6 DEF Unavailable, SetLoop
      <4> HIDE DEF l
      <4> QED BY <3>2, <3>3, <4>1
    <3> QED BY <1>3, <3>1, <3>4, <3>5, <3>6, <3>7
  <2>2. UNCHANGED observed BY <1>3 DEF Ask, ReachTurnLimit, Unpriced, Unavailable, Lose
  <2>3. Reads(k, {}) BY <1>2, <2>1, <2>2
  <2> QED BY <2>3
<1>4. ASSUME Asking(k), NEW c \in run.costs, NEW found, CallTool(k, c, found)
      PROVE  Reads(k, found)
  <2> DEFINE g == Charged(l, c)
             n == [g EXCEPT !.phase = "ready", !.turns = @ + 1, !.again = FALSE,
                            !.read = @ \cup found]
  <2>1. Settle(k, c, FALSE, n) BY <1>4 DEF CallTool
  <2>2. n.max = l.max /\ n.read = l.read \cup found BY <1>1 DEF Charged, LoopTyped
  <2> HIDE DEF n, l
  <2> QED BY <1>4, <2>1, <2>2, SettleReads DEF l
<1>5. ASSUME Asking(k), NEW c \in run.costs,
             \/ Output(k, c) \/ AnswerInText(k, c) \/ Truncate(k, c)
             \/ \E truncated \in BOOLEAN : Reject(k, c, truncated)
      PROVE  Reads(k, {})
  <2> DEFINE g == Charged(l, c)
             n1 == [g EXCEPT !.phase = "output", !.turns = @ + 1]
             n2 == [g EXCEPT !.phase = "missing"]
             n3 == [g EXCEPT !.phase = IF g.again THEN "schema" ELSE "ready", !.again = TRUE]
  <2>1. /\ n1.max = l.max /\ n1.read = l.read /\ n2.max = l.max /\ n2.read = l.read
        /\ n3.max = l.max /\ n3.read = l.read
    BY <1>1 DEF Charged, LoopTyped
  <2>2. Settle(k, c, FALSE, n1) \/ Settle(k, c, FALSE, n2) \/ Settle(k, c, TRUE, l)
          \/ \E truncated \in BOOLEAN : Settle(k, c, truncated, n3)
    BY <1>5 DEF Output, AnswerInText, Truncate, Reject
  <2> HIDE DEF n1, n2, n3, l
  <2> QED BY <1>5, <2>1, <2>2, SettleReads DEF l
<1>6. {FALSE, "truncated" \in run.answers} \subseteq BOOLEAN OBVIOUS
<1>7. CASE Asking(k) /\ \E c \in run.costs :
              \/ Output(k, c) \/ AnswerInText(k, c) \/ Truncate(k, c)
              \/ \E truncated \in BOOLEAN : Reject(k, c, truncated)
  BY <1>5, <1>7
<1> QED BY <1>3, <1>4, <1>6, <1>7 DEF Answer

\* No tool of a scan shows a rule that waits for review.
LEMMA FindsActive ==
    ASSUME run.kind = "recipe", NEW node, NEW k, node = "probe" => k \in Specialists,
           NEW found \in {{}} \cup Finds(run, node, k), NEW r \in DOMAIN run.ledger.rules,
           <<"rule", r>> \in found
    PROVE  run.ledger.rules[r] = "active"
<1> DEFINE L == run.ledger
<1>1. CASE node # "probe" BY <1>1 DEF Finds, GetTaskSummary, Nothing
<1>2. CASE node = "probe"
  <2>1. k \in {"timeline", "rules", "repetition"} BY <1>2 DEF Specialists
  <2>2. found \in {{}} \cup ProbeFinds(k, L) BY <1>2 DEF Finds
  <2>3. ASSUME NEW kind, NEW ids, <<"rule", r>> \in Item(kind, ids)
        PROVE  kind = "rule" /\ r \in ids
    BY <2>3 DEF Item
  <2>4. found \notin GetTaskEvents(L) BY <2>3 DEF GetTaskEvents
  <2>5. found \notin SearchEvents(L) /\ found \notin SearchRecipes(L)
    <3>1. ASSUME found \in SearchEvents(L) PROVE FALSE BY <2>3, <3>1 DEF SearchEvents
    <3>2. ASSUME found \in SearchRecipes(L) PROVE FALSE
      <4>1. PICK ids : found = Item("recipe", ids) BY <3>2, ZenonT(30) DEF SearchRecipes
      <4> QED BY <2>3, <4>1
    <3> QED BY <3>1, <3>2
  <2>6. found \in ListRules(L) => L.rules[r] = "active" BY <2>3 DEF ListRules, Nothing
  <2> QED BY <2>1, <2>2, <2>4, <2>5, <2>6
      DEF ProbeFinds, GetTaskSummary, FindSimilarTasks, Nothing
<1> QED BY <1>1, <1>2

\* A branch is named by an assignment of the plan.
LEMMA BranchNamed ==
    ASSUME NEW ch, NEW seen, ChannelsSound(ch, seen), NEW ts, Superstep(ch, ts),
           NEW k \in DOMAIN ts, ts[k].node \in Branches
    PROVE  /\ SentBy(ch) \in Sendings(run) /\ NamesOnce(SentBy(ch)) /\ Sendable(SentBy(ch), ch)
           /\ DOMAIN ts = {SentBy(ch)[i].slot : i \in DOMAIN SentBy(ch)}
           /\ run.kind = "recipe" => k \in Specialists
<1> DEFINE p == SentBy(ch)
<1>1. PICK node \in Nodes :
        /\ \A j \in DOMAIN ts : ts[j].node = node
        /\ node \in Branches => Sendable(p, ch) /\ DOMAIN ts = DOMAIN Sends(node, p, ch)
  BY DEF Superstep
<1>2. Sendable(p, ch) /\ DOMAIN ts = DOMAIN Sends(node, p, ch) BY <1>1
<1>3. DOMAIN ts = {p[i].slot : i \in DOMAIN p} BY <1>2 DEF Sends
<1>4. p \in Sendings(run) /\ NamesOnce(p)
  BY <1>2 DEF ChannelsSound, PlanSound, SentBy, Sendable
<1>5. ASSUME run.kind = "recipe" PROVE k \in Specialists
  <2>1. p \in Seq(Assignments(Specialists)) BY <1>4, <1>5 DEF Sendings
  <2>2. PICK i \in DOMAIN p : k = p[i].slot BY <1>3
  <2>3. p[i] \in Assignments(Specialists)
    <3> HIDE DEF p
    <3> QED BY <2>1, <2>2
  <2> QED BY <2>2, <2>3 DEF Assignments
<1> QED BY <1>2, <1>3, <1>4, <1>5

\* Its lease is one.
LEMMA BranchLeased ==
    ASSUME NEW ch, NEW seen, ChannelsSound(ch, seen), NEW ts, Superstep(ch, ts),
           NEW k \in DOMAIN ts, ts[k].node \in Branches, NEW node
    PROVE  LeaseTyped(Sends(node, SentBy(ch), ch)[k].lease)
<1> DEFINE p == SentBy(ch)
           s == [i \in DOMAIN p |-> p[i].share]
           A == RemainingTurns(ch)
           U == RemainingCost(ch)
           i == CHOOSE i \in DOMAIN p : p[i].slot = k
           D == Assignments(IF run.kind = "recipe" THEN Specialists ELSE STRING)
<1>1. p \in Seq(D) /\ DOMAIN ts = {p[j].slot : j \in DOMAIN p} BY BranchNamed DEF Sendings
<1>2. A \in Nat /\ U \in Nat BY RemainingTyped
<1>3. i \in DOMAIN p BY <1>1
<1>4. s \in Seq(Nat \ {0}) /\ DOMAIN s = DOMAIN p
  <2>1. DOMAIN p = 1 .. Len(p) /\ Len(p) \in Nat /\ \A j \in DOMAIN p : p[j] \in D
    <3> HIDE DEF p, D
    <3> QED BY <1>1
  <2>2. \A j \in DOMAIN p : p[j].share \in Nat \ {0}
    <3> HIDE DEF p
    <3> QED BY <2>1 DEF Assignments
  <2> HIDE DEF p
  <2> QED BY <2>1, <2>2
<1>5. Sends(node, p, ch)[k].lease = QuoteShares(s, A, U)[i] BY <1>1 DEF Sends
<1> HIDE DEF s, i, A, U, p
<1> QED BY <1>2, <1>3, <1>4, <1>5, SharesTyped DEF LeaseTyped, p

------------------------------------------------------------------------------
(* A step within a node.                                                      *)

\* A step that leaves the channels where they are.
LEMMA GraphFollows ==
    ASSUME GraphInv, attempt.phase = "open", UNCHANGED <<run, channels, attempt, saved>>,
           observed.read \subseteq observed'.read, RulesShown(observed'.read),
           GraphSound(channels, tasks', observed'.failed, observed'.read)
    PROVE  GraphInv'
<1>1. GraphSound(channels, tasks, observed.failed, observed.read)'
  <2>1. GraphSound(channels', tasks', observed'.failed, observed'.read) OBVIOUS
  <2> QED BY <2>1, GraphStays
<1>2. (saved # None => GraphSound(saved.channels, saved.tasks, saved.failed, observed.read))'
  <2>1. saved' # None => GraphSound(saved'.channels, saved'.tasks, saved'.failed, observed'.read)
    BY ReadMore DEF GraphInv
  <2> QED BY <2>1, GraphStays
<1>3. RulesShown(observed.read)' BY DEF RulesShown
<1>4. Answerable' /\ AttemptTyped' /\ LeasesTyped(attempt.leases)'
  BY DEF GraphInv, Answerable, Sendings, AttemptTyped, LeasesTyped, LeaseTyped
<1>5. attempt.phase' # "done" OBVIOUS
<1> QED BY <1>1, <1>2, <1>3, <1>4, <1>5 DEF GraphInv

\* A node task is replaced.
LEMMA TaskFollows ==
    ASSUME JobInv, GraphInv, Running, UNCHANGED <<run, channels, attempt, saved>>,
           NEW k \in DOMAIN tasks, tasks[k].stage # "returned",
           NEW t, tasks' = [tasks EXCEPT ![k] = t], t.node = tasks[k].node,
           observed.read \subseteq observed'.read, RulesShown(observed'.read),
           TaskSound(channels, k, t, observed'.read),
           observed'.failed => observed.failed \/ (t.stage = "returned" /\ TellsFailure(t.update))
    PROVE  GraphInv'
<1>1. tasks = [j \in DOMAIN tasks |-> tasks[j]] BY DEF JobInv, JobTyped, JobTasks, TasksTyped
<1>2. GraphSound(channels, tasks, observed.failed, observed.read) BY DEF GraphInv, Running
<1>3. GraphSound(channels, tasks', observed'.failed, observed'.read)
  BY <1>1, <1>2, TaskGoesOn
<1> QED BY <1>3, GraphFollows DEF Running

\* What a loop opens with.
LEMMA LeaseOpens ==
    ASSUME JobInv, GraphInv, Running, NEW k \in DOMAIN tasks
    PROVE  /\ LeaseTyped(LeaseFor(tasks[k]))
           /\ tasks[k].node \in Branches => LeaseFor(tasks[k]) = tasks[k].lease
<1> DEFINE t == tasks[k]
<1>1. /\ GraphSound(channels, tasks, observed.failed, observed.read)
      /\ LeasesTyped(attempt.leases)
  BY DEF GraphInv, Running
<1>2. t.node \in Nodes /\ Scenario BY DEF JobInv, JobTyped, JobTasks, JobTask
<1>3. \A name \in {"survey", "repair", "floor"} : LeaseTyped(attempt.leases[name])
  BY <1>1 DEF LeasesTyped
<1>4. t.node \in Branches => LeaseTyped(t.lease)
  BY <1>1, BranchLeased DEF GraphSound, TaskSound
<1>5. LeaseTyped(Lease(0, 0)) BY DEF LeaseTyped, Lease
<1>6. LeaseTyped(Remaining(channels)) /\ LeaseTyped(FloorLease(channels, attempt.leases.floor))
  BY <1>1, <1>3, RemainingTyped DEF GraphSound
<1>7. LeaseTyped(CombineLeases(FloorLease(channels, attempt.leases.floor), Remaining(channels)))
  BY <1>6 DEF LeaseTyped, CombineLeases, Lease
<1>8. LeaseTyped(attempt.leases.survey) /\ LeaseTyped(attempt.leases.repair) BY <1>3
<1> HIDE DEF t
<1>9. CASE run.kind = "recipe"
  <2>1. LeaseFor(t) = RecipeLease(t, channels, attempt.leases) BY <1>9 DEF LeaseFor
  <2>2. t.node \in Branches => t.node = "probe" BY <1>2, <1>9 DEF Nodes, Branches
  <2> QED BY <1>4, <1>5, <1>7, <1>8, <2>1, <2>2
      DEF RecipeLease, RecipeSynthesisLease, Branches, t
<1>10. CASE run.kind = "cleanup"
  <2>1. LeaseFor(t) = CleanupLease(t, channels, attempt.leases) BY <1>10 DEF LeaseFor
  <2>2. t.node \in Branches => t.node = "inspect" BY <1>2, <1>10 DEF Nodes, Branches
  <2> QED BY <1>4, <1>5, <1>7, <1>8, <2>1, <2>2 DEF CleanupLease, DecisionLease, Branches, t
<1>11. CASE run.kind = "title"
  <2>1. LeaseFor(t) = TitleLease(t, channels, attempt.leases) BY <1>11 DEF LeaseFor
  <2>2. t.node \notin Branches BY <1>2, <1>11 DEF Nodes, Branches
  <2> QED BY <1>5, <1>6, <1>8, <2>1, <2>2 DEF TitleLease, TitleInvestigateLease, t
<1> QED BY <1>2, <1>9, <1>10, <1>11 DEF Scenario

\* Every step of a node.
LEMMA NodeGraph ==
    ASSUME JobInv, GraphInv, NEW k \in DOMAIN tasks, NodeStep(k)
    PROVE  GraphInv'
<1> DEFINE t == tasks[k]
<1>0. /\ Running /\ UNCHANGED <<channels, attempt, saved>>
      /\ LoopsTyped /\ Scenario /\ TaskTyped(t) /\ t.node \in Nodes
      /\ Answerable /\ LeasesTyped(attempt.leases) /\ RulesShown(observed.read)
      /\ GraphSound(channels, tasks, observed.failed, observed.read)
  BY DEF NodeStep, JobInv, JobTyped, JobTasks, JobTask, LoopsTyped, TasksTyped, GraphInv, Running
<1>1. ChannelsSound(channels, observed.read) /\ TaskSound(channels, k, t, observed.read)
  BY <1>0 DEF GraphSound
<1>2. CASE PassNode(k)
  <2>1. PICK u \in Unasked(k, t) : Return(k, u) BY <1>2 DEF PassNode
  <2>2. UpdateSound(channels, t.node, u, observed.read) BY <1>0, <1>1, <2>1, UnaskedSound
  <2> DEFINE n == [t EXCEPT !.stage = "returned", !.loop = None, !.update = u]
  <2>3. tasks' = [tasks EXCEPT ![k] = n] BY <1>0, <2>1 DEF Return
  <2>4. n.stage = "returned" /\ n.update = u /\ n.node = t.node /\ n.lease = t.lease
    BY <1>0 DEF TaskTyped
  <2>5. UNCHANGED <<run, observed>> /\ t.stage = "waiting" BY <1>2 DEF PassNode, Waiting
  <2> HIDE DEF n
  <2>6. TaskSound(channels, k, n, observed'.read) BY <1>1, <2>2, <2>4, <2>5 DEF TaskSound
  <2> QED BY <1>0, <2>3, <2>4, <2>5, <2>6, TaskFollows
<1>3. CASE OpenLoop(k)
  <2> DEFINE lease == LeaseFor(t)
             l == NewLoop(lease.usd)
             n == [t EXCEPT !.stage = "running", !.lease = lease, !.loop = l]
  <2>1. tasks' = [tasks EXCEPT ![k] = n] BY <1>0, <1>3 DEF OpenLoop
  <2>2. LeaseTyped(lease) /\ (t.node \in Branches => lease = t.lease) BY <1>0, LeaseOpens
  <2> HIDE DEF lease
  <2>3. l.max \in Nat /\ l.read = {}
    <3>1. account.max \in Nat /\ lease.usd \in Nat
      BY <1>0, <2>2 DEF LoopsTyped, BooksTyped, LeaseTyped
    <3> QED BY <3>1 DEF NewLoop, AtMost
  <2> HIDE DEF l
  <2>4. n.stage = "running" /\ n.loop = l /\ n.node = t.node /\ n.lease = lease
    BY <1>0 DEF TaskTyped
  <2>5. UNCHANGED run /\ t.stage = "waiting" BY <1>3 DEF OpenLoop, Waiting
  <2>6. observed'.read = observed.read /\ observed'.failed = observed.failed
    BY <1>0, <1>3 DEF OpenLoop, LoopsTyped, BooksTyped
  <2> HIDE DEF n
  <2>7. TaskSound(channels, k, n, observed'.read)
    BY <1>1, <2>2, <2>3, <2>4, <2>6 DEF TaskSound
  <2> QED BY <1>0, <2>1, <2>4, <2>5, <2>6, <2>7, TaskFollows
<1>4. CASE Ask(k) \/ ReachTurnLimit(k) \/ Answer(k)
  <2>1. LoopMoves(k) /\ UNCHANGED run /\ t.stage = "running"
    <3>1. LoopMoves(k) BY <1>0, <1>4, AskMoves, AnswerMoves DEF LoopMoves
    <3>2. UNCHANGED run /\ Looping(k)
      BY <1>4 DEF Ask, ReachTurnLimit, Answer, Asking, CallTool, Output, AnswerInText, Truncate,
                  Reject, Unpriced, Unavailable, Lose
    <3> QED BY <3>1, <3>2 DEF Looping
  <2> DEFINE n == tasks'[k]
  <2>2. PICK l : Becomes(k, l) BY <2>1 DEF LoopMoves, Free, Pays
  <2>3. tasks' = [tasks EXCEPT ![k] = n] /\ n = [t EXCEPT !.loop = n.loop]
    BY <1>0, <2>2 DEF Becomes, LoopsTyped, TasksTyped, TaskTyped
  <2>4. PICK found \in {{}} \cup Finds(run, t.node, k) : Reads(k, found) BY <1>0, <1>4, LoopReads
  <2> HIDE DEF n
  <2>5. n.stage = "running" /\ n.node = t.node /\ n.lease = t.lease
    <3>1. n = [t EXCEPT !.loop = n.loop] BY <2>3
    <3>2. t.stage = "running" BY <2>1
    <3> QED BY <1>0, <3>1, <3>2 DEF TaskTyped
  <2>6. /\ t.loop.max \in Nat /\ t.loop.read \subseteq observed.read /\ LeaseTyped(t.lease)
    BY <1>1, <2>1 DEF TaskSound
  <2>7. /\ n.loop.max \in Nat /\ n.loop.read \subseteq observed'.read
        /\ observed.read \subseteq observed'.read
        /\ observed'.read \subseteq observed.read \cup found
        /\ observed'.failed = observed.failed
    BY <2>4, <2>6 DEF Reads, n
  <2>8. TaskSound(channels, k, n, observed'.read) BY <1>1, <2>5, <2>6, <2>7 DEF TaskSound
  <2>9. RulesShown(observed'.read)
    <3> SUFFICES ASSUME run.kind = "recipe", NEW r \in DOMAIN run.ledger.rules,
                        <<"rule", r>> \in observed'.read
                 PROVE  run.ledger.rules[r] = "active"
      BY DEF RulesShown
    <3>1. CASE <<"rule", r>> \in observed.read BY <1>0, <3>1 DEF RulesShown
    <3>2. CASE <<"rule", r>> \in found
      <4>1. t.node = "probe" => k \in Specialists
        BY <1>0, <1>1, BranchNamed DEF GraphSound, Branches
      <4> QED BY <2>4, <3>2, <4>1, FindsActive
    <3> QED BY <2>7, <3>1, <3>2
  <2>10. t.stage # "returned" BY <2>1
  <2> QED BY <1>0, <2>1, <2>3, <2>5, <2>7, <2>8, <2>9, <2>10, TaskFollows
<1>5. CASE RetryNode(k)
  <2> DEFINE n == [t EXCEPT !.stage = "waiting", !.loop = None, !.tries = @ + 1]
  <2>1. tasks' = [tasks EXCEPT ![k] = n] BY <1>0, <1>5 DEF RetryNode
  <2>2. n.stage = "waiting" /\ n.node = t.node /\ n.lease = t.lease BY <1>0 DEF TaskTyped
  <2>3. UNCHANGED run /\ t.stage = "running" BY <1>5 DEF RetryNode, Ended, Looping
  <2>4. observed'.read = observed.read /\ observed'.failed = observed.failed
    BY <1>0, <1>5 DEF RetryNode, LoopsTyped, BooksTyped
  <2> HIDE DEF n
  <2>5. TaskSound(channels, k, n, observed'.read) BY <1>1, <2>2, <2>4 DEF TaskSound
  <2> QED BY <1>0, <2>1, <2>2, <2>3, <2>4, <2>5, TaskFollows
<1>6. CASE FinishNode(k)
  <2>1. PICK u \in Returned(k, t) :
          /\ Return(k, u)
          /\ observed' = [observed EXCEPT !.lost = @ + Unwritten(t),
                                          !.failed = @ \/ LosesWork(t.loop, u)]
    BY <1>6 DEF FinishNode
  <2>2. UNCHANGED run /\ t.stage = "running" /\ LoopTyped(t.loop)
    BY <1>0, <1>6 DEF FinishNode, Ended, Looping, TaskTyped
  <2>3. LeaseTyped(t.lease) /\ t.loop.read \subseteq observed.read BY <1>1, <2>2 DEF TaskSound
  <2>4. /\ UpdateSound(channels, t.node, u, observed.read)
        /\ LosesWork(t.loop, u) => TellsFailure(u)
    BY <1>0, <1>1, <2>1, <2>2, <2>3, ReturnedSound
  <2> DEFINE n == [t EXCEPT !.stage = "returned", !.loop = None, !.update = u]
  <2>5. tasks' = [tasks EXCEPT ![k] = n] BY <1>0, <2>1 DEF Return
  <2>6. n.stage = "returned" /\ n.update = u /\ n.node = t.node /\ n.lease = t.lease
    BY <1>0 DEF TaskTyped
  <2>7. /\ observed'.read = observed.read
        /\ observed'.failed => observed.failed \/ LosesWork(t.loop, u)
    <3> DEFINE x == Unwritten(t)
               y == LosesWork(t.loop, u)
    <3>1. observed' = [observed EXCEPT !.lost = @ + x, !.failed = @ \/ y] BY <2>1
    <3>2. observed \in [read : {observed.read}, paid : Nat, lost : Nat, loops : Nat,
                        failed : {observed.failed}]
      BY <1>0 DEF LoopsTyped, BooksTyped
    <3> HIDE DEF x, y
    <3>3. observed'.read = observed.read /\ (observed'.failed => observed.failed \/ y)
      BY <3>1, <3>2
    <3> QED BY <3>3 DEF y
  <2> HIDE DEF n
  <2>8. TaskSound(channels, k, n, observed'.read) BY <1>1, <2>4, <2>6, <2>7 DEF TaskSound
  <2>9. observed'.failed => observed.failed \/ (n.stage = "returned" /\ TellsFailure(n.update))
    BY <2>4, <2>6, <2>7
  <2>10. tasks[k].stage # "returned" BY <2>2
  <2>11. RulesShown(observed'.read) BY <1>0, <2>7
  <2> QED BY <1>0, <2>2, <2>5, <2>6, <2>7, <2>8, <2>9, <2>10, <2>11, TaskFollows
<1> QED BY <1>2, <1>3, <1>4, <1>5, <1>6 DEF NodeStep

------------------------------------------------------------------------------
(* The end of a superstep: what comes next, and what is delivered.            *)

\* A node that comes next, alone.
LEMMA OneFollows ==
    ASSUME NEW ch, NEW seen, ChannelsSound(ch, seen), NEW node \in Nodes \ Branches,
           node \in {"survey", "triage"} => ch.redispatch = None,
           node = "finalize" => Deliverable(ch),
           NEW failed, failed => ch.reason # None \/ ch.failed # {}
    PROVE  GraphSound(ch, Opened(One(node)), failed, seen)
<1> DEFINE ts == Opened(One(node))
<1>1. DOMAIN ts = {node} /\ \A k \in DOMAIN ts : ts[k].node = node /\ ts[k].stage = "waiting"
  BY DEF Opened, One, Planned
<1> HIDE DEF ts
<1>2. Superstep(ch, ts) BY <1>1 DEF Superstep
<1>3. \A k \in DOMAIN ts : TaskSound(ch, k, ts[k], seen) BY <1>1 DEF TaskSound
<1> QED BY <1>2, <1>3 DEF GraphSound, Told, ts

\* The branches that come next.
LEMMA SendsFollow ==
    ASSUME NEW ch, NEW seen, ChannelsSound(ch, seen), NEW node \in Nodes \cap Branches,
           Sendable(SentBy(ch), ch), NEW failed, failed => ch.reason # None \/ ch.failed # {}
    PROVE  GraphSound(ch, Opened(Sends(node, SentBy(ch), ch)), failed, seen)
<1> DEFINE s == Sends(node, SentBy(ch), ch)
           ts == Opened(s)
<1>1. \A k \in DOMAIN s : s[k].node = node BY DEF Sends
<1> HIDE DEF s
<1>2. /\ DOMAIN ts = DOMAIN s
      /\ \A k \in DOMAIN ts : /\ ts[k].node = node /\ ts[k].stage = "waiting"
                              /\ ts[k].lease = s[k].lease
  BY <1>1 DEF Opened, Planned
<1> HIDE DEF ts
<1>3. Superstep(ch, ts) BY <1>2 DEF Superstep, s
<1>4. \A k \in DOMAIN ts : TaskSound(ch, k, ts[k], seen) BY <1>2 DEF TaskSound, s, Branches
<1> QED BY <1>3, <1>4 DEF GraphSound, Told, ts, s

\* What follows a node that does not end the run.
LEMMA NextFollows ==
    ASSUME Scenario, NEW ch, NEW seen, ChannelsSound(ch, seen),
           NEW node \in Nodes \ {"finalize", "empty"},
           node \in {"survey", "triage"} => ch.redispatch = None,
           node = "validate" /\ NextTasks(node, ch) = One("finalize") => Deliverable(ch),
           NEW failed, failed => ch.reason # None \/ ch.failed # {}
    PROVE  GraphSound(ch, Opened(NextTasks(node, ch)), failed, seen)
<1> DEFINE Good(p) == GraphSound(ch, Opened(p), failed, seen)
<1>1. ASSUME NEW n \in Nodes \ Branches, n \notin {"survey", "triage", "finalize"} PROVE Good(One(n))
  BY <1>1, OneFollows
<1>2. NextTasks(node, ch) = One("finalize") /\ node = "validate" => Good(One("finalize"))
  <2>1. "finalize" \in Nodes \ Branches /\ "finalize" \notin {"survey", "triage"}
    BY DEF Nodes, Branches
  <2> QED BY <2>1, OneFollows
<1>3. ASSUME NEW n \in Nodes \cap Branches, NEW plan, Sendable(plan, ch), plan = SentBy(ch)
      PROVE  Good(Sends(n, plan, ch))
  BY <1>3, SendsFollow
<1>4. /\ ch.redispatch = None => SentBy(ch) = ch.plan
      /\ Sendable(ch.redispatch, ch) => SentBy(ch) = ch.redispatch
  BY DEF SentBy, Sendable
<1>5. ASSUME NEW r PROVE ValidationRoute(ch, r) \in {"finalize", "empty", "repair", "exhausted"}
  BY DEF ValidationRoute
<1> HIDE DEF Good
<1>6. CASE run.kind = "recipe"
  <2>1. NextTasks(node, ch) = RecipeNext(node, ch) BY <1>6 DEF NextTasks
  <2>2. {"investigate", "validate", "repair", "empty"} \subseteq Nodes \ Branches
        /\ "probe" \in Nodes \cap Branches
        /\ node \in {"survey", "probe", "investigate", "validate", "repair"}
    BY <1>6 DEF Nodes, Branches
  <2>3. node = "survey" => Good(RecipeDispatch(ch))
    BY <1>1, <1>3, <1>4, <2>2 DEF RecipeDispatch, RecipeFanOut
  <2>4. Good(RecipeAfterInvestigate(ch))
    BY <1>1, <1>3, <1>4, <2>2 DEF RecipeAfterInvestigate, RecipeFanOut
  <2>5. node = "validate" => Good(RecipeRoute(ch))
    <3>1. node = "validate" => NextTasks(node, ch) = RecipeRoute(ch) BY <2>1 DEF RecipeNext
    <3>2. RecipeRoute(ch) \in {One("finalize"), One("empty"), One("repair")}
      BY <1>5 DEF RecipeRoute
    <3> QED BY <1>1, <1>2, <2>2, <3>1, <3>2
  <2> QED BY <1>1, <2>1, <2>2, <2>3, <2>4, <2>5 DEF RecipeNext, Good
<1>7. CASE run.kind = "cleanup"
  <2>1. NextTasks(node, ch) = CleanupNext(node, ch) BY <1>7 DEF NextTasks
  <2>2. {"investigate", "validate", "repair", "empty"} \subseteq Nodes \ Branches
        /\ "inspect" \in Nodes \cap Branches
        /\ node \in {"triage", "inspect", "investigate", "validate", "repair"}
    BY <1>7 DEF Nodes, Branches
  <2>3. node = "triage" => Good(CleanupDispatch(ch))
    BY <1>1, <1>3, <1>4, <2>2 DEF CleanupDispatch, CleanupFanOut
  <2>4. Good(CleanupAfterInvestigate(ch))
    BY <1>1, <1>3, <1>4, <2>2 DEF CleanupAfterInvestigate, CleanupFanOut
  <2>5. node = "validate" => Good(CleanupRoute(ch))
    <3>1. node = "validate" => NextTasks(node, ch) = CleanupRoute(ch) BY <2>1 DEF CleanupNext
    <3>2. CleanupRoute(ch) \in {One("finalize"), One("empty"), One("repair")}
      BY <1>5 DEF CleanupRoute
    <3> QED BY <1>1, <1>2, <2>2, <3>1, <3>2
  <2> QED BY <1>1, <2>1, <2>2, <2>3, <2>4, <2>5 DEF CleanupNext, Good
<1>8. CASE run.kind = "title"
  <2>1. NextTasks(node, ch) = TitleNext(node, ch) BY <1>8 DEF NextTasks
  <2>2. {"investigate", "validate", "repair", "empty"} \subseteq Nodes \ Branches
        /\ node \in {"investigate", "validate", "repair"}
    BY <1>8 DEF Nodes, Branches
  <2>5. node = "validate" => Good(TitleRoute(ch))
    <3>1. node = "validate" => NextTasks(node, ch) = TitleRoute(ch) BY <2>1 DEF TitleNext
    <3>2. TitleRoute(ch) \in {One("finalize"), One("empty"), One("repair")}
      BY <1>5 DEF TitleRoute
    <3> QED BY <1>1, <1>2, <2>2, <3>1, <3>2
  <2> QED BY <1>1, <2>1, <2>2, <2>5 DEF TitleNext, Good
<1> QED BY <1>6, <1>7, <1>8 DEF Scenario

\* The validation's word is good: what it lets pass may be delivered.
LEMMA ValidatedDelivers ==
    ASSUME Scenario, Answerable, NEW ch, NEW u \in Verdicts("validate", ch), NEW w,
           w.read = ch.read, w.exposed = ch.exposed,
           w.invalid = u.set["invalid"],
           w.drafts = IF "drafts" \in DOMAIN u.set THEN u.set["drafts"] ELSE ch.drafts,
           NextTasks("validate", w) = One("finalize")
    PROVE  Deliverable(w)
<1>1. ASSUME NEW n PROVE One(n) = One("finalize") => n = "finalize"
  <2>1. DOMAIN One(n) = {n} /\ DOMAIN One("finalize") = {"finalize"} BY DEF One
  <2> QED BY <2>1
<1>2. ASSUME NEW r, ValidationRoute(w, r) = "finalize" PROVE ~w.invalid
  BY <1>2 DEF ValidationRoute
<1>3. CASE run.kind = "recipe"
  <2>1. u = RecipeValidated(ch) BY <1>3 DEF Verdicts
  <2>2. /\ u.set["invalid"] = (\/ \E c \in ch.drafts : ~CandidateIsValid(ch, c)
                               \/ ClaimedTwice(ch.drafts))
        /\ DOMAIN u.set = {"invalid"}
    BY <2>1 DEF RecipeValidated, Update
  <2>3. RecipeRoute(w) = One("finalize") BY <1>3 DEF NextTasks, RecipeNext
  <2>4. ValidationRoute(w, TRUE) = "finalize" BY <1>1, <2>3 DEF RecipeRoute
  <2>5. ~w.invalid BY <1>2, <2>4
  <2>6. \A c \in ch.drafts : CandidateIsValid(w, c) BY <2>2, <2>5 DEF CandidateIsValid
  <2>7. w.drafts = ch.drafts BY <2>2
  <2> QED BY <1>3, <2>2, <2>5, <2>6, <2>7 DEF Deliverable
<1>4. CASE run.kind = "cleanup"
  <2>1. u \in CleanupValidations(ch) BY <1>4 DEF Verdicts
  <2>2. PICK kept : /\ kept \subseteq {s \in ch.drafts : SuggestionIsValid(ch, s)}
                    /\ "drafts" \in DOMAIN u.set /\ u.set["drafts"] = kept
    <3> DEFINE valid == {s \in ch.drafts : SuggestionIsValid(ch, s)}
    <3>1. PICK k \in SUBSET valid :
             u = Update([drafts |-> k, invalid |-> valid # ch.drafts], NoSpend)
      BY <2>1 DEF CleanupValidations
    <3> HIDE DEF valid
    <3>2. "drafts" \in DOMAIN u.set /\ u.set["drafts"] = k BY <3>1 DEF Update
    <3> QED BY <3>1, <3>2 DEF valid
  <2>3. \A s \in kept : SuggestionIsValid(w, s) BY <2>2 DEF SuggestionIsValid
  <2>4. w.drafts = kept BY <2>2
  <2> QED BY <1>4, <2>3, <2>4 DEF Deliverable
<1>5. CASE run.kind = "title"
  <2>1. u = TitleValidated(ch) BY <1>5 DEF Verdicts
  <2> DEFINE kept == ch.drafts \cap run.usable
  <2>2. /\ u.set["invalid"] = (ch.drafts # {} /\ Cardinality(kept) < MinTitles)
        /\ u.set["drafts"] = kept /\ "drafts" \in DOMAIN u.set
    BY <2>1 DEF TitleValidated, Update
  <2>3. TitleRoute(w) = One("finalize") BY <1>5 DEF NextTasks, TitleNext
  <2>4. ValidationRoute(w, TRUE) = "finalize" BY <1>1, <2>3 DEF TitleRoute
  <2>5. ~w.invalid BY <1>2, <2>4
  <2>6. w.drafts = kept BY <2>2
  <2>7. Cardinality(kept) \in Nat
    <3>1. IsFiniteSet(run.usable) /\ kept \subseteq run.usable BY <1>5 DEF Answerable
    <3>2. IsFiniteSet(kept) BY <3>1, FS_Subset
    <3> QED BY <3>2, FS_CardinalityType
  <2>8. kept # {} => Cardinality(kept) >= MinTitles
    <3>1. ch.drafts # {} => ~(Cardinality(kept) < MinTitles) BY <2>2, <2>5
    <3>2. kept # {} => ch.drafts # {} OBVIOUS
    <3> HIDE DEF kept
    <3> QED BY <2>7, <3>1, <3>2 DEF MinTitles
  <2>9. kept \subseteq run.usable OBVIOUS
  <2> HIDE DEF kept
  <2> QED BY <1>5, <2>6, <2>8, <2>9 DEF Deliverable
<1> QED BY <1>3, <1>4, <1>5 DEF Scenario

\* What is delivered rests on what was read.
LEMMA DeliveredIsRead ==
    ASSUME Scenario, UNCHANGED <<run, observed>>, ChannelsSound(channels, observed.read),
           RulesShown(observed.read),
           \/ channels'.result = {}
           \/ channels'.result = channels.drafts /\ Deliverable(channels)
    PROVE  OnlyReadIsCited'
<1> DEFINE R == channels'.result
           seen == observed.read
           L == run.ledger
<1>1. channels.read \subseteq seen BY DEF ChannelsSound
<1>2. CASE run.kind = "recipe"
  <2> SUFFICES ASSUME NEW c \in R
               PROVE  /\ \E i \in c.slices \cap seen : i[1] = "event" /\ L.tasks[i[2]] = "anchor"
                      /\ \A i \in c.slices \cup c.notes :
                            \/ i \in seen
                            \/ /\ i[1] = "task"
                               /\ \E e \in EventsOf(L, i[2]) : <<"event", e>> \in seen
                      /\ \A r \in DOMAIN L.rules : <<"rule", r>> \in c.notes => L.rules[r] = "active"
                      /\ \A d \in R \ {c} : \A i \in c.slices \cap d.slices : i[1] # "turn"
    BY <1>2 DEF OnlyReadIsCited
  <2>1. R = channels.drafts /\ CandidateIsValid(channels, c) /\ ~ClaimedTwice(channels.drafts)
    BY <1>2 DEF Deliverable
  <2>2. \A i \in c.slices \cup c.notes :
           IF i[1] = "task" THEN \E e \in EventsOf(L, i[2]) : <<"event", e>> \in channels.read
           ELSE i \in channels.read
    BY <2>1 DEF CandidateIsValid, Supported
  <2>3. \E i \in c.slices \cap seen : i[1] = "event" /\ L.tasks[i[2]] = "anchor"
    <3>1. PICK i \in c.slices \cap Item("event", EventsOf(L, "anchor")) : TRUE
      BY <2>1 DEF CandidateIsValid
    <3>2. PICK e \in EventsOf(L, "anchor") : i = <<"event", e>> BY <3>1 DEF Item
    <3>3. i[1] = "event" /\ i[2] = e BY <3>2
    <3>4. L.tasks[e] = "anchor" BY <3>2 DEF EventsOf
    <3>5. i \in channels.read BY <2>2, <3>1, <3>3
    <3> QED BY <1>1, <3>1, <3>3, <3>4, <3>5
  <2>4. ASSUME NEW r \in DOMAIN L.rules, <<"rule", r>> \in c.notes PROVE L.rules[r] = "active"
    <3>1. <<"rule", r>>[1] = "rule" OBVIOUS
    <3>2. <<"rule", r>> \in channels.read BY <2>2, <2>4, <3>1
    <3> QED BY <1>1, <1>2, <2>4, <3>2 DEF RulesShown
  <2>5. \A d \in R \ {c} : \A i \in c.slices \cap d.slices : i[1] # "turn"
    BY <2>1 DEF ClaimedTwice
  <2>6. \A i \in c.slices \cup c.notes :
           \/ i \in seen
           \/ i[1] = "task" /\ \E e \in EventsOf(L, i[2]) : <<"event", e>> \in seen
    BY <1>1, <2>2
  <2> QED BY <2>3, <2>4, <2>5, <2>6
<1>3. CASE run.kind = "cleanup"
  <2> SUFFICES ASSUME NEW s \in R
               PROVE  /\ \E task \in Range(run.scan) :
                            /\ task.id = s.slot
                            /\ task.idle >= RecentActivity
                            /\ task.children = 0
                            /\ task.origin # "server-sdk"
                            /\ task.begun => <<"page", s.slot>> \in seen
                      /\ \A e \in s.cites : <<"event", e>> \in seen /\ L.tasks[e] = s.slot
    BY <1>3 DEF OnlyReadIsCited
  <2>1. SuggestionIsValid(channels, s) BY <1>3 DEF Deliverable
  <2>2. s.slot \in Ids(Listed(run.scan)) BY <2>1 DEF SuggestionIsValid, ChannelsSound
  <2>3. PICK i \in Foremost(ListLimit, Qualifying(run.scan)) : run.scan[i].id = s.slot
    BY <2>2 DEF Ids, Listed
  <2>4. i \in Qualifying(run.scan) BY <2>3 DEF Foremost
  <2>5. i \in Scanned(run.scan) /\ Qualifies(i, run.scan, Scanned(run.scan))
    BY <2>4 DEF Qualifying
  <2>6. i \in DOMAIN run.scan /\ run.scan[i].origin # "server-sdk"
    BY <2>5 DEF Scanned, Foremost
  <2>7. run.scan[i].begun => <<"page", s.slot>> \in seen
    <3>1. run.scan[i] \in Batch(run.scan) BY <2>4 DEF Batch
    <3>2. run.scan[i].begun => s.slot \in Begun(Batch(run.scan)) BY <2>3, <3>1 DEF Begun, Ids
    <3> QED BY <1>1, <2>1, <3>2 DEF SuggestionIsValid
  <2>8. \A e \in s.cites : <<"event", e>> \in seen /\ L.tasks[e] = s.slot
    BY <1>1, <2>1 DEF SuggestionIsValid, EventsOf
  <2>9. run.scan[i] \in Range(run.scan) BY <2>6 DEF Range
  <2> QED BY <2>3, <2>5, <2>6, <2>7, <2>8, <2>9 DEF Qualifies
<1>4. CASE run.kind = "title"
  <2>1. R \subseteq run.usable /\ (R # {} => Cardinality(R) >= MinTitles)
    BY <1>4 DEF Deliverable
  <2> QED BY <1>4, <2>1 DEF OnlyReadIsCited
<1> QED BY <1>2, <1>3, <1>4 DEF Scenario

\* A scan without a result says that it lost work.
LEMMA EmptyIsTold ==
    ASSUME run.kind = "recipe", UNCHANGED <<run, observed>>,
           ChannelsSound(channels, observed.read),
           observed.failed => channels.reason # None \/ channels.failed # {},
           channels'.invalid = channels.invalid,
           NEW u \in {RecipeFinalized(channels), RecipeEmpty(channels)},
           channels'.result = u.set["result"], channels'.told = u.set["told"]
    PROVE  FailureIsTold'
<1> SUFFICES ASSUME channels'.result = {}, observed.failed \/ channels.invalid
             PROVE  channels'.told = Degraded
  BY DEF FailureIsTold
<1>1. channels'.told = EmptyResultReason(channels)
  <2>1. CASE u = RecipeFinalized(channels)
    <3>1. /\ u.set["result"] = channels.drafts
          /\ u.set["told"] = IF channels.drafts = {} THEN EmptyResultReason(channels) ELSE None
      BY <2>1 DEF RecipeFinalized, Update
    <3> QED BY <3>1
  <2>2. CASE u = RecipeEmpty(channels)
    BY <2>2 DEF RecipeEmpty, Update
  <2> QED BY <2>1, <2>2
<1>2. channels.reason \in {None, Degraded} BY DEF ChannelsSound
<1>3. channels.reason # None => EmptyResultReason(channels) = Degraded
  BY <1>2 DEF EmptyResultReason
<1>4. channels.reason = None => EmptyResultReason(channels) = Degraded
  <2>1. channels.reason = None => channels.invalid \/ channels.failed # {} OBVIOUS
  <2> QED BY <2>1 DEF EmptyResultReason
<1> QED BY <1>1, <1>3, <1>4

\* Without a result nothing is cited, and nothing need be told.
LEMMA NothingDelivered ==
    ASSUME channels'.result = None PROVE OnlyReadIsCited' /\ FailureIsTold'
BY NoneAssumption DEF OnlyReadIsCited, FailureIsTold

\* The task that a superstep of one node is made of.
LEMMA NodeIs ==
    ASSUME NEW ch, NEW seen, ChannelsSound(ch, seen), NEW ts, Superstep(ch, ts)
    PROVE  /\ NodeOf(ts) \in Nodes
           /\ \A k \in DOMAIN ts : ts[k].node = NodeOf(ts)
           /\ DOMAIN ts # {}
           /\ NodeOf(ts) \notin Branches => DOMAIN ts = {NodeOf(ts)}
<1>1. PICK node \in Nodes :
        /\ \A k \in DOMAIN ts : ts[k].node = node
        /\ IF node \in Branches
           THEN Sendable(SentBy(ch), ch) /\ DOMAIN ts = DOMAIN Sends(node, SentBy(ch), ch)
           ELSE DOMAIN ts = {node}
  BY DEF Superstep
<1>2. DOMAIN ts # {}
  <2>1. CASE node \notin Branches BY <1>1, <2>1
  <2>2. CASE node \in Branches
    <3> DEFINE p == SentBy(ch)
               D == Assignments(IF run.kind = "recipe" THEN Specialists ELSE STRING)
    <3>1. Sendable(p, ch) /\ DOMAIN ts = {p[i].slot : i \in DOMAIN p} BY <1>1, <2>2 DEF Sends
    <3>2. p # <<>> BY <3>1 DEF Sendable
    <3>3. p \in Seq(D) BY <3>1 DEF Sendable, SentBy, ChannelsSound, PlanSound, Sendings
    <3> HIDE DEF p, D
    <3>4. 1 \in DOMAIN p BY <3>2, <3>3
    <3> QED BY <3>1, <3>4
  <2> QED BY <2>1, <2>2
<1>3. NodeOf(ts) = node
  <2>1. \E t \in {ts[k] : k \in DOMAIN ts} : TRUE BY <1>2
  <2>2. (CHOOSE t \in {ts[k] : k \in DOMAIN ts} : TRUE) \in {ts[k] : k \in DOMAIN ts} BY <2>1
  <2> QED BY <1>1, <2>2 DEF NodeOf
<1> QED BY <1>1, <1>2, <1>3

\* A superstep of a node that does not end the run keeps the channels sound.
LEMMA WrittenSound ==
    ASSUME NEW ch, NEW seen, ChannelsTyped(ch), ChannelsSound(ch, seen),
           NEW us, IsFiniteSet(DOMAIN us), NEW node, node \notin {"finalize", "empty"},
           \A k \in DOMAIN us : UpdateSound(ch, node, us[k], seen),
           NEW w, w = AllWritten(ch, us)
    PROVE  /\ ChannelsSound(w, seen)
           /\ node \in {"survey", "triage"} => w.redispatch = ch.redispatch
<1>0. SpendTyped(ch.spend) /\ ch.read \subseteq seen BY DEF ChannelsSound
<1>1. Overwrites(w, ch, us) /\ w.read \subseteq seen /\ SpendTyped(w.spend) BY <1>0, Written
<1>2. \A k \in DOMAIN us : DOMAIN us[k].set \subseteq Writes(node) BY DEF UpdateSound
<1>3. w.pool = ch.pool /\ w.result = ch.result BY <1>1, <1>2 DEF Overwrites, ChannelNames, Writes
<1>4. PlanSound(w.plan) /\ PlanSound(w.redispatch)
  BY <1>1 DEF Overwrites, ChannelNames, ChannelsSound, UpdateSound
<1>5. w.exposed \subseteq Ids(Listed(run.scan)) /\ w.reason \in {None, Degraded}
  BY <1>1 DEF Overwrites, ChannelNames, ChannelsSound, UpdateSound
<1>6. node \in {"survey", "triage"} => w.redispatch = ch.redispatch
  BY <1>1, <1>2 DEF Overwrites, ChannelNames, Writes, Branches
<1> QED BY <1>1, <1>3, <1>4, <1>5, <1>6 DEF ChannelsSound

\* A lost report that was about to be in the channels is in them.
LEMMA WrittenTold ==
    ASSUME NEW ch, NEW seen, ChannelsTyped(ch), ChannelsSound(ch, seen),
           NEW ts, IsFiniteSet(DOMAIN ts), NEW us, DOMAIN us = DOMAIN ts,
           \A k \in DOMAIN us : us[k] = ts[k].update, NEW node,
           \A k \in DOMAIN us : UpdateSound(ch, node, us[k], seen),
           NEW failed, Told(ch, ts, failed), failed, NEW w, w = AllWritten(ch, us)
    PROVE  w.reason # None \/ w.failed # {}
<1>0. IsFiniteSet(DOMAIN us) /\ SpendTyped(ch.spend) /\ ch.read \subseteq seen
  BY DEF ChannelsSound
<1>1. Overwrites(w, ch, us) /\ Gathers(w, ch, us) BY <1>0, Written
<1>2. /\ \/ w.reason = ch.reason /\ \A k \in DOMAIN us : "reason" \notin DOMAIN us[k].set
         \/ \E k \in DOMAIN us : "reason" \in DOMAIN us[k].set /\ w.reason = us[k].set["reason"]
      /\ \A i : i \in w.failed <=> i \in ch.failed \/ \E k \in DOMAIN us : i \in us[k].failed
  BY <1>1 DEF Overwrites, Gathers, ChannelNames
<1>3. \A k \in DOMAIN us : "reason" \in DOMAIN us[k].set => us[k].set["reason"] # None
  BY NoneAssumption DEF UpdateSound
<1>4. CASE ch.reason # None BY <1>2, <1>3, <1>4
<1>5. CASE ch.failed # {} BY <1>2, <1>5
<1>6. CASE \E k \in DOMAIN ts : TellsFailure(ts[k].update)
  <2>1. PICK k \in DOMAIN us : TellsFailure(us[k]) BY <1>6
  <2>2. CASE us[k].failed # {} BY <1>2, <2>2
  <2>3. CASE "reason" \in DOMAIN us[k].set BY <1>2, <1>3, <2>3
  <2> QED BY <2>1, <2>2, <2>3 DEF TellsFailure
<1> QED BY <1>4, <1>5, <1>6 DEF Told

\* A node alone writes what it sets.
LEMMA WrittenAlone ==
    ASSUME NEW ch, NEW seen, ChannelsTyped(ch), ChannelsSound(ch, seen),
           NEW node, NEW us, DOMAIN us = {node}, UpdateSound(ch, node, us[node], seen),
           NEW w, w = AllWritten(ch, us)
    PROVE  /\ \A c \in ChannelNames \ {"reports", "failed", "read", "spend"} :
                 w[c] = IF c \in DOMAIN us[node].set THEN us[node].set[c] ELSE ch[c]
           /\ w.read = ch.read \cup us[node].read
<1>1. IsFiniteSet(DOMAIN us) /\ \A k \in DOMAIN us : UpdateSound(ch, node, us[k], seen)
  BY FS_Singleton
<1>2. SpendTyped(ch.spend) /\ ch.read \subseteq seen BY DEF ChannelsSound
<1>3. Overwrites(w, ch, us) /\ Gathers(w, ch, us) BY <1>1, <1>2, Written
<1>4. \A i : i \in w.read <=> i \in ch.read \cup us[node].read BY <1>3 DEF Gathers
<1> QED BY <1>3, <1>4 DEF Overwrites

\* What is saved stays sound while nothing more is read and nothing is saved.
LEMMA SavedStays ==
    ASSUME GraphInv, UNCHANGED <<run, saved>>, observed'.read = observed.read
    PROVE  /\ (saved # None => GraphSound(saved.channels, saved.tasks, saved.failed, observed.read))'
           /\ Answerable' /\ RulesShown(observed.read)'
<1>1. (saved # None => GraphSound(saved.channels, saved.tasks, saved.failed, observed.read))'
  BY GraphStays DEF GraphInv
<1> QED BY <1>1 DEF GraphInv, Answerable, Sendings, RulesShown

\* The end of the run delivers what was read, and tells what failed.
LEMMA EndDelivers ==
    ASSUME JobInv, GraphInv, Advance, NEW node \in {"finalize", "empty"}, NodeOf(tasks) = node
    PROVE  tasks' = <<>> /\ OnlyReadIsCited' /\ FailureIsTold'
<1> DEFINE u == tasks[node].update
           us == [k \in DOMAIN tasks |-> tasks[k].update]
           w == AllWritten(channels, us)
           seen == observed.read
<1>1. /\ Running /\ channels' = w /\ tasks' = Opened(NextTasks(node, channels'))
      /\ UNCHANGED <<run, observed>> /\ \A k \in DOMAIN tasks : tasks[k].stage = "returned"
  BY DEF Advance, Finished
<1>2. /\ Scenario /\ ChannelsTyped(channels)
      /\ GraphSound(channels, tasks, observed.failed, seen) /\ RulesShown(seen)
  BY <1>1 DEF JobInv, JobTyped, GraphInv, Running
<1>3. ChannelsSound(channels, seen) /\ Superstep(channels, tasks) BY <1>2 DEF GraphSound
<1>4. DOMAIN tasks = {node} /\ tasks[node].node = node
  <2>1. node \notin Branches BY DEF Branches
  <2> QED BY <1>3, <2>1, NodeIs
<1>5. TaskSound(channels, node, tasks[node], seen) BY <1>2, <1>4 DEF GraphSound
<1>6. /\ UpdateSound(channels, node, u, seen) /\ u \in Verdicts(node, channels)
      /\ node = "finalize" => Deliverable(channels)
  BY <1>1, <1>4, <1>5 DEF TaskSound, UpdateSound
<1>7. tasks' = <<>>
  <2>1. NextTasks(node, w) = <<>>
    BY <1>2 DEF NextTasks, RecipeNext, CleanupNext, TitleNext, Scenario
  <2>2. tasks' = Opened(<<>>) BY <1>1, <2>1
  <2>3. Opened(<<>>) = <<>> BY DEF Opened
  <2> QED BY <2>2, <2>3
<1>8. /\ u.set["result"] = {} \/ (u.set["result"] = channels.drafts /\ node = "finalize")
      /\ "result" \in DOMAIN u.set
      /\ run.kind = "recipe" => /\ u \in {RecipeFinalized(channels), RecipeEmpty(channels)}
                                /\ "told" \in DOMAIN u.set /\ u.failed = {}
  <2>1. CASE run.kind = "recipe"
    <3>1. u = IF node = "finalize" THEN RecipeFinalized(channels) ELSE RecipeEmpty(channels)
      BY <1>6, <2>1 DEF Verdicts
    <3>2. CASE node = "finalize" BY <2>1, <3>1, <3>2 DEF RecipeFinalized, Update
    <3>3. CASE node # "finalize" BY <2>1, <3>1, <3>3 DEF RecipeEmpty, Update
    <3> QED BY <3>2, <3>3
  <2>2. CASE run.kind = "cleanup"
    <3>1. u = IF node = "finalize" THEN CleanupFinalized(channels) ELSE CleanupEmpty(channels)
      BY <1>6, <2>2 DEF Verdicts
    <3> QED BY <2>2, <3>1 DEF CleanupFinalized, CleanupEmpty, Update
  <2>3. CASE run.kind = "title"
    <3>1. u = IF node = "finalize" THEN TitleFinalized(channels) ELSE TitleEmpty
      BY <1>6, <2>3 DEF Verdicts
    <3> QED BY <2>3, <3>1 DEF TitleFinalized, TitleEmpty, Update
  <2> QED BY <1>2, <2>1, <2>2, <2>3 DEF Scenario
<1>9. \A c \in {"result", "told", "invalid"} :
         channels'[c] = IF c \in DOMAIN u.set THEN u.set[c] ELSE channels[c]
  <2>1. DOMAIN us = {node} /\ us[node] = u BY <1>4
  <2> HIDE DEF us, u
  <2>2. \A c \in ChannelNames \ {"reports", "failed", "read", "spend"} :
           channels'[c] = IF c \in DOMAIN u.set THEN u.set[c] ELSE channels[c]
    BY <1>1, <1>2, <1>3, <1>6, <2>1, WrittenAlone
  <2> QED BY <2>2 DEF ChannelNames
<1>10. channels'.result = u.set["result"] BY <1>8, <1>9
<1>11. OnlyReadIsCited' BY <1>1, <1>2, <1>3, <1>6, <1>8, <1>10, DeliveredIsRead
<1>12. FailureIsTold'
  <2>1. CASE run.kind = "recipe"
    <3>1. DOMAIN u.set \subseteq {"result", "told"} BY <1>6 DEF UpdateSound, Writes, Branches
    <3>2. ~TellsFailure(u) BY <1>8, <2>1, <3>1 DEF TellsFailure
    <3>3. observed.failed => channels.reason # None \/ channels.failed # {}
      BY <1>2, <1>4, <3>2 DEF GraphSound, Told
    <3>4. channels'.invalid = channels.invalid /\ channels'.told = u.set["told"]
      BY <1>8, <1>9, <2>1, <3>1
    <3> HIDE DEF u
    <3> QED BY <1>1, <1>3, <1>8, <1>10, <2>1, <3>3, <3>4, EmptyIsTold
  <2>2. CASE run.kind # "recipe" BY <1>1, <2>2 DEF FailureIsTold
  <2> QED BY <2>1, <2>2
<1> QED BY <1>7, <1>11, <1>12

\* What the validation returns.
LEMMA ValidationReads ==
    ASSUME Scenario, NEW ch, NEW u \in Verdicts("validate", ch)
    PROVE  u.read = {} /\ "invalid" \in DOMAIN u.set
<1>1. CASE run.kind = "recipe"
  <2>1. u = RecipeValidated(ch) BY <1>1 DEF Verdicts
  <2> QED BY <2>1 DEF RecipeValidated, Update
<1>2. CASE run.kind = "cleanup"
  <2> DEFINE valid == {s \in ch.drafts : SuggestionIsValid(ch, s)}
  <2>1. u \in CleanupValidations(ch) BY <1>2 DEF Verdicts
  <2>2. PICK k \in SUBSET valid :
           u = Update([drafts |-> k, invalid |-> valid # ch.drafts], NoSpend)
    BY <2>1 DEF CleanupValidations
  <2> HIDE DEF valid
  <2> QED BY <2>2 DEF Update
<1>3. CASE run.kind = "title"
  <2>1. u = TitleValidated(ch) BY <1>3 DEF Verdicts
  <2> QED BY <2>1 DEF TitleValidated, Update
<1> QED BY <1>1, <1>2, <1>3 DEF Scenario

\* A validation that leads to the end has left what may be delivered.
LEMMA ValidationDelivers ==
    ASSUME Scenario, Answerable, NEW ch, NEW seen, ChannelsTyped(ch), ChannelsSound(ch, seen),
           NEW us, DOMAIN us = {"validate"}, UpdateSound(ch, "validate", us["validate"], seen),
           NEW w, w = AllWritten(ch, us), NextTasks("validate", w) = One("finalize")
    PROVE  Deliverable(w)
<1> DEFINE u == us["validate"]
<1>1. u \in Verdicts("validate", ch) /\ "exposed" \notin DOMAIN u.set
  BY DEF UpdateSound, Writes, Branches
<1>2. u.read = {} /\ "invalid" \in DOMAIN u.set BY <1>1, ValidationReads
<1>3. /\ \A c \in ChannelNames \ {"reports", "failed", "read", "spend"} :
            w[c] = IF c \in DOMAIN u.set THEN u.set[c] ELSE ch[c]
      /\ \A i : i \in w.read <=> i \in ch.read \cup u.read
  BY WrittenAlone
<1> HIDE DEF u
<1>4. /\ w.exposed = ch.exposed /\ w.invalid = u.set["invalid"]
      /\ w.drafts = IF "drafts" \in DOMAIN u.set THEN u.set["drafts"] ELSE ch.drafts
  BY <1>1, <1>2, <1>3 DEF ChannelNames
<1>5. w.read = ch.read BY <1>2, <1>3
<1> QED BY <1>1, <1>4, <1>5, ValidatedDelivers

\* A superstep keeps the graph sound, or ends the run with what it delivers.
LEMMA AdvanceGraph ==
    ASSUME JobInv, GraphInv, Advance PROVE GraphInv'
<1> DEFINE us == [k \in DOMAIN tasks |-> tasks[k].update]
           node == NodeOf(tasks)
           seen == observed.read
           w == channels'
<1>1. /\ Running /\ channels' = AllWritten(channels, us)
      /\ tasks' = Opened(NextTasks(node, channels'))
      /\ attempt' = [attempt EXCEPT !.phase = IF tasks' = <<>> THEN "done" ELSE @]
      /\ UNCHANGED <<run, saved, observed>>
      /\ \A k \in DOMAIN tasks : tasks[k].stage = "returned"
  BY DEF Advance, Finished
<1>2. /\ Scenario /\ ChannelsTyped(channels) /\ Answerable /\ AttemptTyped
      /\ LeasesTyped(attempt.leases) /\ IsFiniteSet(DOMAIN tasks)
      /\ GraphSound(channels, tasks, observed.failed, seen)
  BY <1>1 DEF JobInv, JobTyped, GraphInv, Running, JobTasks, TasksTyped
<1>3. /\ ChannelsSound(channels, seen) /\ Superstep(channels, tasks)
      /\ Told(channels, tasks, observed.failed)
      /\ \A k \in DOMAIN tasks : TaskSound(channels, k, tasks[k], seen)
  BY <1>2 DEF GraphSound
<1>4. /\ node \in Nodes /\ DOMAIN tasks # {}
      /\ \A k \in DOMAIN tasks : tasks[k].node = node
      /\ node \notin Branches => DOMAIN tasks = {node}
  BY <1>3, NodeIs
<1>5. /\ attempt'.leases = attempt.leases /\ AttemptTyped'
      /\ attempt'.phase = IF tasks' = <<>> THEN "done" ELSE "open"
  <2> DEFINE p == IF tasks' = <<>> THEN "done" ELSE attempt.phase
  <2>1. attempt' = [attempt EXCEPT !.phase = p] BY <1>1
  <2> HIDE DEF p
  <2>2. attempt'.leases = attempt.leases /\ attempt'.phase = p /\ AttemptTyped'
    BY <1>2, <2>1 DEF AttemptTyped
  <2> QED BY <1>1, <2>2 DEF p, Running
<1>6. /\ (saved # None => GraphSound(saved.channels, saved.tasks, saved.failed, observed.read))'
      /\ Answerable' /\ RulesShown(observed.read)' /\ LeasesTyped(attempt.leases)'
  BY <1>1, <1>2, <1>5, SavedStays
<1>7. CASE node \in {"finalize", "empty"}
  <2>1. tasks' = <<>> /\ OnlyReadIsCited' /\ FailureIsTold' BY <1>7, EndDelivers
  <2> QED BY <1>5, <1>6, <2>1 DEF GraphInv
<1>8. CASE node \notin {"finalize", "empty"}
  <2>1. DOMAIN us = DOMAIN tasks /\ \A k \in DOMAIN us : us[k] = tasks[k].update OBVIOUS
  <2>2. \A k \in DOMAIN us : UpdateSound(channels, node, us[k], seen)
    BY <1>1, <1>3, <1>4 DEF TaskSound
  <2>3. node \in {"survey", "triage"} => channels.redispatch = None
    BY <1>3, <1>4 DEF TaskSound
  <2> HIDE DEF us, node
  <2>4. /\ ChannelsSound(w, seen)
        /\ node \in {"survey", "triage"} => w.redispatch = channels.redispatch
    <3>1. IsFiniteSet(DOMAIN us) /\ ChannelsTyped(channels) BY <1>2, <2>1
    <3>2. ChannelsSound(channels, seen) /\ w = AllWritten(channels, us) BY <1>1, <1>3
    <3> HIDE DEF w, seen
    <3> QED BY <1>8, <2>2, <3>1, <3>2, WrittenSound
  <2>5. observed.failed => w.reason # None \/ w.failed # {}
    <3> SUFFICES ASSUME observed.failed PROVE w.reason # None \/ w.failed # {} OBVIOUS
    <3> QED BY <1>1, <1>2, <1>3, <2>1, <2>2, WrittenTold
  <2>6. node = "validate" /\ NextTasks(node, w) = One("finalize") => Deliverable(w)
    <3> SUFFICES ASSUME node = "validate", NextTasks(node, w) = One("finalize")
                 PROVE  Deliverable(w)
      OBVIOUS
    <3>1. DOMAIN us = {"validate"} /\ UpdateSound(channels, "validate", us["validate"], seen)
      BY <1>4, <2>1, <2>2 DEF Branches
    <3> QED BY <1>1, <1>2, <1>3, <3>1, ValidationDelivers
  <2>7. GraphSound(w, tasks', observed.failed, seen)
    BY <1>1, <1>2, <1>4, <1>8, <2>3, <2>4, <2>5, <2>6, NextFollows
  <2>8. tasks' # <<>>
    <3>1. Superstep(w, tasks') /\ ChannelsSound(w, seen) BY <2>7 DEF GraphSound
    <3>2. DOMAIN tasks' # {} BY <3>1, NodeIs
    <3> QED BY <3>2
  <2>9. GraphSound(channels, tasks, observed.failed, observed.read)'
    <3>1. GraphSound(channels', tasks', observed'.failed, observed'.read) BY <1>1, <2>7
    <3> QED BY <1>1, <3>1, GraphStays
  <2> QED BY <1>5, <1>6, <2>8, <2>9 DEF GraphInv
<1> QED BY <1>7, <1>8

------------------------------------------------------------------------------
(* Leases, a new attempt, and the inductive step.                             *)

\* A percentage of an amount is within it.
LEMMA Percent == ASSUME NEW u \in Nat, NEW s \in 0 .. 100 PROVE (u * s) \div 100 \in 0 .. u
<1>1. u * s \in Nat /\ u * s <= u * 100 OBVIOUS
<1>2. \A p \in Nat : p <= u * 100 => p \div 100 \in 0 .. u OBVIOUS
<1> QED BY <1>1, <1>2

\* A reservation leaves a lease, and is one.
LEMMA ReservedTyped ==
    ASSUME NEW l, l = [repair |-> l.repair, survey |-> l.survey, floor |-> l.floor,
                       pool |-> l.pool], LeasesTyped(l),
           NEW name \in {"repair", "survey", "floor"}, NEW r, r = Reserved(l, name)
    PROVE  /\ r = [repair |-> r.repair, survey |-> r.survey, floor |-> r.floor, pool |-> r.pool]
           /\ LeasesTyped(r)
<1> DEFINE step == ReservationPolicy[name]
           lease == Reserve(l.pool, step)
           rest == Without(l.pool, lease)
<1>1. step \in [turns : Nat, share : 0 .. 100]
  BY ReservationAssumption DEF ReservationPolicy
<1>2. l.pool.turns \in Nat /\ l.pool.usd \in Nat BY DEF LeasesTyped, LeaseTyped
<1>3. /\ AtMost(step.turns, l.pool.turns) \in 0 .. l.pool.turns
      /\ (l.pool.usd * step.share) \div 100 \in 0 .. l.pool.usd
  <2> HIDE DEF step
  <2>1. step.turns \in Nat /\ step.share \in 0 .. 100 BY <1>1
  <2>2. AtMost(step.turns, l.pool.turns) \in 0 .. l.pool.turns BY <1>2, <2>1 DEF AtMost
  <2> QED BY <1>2, <2>1, <2>2, Percent
<1>4. LeaseTyped(lease) /\ LeaseTyped(rest)
  <2> DEFINE a == AtMost(step.turns, l.pool.turns)
             b == (l.pool.usd * step.share) \div 100
  <2>1. lease = [turns |-> a, usd |-> b] BY DEF Reserve, Lease
  <2>2. rest = [turns |-> l.pool.turns - a, usd |-> l.pool.usd - b] BY <2>1 DEF Without, Lease
  <2>3. a \in 0 .. l.pool.turns /\ b \in 0 .. l.pool.usd BY <1>3
  <2> HIDE DEF a, b, lease, rest
  <2> QED BY <1>2, <2>1, <2>2, <2>3 DEF LeaseTyped
<1>5. r = [l EXCEPT ![name] = lease, !.pool = rest]
  BY DEF Reserved
<1> HIDE DEF lease, rest, step
<1>6. CASE name = "repair" BY <1>4, <1>5, <1>6 DEF LeasesTyped
<1>7. CASE name = "survey" BY <1>4, <1>5, <1>7 DEF LeasesTyped
<1>8. CASE name = "floor" BY <1>4, <1>5, <1>8 DEF LeasesTyped
<1> QED BY <1>6, <1>7, <1>8

\* An attempt opens with leases, however much was spent before it.
LEMMA OpeningTyped ==
    ASSUME Scenario, NEW prior, SpendTyped(prior)
    PROVE  LeasesTyped(Leases(run, prior))
<1> DEFINE l == Unreserved(run.limits, prior)
<1>1. /\ run.limits.turns \in Nat /\ run.limits.usd \in Nat
      /\ prior.turns \in Nat /\ prior.cost \in Nat
  BY DEF Scenario, Priced, SpendTyped, SpendFields
<1>2. /\ Left(run.limits.turns, prior.turns) \in Nat
      /\ Left(run.limits.usd, prior.cost) \in Nat
  BY <1>1, LeftTyped
<1>3. LeasesTyped(l)
  BY <1>2 DEF Unreserved, Opening, Lease, LeasesTyped, LeaseTyped
<1>4. l = [repair |-> l.repair, survey |-> l.survey, floor |-> l.floor, pool |-> l.pool]
  BY DEF Unreserved
<1> HIDE DEF l
<1> DEFINE a == Reserved(l, "repair")
           b == Reserved(a, "survey")
           c == Reserved(b, "floor")
<1>5. /\ a = [repair |-> a.repair, survey |-> a.survey, floor |-> a.floor, pool |-> a.pool]
      /\ LeasesTyped(a)
  BY <1>3, <1>4, ReservedTyped
<1> HIDE DEF a
<1>6. /\ b = [repair |-> b.repair, survey |-> b.survey, floor |-> b.floor, pool |-> b.pool]
      /\ LeasesTyped(b)
  BY <1>5, ReservedTyped
<1> HIDE DEF b
<1>7. LeasesTyped(c) BY <1>6, ReservedTyped
<1>8. Leases(run, prior) = IF run.kind = "title" THEN a ELSE c
  BY DEF Leases, TitleLeasesOf, LeasesOf, ReservationOrder, a, b, l
<1> QED BY <1>5, <1>7, <1>8

\* What a saved state says was spent is a spending.
LEMMA PriorTyped ==
    ASSUME JobInv, GraphInv PROVE SpendTyped(PriorSpend)
<1>1. CASE saved = None BY <1>1, SpendsTyped DEF PriorSpend
<1>2. CASE saved # None
  <2> DEFINE done == {k \in DOMAIN saved.tasks : saved.tasks[k].stage = "returned"}
             us == [k \in done |-> saved.tasks[k].update]
             ch == saved.channels
             seen == observed.read
             w == AllWritten(ch, us)
             node == NodeOf(saved.tasks)
  <2>1. GraphSound(ch, saved.tasks, saved.failed, seen) BY <1>2 DEF GraphInv
  <2>2. /\ ChannelsSound(ch, seen) /\ Superstep(ch, saved.tasks)
        /\ \A k \in DOMAIN saved.tasks : TaskSound(ch, k, saved.tasks[k], seen)
    BY <2>1 DEF GraphSound
  <2>3. ChannelsTyped(ch) /\ IsFiniteSet(DOMAIN saved.tasks)
    BY <1>2 DEF JobInv, JobTyped, SavedTyped, JobTasks, TasksTyped
  <2>4. IsFiniteSet(DOMAIN us) BY <2>3, FS_Subset
  <2>5. \A k \in DOMAIN saved.tasks : saved.tasks[k].node = node BY <2>2, NodeIs
  <2>6. \A k \in DOMAIN us : UpdateSound(ch, node, us[k], seen)
    BY <2>2, <2>5 DEF TaskSound
  <2>7. SpendTyped(ch.spend) /\ ch.read \subseteq seen BY <2>2 DEF ChannelsSound
  <2>8. PriorSpend = w.spend BY <1>2 DEF PriorSpend
  <2> HIDE DEF us, node, seen, ch
  <2>9. SpendTyped(w.spend) BY <2>3, <2>4, <2>6, <2>7, Written
  <2> QED BY <2>8, <2>9
<1> QED BY <1>1, <1>2

\* A new graph is sound, before anything was read.
LEMMA FreshGraph ==
    ASSUME Scenario, NEW pool, LeaseTyped(pool), NEW seen
    PROVE  GraphSound(FreshChannels(pool), Opened(One(FirstNode(run.kind))), FALSE, seen)
<1> DEFINE ch == FreshChannels(pool)
<1>1. ChannelsSound(ch, seen) /\ ch.redispatch = None
  <2>1. SpendTyped(NoSpend) BY SpendsTyped
  <2> QED BY <2>1 DEF FreshChannels, ChannelsSound, PlanSound
<1>2. FirstNode(run.kind) \in (Nodes \ Branches) \ {"finalize"}
  BY DEF Scenario, FirstNode, Nodes, Branches
<1> HIDE DEF ch
<1>3. ASSUME NEW failed, ~failed
      PROVE  GraphSound(ch, Opened(One(FirstNode(run.kind))), failed, seen)
  BY <1>1, <1>2, <1>3, OneFollows
<1>4. \A failed : ~failed => GraphSound(ch, Opened(One(FirstNode(run.kind))), failed, seen)
  BY <1>3
<1> QED BY <1>4 DEF ch

\* The end of an attempt leaves the graph where it was.
LEMMA EndRunGraph ==
    ASSUME JobInv, GraphInv, Running, NEW phase \in {"failed", "retry"}, EndRun(phase)
    PROVE  GraphInv'
<1>1. /\ UNCHANGED <<run, account, tasks, observed, channels, saved>>
      /\ attempt' = [attempt EXCEPT !.phase = phase]
  BY DEF EndRun, loopVars
<1>2. attempt'.leases = attempt.leases /\ attempt'.phase = phase /\ AttemptTyped'
  BY <1>1 DEF GraphInv, AttemptTyped
<1>3. GraphSound(channels, tasks, observed.failed, observed.read)'
  <2>1. GraphSound(channels', tasks', observed'.failed, observed'.read)
    BY <1>1 DEF GraphInv, Running
  <2> QED BY <1>1, <2>1, GraphStays
<1>4. /\ (saved # None => GraphSound(saved.channels, saved.tasks, saved.failed, observed.read))'
      /\ Answerable' /\ RulesShown(observed.read)'
  BY <1>1, SavedStays
<1>5. LeasesTyped(attempt.leases)' BY <1>2 DEF GraphInv
<1> QED BY <1>2, <1>3, <1>4, <1>5 DEF GraphInv

\* What is saved is sound: what had not returned is to run again.
LEMMA SaveGraph ==
    ASSUME JobInv, GraphInv, Save PROVE GraphInv'
<1> DEFINE ts == [k \in DOMAIN tasks |-> IF Finished(k) THEN tasks[k] ELSE Planned(tasks[k])]
           s == [channels |-> channels, failed |-> observed.failed, tasks |-> ts]
<1>1. /\ saved' = s /\ Running
      /\ UNCHANGED <<run, account, tasks, observed, channels, attempt>>
  BY DEF Save, loopVars
<1>2. GraphSound(channels, tasks, observed.failed, observed.read)
  BY <1>1 DEF GraphInv, Running
<1>3. /\ DOMAIN ts = DOMAIN tasks
      /\ \A k \in DOMAIN tasks : tasks[k].stage = "returned" => ts[k] = tasks[k]
      /\ \A k \in DOMAIN tasks : ts[k].node = tasks[k].node
      /\ \A k \in DOMAIN tasks :
            tasks[k].stage # "returned" => /\ ts[k].stage = "waiting"
                                           /\ ts[k].lease = tasks[k].lease
  BY DEF Finished, Planned
<1>4. s.channels = channels /\ s.tasks = ts /\ s.failed = observed.failed OBVIOUS
<1> HIDE DEF s, ts
<1>5. GraphSound(channels, ts, observed.failed, observed.read)
  <2>1. Superstep(channels, ts) BY <1>2, <1>3 DEF GraphSound, Superstep
  <2>2. ASSUME NEW k \in DOMAIN ts PROVE TaskSound(channels, k, ts[k], observed.read)
    <3>1. TaskSound(channels, k, tasks[k], observed.read) BY <1>2, <1>3 DEF GraphSound
    <3> QED BY <1>3, <3>1 DEF TaskSound
  <2>3. Told(channels, ts, observed.failed) BY <1>2, <1>3 DEF GraphSound, Told
  <2> QED BY <1>2, <2>1, <2>2, <2>3 DEF GraphSound
<1>6. (saved # None => GraphSound(saved.channels, saved.tasks, saved.failed, observed.read))'
  <2>1. GraphSound(saved'.channels, saved'.tasks, saved'.failed, observed'.read)
    BY <1>1, <1>4, <1>5
  <2> QED BY <1>1, <2>1, GraphStays
<1>7. GraphSound(channels, tasks, observed.failed, observed.read)'
  <2>1. GraphSound(channels', tasks', observed'.failed, observed'.read) BY <1>1, <1>2
  <2> QED BY <1>1, <2>1, GraphStays
<1>8. /\ Answerable' /\ AttemptTyped' /\ LeasesTyped(attempt.leases)'
      /\ RulesShown(observed.read)' /\ attempt'.phase = "open"
  BY <1>1 DEF GraphInv, Answerable, Sendings, AttemptTyped, LeasesTyped, LeaseTyped, RulesShown,
              Running
<1> QED BY <1>6, <1>7, <1>8 DEF GraphInv

\* A new attempt goes on with a sound graph, the saved one or a new one.
LEMMA ResumeGraph ==
    ASSUME JobInv, GraphInv, Resume PROVE GraphInv'
<1> DEFINE failed == saved # None /\ saved.failed
<1>1. /\ attempt' = [number |-> attempt.number + 1, phase |-> "open",
                     leases |-> Leases(run, PriorSpend)]
      /\ observed' = [observed EXCEPT !.paid = PriorSpend.cost, !.lost = 0,
                                      !.failed = saved # None /\ saved.failed]
      /\ UNCHANGED <<run, saved>>
      /\ channels' = IF saved = None THEN FreshChannels(attempt'.leases.pool)
                     ELSE saved.channels
      /\ tasks' = IF saved = None THEN Opened(One(FirstNode(run.kind))) ELSE saved.tasks
  BY DEF Resume
<1>2. observed'.read = observed.read /\ observed'.failed = failed
  <2> DEFINE p == PriorSpend.cost
  <2>1. observed' = [observed EXCEPT !.paid = p, !.lost = 0, !.failed = failed] BY <1>1
  <2>2. observed \in [read : {observed.read}, paid : Nat, lost : Nat, loops : Nat,
                      failed : {observed.failed}]
    BY DEF JobInv, JobTyped, LoopsTyped, BooksTyped
  <2> HIDE DEF p, failed
  <2> QED BY <2>1, <2>2
<1>3. Scenario BY DEF JobInv, JobTyped
<1>4. LeasesTyped(attempt'.leases) /\ attempt'.phase = "open" /\ AttemptTyped'
  BY <1>1, <1>3, PriorTyped, OpeningTyped DEF AttemptTyped
<1>5. GraphSound(channels, tasks, observed.failed, observed.read)'
  <2>1. GraphSound(channels', tasks', observed'.failed, observed'.read)
    <3>1. CASE saved = None
      <4>1. LeaseTyped(attempt'.leases.pool) BY <1>4 DEF LeasesTyped
      <4>2. observed'.failed = FALSE BY <1>2, <3>1
      <4> QED BY <1>1, <1>3, <3>1, <4>1, <4>2, FreshGraph
    <3>2. CASE saved # None
      <4>1. observed'.failed <=> saved.failed BY <1>2, <3>2
      <4>2. GraphSound(saved.channels, saved.tasks, saved.failed, observed'.read)
        BY <1>2, <3>2 DEF GraphInv
      <4> QED BY <1>1, <3>2, <4>1, <4>2 DEF GraphSound, Told
    <3> QED BY <3>1, <3>2
  <2> QED BY <1>1, <2>1, GraphStays
<1>6. /\ (saved # None => GraphSound(saved.channels, saved.tasks, saved.failed, observed.read))'
      /\ Answerable' /\ RulesShown(observed.read)'
  BY <1>1, <1>2, SavedStays
<1>7. LeasesTyped(attempt.leases)' BY <1>4 DEF LeasesTyped, LeaseTyped
<1> QED BY <1>4, <1>5, <1>6, <1>7 DEF GraphInv

\* The graph is sound at first.
LEMMA InitGraph == Init => GraphInv
<1> SUFFICES ASSUME Init PROVE GraphInv OBVIOUS
<1>1. /\ run \in Scenarios
      /\ attempt = [number |-> 1, phase |-> "open", leases |-> Leases(run, NoSpend)]
      /\ channels = FreshChannels(attempt.leases.pool)
      /\ tasks = Opened(One(FirstNode(run.kind)))
      /\ saved = None
      /\ observed = [read |-> {}, paid |-> 0, lost |-> 0, loops |-> 0, failed |-> FALSE]
  BY DEF Init
<1>2. Answerable BY <1>1, ScenariosAssumption DEF Answerable
<1>3. Scenario BY InitBalances DEF JobInv, JobTyped
<1>4. LeasesTyped(attempt.leases) BY <1>1, <1>3, SpendsTyped, OpeningTyped
<1>5. LeaseTyped(attempt.leases.pool) BY <1>4 DEF LeasesTyped
<1>6. GraphSound(channels, tasks, observed.failed, observed.read)
  <2>1. observed.failed = FALSE BY <1>1
  <2> QED BY <1>1, <1>3, <1>5, <2>1, FreshGraph
<1>7. RulesShown(observed.read) BY <1>1 DEF RulesShown
<1>8. AttemptTyped /\ attempt.phase = "open" BY <1>1 DEF AttemptTyped
<1> QED BY <1>1, <1>2, <1>4, <1>6, <1>7, <1>8 DEF GraphInv

\* Every step of a job keeps its graph sound.
LEMMA JobGraph ==
    ASSUME JobInv, GraphInv, Work \/ Crash \/ Save \/ Ending \/ UNCHANGED vars
    PROVE  GraphInv'
<1>1. CASE Ending \/ UNCHANGED vars
  <2>1. UNCHANGED <<run, account, tasks, observed, channels, attempt, saved>>
    BY <1>1 DEF Ending, vars, loopVars
  <2>2. CASE attempt.phase = "open"
    <3>1. GraphSound(channels, tasks', observed'.failed, observed'.read) /\ RulesShown(observed'.read)
      BY <2>1, <2>2 DEF GraphInv
    <3> QED BY <2>1, <2>2, <3>1, GraphFollows
  <2>3. CASE attempt.phase # "open"
    <3>1. /\ (saved # None => GraphSound(saved.channels, saved.tasks, saved.failed, observed.read))'
          /\ Answerable' /\ RulesShown(observed.read)'
      BY <2>1, SavedStays
    <3>2. AttemptTyped' /\ LeasesTyped(attempt.leases)' /\ attempt'.phase = attempt.phase
      BY <2>1 DEF GraphInv, AttemptTyped, LeasesTyped, LeaseTyped
    <3>3. attempt.phase # "done" => GraphSound(channels, tasks, observed.failed, observed.read)'
      <4>1. attempt.phase # "done" => GraphSound(channels', tasks', observed'.failed, observed'.read)
        BY <2>1 DEF GraphInv
      <4> QED BY <2>1, <4>1, GraphStays
    <3>4. attempt.phase = "done" => tasks' = <<>> /\ OnlyReadIsCited' /\ FailureIsTold'
      BY <2>1 DEF GraphInv, OnlyReadIsCited, FailureIsTold
    <3> QED BY <3>1, <3>2, <3>3, <3>4 DEF GraphInv
  <2> QED BY <2>2, <2>3
<1>2. CASE Crash \/ PassDeadline \/ \E k \in DOMAIN tasks : FailRun(k)
  BY <1>2, EndRunGraph DEF Crash, PassDeadline, FailRun
<1> QED BY <1>1, <1>2, NodeGraph, AdvanceGraph, ResumeGraph, SaveGraph DEF Work

\* The graph of a job is sound, always.
LEMMA GraphsAreSound == AgentsSpec => [](~IsTurn => GraphInv)
<1>1. AgentsInit => (~IsTurn => GraphInv)
  <2>1. ChatInit => IsTurn BY ChatScenariosAssumption DEF ChatInit, IsTurn
  <2> QED BY <2>1, InitGraph DEF AgentsInit
<1>2. (~IsTurn => JobInv) /\ (~IsTurn => GraphInv) /\ [AgentsNext]_vars => (~IsTurn => GraphInv)'
  <2> SUFFICES ASSUME ~IsTurn => JobInv /\ GraphInv, [AgentsNext]_vars, ~IsTurn' PROVE GraphInv'
    OBVIOUS
  <2>1. ~IsTurn BY RunStays DEF IsTurn
  <2> QED BY <2>1, JobGraph DEF AgentsNext, AgentsWork
<1> QED BY <1>1, <1>2, JobsBalance, PTL DEF AgentsSpec

\* What has no result yet delivers nothing.
LEMMA Undelivered == ASSUME channels.result = None PROVE OnlyReadIsCited /\ FailureIsTold
BY NoneAssumption DEF OnlyReadIsCited, FailureIsTold

\* Before its end a job has no result.
LEMMA DeliveredAtTheEnd ==
    ASSUME GraphInv PROVE OnlyReadIsCited /\ FailureIsTold
<1>1. CASE attempt.phase = "done" BY <1>1 DEF GraphInv
<1>2. CASE attempt.phase # "done"
  <2>1. channels.result = None BY <1>2 DEF GraphInv, GraphSound, ChannelsSound
  <2> QED BY <2>1, Undelivered
<1> QED BY <1>1, <1>2

(* Nothing is delivered on evidence nobody read: not a candidate, a suggestion  *)
(* or a title, whatever the models drafted and whatever attempt read it.        *)
THEOREM NothingUnreadIsCited == AgentsSpec => []OnlyReadIsCited
<1>1. ASSUME ~IsTurn => GraphInv PROVE OnlyReadIsCited
  <2>1. CASE IsTurn BY <2>1 DEF IsTurn, OnlyReadIsCited
  <2> QED BY <1>1, <2>1, DeliveredAtTheEnd
<1> QED BY <1>1, GraphsAreSound, PTL

(* A scan that found nothing because a node lost its work, or because its       *)
(* candidates were never valid, says so, also after a crash.                    *)
THEOREM NoFailureIsHidden == AgentsSpec => []FailureIsTold
<1>1. ASSUME ~IsTurn => GraphInv PROVE FailureIsTold
  <2>1. CASE IsTurn BY <2>1 DEF IsTurn, FailureIsTold
  <2> QED BY <1>1, <2>1, DeliveredAtTheEnd
<1> QED BY <1>1, GraphsAreSound, PTL

------------------------------------------------------------------------------
(* The pace of the loops.                                                     *)

\* With one price every call costs it.
LEMMA OnePrice ==
    ASSUME Level, Priced(run), NEW c \in run.costs
    PROVE  c \in Nat /\ \A d \in run.costs : d = c
<1>1. Cardinality(run.costs) = 1 /\ IsFiniteSet(run.costs) /\ run.costs \subseteq Nat
  BY DEF Level, Priced
<1>2. PICK d : run.costs = {d} BY <1>1, FS_Singleton
<1> QED BY <1>1, <1>2

\* A call is within its reserve, and two ceilings within the hard end.
LEMMA Reserves ==
    ASSUME NEW c \in Nat
    PROVE  /\ c * LandingReserve \in Nat /\ c <= c * LandingReserve
           /\ c * Backstop \in Nat /\ c + c <= c * Backstop
<1>1. LandingReserve \in Nat \ {0} /\ Backstop \in Nat \ {0, 1} BY BudgetAssumption
<1>2. ASSUME NEW r \in Nat \ {0} PROVE c * r \in Nat /\ c <= c * r OBVIOUS
<1>3. ASSUME NEW b \in Nat \ {0, 1} PROVE c * b \in Nat /\ c + c <= c * b
  <2>1. PICK r \in Nat \ {0} : b = r + 1
    <3>1. b - 1 \in Nat \ {0} /\ b = (b - 1) + 1 OBVIOUS
    <3> QED BY <3>1
  <2>2. c * b = c * r + c BY <2>1
  <2> QED BY <1>2, <2>1, <2>2
<1> QED BY <1>1, <1>2, <1>3

\* A loop that has called fits its next call, its last one included.
LEMMA LastFits ==
    ASSUME BooksTyped, NEW c \in Nat, NEW l, LoopTyped(l), l.max \in Nat,
           Steady(l, c), l.landed \/ ~Landing(l)
    PROVE  ~Breaks(l, c)
<1> DEFINE P == c * LandingReserve
           B == account.max * Backstop
<1>1. /\ account.max \in Nat /\ account.spent \in Nat /\ account.peak = c
      /\ l.spent \in Nat /\ l.peak = c /\ c <= account.spent
      /\ l.spent <= l.max /\ account.spent <= account.max
  BY DEF BooksTyped, LoopTyped, Steady
<1>2. P \in Nat /\ c <= P /\ B \in Nat /\ account.max + account.max <= B BY <1>1, Reserves
<1>3. AtLeast(l.peak, account.peak) = c BY <1>1 DEF AtLeast
<1>4. Landing(l) <=> l.spent + P >= l.max \/ account.spent + P >= account.max
  BY <1>1 DEF Landing
<1>5. Breaks(l, c) <=>
         \/ account.spent + c > AtMost(account.max + (IF l.landed THEN P ELSE 0), B)
         \/ l.spent + c > l.max + (IF l.landed THEN P ELSE 0)
  BY <1>1, <1>3 DEF Breaks, ExecutionCeiling, Ceiling
<1> HIDE DEF P, B
<1>6. CASE l.landed BY <1>1, <1>2, <1>5, <1>6 DEF AtMost
<1>7. CASE ~l.landed BY <1>1, <1>2, <1>4, <1>5, <1>7 DEF AtMost
<1> QED BY <1>6, <1>7

\* What an answer leaves of the loop that is not cut off.
AnsweredBy(next, l, cost) ==
    /\ next.max = l.max /\ next.spent = l.spent + cost
    /\ next.peak = AtLeast(l.peak, cost) /\ next.landed = l.landed
    /\ next.phase \in {"output", "missing", "ready"} \cup Tools
    /\ next.phase \in {"ready"} \cup Tools => ~l.landed

Keeps(k, c) == \E n : tasks' = [tasks EXCEPT ![k].loop = n] /\ Paced(n, c)'

\* A call that is settled keeps the pace.
LEMMA SettlePaces ==
    ASSUME LoopsTyped, UNCHANGED run, NEW c \in Nat, account.peak <= c, NEW k \in DOMAIN tasks,
           Asking(k), NEW truncated \in BOOLEAN, NEW next, Settle(k, c, truncated, next),
           ~truncated => AnsweredBy(next, tasks[k].loop, c)
    PROVE  account'.peak <= c /\ (Paced(tasks[k].loop, c) => Keeps(k, c))
<1> DEFINE l == tasks[k].loop
           g == Charged(l, c)
           after == IF Breaks(l, c) THEN Raised(g, next, "budget")
                    ELSE IF truncated THEN Raised(g, next, "truncated")
                    ELSE next
<1>1. /\ LoopTyped(l) /\ BooksTyped /\ l.phase = "asking"
      /\ account' = Billed(c) /\ tasks' = [tasks EXCEPT ![k].loop = after]
  BY DEF LoopsTyped, TasksTyped, TaskTyped, Asking, Looping, Settle, SetLoop
<1>2. /\ account.max \in Nat /\ account.spent \in Nat /\ account.peak \in Nat
      /\ l.spent \in Nat /\ l.peak \in Nat /\ l.turns \in Nat /\ l.landed \in BOOLEAN
  BY <1>1 DEF BooksTyped, LoopTyped
<1>3. /\ account'.max = account.max /\ account'.spent = account.spent + c /\ account'.peak = c
  <2>1. AtLeast(account.peak, c) = c BY <1>2 DEF AtLeast
  <2> QED BY <1>1, <2>1 DEF Billed, BooksTyped
<1>4. /\ LoopTyped(g) /\ g.spent = l.spent + c /\ g.peak = AtLeast(l.peak, c)
      /\ g.max = l.max /\ g.turns = l.turns
  <2>1. g.max = l.max /\ g.turns = l.turns BY <1>1 DEF Charged, LoopTyped
  <2> QED BY <1>1, <2>1, ChargedLoop
<1> HIDE DEF g
<1>5. \A p \in {"budget", "truncated"} :
         /\ Raised(g, next, p).phase = p /\ Raised(g, next, p).turns = l.turns
         /\ Raised(g, next, p).max = l.max /\ Raised(g, next, p).peak = AtLeast(l.peak, c)
  BY <1>4, RaisedLoop DEF LoopEnds
<1>6. ASSUME Paced(l, c), NEW n, n = after PROVE Paced(n, c)'
  <2>1. AtLeast(l.peak, c) = c /\ l.max \in Nat BY <1>2, <1>6 DEF AtLeast, Paced
  <2>2. l.turns # 0 => ~Breaks(l, c) BY <1>1, <1>6, LastFits DEF Paced
  <2>3. CASE Breaks(l, c)
    <3>1. n.phase = "budget" /\ n.turns = 0 /\ n.max \in Nat /\ n.peak <= c
      BY <1>5, <1>6, <2>1, <2>2, <2>3
    <3> QED BY <3>1 DEF Paced, Tools
  <2>4. CASE ~Breaks(l, c) /\ truncated
    <3>1. n.phase = "truncated" /\ n.max \in Nat /\ n.peak <= c
      BY <1>5, <1>6, <2>1, <2>4
    <3> QED BY <3>1 DEF Paced, Tools
  <2>5. CASE ~Breaks(l, c) /\ ~truncated
    <3>1. n = next BY <1>6, <2>5
    <3>2. /\ next.max = l.max /\ next.spent = l.spent + c /\ next.peak = c
          /\ next.landed = l.landed
          /\ next.phase \in {"output", "missing", "ready"} \cup Tools
          /\ next.phase \in {"ready"} \cup Tools => ~l.landed
      BY <2>1, <2>5 DEF AnsweredBy
    <3>3. ~l.landed => l.spent + c <= l.max /\ account.spent + c <= account.max
      <4>1. SUFFICES ASSUME ~l.landed
                     PROVE  l.spent + c <= l.max /\ account.spent + c <= account.max
        OBVIOUS
      <4>2. account.max * Backstop \in Nat BY <1>2, Reserves
      <4>3. /\ ~(account.spent + c > AtMost(account.max + 0, account.max * Backstop))
            /\ ~(l.spent + c > l.max + 0)
        BY <2>5, <4>1 DEF Breaks, ExecutionCeiling, Ceiling
      <4> QED BY <1>2, <2>1, <4>2, <4>3 DEF AtMost
    <3>4. next.phase \in {"ready"} \cup Tools => Steady(next, c)' /\ ~next.landed
      BY <1>2, <1>3, <3>2, <3>3 DEF Steady
    <3> QED BY <2>1, <3>1, <3>2, <3>4 DEF Paced, Tools
  <2> QED BY <2>3, <2>4, <2>5
<1>7. PICK n : n = after OBVIOUS
<1>8. tasks' = [tasks EXCEPT ![k].loop = n] BY <1>1, <1>7
<1>9. Paced(l, c) => Paced(n, c)' BY <1>6, <1>7
<1>10. account'.peak <= c BY <1>2, <1>3
<1> QED BY <1>8, <1>9, <1>10 DEF Keeps

\* A loop that asks lands first, if it must.
LEMMA AskPaces ==
    ASSUME LoopsTyped, NEW c \in Nat, NEW k \in DOMAIN tasks, Ask(k) \/ ReachTurnLimit(k),
           Paced(tasks[k].loop, c)
    PROVE  Keeps(k, c)
<1> DEFINE l == tasks[k].loop
<1>1. LoopTyped(l) /\ l.phase = "ready" /\ UNCHANGED <<run, account>>
  BY DEF LoopsTyped, TasksTyped, TaskTyped, Ask, ReachTurnLimit, Looping
<1>2. CASE Ask(k)
  <2> DEFINE lands == l.landed \/ Landing(l)
  <2>1. tasks' = [tasks EXCEPT ![k].loop = [l EXCEPT !.phase = "asking", !.model = "primary",
                                                     !.landed = lands]]
    <3>1. [l EXCEPT !.phase = "asking", !.model = "primary", !.landed = @ \/ Landing(l)]
            = [l EXCEPT !.phase = "asking", !.model = "primary", !.landed = lands]
      OBVIOUS
    <3> QED BY <1>2, <3>1 DEF Ask, SetLoop
  <2>2. PICK n : n = [l EXCEPT !.phase = "asking", !.model = "primary", !.landed = lands]
    OBVIOUS
  <2>3. /\ n.phase = "asking" /\ n.landed = lands /\ n.turns = l.turns
        /\ n.max = l.max /\ n.peak = l.peak /\ n.spent = l.spent
    BY <1>1, <2>2 DEF LoopTyped
  <2>4. (n.landed \/ ~Landing(n))'
    BY <1>1, <2>3 DEF Landing
  <2>5. n.turns # 0 => Steady(n, c)' BY <1>1, <2>3 DEF Paced, Steady
  <2>6. Paced(n, c)'
    <3> HIDE DEF lands
    <3> QED BY <2>3, <2>4, <2>5 DEF Paced, Tools
  <2> QED BY <2>1, <2>2, <2>6 DEF Keeps
<1>3. CASE ReachTurnLimit(k)
  <2>1. PICK n : n = [l EXCEPT !.phase = "limit"] OBVIOUS
  <2>2. n.phase = "limit" /\ n.max = l.max /\ n.peak = l.peak BY <1>1, <2>1 DEF LoopTyped
  <2>3. Paced(n, c)' BY <2>2 DEF Paced, Tools
  <2> QED BY <1>3, <2>1, <2>3 DEF Keeps, ReachTurnLimit, SetLoop
<1> QED BY <1>2, <1>3

\* A provider that stays away changes the model, or ends the loop.
LEMMA AwayPaces ==
    ASSUME LoopsTyped, NEW c \in Nat, NEW k \in DOMAIN tasks, Asking(k), Unavailable(k) \/ Lose(k),
           Paced(tasks[k].loop, c)
    PROVE  Keeps(k, c)
<1> DEFINE l == tasks[k].loop
<1>1. LoopTyped(l) /\ l.phase = "asking" /\ UNCHANGED <<run, account>>
  BY DEF LoopsTyped, TasksTyped, TaskTyped, Asking, Looping, Unavailable, Lose
<1>2. ASSUME NEW n, tasks' = [tasks EXCEPT ![k].loop = n], n.phase \in {"transient", "lost"},
             n.max = l.max, n.peak = l.peak
      PROVE  Keeps(k, c)
  <2>1. Paced(n, c)' BY <1>2 DEF Paced, Tools
  <2> QED BY <1>2, <2>1 DEF Keeps
<1>3. CASE Unavailable(k) /\ tasks' = [tasks EXCEPT ![k].loop = [l EXCEPT !.model = "fallback"]]
  <2>1. PICK n : n = [l EXCEPT !.model = "fallback"] OBVIOUS
  <2>2. /\ n.phase = "asking" /\ n.landed = l.landed /\ n.turns = l.turns
        /\ n.max = l.max /\ n.peak = l.peak /\ n.spent = l.spent
    BY <1>1, <2>1 DEF LoopTyped
  <2>3. Paced(n, c)' BY <1>1, <2>2 DEF Paced, Steady, Landing, Tools
  <2> QED BY <1>3, <2>1, <2>3 DEF Keeps
<1>4. ASSUME NEW p \in {"transient", "lost"}, tasks' = [tasks EXCEPT ![k].loop = [l EXCEPT !.phase = p]]
      PROVE  Keeps(k, c)
  <2>1. PICK n : n = [l EXCEPT !.phase = p] OBVIOUS
  <2>2. n.phase = p /\ n.max = l.max /\ n.peak = l.peak BY <1>1, <2>1 DEF LoopTyped
  <2> QED BY <1>2, <1>4, <2>1, <2>2
<1> QED BY <1>3, <1>4 DEF Unavailable, Lose, SetLoop

\* What an answer makes of a charged loop.
LEMMA AnswerLeaves ==
    ASSUME NEW l, LoopTyped(l), NEW c \in Nat, NEW g, g = Charged(l, c)
    PROVE  /\ g.turns + 1 \in Nat
           /\ AnsweredBy([g EXCEPT !.phase = "output", !.turns = @ + 1], l, c)
           /\ AnsweredBy([g EXCEPT !.phase = "missing"], l, c)
           /\ ~l.landed =>
                 /\ \A f : AnsweredBy([g EXCEPT !.phase = "ready", !.turns = @ + 1, !.again = FALSE,
                                                !.read = @ \cup f], l, c)
                 /\ \A p \in Tools : AnsweredBy([g EXCEPT !.phase = p, !.turns = @ + 1], l, c)
<1>1. /\ LoopTyped(g) /\ g.spent = l.spent + c /\ g.peak = AtLeast(l.peak, c)
      /\ g.max = l.max /\ g.landed = l.landed
  <2>1. g.max = l.max /\ g.landed = l.landed BY DEF Charged, LoopTyped
  <2> QED BY <2>1, ChargedLoop
<1>2. g.turns + 1 \in Nat BY <1>1 DEF LoopTyped
<1>3. ASSUME NEW n, NEW p \in {"output", "missing", "ready"} \cup Tools,
             p \in {"ready"} \cup Tools => ~l.landed,
             n.phase = p, n.max = g.max, n.spent = g.spent, n.peak = g.peak, n.landed = g.landed
      PROVE  AnsweredBy(n, l, c)
  BY <1>1, <1>3 DEF AnsweredBy
<1>4. ASSUME NEW p \in {"output", "missing", "ready"} \cup Tools,
             p \in {"ready"} \cup Tools => ~l.landed, NEW t, NEW a, NEW r
      PROVE  /\ AnsweredBy([g EXCEPT !.phase = p], l, c)
             /\ AnsweredBy([g EXCEPT !.phase = p, !.turns = t], l, c)
             /\ AnsweredBy([g EXCEPT !.phase = p, !.turns = t, !.again = a, !.read = r], l, c)
  <2>1. ASSUME NEW n, \/ n = [g EXCEPT !.phase = p]
                      \/ n = [g EXCEPT !.phase = p, !.turns = t]
                      \/ n = [g EXCEPT !.phase = p, !.turns = t, !.again = a, !.read = r]
        PROVE  AnsweredBy(n, l, c)
    <3>1. n.phase = p /\ n.max = g.max /\ n.spent = g.spent /\ n.peak = g.peak /\ n.landed = g.landed
      BY <1>1, <2>1 DEF LoopTyped
    <3> QED BY <1>3, <1>4, <3>1
  <2> QED BY <2>1
<1> QED BY <1>2, <1>4 DEF Tools

\* The answers to a job's loop.
LEMMA AnswerPaces ==
    ASSUME LoopsTyped, UNCHANGED run, Level, NEW c \in run.costs, \A d \in run.costs : d = c,
           c \in Nat, account.peak <= c, NEW k \in DOMAIN tasks, Answer(k)
    PROVE  account'.peak <= c /\ (Paced(tasks[k].loop, c) => Keeps(k, c))
<1> DEFINE l == tasks[k].loop
           g == Charged(l, c)
           Good == account'.peak <= c /\ (Paced(tasks[k].loop, c) => Keeps(k, c))
<1>1. LoopTyped(l) /\ Asking(k)
  BY DEF LoopsTyped, TasksTyped, TaskTyped, Asking, Looping, Answer
<1>2. CASE Unavailable(k) \/ Lose(k)
  <2>1. UNCHANGED account BY <1>2 DEF Unavailable, Lose
  <2> QED BY <1>1, <1>2, <2>1, AwayPaces
<1>3. ASSUME NEW n, Settle(k, c, FALSE, n), AnsweredBy(n, l, c) PROVE Good
  BY <1>1, <1>3, SettlePaces
<1>4. ASSUME NEW found, CallTool(k, c, found) PROVE Good
  <2>1. ~l.landed BY <1>4 DEF CallTool, ToolsOpen
  <2>2. Settle(k, c, FALSE, [g EXCEPT !.phase = "ready", !.turns = @ + 1, !.again = FALSE,
                                      !.read = @ \cup found])
    BY <1>4 DEF CallTool
  <2> HIDE DEF g, Good
  <2> QED BY <1>1, <1>3, <2>1, <2>2, AnswerLeaves DEF g
<1>5. CASE Output(k, c)
  <2>1. Settle(k, c, FALSE, [g EXCEPT !.phase = "output", !.turns = @ + 1]) BY <1>5 DEF Output
  <2>2. AnsweredBy([g EXCEPT !.phase = "output", !.turns = @ + 1], l, c)
    <3>1. PICK h : h = g OBVIOUS
    <3>2. AnsweredBy([h EXCEPT !.phase = "output", !.turns = @ + 1], l, c)
      BY <1>1, <3>1, AnswerLeaves
    <3> QED BY <3>1, <3>2
  <2>3. PICK n : n = [g EXCEPT !.phase = "output", !.turns = @ + 1] OBVIOUS
  <2>4. Settle(k, c, FALSE, n) /\ AnsweredBy(n, l, c) BY <2>1, <2>2, <2>3
  <2> QED BY <1>3, <2>4
<1>6. CASE AnswerInText(k, c)
  <2>1. Settle(k, c, FALSE, [g EXCEPT !.phase = "missing"]) BY <1>6 DEF AnswerInText
  <2>2. AnsweredBy([g EXCEPT !.phase = "missing"], l, c)
    <3>1. PICK h : h = g OBVIOUS
    <3>2. AnsweredBy([h EXCEPT !.phase = "missing"], l, c) BY <1>1, <3>1, AnswerLeaves
    <3> QED BY <3>1, <3>2
  <2>3. PICK n : n = [g EXCEPT !.phase = "missing"] OBVIOUS
  <2>4. Settle(k, c, FALSE, n) /\ AnsweredBy(n, l, c) BY <2>1, <2>2, <2>3
  <2> QED BY <1>3, <2>4
<1>7. CASE Truncate(k, c)
  <2>1. \E t \in BOOLEAN : t /\ Settle(k, c, t, l) BY <1>7 DEF Truncate
  <2> HIDE DEF l
  <2> QED BY <1>1, <2>1, SettlePaces
<1> HIDE DEF Good
<1>8. "rejected" \notin run.answers /\ "unpriced" \notin run.answers BY DEF Level
<1>9. \/ \E found : CallTool(k, c, found)
      \/ Output(k, c) \/ AnswerInText(k, c) \/ Truncate(k, c)
      \/ Unavailable(k) \/ Lose(k)
  BY <1>8 DEF Answer
<1> QED BY <1>2, <1>4, <1>5, <1>6, <1>7, <1>9 DEF Good

\* The pace of a task after a step.
Paces(k, c) ==
    tasks'[k].stage = "running" /\ tasks'[k].node \notin Branches =>
        \E n : n = tasks'[k].loop /\ Paced(n, c)'

\* What a step has to show.
LEMMA PaceFollows ==
    ASSUME UNCHANGED run, IsTurn => \A k \in DOMAIN tasks' : k = Turn /\ tasks'[k].node = Turn,
           Level => \A c \in run.costs :
                       account'.peak <= c /\ \A k \in DOMAIN tasks' : Paces(k, c)
    PROVE  PaceInv'
<1>1. (IsTurn => \A k \in DOMAIN tasks : k = Turn /\ tasks[k].node = Turn)' BY DEF IsTurn
<1>2. ASSUME Level' , NEW c \in run.costs
      PROVE  (/\ account.peak <= c
              /\ \A k \in DOMAIN tasks :
                    Looping(k) /\ tasks[k].node \notin Branches => Paced(tasks[k].loop, c))'
  <2>1. Level BY <1>2 DEF Level
  <2>2. ASSUME NEW k \in DOMAIN tasks', (Looping(k) /\ tasks[k].node \notin Branches)'
        PROVE  Paced(tasks[k].loop, c)'
    <3>1. PICK n : n = tasks'[k].loop /\ Paced(n, c)' BY <2>1, <2>2 DEF Paces, Looping, Branches
    <3> QED BY <3>1 DEF Paced, Steady, Landing
  <2> QED BY <2>1, <2>2
<1> QED BY <1>1, <1>2 DEF PaceInv

\* A step that leaves the account and every running loop, or ends it.
LEMMA PaceStays ==
    ASSUME PaceInv, UNCHANGED run,
           IsTurn => \A k \in DOMAIN tasks' : k = Turn /\ tasks'[k].node = Turn,
           account' = account \/ account'.peak = 0,
           \A k \in DOMAIN tasks' :
              tasks'[k].stage = "running" => account' = account /\ k \in DOMAIN tasks /\ tasks'[k] = tasks[k],
           Priced(run)
    PROVE  PaceInv'
<1>1. ASSUME Level, NEW c \in run.costs
      PROVE  account'.peak <= c /\ \A k \in DOMAIN tasks' : Paces(k, c)
  <2>1. c \in Nat BY <1>1, OnePrice
  <2>2. account.peak <= c BY <1>1 DEF PaceInv
  <2>3. account'.peak <= c BY <2>1, <2>2
  <2>4. ASSUME NEW k \in DOMAIN tasks', tasks'[k].stage = "running", tasks'[k].node \notin Branches
        PROVE  \E n : n = tasks'[k].loop /\ Paced(n, c)'
    <3>1. account' = account /\ k \in DOMAIN tasks /\ tasks'[k] = tasks[k] BY <2>4
    <3>2. Paced(tasks[k].loop, c) BY <1>1, <2>4, <3>1 DEF PaceInv, Looping
    <3>3. PICK n : n = tasks[k].loop OBVIOUS
    <3>4. Paced(n, c)' BY <3>1, <3>2, <3>3 DEF Paced, Steady, Landing
    <3> QED BY <3>1, <3>3, <3>4
  <2> QED BY <2>3, <2>4 DEF Paces
<1> QED BY <1>1, PaceFollows

\* A move of a loop that runs alone, or of a branch.
LEMMA LoopPaces ==
    ASSUME LoopsTyped, UNCHANGED run, NEW k \in DOMAIN tasks, NEW c \in Nat,
           tasks[k].node \notin Branches => DOMAIN tasks = {k},
           \A j \in DOMAIN tasks : tasks[j].node = tasks[k].node,
           LoopMoves(k), tasks[k].node \notin Branches => Keeps(k, c)
    PROVE  DOMAIN tasks' = DOMAIN tasks /\ \A j \in DOMAIN tasks' : Paces(j, c)
<1>1. /\ DOMAIN tasks' = DOMAIN tasks
      /\ \A j \in DOMAIN tasks \ {k} : tasks'[j] = tasks[j]
      /\ tasks'[k] = [tasks[k] EXCEPT !.loop = tasks'[k].loop]
  BY LoopChanges
<1>2. TaskTyped(tasks[k]) BY DEF LoopsTyped, TasksTyped
<1>3. tasks'[k].node = tasks[k].node BY <1>1, <1>2 DEF TaskTyped
<1>4. CASE tasks[k].node \in Branches BY <1>1, <1>3, <1>4 DEF Paces
<1>5. CASE tasks[k].node \notin Branches
  <2>1. PICK n : tasks' = [tasks EXCEPT ![k].loop = n] /\ Paced(n, c)' BY <1>5 DEF Keeps
  <2>2. tasks'[k].loop = n BY <1>2, <2>1 DEF TaskTyped
  <2> QED BY <1>1, <1>5, <2>1, <2>2 DEF Paces
<1> QED BY <1>4, <1>5

\* The loops of a job keep the pace.
LEMMA JobLoopPaces ==
    ASSUME JobInv, GraphInv, PaceInv, ~IsTurn, Running, UNCHANGED run, NEW k \in DOMAIN tasks,
           Ask(k) \/ ReachTurnLimit(k) \/ Answer(k)
    PROVE  PaceInv'
<1>1. LoopsTyped /\ Priced(run) /\ Looping(k)
  BY DEF JobInv, JobTyped, Scenario, Ask, ReachTurnLimit, Answer, Asking
<1>2. LoopMoves(k) BY <1>1, AskMoves, AnswerMoves DEF LoopMoves
<1>3. /\ \A j \in DOMAIN tasks : tasks[j].node = tasks[k].node
      /\ tasks[k].node \notin Branches => DOMAIN tasks = {k}
  <2>1. ChannelsSound(channels, observed.read) /\ Superstep(channels, tasks)
    BY DEF GraphInv, Running, GraphSound
  <2>2. /\ \A j \in DOMAIN tasks : tasks[j].node = NodeOf(tasks)
        /\ NodeOf(tasks) \notin Branches => DOMAIN tasks = {NodeOf(tasks)}
    BY <2>1, NodeIs
  <2> QED BY <2>2
<1>4. ASSUME Level, NEW c \in run.costs
      PROVE  account'.peak <= c /\ \A j \in DOMAIN tasks' : Paces(j, c)
  <2>1. c \in Nat /\ (\A d \in run.costs : d = c) /\ account.peak <= c
    BY <1>1, <1>4, OnePrice DEF PaceInv
  <2>2. tasks[k].node \notin Branches => Paced(tasks[k].loop, c) BY <1>1, <1>4 DEF PaceInv
  <2>3. account'.peak <= c /\ (Paced(tasks[k].loop, c) => Keeps(k, c))
    <3>1. CASE Ask(k) \/ ReachTurnLimit(k)
      <4>1. UNCHANGED account BY <3>1 DEF Ask, ReachTurnLimit
      <4> QED BY <1>1, <2>1, <3>1, <4>1, AskPaces
    <3>2. CASE Answer(k) BY <1>1, <1>4, <2>1, <3>2, AnswerPaces
    <3> QED BY <3>1, <3>2
  <2>4. DOMAIN tasks' = DOMAIN tasks /\ \A j \in DOMAIN tasks' : Paces(j, c)
    BY <1>1, <1>2, <1>3, <2>1, <2>2, <2>3, LoopPaces
  <2> QED BY <2>3, <2>4
<1> QED BY <1>4, PaceFollows

\* A loop that opens has the pace before it.
LEMMA OpenPaces ==
    ASSUME BooksTyped, UNCHANGED account, NEW usd \in Nat, NEW c \in Nat
    PROVE  \E n : n = NewLoop(usd) /\ Paced(n, c)'
<1>1. PICK n : n = NewLoop(usd) OBVIOUS
<1>2. AtMost(usd, account.max) \in Nat BY DEF BooksTyped, AtMost
<1>3. n.max \in Nat /\ n.peak = 0 /\ n.turns = 0 /\ n.phase = "ready"
  BY <1>1, <1>2 DEF NewLoop
<1>4. Paced(n, c)' BY <1>3 DEF Paced, Tools
<1> QED BY <1>1, <1>4

\* Every step of a node keeps the pace.
LEMMA NodePaces ==
    ASSUME JobInv, GraphInv, PaceInv, ~IsTurn, NEW k \in DOMAIN tasks, NodeStep(k)
    PROVE  PaceInv'
<1>0. /\ Running /\ LoopsTyped /\ BooksTyped /\ Priced(run) /\ TaskTyped(tasks[k])
      /\ tasks = [j \in DOMAIN tasks |-> tasks[j]]
  BY DEF NodeStep, JobInv, JobTyped, LoopsTyped, TasksTyped, Scenario
<1>1. ASSUME NEW t, t.stage # "running", tasks' = [tasks EXCEPT ![k] = t], UNCHANGED <<run, account>>
      PROVE  PaceInv'
  <2>1. \A j \in DOMAIN tasks' : tasks'[j].stage = "running" => j \in DOMAIN tasks /\ tasks'[j] = tasks[j]
    BY <1>0, <1>1
  <2> QED BY <1>0, <1>1, <2>1, PaceStays
<1>2. CASE PassNode(k)
  <2>1. PICK u : Return(k, u) /\ UNCHANGED <<run, account>> BY <1>2 DEF PassNode
  <2>2. PICK t : t = [tasks[k] EXCEPT !.stage = "returned", !.loop = None, !.update = u] OBVIOUS
  <2>3. tasks' = [tasks EXCEPT ![k] = t] /\ t.stage = "returned"
    BY <1>0, <2>1, <2>2 DEF Return, TaskTyped
  <2> QED BY <1>1, <2>1, <2>3
<1>3. CASE FinishNode(k)
  <2>1. PICK u : Return(k, u) /\ UNCHANGED <<run, account>> BY <1>3 DEF FinishNode
  <2>2. PICK t : t = [tasks[k] EXCEPT !.stage = "returned", !.loop = None, !.update = u] OBVIOUS
  <2>3. tasks' = [tasks EXCEPT ![k] = t] /\ t.stage = "returned"
    BY <1>0, <2>1, <2>2 DEF Return, TaskTyped
  <2> QED BY <1>1, <2>1, <2>3
<1>4. CASE RetryNode(k)
  <2>1. PICK t : t = [tasks[k] EXCEPT !.stage = "waiting", !.loop = None, !.tries = @ + 1] OBVIOUS
  <2>2. tasks' = [tasks EXCEPT ![k] = t] /\ t.stage = "waiting" /\ UNCHANGED <<run, account>>
    BY <1>0, <1>4, <2>1 DEF RetryNode, TaskTyped
  <2> QED BY <1>1, <2>2
<1>5. CASE OpenLoop(k)
  <2> DEFINE lease == LeaseFor(tasks[k])
  <2>1. lease.usd \in Nat BY <1>0, LeaseOpens DEF LeaseTyped
  <2>2. /\ tasks' = [tasks EXCEPT ![k].stage = "running", ![k].lease = lease,
                                  ![k].loop = NewLoop(lease.usd)]
        /\ UNCHANGED <<run, account>>
    BY <1>5 DEF OpenLoop
  <2> HIDE DEF lease
  <2>3. /\ DOMAIN tasks' = DOMAIN tasks /\ \A j \in DOMAIN tasks \ {k} : tasks'[j] = tasks[j]
        /\ tasks'[k].loop = NewLoop(lease.usd)
    BY <1>0, <2>2 DEF TaskTyped
  <2>4. ASSUME Level, NEW c \in run.costs
        PROVE  account'.peak <= c /\ \A j \in DOMAIN tasks' : Paces(j, c)
    <3>1. c \in Nat /\ account.peak <= c BY <1>0, <2>4, OnePrice DEF PaceInv
    <3>2. Paces(k, c)
      <4>1. \E n : n = NewLoop(lease.usd) /\ Paced(n, c)' BY <1>0, <2>1, <2>2, <3>1, OpenPaces
      <4> QED BY <2>3, <4>1 DEF Paces
    <3>3. ASSUME NEW j \in DOMAIN tasks \ {k} PROVE Paces(j, c)
      <4>1. SUFFICES ASSUME tasks'[j].stage = "running", tasks'[j].node \notin Branches
                     PROVE  \E n : n = tasks'[j].loop /\ Paced(n, c)'
        BY DEF Paces
      <4>2. Paced(tasks[j].loop, c) BY <2>3, <2>4, <4>1 DEF PaceInv, Looping
      <4>3. PICK n : n = tasks[j].loop OBVIOUS
      <4>4. Paced(n, c)' BY <2>2, <4>2, <4>3 DEF Paced, Steady, Landing
      <4> QED BY <2>3, <4>3, <4>4
    <3> QED BY <2>2, <2>3, <3>1, <3>2, <3>3
  <2> QED BY <2>2, <2>4, PaceFollows
<1>6. CASE Ask(k) \/ ReachTurnLimit(k) \/ Answer(k)
  <2>1. UNCHANGED run
    BY <1>6 DEF Ask, ReachTurnLimit, Answer, CallTool, Output, AnswerInText, Truncate, Reject,
                Unpriced, Unavailable, Lose
  <2> QED BY <1>0, <1>6, <2>1, JobLoopPaces
<1> QED BY <1>2, <1>3, <1>4, <1>5, <1>6 DEF NodeStep

\* Every step of a job keeps the pace.
LEMMA JobPaces ==
    ASSUME JobInv, GraphInv, PaceInv, ~IsTurn, Work \/ Crash \/ Save \/ Ending \/ UNCHANGED vars
    PROVE  PaceInv'
<1>0. Scenario /\ Priced(run) BY DEF JobInv, JobTyped, Scenario
<1>1. CASE UNCHANGED <<run, account, tasks>> BY <1>0, <1>1, PaceStays
<1>2. CASE Advance
  <2>1. UNCHANGED <<run, account>> /\ \A k \in DOMAIN tasks' : tasks'[k].stage = "waiting"
    BY <1>2 DEF Advance, Opened, Planned
  <2> QED BY <1>0, <2>1, PaceStays
<1>3. CASE Resume
  <2>1. UNCHANGED run /\ account'.peak = 0 BY <1>3 DEF Resume, OpenAccount
  <2>2. \A k \in DOMAIN tasks' : tasks'[k].stage # "running"
    <3>1. CASE saved = None
      <4>1. tasks' = Opened(One(FirstNode(run.kind))) BY <1>3, <3>1 DEF Resume
      <4> QED BY <4>1 DEF Opened, Planned
    <3>2. CASE saved # None
      <4>1. tasks' = saved.tasks BY <1>3, <3>2 DEF Resume
      <4> QED BY <3>2, <4>1 DEF JobInv, JobTyped, SavedTyped, AtRest
    <3> QED BY <3>1, <3>2
  <2> QED BY <1>0, <2>1, <2>2, PaceStays
<1>4. CASE Ending \/ UNCHANGED vars \/ Crash \/ Save \/ PassDeadline \/ \E k \in DOMAIN tasks : FailRun(k)
  <2>1. UNCHANGED <<run, account, tasks>>
    BY <1>4 DEF Ending, vars, loopVars, Crash, Save, PassDeadline, FailRun, EndRun
  <2> QED BY <1>1, <2>1
<1> QED BY <1>2, <1>3, <1>4, NodePaces DEF Work

\* What the model answers in a turn keeps the pace of its loop.
LEMMA ChatAnswerPaces ==
    ASSUME TalkInv, UNCHANGED run, Level, NEW c \in run.costs, \A d \in run.costs : d = c,
           c \in Nat, account.peak <= c, At(Turn), ChatAnswer
    PROVE  account'.peak <= c /\ (Paced(tasks[Turn].loop, c) => Keeps(Turn, c))
<1> DEFINE l == tasks[Turn].loop
           Good == account'.peak <= c /\ (Paced(tasks[Turn].loop, c) => Keeps(Turn, c))
<1>1. /\ Turn \in DOMAIN tasks /\ LoopsTyped /\ LoopTyped(l) /\ Asking(Turn)
  BY DEF TalkInv, TalkTyped, ChatAnswer, At, LoopsTyped, TasksTyped, TaskTyped, Asking, Looping
<1>2. CASE Unavailable(Turn) \/ Lose(Turn)
  <2>1. UNCHANGED account BY <1>2 DEF Unavailable, Lose
  <2> QED BY <1>1, <1>2, <2>1, AwayPaces
<1>3. CASE Truncate(Turn, c)
  <2>1. \E t \in BOOLEAN : t /\ Settle(Turn, c, t, l) BY <1>3 DEF Truncate
  <2> HIDE DEF l
  <2> QED BY <1>1, <2>1, SettlePaces
<1>4. ASSUME NEW p \in Tools \cup {"output"}, p \in Tools => ~l.landed,
             Settle(Turn, c, FALSE, [Charged(l, c) EXCEPT !.phase = p, !.turns = @ + 1])
      PROVE  Good
  <2>1. PICK g : g = Charged(l, c) OBVIOUS
  <2>2. PICK n : n = [g EXCEPT !.phase = p, !.turns = @ + 1] OBVIOUS
  <2>3. Settle(Turn, c, FALSE, n) BY <1>4, <2>1, <2>2
  <2>4. AnsweredBy(n, l, c)
    <3>1. CASE p = "output" BY <1>1, <2>1, <2>2, <3>1, AnswerLeaves
    <3>2. CASE p \in Tools BY <1>1, <1>4, <2>1, <2>2, <3>2, AnswerLeaves
    <3> QED BY <3>1, <3>2
  <2> HIDE DEF l
  <2>5. \E t \in BOOLEAN : ~t /\ Settle(Turn, c, t, n) BY <2>3
  <2> QED BY <1>1, <2>4, <2>5, SettlePaces DEF l
<1>5. ASSUME NEW text, ChatText(c, text) PROVE Good
  BY <1>4, <1>5 DEF ChatText, Loop, Tools
<1>6. ASSUME NEW text, NEW tool \in Tools, ChatCall(c, tool, text) PROVE Good
  BY <1>4, <1>6 DEF ChatCall, Loop
<1>7. \/ Unavailable(Turn) \/ Lose(Turn) \/ Truncate(Turn, c)
      \/ \E text : ChatText(c, text)
      \/ \E text : \E tool \in Tools : ChatCall(c, tool, text)
  BY DEF ChatAnswer, Level
<1> QED BY <1>2, <1>3, <1>5, <1>6, <1>7

\* A tool that answers lets its loop go on, one that does not ends it.
LEMMA ToolPaces ==
    ASSUME TalkInv, NEW c \in Nat, Paced(Loop, c),
           ReadReturns \/ RecallReturns \/ WriteRefused \/ Propose \/ ToolUnreached
    PROVE  \E n : n = tasks'[Turn].loop /\ Paced(n, c)'
<1>1. /\ Turn \in DOMAIN tasks /\ TaskTyped(tasks[Turn]) /\ LoopTyped(Loop)
      /\ Loop.phase \in Tools /\ UNCHANGED <<run, account>>
      /\ tasks = [k \in DOMAIN tasks |-> tasks[k]]
  BY DEF TalkInv, TalkTyped, ReadReturns, RecallReturns, WriteRefused, ResultReturns, Propose,
         ToolUnreached, ToolAnswered, Tooling, At, LoopsTyped, TasksTyped, TaskTyped, Loop
<1>2. \/ tasks' = [tasks EXCEPT ![Turn].loop.phase = "ready", ![Turn].tries = 1]
      \/ tasks' = [tasks EXCEPT ![Turn].tries = @ + 1]
      \/ tasks' = [tasks EXCEPT ![Turn].loop.phase = "lost"]
  BY DEF ReadReturns, RecallReturns, WriteRefused, ResultReturns, Propose, ToolUnreached,
         ToolAnswered
<1>3. PICK n : n = tasks'[Turn].loop OBVIOUS
<1>4. /\ n.max = Loop.max /\ n.spent = Loop.spent /\ n.peak = Loop.peak
      /\ n.turns = Loop.turns /\ n.landed = Loop.landed
      /\ n.phase \in {"ready", Loop.phase, "lost"}
  BY <1>1, <1>2, <1>3 DEF TaskTyped, LoopTyped, Loop
<1>5. Paced(n, c)' BY <1>1, <1>4 DEF Paced, Steady, Tools
<1> QED BY <1>3, <1>5

\* Every step of a turn keeps the pace.
LEMMA TurnPaces ==
    ASSUME IsTurn, TalkInv, PaceInv, Priced(run),
           TurnWork \/ Crash \/ SaveTurn \/ Ending \/ UNCHANGED vars
    PROVE  PaceInv'
<1>0. /\ LoopsTyped /\ \A k \in DOMAIN tasks : k = Turn /\ tasks[k].node = Turn
      /\ Turn \notin Branches /\ run.limits.usd \in Nat
  BY DEF TalkInv, PaceInv, Turn, Branches, Priced
<1>1. UNCHANGED run
  <2>1. [AgentsNext]_vars BY DEF AgentsNext, AgentsWork
  <2> QED BY <2>1, RunStays
<1>2. CASE UNCHANGED <<run, account, tasks>> BY <1>0, <1>2, PaceStays
<1>3. CASE ResumeTurn
  <2>1. account'.peak = 0 /\ tasks' = <<>>
    BY <1>0, <1>3 DEF ResumeTurn, LoopsTyped, BooksTyped
  <2> QED BY <1>1, <2>1, PaceStays
<1>4. CASE OpenTurn
  <2>1. PICK l : l = NewLoop(run.limits.usd) OBVIOUS
  <2>2. /\ UNCHANGED account /\ DOMAIN tasks' = {Turn}
        /\ tasks'[Turn].node = Turn /\ tasks'[Turn].loop = l
    BY <1>4, <2>1 DEF OpenTurn, Lease
  <2>3. ASSUME Level, NEW c \in run.costs
        PROVE  account'.peak <= c /\ \A k \in DOMAIN tasks' : Paces(k, c)
    <3>1. c \in Nat /\ account.peak <= c BY <2>3, OnePrice DEF PaceInv
    <3>2. \E n : n = NewLoop(run.limits.usd) /\ Paced(n, c)'
      BY <1>0, <2>2, <3>1, OpenPaces DEF LoopsTyped
    <3> QED BY <2>1, <2>2, <3>1, <3>2 DEF Paces
  <2> QED BY <1>1, <2>2, <2>3, PaceFollows
<1>5. CASE AskChat \/ (At(Turn) /\ ChatAnswer)
  <2>1. LoopMoves(Turn) BY <1>5, AskTalk, AnswerTalk
  <2>2. DOMAIN tasks = {Turn} /\ Turn \in DOMAIN tasks
    BY <1>0, <1>5 DEF TalkInv, TalkTyped, AskChat, At
  <2>3. ASSUME Level, NEW c \in run.costs
        PROVE  account'.peak <= c /\ \A k \in DOMAIN tasks' : Paces(k, c)
    <3>1. c \in Nat /\ (\A d \in run.costs : d = c) /\ account.peak <= c
      BY <2>3, OnePrice DEF PaceInv
    <3>2. Looping(Turn) BY <1>5 DEF TalkInv, TalkTyped, AskChat, At, Looping
    <3>3. Paced(tasks[Turn].loop, c) BY <1>0, <2>2, <2>3, <3>2 DEF PaceInv
    <3>4. account'.peak <= c /\ Keeps(Turn, c)
      <4>1. CASE AskChat
        <5>1. UNCHANGED account BY <4>1 DEF AskChat, Ask, ReachTurnLimit
        <5>2. Ask(Turn) \/ ReachTurnLimit(Turn) BY <4>1 DEF AskChat
        <5> QED BY <1>0, <2>2, <3>1, <3>3, <5>1, <5>2, AskPaces
      <4>2. CASE At(Turn) /\ ChatAnswer
        BY <1>1, <2>3, <3>1, <3>3, <4>2, ChatAnswerPaces
      <4> QED BY <1>5, <4>1, <4>2
    <3> QED BY <1>0, <1>1, <2>1, <2>2, <3>1, <3>4, LoopPaces
  <2>4. \A k \in DOMAIN tasks' : k = Turn /\ tasks'[k].node = Turn
    <3>1. DOMAIN tasks' = DOMAIN tasks /\ tasks'[Turn] = [tasks[Turn] EXCEPT !.loop = tasks'[Turn].loop]
      BY <1>0, <1>1, <2>1, <2>2, LoopChanges
    <3>2. TaskTyped(tasks[Turn]) BY <1>0, <2>2 DEF LoopsTyped, TasksTyped
    <3>3. tasks'[Turn].node = tasks[Turn].node BY <3>1, <3>2 DEF TaskTyped
    <3> QED BY <1>0, <2>2, <3>1, <3>3
  <2> QED BY <1>1, <2>3, <2>4, PaceFollows
<1>6. CASE ReadReturns \/ RecallReturns \/ WriteRefused \/ Propose \/ ToolUnreached
  <2>1. /\ Turn \in DOMAIN tasks /\ Looping(Turn) /\ TaskTyped(tasks[Turn]) /\ UNCHANGED account
        /\ tasks = [k \in DOMAIN tasks |-> tasks[k]]
    BY <1>6 DEF TalkInv, TalkTyped, LoopsTyped, TasksTyped, Looping, ReadReturns, RecallReturns,
                WriteRefused, ResultReturns, Propose, ToolUnreached, ToolAnswered, Tooling, At
  <2>2. \/ tasks' = [tasks EXCEPT ![Turn].loop.phase = "ready", ![Turn].tries = 1]
        \/ tasks' = [tasks EXCEPT ![Turn].tries = @ + 1]
        \/ tasks' = [tasks EXCEPT ![Turn].loop.phase = "lost"]
    BY <1>6 DEF ReadReturns, RecallReturns, WriteRefused, ResultReturns, Propose, ToolUnreached,
                ToolAnswered
  <2>3. DOMAIN tasks' = DOMAIN tasks /\ tasks'[Turn].node = tasks[Turn].node
    BY <2>1, <2>2 DEF TaskTyped
  <2>4. ASSUME Level, NEW c \in run.costs
        PROVE  account'.peak <= c /\ \A k \in DOMAIN tasks' : Paces(k, c)
    <3>1. c \in Nat /\ account.peak <= c BY <2>4, OnePrice DEF PaceInv
    <3>2. Paced(Loop, c) BY <1>0, <2>1, <2>4 DEF PaceInv, Loop
    <3>3. \E n : n = tasks'[Turn].loop /\ Paced(n, c)' BY <1>6, <3>1, <3>2, ToolPaces
    <3> QED BY <1>0, <2>1, <2>3, <3>1, <3>3 DEF Paces
  <2> QED BY <1>0, <1>1, <2>1, <2>3, <2>4, PaceFollows
<1>7. CASE \/ LoadContext \/ ContextUnreached \/ ContextRefused \/ SeedCheckpoint
           \/ EndTurn \/ FailTurn \/ TurnTooLong \/ SettleTurn \/ DeliverTurn
           \/ Crash \/ SaveTurn \/ Ending \/ UNCHANGED vars
  <2>1. UNCHANGED <<run, account, tasks>>
    BY <1>7 DEF LoadContext, ContextUnreached, ContextRefused, SeedCheckpoint, EndTurn, FailTurn,
                TurnTooLong, SettleTurn, DeliverTurn, Crash, SaveTurn, EndRun, Ending, vars, loopVars
  <2> QED BY <1>2, <2>1
<1> QED BY <1>3, <1>4, <1>5, <1>6, <1>7 DEF TurnWork

\* What a run is asked is priced, from its first step on.
LEMMA RunsArePriced == AgentsSpec => []Priced(run)
<1>1. AgentsInit => Priced(run)
  BY ScenariosAssumption, ChatScenariosAssumption DEF AgentsInit, Init, ChatInit
<1>2. Priced(run) /\ [AgentsNext]_vars => Priced(run)' BY RunStays DEF Priced
<1> QED BY <1>1, <1>2, PTL DEF AgentsSpec

\* At first no loop is open and no call was made.
LEMMA InitPaces == AgentsInit => PaceInv
<1> SUFFICES ASSUME AgentsInit PROVE PaceInv OBVIOUS
<1>1. Priced(run)
  BY ScenariosAssumption, ChatScenariosAssumption DEF AgentsInit, Init, ChatInit
<1>2. account.peak = 0 BY DEF AgentsInit, Init, ChatInit, OpenAccount
<1>3. \A k \in DOMAIN tasks : tasks[k].stage # "running"
  BY DEF AgentsInit, Init, ChatInit, Opened, Planned
<1>4. IsTurn => DOMAIN tasks = {}
  <2>1. Init => ~IsTurn BY ScenariosAssumption DEF Init, IsTurn
  <2>2. ChatInit => DOMAIN tasks = {} BY DEF ChatInit
  <2> QED BY <2>1, <2>2 DEF AgentsInit
<1>5. ASSUME Level, NEW c \in run.costs PROVE account.peak <= c
  <2>1. c \in Nat BY <1>1, <1>5, OnePrice
  <2> QED BY <1>2, <2>1
<1> QED BY <1>3, <1>4, <1>5 DEF PaceInv, Looping

\* All loops keep the pace, in a job and in a turn.
LEMMA LoopsKeepThePace == AgentsSpec => []PaceInv
<1> DEFINE Sound == /\ IsTurn => TalkInv
                    /\ ~IsTurn => JobInv
                    /\ ~IsTurn => GraphInv
                    /\ Priced(run)
<1>1. PaceInv /\ Sound /\ [AgentsNext]_vars => PaceInv'
  <2> SUFFICES ASSUME PaceInv, Sound, [AgentsNext]_vars PROVE PaceInv'
    OBVIOUS
  <2>1. CASE IsTurn BY <2>1, TurnPaces DEF AgentsNext, AgentsWork
  <2>2. CASE ~IsTurn BY <2>2, JobPaces DEF AgentsNext, AgentsWork
  <2> QED BY <2>1, <2>2
<1>2. AgentsSpec => []Sound
  BY TalkIsOrderly, JobsBalance, GraphsAreSound, RunsArePriced, PTL
<1> HIDE DEF Sound
<1> QED BY <1>1, <1>2, InitPaces, PTL DEF AgentsSpec

(* Landing leaves room for the last call: when all calls cost the same, a loop   *)
(* that runs alone is cut off by its first call or never (landing, _ceiling).    *)
THEOREM LandingLeavesRoom == AgentsSpec => []LastCallFits
<1>1. ASSUME PaceInv, Priced(run) PROVE LastCallFits
  <2>1. SUFFICES ASSUME NEW k \in DOMAIN tasks, Level, tasks[k].node \notin Branches,
                        Looping(k), tasks[k].loop.phase = "budget"
                 PROVE  tasks[k].loop.turns = 0
    BY DEF LastCallFits, Level, Branches
  <2>2. PICK c : c \in run.costs BY <1>1 DEF Priced
  <2>3. Paced(tasks[k].loop, c) BY <1>1, <2>1, <2>2 DEF PaceInv
  <2> QED BY <2>1, <2>3 DEF Paced
<1> QED BY <1>1, LoopsKeepThePace, RunsArePriced, PTL

------------------------------------------------------------------------------
(* The fan-outs of a job.                                                     *)

(* Each branch gets what the share of its assignment, the i-th with i = q[k], gets. *)
Dealt(sent, p, q, asked, turns, usd, A, U) ==
    LET s == [i \in DOMAIN p |-> p[i].share]
    IN  /\ q \in Bijection(sent, DOMAIN p)
        /\ asked = [k \in sent |-> s[q[k]]]
        /\ turns = [k \in sent |-> QuoteShares(s, A, U)[q[k]].turns]
        /\ usd = [k \in sent |-> QuoteShares(s, A, U)[q[k]].usd]

\* The order in which the assignments stand does not matter to what is dealt.
LEMMA DealsAreFair ==
    ASSUME NEW slots, NEW p \in Seq(Assignments(slots)), NEW A \in Nat, NEW U \in Nat,
           NEW sent, NEW q, NEW asked, NEW turns, NEW usd,
           Dealt(sent, p, q, asked, turns, usd, A, U)
    PROVE  /\ Total(turns) = AtMost(Total(asked), A)
           /\ Total(usd) <= U
           /\ \A k \in sent : turns[k] <= asked[k]
           /\ Cardinality(sent) <= A => \A k \in sent : turns[k] > 0
           /\ \A j, k \in sent : asked[j] > asked[k] => turns[j] >= turns[k]
<1>1. PICK s : s = [i \in DOMAIN p |-> p[i].share] OBVIOUS
<1>2. s \in Seq(Nat \ {0}) /\ DOMAIN s = DOMAIN p /\ Len(s) \in Nat /\ DOMAIN s = 1 .. Len(s)
  <2>1. DOMAIN p = 1 .. Len(p) /\ Len(p) \in Nat /\ \A i \in DOMAIN p : p[i] \in Assignments(slots)
    OBVIOUS
  <2>2. \A i \in DOMAIN p : p[i].share \in Nat \ {0} BY <2>1 DEF Assignments
  <2>3. s \in Seq(Nat \ {0}) /\ DOMAIN s = DOMAIN p BY <1>1, <2>1, <2>2
  <2> QED BY <2>3
<1>3. PICK g, u : /\ Fair(s, A, g) /\ u \in [DOMAIN s -> Nat] /\ Total(u) <= U
                  /\ \A i \in DOMAIN s : QuoteShares(s, A, U)[i] = Lease(g[i], u[i])
  BY <1>2, SharesAreFair
<1>4. PICK D : D = DOMAIN s OBVIOUS
<1>5. /\ q \in Bijection(sent, DOMAIN p)
      /\ asked = [k \in sent |-> s[q[k]]]
      /\ turns = [k \in sent |-> QuoteShares(s, A, U)[q[k]].turns]
      /\ usd = [k \in sent |-> QuoteShares(s, A, U)[q[k]].usd]
  BY <1>1 DEF Dealt
<1>6. q \in Bijection(sent, D) /\ q \in [sent -> D] BY <1>2, <1>4, <1>5 DEF Bijection, Injection
<1>7. \A k \in sent : q[k] \in D /\ asked[k] = s[q[k]] /\ turns[k] = g[q[k]] /\ usd[k] = u[q[k]]
  <2> SUFFICES ASSUME NEW k \in sent
               PROVE  q[k] \in D /\ asked[k] = s[q[k]] /\ turns[k] = g[q[k]] /\ usd[k] = u[q[k]]
    OBVIOUS
  <2>1. q[k] \in D BY <1>6
  <2>2. QuoteShares(s, A, U)[q[k]] = Lease(g[q[k]], u[q[k]]) BY <1>3, <1>4, <2>1
  <2>3. turns[k] = Lease(g[q[k]], u[q[k]]).turns /\ usd[k] = Lease(g[q[k]], u[q[k]]).usd
    BY <1>5, <2>2
  <2>4. asked[k] = s[q[k]] BY <1>5
  <2> QED BY <2>1, <2>3, <2>4 DEF Lease
<1>8. /\ s \in [D -> Nat] /\ g \in [D -> Nat] /\ u \in [D -> Nat]
      /\ \A i \in D : s[i] \in Nat /\ g[i] \in Nat /\ u[i] \in Nat
  <2>1. \A i \in DOMAIN s : s[i] \in Nat BY <1>2
  <2>2. s \in [D -> Nat] BY <1>1, <1>2, <1>4, <2>1
  <2>3. g \in [D -> Nat] /\ u \in [D -> Nat] BY <1>3, <1>4 DEF Fair
  <2> QED BY <2>2, <2>3
<1>9. asked \in [sent -> Nat] /\ turns \in [sent -> Nat] /\ usd \in [sent -> Nat]
  <2>1. DOMAIN asked = sent /\ DOMAIN turns = sent /\ DOMAIN usd = sent BY <1>5
  <2>2. \A k \in sent : asked[k] \in Nat /\ turns[k] \in Nat /\ usd[k] \in Nat BY <1>7, <1>8
  <2>3. asked \in [sent -> Nat] BY <1>5, <2>2
  <2>4. turns \in [sent -> Nat] BY <1>5, <2>2
  <2>5. usd \in [sent -> Nat] BY <1>5, <2>2
  <2> QED BY <2>3, <2>4, <2>5
<1>10. IsFiniteSet(D) /\ Cardinality(D) = Len(s)
  <2>1. s \in Seq(Nat)
    <3>1. \A i \in 1 .. Len(s) : s[i] \in Nat BY <1>2
    <3> QED BY <1>1, <1>2, <3>1
  <2> QED BY <1>4, <2>1, RequestsInLine
<1>11. Total(asked) = Total(s)
  <2>1. Renamed(D, s, sent, q, asked) BY <1>6, <1>7, <1>8, <1>9, <1>10 DEF Renamed
  <2> QED BY <2>1, RenamedTotal
<1>12. Total(turns) = Total(g)
  <2>1. Renamed(D, g, sent, q, turns) BY <1>6, <1>7, <1>8, <1>9, <1>10 DEF Renamed
  <2> QED BY <2>1, RenamedTotal
<1>13. Total(usd) = Total(u)
  <2>1. Renamed(D, u, sent, q, usd) BY <1>6, <1>7, <1>8, <1>9, <1>10 DEF Renamed
  <2> QED BY <2>1, RenamedTotal
<1>14. Cardinality(sent) = Len(s)
  <2>1. q \in Injection(sent, D) /\ q \in Surjection(sent, D) BY <1>6 DEF Bijection
  <2>2. IsFiniteSet(sent) BY <1>10, <2>1, FS_Injection
  <2>3. ExistsBijection(sent, D) BY <1>6 DEF ExistsBijection
  <2> QED BY <1>10, <2>2, <2>3, FS_Bijection
<1>15. /\ Total(g) = AtMost(Total(s), A)
       /\ \A i \in D : g[i] <= s[i]
       /\ Len(s) <= A => \A i \in D : g[i] > 0
       /\ \A i, j \in D : s[i] > s[j] => g[i] >= g[j]
  BY <1>3, <1>4 DEF Fair
<1>16. \A k \in sent : turns[k] <= asked[k] BY <1>7, <1>15
<1>17. Cardinality(sent) <= A => \A k \in sent : turns[k] > 0 BY <1>7, <1>14, <1>15
<1>18. ASSUME NEW j \in sent, NEW k \in sent, asked[j] > asked[k] PROVE turns[j] >= turns[k]
  <2>1. s[q[j]] > s[q[k]] /\ q[j] \in D /\ q[k] \in D BY <1>7, <1>18
  <2>2. g[q[j]] >= g[q[k]] BY <1>15, <2>1
  <2> QED BY <1>7, <2>2
<1> QED BY <1>3, <1>11, <1>12, <1>13, <1>15, <1>16, <1>17, <1>18

\* The branches of a job's superstep are dealt with fairly.
LEMMA SuperstepsAreFair ==
    ASSUME NEW seen, ChannelsSound(channels, seen), Superstep(channels, tasks),
           \A k \in DOMAIN tasks : TaskSound(channels, k, tasks[k], seen)
    PROVE  FanOutIsFair
<1>1. PICK sent : sent = {k \in DOMAIN tasks : tasks[k].node \in {"probe", "inspect"}} OBVIOUS
<1>2. CASE sent = {}
  BY <1>1, <1>2 DEF FanOutIsFair
<1>3. CASE sent # {}
  <2>1. PICK p : p = SentBy(channels) OBVIOUS
  <2>2. PICK A : A = RemainingTurns(channels) OBVIOUS
  <2>3. PICK U : U = RemainingCost(channels) OBVIOUS
  <2>4. PICK s : s = [i \in DOMAIN p |-> p[i].share] OBVIOUS
  <2>5. A \in Nat /\ U \in Nat BY <2>2, <2>3, RemainingTyped
  <2>6. PICK k0 \in sent : k0 \in DOMAIN tasks /\ tasks[k0].node \in Branches
    BY <1>1, <1>3 DEF Branches
  <2>7. p \in Sendings(run) /\ NamesOnce(p) /\ DOMAIN tasks = {p[i].slot : i \in DOMAIN p}
    BY <2>1, <2>6, BranchNamed
  <2>8. PICK slots : p \in Seq(Assignments(slots)) BY <2>7 DEF Sendings
  <2>9. \A k \in DOMAIN tasks : tasks[k].node = tasks[k0].node BY <2>6 DEF Superstep
  <2>10. sent = DOMAIN tasks BY <1>1, <2>6, <2>9 DEF Branches
  <2>11. PICK q : q = [k \in sent |-> CHOOSE i \in DOMAIN p : p[i].slot = k] OBVIOUS
  <2>12. \A k \in sent : q[k] \in DOMAIN p /\ p[q[k]].slot = k BY <2>7, <2>10, <2>11
  <2>13. \A i, j \in DOMAIN p : p[i].slot = p[j].slot => i = j
    BY <2>7 DEF NamesOnce, IsInjective
  <2>14. q \in Bijection(sent, DOMAIN p)
    <3>1. q \in [sent -> DOMAIN p] BY <2>11, <2>12
    <3>2. \A a, b \in sent : q[a] = q[b] => a = b BY <2>12
    <3>3. \A i \in DOMAIN p : \E k \in sent : q[k] = i
      <4> SUFFICES ASSUME NEW i \in DOMAIN p PROVE q[p[i].slot] = i /\ p[i].slot \in sent
        OBVIOUS
      <4>1. p[i].slot \in sent BY <2>7, <2>10
      <4> QED BY <2>12, <2>13, <4>1
    <3> QED BY <3>1, <3>2, <3>3 DEF Bijection, Injection, Surjection, IsInjective
  <2>15. PICK asked : asked = [k \in sent |-> (CHOOSE a \in Range(p) : a.slot = k).share] OBVIOUS
  <2>16. PICK turns : turns = [k \in sent |-> tasks[k].lease.turns] OBVIOUS
  <2>17. PICK usd : usd = [k \in sent |-> tasks[k].lease.usd] OBVIOUS
  <2>18. ASSUME NEW k \in sent
         PROVE  /\ (CHOOSE a \in Range(p) : a.slot = k).share = s[q[k]]
                /\ tasks[k].lease = QuoteShares(s, A, U)[q[k]]
    <3>1. (CHOOSE a \in Range(p) : a.slot = k) = p[q[k]]
      <4>1. p[q[k]] \in Range(p) /\ p[q[k]].slot = k BY <2>12 DEF Range
      <4>2. \A a \in Range(p) : a.slot = k => a = p[q[k]] BY <2>12, <2>13 DEF Range
      <4> QED BY <4>1, <4>2
    <3>2. s[q[k]] = p[q[k]].share BY <2>4, <2>12
    <3>3. tasks[k].lease = Sends(tasks[k].node, p, channels)[k].lease
      BY <2>1, <2>6, <2>9, <2>10 DEF TaskSound
    <3>4. Sends(tasks[k].node, p, channels)[k].lease = QuoteShares(s, A, U)[q[k]]
      BY <2>2, <2>3, <2>4, <2>7, <2>10, <2>11 DEF Sends
    <3> QED BY <3>1, <3>2, <3>3, <3>4
  <2>19. Dealt(sent, p, q, asked, turns, usd, A, U)
    <3>1. asked = [k \in sent |-> s[q[k]]] BY <2>15, <2>18
    <3>2. turns = [k \in sent |-> QuoteShares(s, A, U)[q[k]].turns] BY <2>16, <2>18
    <3>3. usd = [k \in sent |-> QuoteShares(s, A, U)[q[k]].usd] BY <2>17, <2>18
    <3> QED BY <2>4, <2>14, <3>1, <3>2, <3>3 DEF Dealt
  <2>20. /\ Total(turns) = AtMost(Total(asked), A)
         /\ Total(usd) <= U
         /\ \A k \in sent : turns[k] <= asked[k]
         /\ Cardinality(sent) <= A => \A k \in sent : turns[k] > 0
         /\ \A j, k \in sent : asked[j] > asked[k] => turns[j] >= turns[k]
    BY <2>5, <2>8, <2>19, DealsAreFair
  <2>21. p = IF channels.redispatch # None THEN channels.redispatch ELSE channels.plan
    BY <2>1 DEF SentBy
  <2> DEFINE Sent == {k \in DOMAIN tasks : tasks[k].node \in {"probe", "inspect"}}
             Plan == IF channels.redispatch # None THEN channels.redispatch ELSE channels.plan
             Asked == [k \in Sent |-> (CHOOSE a \in Range(Plan) : a.slot = k).share]
             Turns == [k \in Sent |-> tasks[k].lease.turns]
             Usd == [k \in Sent |-> tasks[k].lease.usd]
  <2>22. Sent = sent /\ Plan = p BY <1>1, <2>21
  <2>23. Asked = asked /\ Turns = turns /\ Usd = usd
    <3> HIDE DEF Sent, Plan
    <3> QED BY <2>15, <2>16, <2>17, <2>22
  <2>24. /\ Total(Turns) = AtMost(Total(Asked), RemainingTurns(channels))
         /\ Total(Usd) <= RemainingCost(channels)
         /\ \A k \in Sent : Turns[k] <= Asked[k]
         /\ Cardinality(Sent) <= RemainingTurns(channels) => \A k \in Sent : Turns[k] > 0
         /\ \A j, k \in Sent : Asked[j] > Asked[k] => Turns[j] >= Turns[k]
    <3> HIDE DEF Sent, Plan, Asked, Turns, Usd
    <3> QED BY <2>2, <2>3, <2>20, <2>22, <2>23
  <2> QED BY <2>24, Zenon DEF FanOutIsFair
<1> QED BY <1>2, <1>3

(* A fan-out leases no more turns and money than are left, gives one turn to     *)
(* each when there are enough, and never more to the smaller of two requests,    *)
(* whatever was asked for and in whatever round (quote_shares, _fan_out).        *)
THEOREM FanOutsAreFair == AgentsSpec => []FanOutIsFair
<1>1. ASSUME ~IsTurn => GraphInv, PaceInv PROVE FanOutIsFair
  <2>1. ASSUME \A k \in DOMAIN tasks : tasks[k].node \notin Branches PROVE FanOutIsFair
    BY <2>1 DEF FanOutIsFair, Branches
  <2>2. CASE IsTurn
    <3>1. \A k \in DOMAIN tasks : tasks[k].node = Turn BY <1>1, <2>2 DEF PaceInv
    <3>2. Turn \notin Branches BY DEF Turn, Branches
    <3> QED BY <2>1, <3>1, <3>2
  <2>3. CASE ~IsTurn /\ attempt.phase = "done"
    <3>1. DOMAIN tasks = {} BY <1>1, <2>3 DEF GraphInv
    <3> QED BY <2>1, <3>1
  <2>4. CASE ~IsTurn /\ attempt.phase # "done"
    BY <1>1, <2>4, SuperstepsAreFair DEF GraphInv, GraphSound
  <2> QED BY <2>2, <2>3, <2>4
<1> QED BY <1>1, GraphsAreSound, LoopsKeepThePace, PTL
==============================================================================
