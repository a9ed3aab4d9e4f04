------------------------------- MODULE AgentState -------------------------------
(* The state a job agent's graph carries from superstep to superstep, the        *)
(* updates its nodes write, and the leases an attempt sets aside.                *)
(*                                                                              *)
(* A plan is a sequence of assignments [slot, share]; a slot is what the plan    *)
(* may name once, a specialist of a recipe scan or a task of a cleanup.          *)
EXTENDS ModelLoop

CONSTANTS
    RepairStep, SurveyStep, FloorStep,  \* reservations: [turns, share in percent]
    MaxRedispatch,      \* rounds of redispatch
    NodeTries           \* tries of a node whose policy retries it

Degraded     == "generation-degraded"
Insufficient == "insufficient-evidence"
NoPattern    == "default"   \* the contract's default reason

\* Absence is neither an empty result nor a reason.
ASSUME NoneAssumption == None # {} /\ None # Degraded

\* A step that asks for more than everything is refused when it is taken.
ASSUME ReservationAssumption ==
    {RepairStep, SurveyStep, FloorStep} \subseteq [turns : Nat, share : 0 .. 100]

---------------------------------------------------------------------------------
(* What the contract sets aside before the fan-out, and in which order.          *)
ReservationOrder == <<"repair", "survey", "floor">>

ReservationPolicy == [repair |-> RepairStep, survey |-> SurveyStep, floor |-> FloorStep]

\* The next reservation is taken from what the earlier ones left in the pool.
Reserved(leases, name) ==
    LET lease == Reserve(leases.pool, ReservationPolicy[name])
    IN  [leases EXCEPT ![name] = lease, !.pool = Without(@, lease)]

Unreserved(limits, prior) ==
    [repair |-> Lease(0, 0), survey |-> Lease(0, 0), floor |-> Lease(0, 0),
     pool |-> Opening(limits, prior)]

(* The leases of one attempt; the pool is what is left.                          *)
LeasesOf(limits, prior) ==
    LET first  == Reserved(Unreserved(limits, prior), ReservationOrder[1])
        second == Reserved(first, ReservationOrder[2])
    IN  Reserved(second, ReservationOrder[3])

\* A title run reserves its repair only.
TitleLeasesOf(limits, prior) == Reserved(Unreserved(limits, prior), "repair")

FreshChannels(pool) ==
    [pool |-> pool, plan |-> None, redispatch |-> None, rounds |-> 0,
     reports |-> {}, failed |-> {}, read |-> {}, exposed |-> {}, drafts |-> {},
     invalid |-> FALSE, repaired |-> FALSE, reason |-> None, result |-> None,
     told |-> None, spend |-> NoSpend]

RemainingTurns(ch) == Left(ch.pool.turns, ch.spend.poolTurns)
RemainingCost(ch)  == Left(ch.pool.usd, ch.spend.poolCost)
Remaining(ch)      == Lease(RemainingTurns(ch), RemainingCost(ch))

\* What the one reservation of a synthesis has left.
FloorLease(ch, floor) ==
    Lease(Left(floor.turns, ch.spend.floorTurns), Left(floor.usd, ch.spend.floorCost))

---------------------------------------------------------------------------------
(* An update overwrites the channels of "set" and adds to the others.  No two     *)
(* nodes of a superstep overwrite the same channel.                              *)
Update(set, spend) ==
    [set |-> set, reports |-> {}, failed |-> {}, read |-> {}, spend |-> spend]

\* A branch overwrites nothing.
Reporting(reports, failed, read, spend) ==
    [set |-> <<>>, reports |-> reports, failed |-> failed, read |-> read, spend |-> spend]

Overwritten(ch, updates) ==
    [c \in DOMAIN ch |->
        LET writers == {k \in DOMAIN updates : c \in DOMAIN updates[k].set}
        IN  IF writers = {} THEN ch[c] ELSE updates[CHOOSE k \in writers : TRUE].set[c]]

SpendOf(updates) ==
    [f \in SpendFields |-> Total([k \in DOMAIN updates |-> updates[k].spend[f]])]

AllWritten(ch, updates) ==
    [Overwritten(ch, updates)
        EXCEPT !.reports = @ \cup UNION {updates[k].reports : k \in DOMAIN updates},
               !.failed  = @ \cup UNION {updates[k].failed : k \in DOMAIN updates},
               !.read    = @ \cup UNION {updates[k].read : k \in DOMAIN updates},
               !.spend   = AddSpend(@, SpendOf(updates))]

---------------------------------------------------------------------------------
(* Node tasks of a superstep: name -> node and, for a sent branch, its lease.    *)
One(node) == [k \in {node} |-> [node |-> node, lease |-> None]]

Sends(node, plan, ch) ==
    LET leases == QuoteShares([i \in DOMAIN plan |-> plan[i].share],
                              RemainingTurns(ch), RemainingCost(ch))
    IN  [s \in {plan[i].slot : i \in DOMAIN plan} |->
           [node |-> node, lease |-> leases[CHOOSE i \in DOMAIN plan : plan[i].slot = s]]]

\* Without assignments, turns or money nothing is sent.
Sendable(plan, ch) ==
    /\ plan # None
    /\ plan # <<>>
    /\ RemainingTurns(ch) > 0
    /\ RemainingCost(ch) > 0

Assign(slot, share) == [slot |-> slot, share |-> share]

\* Every depth the contract names has a share.
Assignments(slots) == [slot : slots, share : Nat \ {0}]

Draft(items, redispatch) == [items |-> items, redispatch |-> redispatch]

\* A plan names a slot once, a draft holds either items or a redispatch; an output
\* that does otherwise is rejected by its schema.
NamesOnce(plan) == IsInjective([i \in DOMAIN plan |-> plan[i].slot])

WellFormed(draft) ==
    /\ draft.items = {} \/ draft.redispatch = <<>>
    /\ NamesOnce(draft.redispatch)

Plans == {p \in run.plans : NamesOnce(p)}

Drafts == {d \in run.drafts : WellFormed(d)}

EmptyDraft == Draft({}, <<>>)

\* A redispatch wants assignments, a round left, and a pool its own call left over.
Redispatched(wanted, ch, spend) ==
    IF \/ wanted = <<>>
       \/ ch.rounds >= MaxRedispatch
       \/ Left(RemainingCost(ch), spend.poolCost) = 0
       \/ Left(RemainingTurns(ch), spend.poolTurns) = 0
    THEN None ELSE wanted

\* Validation passed, one repair, or the end.
ValidationRoute(ch, hasResult) ==
    CASE ~ch.invalid -> IF hasResult THEN "finalize" ELSE "empty"
      [] ch.invalid /\ ~ch.repaired -> "repair"
      [] OTHER -> "exhausted"
=================================================================================
