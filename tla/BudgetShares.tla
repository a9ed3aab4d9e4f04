------------------------------ MODULE BudgetShares ------------------------------
(* How an execution divides turns and money among the calls of its graph.       *)
(* A lease is a number of model turns and an amount of money.  Money is counted *)
(* in whole units, so the code's division of a float is a floor here.           *)
EXTENDS Naturals, Sequences, FiniteSets, Functions

Lease(turns, usd) == [turns |-> turns, usd |-> usd]

AtMost(a, b) == IF a < b THEN a ELSE b
AtLeast(a, b) == IF a < b THEN b ELSE a

\* a - b, at least 0: what is left of a ceiling that may be overspent.
Left(a, b) == IF a > b THEN a - b ELSE 0

Total(f) == FoldFunction(+, 0, f)

CombineLeases(a, b) == Lease(a.turns + b.turns, a.usd + b.usd)

---------------------------------------------------------------------------------
(* Reservations.  Each step takes its turns and its percentage of what is left. *)
Reserve(rest, step) ==
    Lease(AtMost(step.turns, rest.turns), (rest.usd * step.share) \div 100)

Without(rest, lease) == Lease(rest.turns - lease.turns, rest.usd - lease.usd)

(* What an execution may still use: its limits without what it used before.     *)
Opening(limits, prior) ==
    Lease(Left(limits.turns, prior.turns), Left(limits.usd, prior.cost))

---------------------------------------------------------------------------------
(* Fan-out.  "requested" is a sequence of requested turns.                       *)
Rank(requested, i) ==
    Cardinality({j \in DOMAIN requested :
                    \/ requested[j] > requested[i]
                    \/ requested[j] = requested[i] /\ j < i})

\* One turn to each of the n largest requests, the earlier of two equal ones first.
OneEach(requested, n) ==
    [i \in DOMAIN requested |-> IF Rank(requested, i) < n THEN 1 ELSE 0]

\* Variant: the remainder of the floors is dropped.
ClampTurnsLeaking(requested, available) ==
    LET total == Total(requested)
        count == Len(requested)
    IN  CASE total <= available -> requested
          [] total > available /\ count > available -> OneEach(requested, available)
          [] OTHER -> [i \in DOMAIN requested |->
                         1 + ((requested[i] - 1) * (available - count)) \div (total - count)]

ClampTurns(requested, available) ==
    LET total == Total(requested)
        count == Len(requested)
        floors == [i \in DOMAIN requested |->
                     1 + ((requested[i] - 1) * (available - count)) \div (total - count)]
        extra == OneEach(requested, available - Total(floors))
    IN  CASE total <= available -> requested
          [] total > available /\ count > available -> OneEach(requested, available)
          [] OTHER -> [i \in DOMAIN requested |-> floors[i] + extra[i]]

QuoteShares(requested, turns, usd) ==
    LET granted == ClampTurns(requested, turns)
        sum == Total(granted)
    IN  [i \in DOMAIN requested |->
           Lease(granted[i], IF sum = 0 THEN 0 ELSE (usd * granted[i]) \div sum)]

---------------------------------------------------------------------------------
(* Ceilings.  Landing closes the tools and leaves room for the last call.       *)
CONSTANTS
    LandingReserve,     \* calls kept for landing
    Backstop            \* the hard end, as a multiple of the ceiling

\* One call is kept at least, and the hard end stands above the ceiling.
ASSUME BudgetAssumption == LandingReserve \in Nat \ {0} /\ Backstop \in Nat \ {0, 1}

Ceiling(max, peak, landed) == max + (IF landed THEN peak * LandingReserve ELSE 0)

ExecutionCeiling(max, peak, landed) == AtMost(Ceiling(max, peak, landed), max * Backstop)

---------------------------------------------------------------------------------
(* Settling a call: what it adds to the spending a graph state carries.          *)
SpendFields == {"cost", "turns", "poolCost", "poolTurns", "floorCost", "floorTurns"}

NoSpend == [f \in SpendFields |-> 0]

AddSpend(a, b) == [f \in SpendFields |-> a[f] + b[f]]

ReservedSpend(cost, turns) == [NoSpend EXCEPT !.cost = cost, !.turns = turns]

PoolSpend(cost, turns) ==
    [NoSpend EXCEPT !.cost = cost, !.turns = turns, !.poolCost = cost, !.poolTurns = turns]

FloorThenPoolSpend(floor, cost, turns) ==
    LET floorCost == AtMost(cost, floor.usd)
        floorTurns == AtMost(turns, floor.turns)
    IN  [cost |-> cost, turns |-> turns,
         poolCost |-> cost - floorCost, poolTurns |-> turns - floorTurns,
         floorCost |-> floorCost, floorTurns |-> floorTurns]
=================================================================================
