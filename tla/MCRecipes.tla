------------------------------- MODULE MCRecipes -------------------------------
(* The instance of Recipes that TLC checks.                                      *)
EXTENDS Recipes

CONSTANTS r1, r2, t1, d1, d2, a1, a2

CONSTANT MaxReports  \* bound: requests begun when there are events

\* The same recipe brought into the same task twice, and an event of another kind.
MCStream == <<
    [kind |-> "recipe.injected", app |-> a1, recipe |-> r1, task |-> t1, via |-> "pull"],
    [kind |-> "task.started", app |-> None, recipe |-> None, task |-> t1, via |-> "pull"],
    [kind |-> "recipe.injected", app |-> a2, recipe |-> r1, task |-> t1, via |-> "pull"] >>

\* All the requests with no event to project, a few requests beside the events.
MCScenarios == {[stream |-> <<>>, now |-> 0],
                [stream |-> MCStream, now |-> MaxRequests - MaxReports]}
=================================================================================
