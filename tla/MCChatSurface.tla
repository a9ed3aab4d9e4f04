------------------------------ MODULE MCChatSurface -----------------------------
(* The instances of ChatSurface that TLC checks, one scenario for each question. *)
EXTENDS ChatSurface

CONSTANTS p1, p2, p3, c1, c2, d1, d2, d3, w1

MCCallers == Decisions \cup Clicks

\* The calls a model proposes.
TaskUpdate == [tool |-> "propose_task_write", action |-> "update", given |-> {"taskId", "status"}]
Clean(action) == [tool |-> "propose_cleanup_write", action |-> action, given |-> {"suggestionId"}]

\* A turn that is over has left a confirmation to decide.
Proposed == [over |-> <<p1>>, proposed |-> {c1}, posts |-> {}, confirmations |-> {c1},
             decisions |-> {d1}, streams |-> {}, choices |-> {"approve"}, summaries |-> {},
             deletes |-> FALSE, dies |-> FALSE, fails |-> FALSE, tool |-> TaskUpdate]
\* A thread with nothing in it.
Empty == [Proposed EXCEPT !.over = <<>>, !.proposed = {}, !.posts = {p1}]

\* Requests that race for a confirmation, and two confirmations of one turn.
Races    == {[Proposed EXCEPT !.decisions = {d1, d2, d3}, !.choices = {"approve", "reject"},
                              !.dies = TRUE],
             [Empty EXCEPT !.decisions = {d1, d2}, !.confirmations = {c1, c2}]}
\* Turns that grow the thread, with summaries and a result that comes late.
Growing  == {[Proposed EXCEPT !.posts = {p2, p3}, !.summaries = {p1, p2}]}
\* Turns that fail, or are tried again, and a summary that fails.
Failing  == {[Empty EXCEPT !.posts = {p1, p2}, !.summaries = {p2}, !.fails = TRUE]}
\* A watched turn, its confirmation and the turn that carries the result on.
Watched1 == {[Empty EXCEPT !.streams = {w1}]}
\* A thread that is deleted under all of this.
Deleted  == {[Empty EXCEPT !.confirmations = {}, !.streams = {w1}, !.deletes = TRUE],
             [Proposed EXCEPT !.posts = {p2}, !.deletes = TRUE]}
\* The confirmed call comes back to this service.
Cleaned  == {[Proposed EXCEPT !.tool = Clean(action)] : action \in {"accept", "dismiss"}}

\* Every call a model may propose, with just enough arguments and with one too few,
\* by a running turn.  The calls that come back are above.
Givens(plan) ==
    IF plan.some = {} THEN {plan.all} \cup {plan.all \ {key} : key \in plan.all}
    ELSE {plan.all} \cup {plan.all \cup {key} : key \in plan.some}

CallsOf(name) ==
    UNION {{[tool |-> name, action |-> action, given |-> given] :
                given \in Givens(Plans[name][action])} : action \in DOMAIN Plans[name]}

Proposals ==
    {[Empty EXCEPT !.tool = t] :
        t \in UNION {CallsOf(name) : name \in DOMAIN Plans \ {"propose_cleanup_write"}}}

MCScenarios ==
    Races \cup Growing \cup Failing \cup Watched1 \cup Deleted \cup Cleaned \cup Proposals
=================================================================================
