------------------------------- MODULE ModelLoop -------------------------------
(* One structured agent call of a graph node: model calls behind the middleware  *)
(* stack, charged to the loop and to the account all nodes of the attempt share. *)
(*                                                                              *)
(* A call is two steps, because the provider answers across an await: Ask looks  *)
(* at the budget and sends, and one of the answers settles.  Parallel nodes      *)
(* interleave in between.  Retries on the same model change nothing and are      *)
(* stutters; what tools return is the evidence they record (AgentTools).          *)
EXTENDS AgentTools

CONSTANT None           \* absence

VARIABLES
    run,        \* what this execution was asked and what it may meet; never changes
    account,    \* the attempt's budget: its ceiling, what is spent, its dearest call
    tasks,      \* node task of the current superstep -> its stage, lease, loop and update
    observed    \* what an observer sees: evidence really read, money paid and lost,
                \* loops opened, and whether a node lost its work and the run went on

loopVars == <<run, account, tasks, observed>>

\* How a loop may end: with an output, or with the error that is raised.
LoopEnds == {"output", "budget", "truncated", "limit", "schema", "missing", "transient", "lost"}

NewLoop(max) ==
    [max |-> AtMost(max, account.max), spent |-> 0, peak |-> 0, turns |-> 0,
     landed |-> FALSE, again |-> FALSE, model |-> "primary", read |-> {}, phase |-> "ready"]

\* Variant: a loop lands when its ceiling is reached, not when its reserve is.
LandingLate(l) == l.spent >= l.max \/ account.spent >= account.max

\* The next call must be the last: the loop or the execution has only its reserve.
Landing(l) ==
    \/ l.spent + l.peak * LandingReserve >= l.max
    \/ account.spent + account.peak * LandingReserve >= account.max

RunLimit(lease) == lease.turns + LandingReserve

Looping(k) == tasks[k].stage = "running"
Asking(k)  == Looping(k) /\ tasks[k].loop.phase = "asking"

SetLoop(k, l) == tasks' = [tasks EXCEPT ![k].loop = l]

---------------------------------------------------------------------------------
(* The turn limit stands outside the repair of a rejected output, so the second  *)
(* try of a rejected call is the same turn.                                      *)
Ask(k) ==
    LET l == tasks[k].loop IN
    /\ Looping(k)
    /\ l.phase = "ready"
    /\ l.again \/ l.turns < RunLimit(tasks[k].lease)
    /\ SetLoop(k, [l EXCEPT !.phase = "asking", !.model = "primary",
                            !.landed = @ \/ Landing(l)])
    /\ UNCHANGED <<run, account, observed>>

ReachTurnLimit(k) ==
    LET l == tasks[k].loop IN
    /\ Looping(k)
    /\ l.phase = "ready"
    /\ ~l.again
    /\ l.turns >= RunLimit(tasks[k].lease)
    /\ SetLoop(k, [l EXCEPT !.phase = "limit"])
    /\ UNCHANGED <<run, account, observed>>

---------------------------------------------------------------------------------
(* Charging.  The room for landing is measured by the dearest call before this   *)
(* one; what was answered stays on both books when the ceiling is passed.        *)
Charged(l, cost) == [l EXCEPT !.spent = @ + cost, !.peak = AtLeast(@, cost)]

Breaks(l, cost) ==
    \/ account.spent + cost > ExecutionCeiling(account.max, account.peak, l.landed)
    \/ l.spent + cost > Ceiling(l.max, AtLeast(l.peak, account.peak), l.landed)

Billed(cost) == [account EXCEPT !.spent = @ + cost, !.peak = AtLeast(@, cost)]

\* The provider has billed the call, whatever the code does with its answer.
Observe(k, cost, l) ==
    observed' = [observed EXCEPT !.paid = @ + cost,
                                 !.read = @ \cup l.read]

\* Variant: the ceiling is not looked at.
SettleUnchecked(k, cost, truncated, next) ==
    LET after == IF truncated THEN [next EXCEPT !.phase = "truncated"] ELSE next IN
    /\ account' = Billed(cost)
    /\ SetLoop(k, after)
    /\ Observe(k, cost, after)

\* An error ends the loop.  A rejected output is charged, and repaired, inside the
\* handler of its rejection, so what is raised there still carries it ("again").
Raised(l, next, error) == [l EXCEPT !.phase = error, !.again = @ \/ next.again]

\* The answer is recorded, charged, and cut off when it was truncated.
Settle(k, cost, truncated, next) ==
    LET l == Charged(tasks[k].loop, cost)
        after == IF Breaks(tasks[k].loop, cost) THEN Raised(l, next, "budget")
                 ELSE IF truncated THEN Raised(l, next, "truncated")
                 ELSE next
    IN  /\ account' = Billed(cost)
        /\ SetLoop(k, after)
        /\ Observe(k, cost, after)

---------------------------------------------------------------------------------
(* Answers.                                                                      *)

\* The request to a loop that has landed carries no tool but the output's.
ToolsOpen(k) == tasks[k].tools /\ ~tasks[k].loop.landed

\* The model calls a tool.  A tool that keeps failing is a result the model reads,
\* not an error.
CallTool(k, cost, found) ==
    LET l == Charged(tasks[k].loop, cost) IN
    /\ ToolsOpen(k)
    /\ Settle(k, cost, FALSE, [l EXCEPT !.phase = "ready", !.turns = @ + 1, !.again = FALSE,
                                        !.read = @ \cup found])
    /\ UNCHANGED run

Output(k, cost) ==
    LET l == Charged(tasks[k].loop, cost) IN
    /\ Settle(k, cost, FALSE, [l EXCEPT !.phase = "output", !.turns = @ + 1])
    /\ UNCHANGED run

\* An answer without the output tool ends the loop with no structured response.
AnswerInText(k, cost) ==
    LET l == Charged(tasks[k].loop, cost) IN
    /\ Settle(k, cost, FALSE, [l EXCEPT !.phase = "missing"])
    /\ UNCHANGED run

Truncate(k, cost) ==
    /\ Settle(k, cost, TRUE, tasks[k].loop)
    /\ UNCHANGED run

\* Variant: the output a second call replaces is not paid for.
RejectUnpaid(k, cost, truncated) ==
    LET l == tasks[k].loop IN
    /\ Observe(k, cost, l)
    /\ SetLoop(k, IF l.again THEN [l EXCEPT !.phase = "schema"]
                  ELSE [l EXCEPT !.phase = "ready", !.again = TRUE])
    /\ UNCHANGED <<run, account>>

\* An output against its schema, cut short or not, is paid for, told to the model
\* once, then raised.
Reject(k, cost, truncated) ==
    LET l == Charged(tasks[k].loop, cost) IN
    /\ Settle(k, cost, truncated, [l EXCEPT !.phase = IF l.again THEN "schema" ELSE "ready",
                                            !.again = TRUE])
    /\ UNCHANGED run

\* An answer of a model nobody can price, a rejected one too, cannot be held to a
\* budget.
Unpriced(k, rejected) ==
    /\ SetLoop(k, [tasks[k].loop EXCEPT !.phase = "budget", !.again = @ \/ rejected])
    /\ UNCHANGED <<run, account, observed>>

\* Variant: the other model is asked again and again, each in place of the other.
UnavailableInTurn(k) ==
    LET l == tasks[k].loop IN
    /\ \/ SetLoop(k, [l EXCEPT !.model = IF @ = "primary" THEN "fallback" ELSE "primary"])
       \/ SetLoop(k, [l EXCEPT !.phase = "transient"])
    /\ UNCHANGED <<run, account, observed>>

\* The provider stays unavailable: the other model once, if there is one, then the error.
Unavailable(k) ==
    LET l == tasks[k].loop IN
    /\ \/ l.model = "primary" /\ SetLoop(k, [l EXCEPT !.model = "fallback"])
       \/ SetLoop(k, [l EXCEPT !.phase = "transient"])
    /\ UNCHANGED <<run, account, observed>>

\* A refused request, or a node timeout that gives the call up.
Lose(k) ==
    /\ SetLoop(k, [tasks[k].loop EXCEPT !.phase = "lost"])
    /\ UNCHANGED <<run, account, observed>>

Answer(k) ==
    /\ Asking(k)
    /\ \/ \E c \in run.costs :
             \/ /\ "tool" \in run.answers
                /\ \E found \in Finds(run, tasks[k].node, k) : CallTool(k, c, found)
             \/ "toolfails" \in run.answers /\ CallTool(k, c, {})
             \/ Output(k, c)
             \/ "text" \in run.answers /\ AnswerInText(k, c)
             \/ "truncated" \in run.answers /\ Truncate(k, c)
             \/ /\ "rejected" \in run.answers
                /\ \E truncated \in {FALSE, "truncated" \in run.answers} :
                      Reject(k, c, truncated)
       \/ /\ "unpriced" \in run.answers
          /\ \E rejected \in {FALSE, "rejected" \in run.answers} : Unpriced(k, rejected)
       \/ "unavailable" \in run.answers /\ Unavailable(k)
       \/ "lost" \in run.answers /\ Lose(k)
=================================================================================
