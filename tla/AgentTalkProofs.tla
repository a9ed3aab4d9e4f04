--------------------------- MODULE AgentTalkProofs ---------------------------
(* The model loop of a node task, in a job or in a turn, and the conversation  *)
(* of a turn: it is held once and in its order, and what it puts before the    *)
(* user is cited, whatever attempts before it left behind.                     *)
EXTENDS ChatAgent, FiniteSetTheorems, TLAPS

(* A run is what it was from its first step on. *)
LEMMA RunStays == [AgentsNext]_vars => UNCHANGED run
<1> SUFFICES ASSUME [AgentsNext]_vars PROVE UNCHANGED run OBVIOUS
<1> USE DEF loopVars
<1>1. CASE UNCHANGED vars \/ Crash \/ Ending \/ Save \/ SaveTurn
  BY <1>1 DEF vars, Crash, EndRun, Ending, Save, SaveTurn
<1>2. CASE Work
  <2>1. ASSUME NEW k, NodeStep(k) PROVE UNCHANGED run
    BY <2>1 DEF NodeStep, PassNode, OpenLoop, Ask, ReachTurnLimit, Answer, CallTool, Output,
                AnswerInText, Truncate, Reject, Unpriced, Unavailable, Lose, RetryNode, FinishNode
  <2>2. CASE PassDeadline \/ Advance \/ Resume \/ \E k \in DOMAIN tasks : FailRun(k)
    BY <2>2 DEF PassDeadline, Advance, Resume, FailRun, EndRun
  <2> QED BY <1>2, <2>1, <2>2 DEF Work
<1>3. CASE TurnWork
  <2>1. CASE LoadContext \/ ContextUnreached \/ ContextRefused \/ SeedCheckpoint \/ OpenTurn
    BY <2>1 DEF LoadContext, ContextUnreached, ContextRefused, EndRun, SeedCheckpoint, OpenTurn
  <2>2. CASE AskChat \/ ChatAnswer
    BY <2>2 DEF AskChat, Ask, ReachTurnLimit, ChatAnswer, ChatText, ChatCall, Truncate, Unpriced,
                Unavailable, Lose
  <2>3. CASE ReadReturns \/ RecallReturns \/ WriteRefused \/ Propose \/ ToolUnreached
    BY <2>3 DEF ReadReturns, RecallReturns, WriteRefused, ResultReturns, Propose, ToolUnreached,
                ToolAnswered
  <2>4. CASE EndTurn \/ FailTurn \/ TurnTooLong \/ SettleTurn \/ DeliverTurn \/ ResumeTurn
    BY <2>4 DEF EndTurn, FailTurn, TurnTooLong, SettleTurn, DeliverTurn, EndRun, ResumeTurn
  <2> QED BY <1>3, <2>1, <2>2, <2>3, <2>4 DEF TurnWork
<1> QED BY <1>1, <1>2, <1>3 DEF AgentsNext, AgentsWork

------------------------------------------------------------------------------
(* The model loop of a task.                                                  *)

LoopTyped(l) ==
    l \in [max : {l.max}, spent : Nat, peak : Nat, turns : Nat, landed : BOOLEAN, again : BOOLEAN,
           model : {"primary", "fallback"}, read : {l.read},
           phase : LoopEnds \cup {"ready", "asking"} \cup Tools]

TaskTyped(t) ==
    /\ t \in [node : {t.node}, lease : {t.lease}, tools : {t.tools}, tries : {t.tries},
              stage : {"waiting", "running", "returned"}, loop : {t.loop}, update : {t.update}]
    /\ t.stage = "running" => LoopTyped(t.loop)
    /\ t.stage = "returned" => t.update.spend["cost"] \in Nat

TasksTyped(ts) ==
    /\ ts = [k \in DOMAIN ts |-> ts[k]]
    /\ IsFiniteSet(DOMAIN ts)
    /\ \A k \in DOMAIN ts : TaskTyped(ts[k])

BooksTyped ==
    /\ account \in [max : Nat, spent : Nat, peak : Nat]
    /\ observed \in [read : {observed.read}, paid : Nat, lost : Nat, loops : Nat,
                     failed : {observed.failed}]
    /\ run.costs \subseteq Nat

LoopsTyped == TasksTyped(tasks) /\ BooksTyped

(* The loop of task k becomes l, and has not come back from an end. *)
Becomes(k, l) ==
    /\ LoopTyped(l)
    /\ tasks' = [tasks EXCEPT ![k].loop = l]
    /\ tasks[k].loop.phase \notin LoopEnds

Free(k) ==
    \E l : /\ Becomes(k, l)
           /\ l.spent = tasks[k].loop.spent /\ l.read = tasks[k].loop.read
           /\ l.phase \notin Tools
           /\ UNCHANGED <<account, observed>>

Pays(k, cost) ==
    \E l : /\ Becomes(k, l)
           /\ l.spent = tasks[k].loop.spent + cost
           /\ account' = Billed(cost)
           /\ observed' = [observed EXCEPT !.paid = @ + cost, !.read = @ \cup l.read]
           /\ l.phase \in LoopEnds \/ ~Breaks(tasks[k].loop, cost)

\* A loop whose phase changes stays a loop, with its money and its evidence.
LEMMA LoopEdits ==
    ASSUME NEW l, LoopTyped(l),
           NEW p \in LoopEnds \cup {"ready", "asking"} \cup Tools
    PROVE  /\ LoopTyped([l EXCEPT !.phase = p])
           /\ [l EXCEPT !.phase = p].phase = p
           /\ [l EXCEPT !.phase = p].spent = l.spent
           /\ [l EXCEPT !.phase = p].read = l.read
BY DEF LoopTyped

\* A loop that is charged has spent the call, and read nothing by it.
LEMMA ChargedLoop ==
    ASSUME NEW l, LoopTyped(l), NEW cost \in Nat
    PROVE  /\ LoopTyped(Charged(l, cost))
           /\ Charged(l, cost).spent = l.spent + cost
           /\ Charged(l, cost).peak = AtLeast(l.peak, cost)
           /\ Charged(l, cost).read = l.read
<1>1. l.peak \in Nat /\ l.spent + cost \in Nat BY DEF LoopTyped
<1>2. AtLeast(l.peak, cost) \in Nat BY <1>1 DEF AtLeast
<1> DEFINE x == l.spent + cost
           y == AtLeast(l.peak, cost)
<1>4. Charged(l, cost) = [l EXCEPT !.spent = x, !.peak = y]
  BY DEF Charged
<1>5. x \in Nat /\ y \in Nat BY <1>1, <1>2
<1> HIDE DEF x, y
<1>6. LoopTyped([l EXCEPT !.spent = x, !.peak = y])
  BY <1>5 DEF LoopTyped
<1>7. /\ Charged(l, cost).spent = x /\ Charged(l, cost).peak = y
      /\ Charged(l, cost).read = l.read
  BY <1>4 DEF LoopTyped
<1> QED BY <1>4, <1>6, <1>7 DEF x, y

\* What is raised ends a loop, and takes nothing from its money and its evidence.
LEMMA RaisedLoop ==
    ASSUME NEW l, LoopTyped(l), NEW next, NEW p \in LoopEnds
    PROVE  /\ LoopTyped(Raised(l, next, p)) /\ Raised(l, next, p).phase = p
           /\ Raised(l, next, p).spent = l.spent /\ Raised(l, next, p).peak = l.peak
           /\ Raised(l, next, p).max = l.max /\ Raised(l, next, p).turns = l.turns
           /\ Raised(l, next, p).read = l.read
<1> DEFINE a == l.again \/ next.again
<1>1. Raised(l, next, p) = [l EXCEPT !.phase = p, !.again = a] BY DEF Raised
<1>2. a \in BOOLEAN OBVIOUS
<1> HIDE DEF a
<1> QED BY <1>1, <1>2 DEF LoopTyped

\* To settle a call is to pay for it, and to end the loop when it breaks a ceiling.
LEMMA SettlePays ==
    ASSUME LoopsTyped, NEW k \in DOMAIN tasks, Asking(k), NEW cost \in run.costs,
           NEW truncated \in BOOLEAN, NEW next, Settle(k, cost, truncated, next),
           ~truncated => LoopTyped(next) /\ next.spent = tasks[k].loop.spent + cost
    PROVE  /\ Pays(k, cost)
           /\ tasks'[k].loop.phase \in {"budget", IF truncated THEN "truncated" ELSE next.phase}
<1> DEFINE l == Charged(tasks[k].loop, cost)
           after == IF Breaks(tasks[k].loop, cost) THEN Raised(l, next, "budget")
                    ELSE IF truncated THEN Raised(l, next, "truncated")
                    ELSE next
<1>1. LoopTyped(tasks[k].loop) /\ tasks[k].loop.phase = "asking" /\ cost \in Nat
  BY DEF LoopsTyped, TasksTyped, TaskTyped, BooksTyped, Asking, Looping
<1>2. /\ account' = Billed(cost)
      /\ tasks' = [tasks EXCEPT ![k].loop = after]
      /\ observed' = [observed EXCEPT !.paid = @ + cost, !.read = @ \cup after.read]
  BY DEF Settle, SetLoop, Observe
<1>3. LoopTyped(l) /\ l.spent = tasks[k].loop.spent + cost
  BY <1>1, ChargedLoop
<1> HIDE DEF l
<1>4. \A p \in {"budget", "truncated"} :
         /\ LoopTyped(Raised(l, next, p)) /\ Raised(l, next, p).phase = p
         /\ Raised(l, next, p).spent = l.spent
  BY <1>3, RaisedLoop DEF LoopEnds
<1>5. LoopTyped(after) /\ after.spent = tasks[k].loop.spent + cost
  BY <1>3, <1>4
<1>6. after.phase \in LoopEnds \/ ~Breaks(tasks[k].loop, cost)
  BY <1>4 DEF LoopEnds
<1>7. after.phase \in {"budget", IF truncated THEN "truncated" ELSE next.phase}
  BY <1>4
<1> HIDE DEF after
<1>8. tasks[k].loop.phase \notin LoopEnds BY <1>1 DEF LoopEnds
<1>9. tasks'[k].loop = after BY <1>2 DEF LoopsTyped, TasksTyped, TaskTyped
<1> QED BY <1>2, <1>5, <1>6, <1>7, <1>8, <1>9 DEF Pays, Becomes

\* A step of the loop of task k, in a job or in a turn.
LoopMoves(k) == Free(k) \/ \E cost \in run.costs : Pays(k, cost)

\* To ask, or to reach the turn limit, costs nothing.
LEMMA AskMoves ==
    ASSUME LoopsTyped, NEW k \in DOMAIN tasks, Ask(k) \/ ReachTurnLimit(k)
    PROVE  Free(k)
<1> DEFINE l == tasks[k].loop
<1>1. LoopTyped(l) /\ l.phase = "ready" /\ UNCHANGED <<account, observed>>
  BY DEF LoopsTyped, TasksTyped, TaskTyped, Ask, ReachTurnLimit, Looping
<1>2. CASE Ask(k)
  <2> DEFINE n == [l EXCEPT !.phase = "asking", !.model = "primary", !.landed = @ \/ Landing(l)]
  <2>1. tasks' = [tasks EXCEPT ![k].loop = n] BY <1>2 DEF Ask, SetLoop
  <2>2. Landing(l) \in BOOLEAN BY DEF Landing
  <2>3. LoopTyped(n) /\ n.spent = l.spent /\ n.read = l.read /\ n.phase = "asking"
    BY <1>1, <2>2 DEF LoopTyped
  <2> HIDE DEF n
  <2> QED BY <1>1, <2>1, <2>3 DEF Free, Becomes, LoopEnds, Tools
<1>3. CASE ReachTurnLimit(k)
  <2> DEFINE n == [l EXCEPT !.phase = "limit"]
  <2>1. tasks' = [tasks EXCEPT ![k].loop = n] BY <1>3 DEF ReachTurnLimit, SetLoop
  <2>2. LoopTyped(n) /\ n.spent = l.spent /\ n.read = l.read /\ n.phase = "limit"
    BY <1>1, LoopEdits DEF LoopEnds
  <2> HIDE DEF n
  <2> QED BY <1>1, <2>1, <2>2 DEF Free, Becomes, LoopEnds, Tools
<1> QED BY <1>2, <1>3

\* The answers that are free.
LEMMA FreeMoves ==
    ASSUME LoopsTyped, NEW k \in DOMAIN tasks, Asking(k),
           (\E rejected : Unpriced(k, rejected)) \/ Unavailable(k) \/ Lose(k)
    PROVE  Free(k)
<1> DEFINE l == tasks[k].loop
<1>1. LoopTyped(l) /\ l.phase = "asking" /\ UNCHANGED <<account, observed>>
  BY DEF LoopsTyped, TasksTyped, TaskTyped, Asking, Looping, Unpriced, Unavailable, Lose
<1>2. ASSUME NEW n, tasks' = [tasks EXCEPT ![k].loop = n], LoopTyped(n), n.spent = l.spent,
             n.read = l.read, n.phase \notin Tools
      PROVE  Free(k)
  BY <1>1, <1>2 DEF Free, Becomes, LoopEnds, Tools
<1>3. CASE Unavailable(k) /\ tasks' = [tasks EXCEPT ![k].loop = [l EXCEPT !.model = "fallback"]]
  <2> DEFINE n == [l EXCEPT !.model = "fallback"]
  <2>1. LoopTyped(n) /\ n.spent = l.spent /\ n.read = l.read /\ n.phase \notin Tools
    BY <1>1 DEF LoopTyped, Tools
  <2> HIDE DEF n
  <2> QED BY <1>2, <1>3, <2>1 DEF n
<1>4. ASSUME NEW p \in LoopEnds, tasks' = [tasks EXCEPT ![k].loop = [l EXCEPT !.phase = p]]
      PROVE  Free(k)
  <2> DEFINE n == [l EXCEPT !.phase = p]
  <2>1. LoopTyped(n) /\ n.spent = l.spent /\ n.read = l.read /\ n.phase \notin Tools
    BY <1>1, LoopEdits DEF LoopEnds, Tools
  <2> HIDE DEF n
  <2> QED BY <1>2, <1>4, <2>1 DEF n
<1>5. ASSUME NEW rejected, Unpriced(k, rejected) PROVE Free(k)
  <2> DEFINE a == l.again \/ rejected
             n == [l EXCEPT !.phase = "budget", !.again = a]
  <2>1. tasks' = [tasks EXCEPT ![k].loop = n] BY <1>5 DEF Unpriced, SetLoop
  <2>2. a \in BOOLEAN OBVIOUS
  <2> HIDE DEF a
  <2>3. LoopTyped(n) /\ n.spent = l.spent /\ n.read = l.read /\ n.phase \notin Tools
    BY <1>1, <2>2 DEF LoopTyped, LoopEnds, Tools
  <2> HIDE DEF n
  <2> QED BY <1>2, <2>1, <2>3
<1> QED BY <1>3, <1>4, <1>5 DEF Unavailable, Lose, SetLoop, LoopEnds

\* Every answer of a model moves the loop: for free, or paid for.
LEMMA AnswerMoves ==
    ASSUME LoopsTyped, NEW k \in DOMAIN tasks, Answer(k)
    PROVE  LoopMoves(k)
<1> DEFINE l == tasks[k].loop
<1>1. LoopTyped(l) /\ Asking(k)
  BY DEF LoopsTyped, TasksTyped, TaskTyped, Asking, Looping, Answer
<1>2. CASE (\E rejected : Unpriced(k, rejected)) \/ Unavailable(k) \/ Lose(k)
  BY <1>1, <1>2, FreeMoves DEF LoopMoves
<1>3. ASSUME NEW c \in run.costs,
             \/ \E found : CallTool(k, c, found)
             \/ Output(k, c) \/ AnswerInText(k, c) \/ Truncate(k, c)
             \/ \E truncated \in BOOLEAN : Reject(k, c, truncated)
      PROVE  Pays(k, c)
  <2> DEFINE g == Charged(l, c)
  <2>1. c \in Nat BY <1>3 DEF LoopsTyped, BooksTyped
  <2>2. LoopTyped(g) /\ g.spent = l.spent + c BY <1>1, <2>1, ChargedLoop
  <2> HIDE DEF g
  <2>3. ASSUME NEW found, CallTool(k, c, found) PROVE Pays(k, c)
    <3> DEFINE n == [g EXCEPT !.phase = "ready", !.turns = @ + 1, !.again = FALSE,
                              !.read = @ \cup found]
    <3>1. Settle(k, c, FALSE, n) BY <2>3 DEF CallTool, g
    <3>2. g.turns + 1 \in Nat BY <2>2 DEF LoopTyped
    <3>3. ASSUME NEW t \in Nat, NEW r, NEW m,
                 m = [g EXCEPT !.phase = "ready", !.turns = t, !.again = FALSE, !.read = r]
          PROVE  LoopTyped(m) /\ m.spent = g.spent
      BY <2>2, <3>3 DEF LoopTyped
    <3>4. LoopTyped(n) /\ n.spent = g.spent BY <3>2, <3>3
    <3> HIDE DEF n
    <3> QED BY <1>1, <2>2, <3>1, <3>4, SettlePays
  <2>4. CASE Output(k, c)
    <3> DEFINE n == [g EXCEPT !.phase = "output", !.turns = @ + 1]
    <3>1. Settle(k, c, FALSE, n) BY <2>4 DEF Output, g
    <3>2. g.turns + 1 \in Nat BY <2>2 DEF LoopTyped
    <3>3. ASSUME NEW t \in Nat, NEW m, m = [g EXCEPT !.phase = "output", !.turns = t]
          PROVE  LoopTyped(m) /\ m.spent = g.spent
      BY <2>2, <3>3 DEF LoopTyped, LoopEnds
    <3>4. LoopTyped(n) /\ n.spent = g.spent BY <3>2, <3>3
    <3> HIDE DEF n
    <3> QED BY <1>1, <2>2, <3>1, <3>4, SettlePays
  <2>5. CASE AnswerInText(k, c)
    <3> DEFINE n == [g EXCEPT !.phase = "missing"]
    <3>1. Settle(k, c, FALSE, n) BY <2>5 DEF AnswerInText, g
    <3>2. LoopTyped(n) /\ n.spent = g.spent BY <2>2, LoopEdits DEF LoopEnds
    <3> HIDE DEF n
    <3> QED BY <1>1, <2>2, <3>1, <3>2, SettlePays
  <2>6. CASE Truncate(k, c)
    <3>1. Settle(k, c, TRUE, l) BY <2>6 DEF Truncate
    <3> HIDE DEF l
    <3> QED BY <1>1, <3>1, SettlePays
  <2>7. ASSUME NEW truncated \in BOOLEAN, Reject(k, c, truncated) PROVE Pays(k, c)
    <3> DEFINE p == IF g.again THEN "schema" ELSE "ready"
               n == [g EXCEPT !.phase = p, !.again = TRUE]
    <3>1. Settle(k, c, truncated, n) BY <2>7 DEF Reject, g
    <3>2. p \in LoopEnds \cup {"ready"} BY DEF LoopEnds
    <3> HIDE DEF p
    <3>3. LoopTyped(n) /\ n.spent = g.spent BY <2>2, <3>2 DEF LoopTyped
    <3> HIDE DEF n
    <3> QED BY <1>1, <2>2, <3>1, <3>3, SettlePays
  <2> QED BY <1>3, <2>3, <2>4, <2>5, <2>6, <2>7
<1>4. {FALSE, "truncated" \in run.answers} \subseteq BOOLEAN OBVIOUS
<1>5. CASE \E c \in run.costs :
              \/ \E found : CallTool(k, c, found)
              \/ Output(k, c) \/ AnswerInText(k, c) \/ Truncate(k, c)
              \/ \E truncated \in BOOLEAN : Reject(k, c, truncated)
  BY <1>3, <1>5 DEF LoopMoves
<1> QED BY <1>2, <1>4, <1>5 DEF Answer

\* A move of one loop leaves the types and every other task as they are.
LEMMA LoopChanges ==
    ASSUME LoopsTyped, UNCHANGED run, NEW k \in DOMAIN tasks, LoopMoves(k)
    PROVE  /\ LoopsTyped'
           /\ DOMAIN tasks' = DOMAIN tasks
           /\ \A j \in DOMAIN tasks \ {k} : tasks'[j] = tasks[j]
           /\ tasks'[k] = [tasks[k] EXCEPT !.loop = tasks'[k].loop]
           /\ LoopTyped(tasks'[k].loop)
<1>1. PICK l :
        /\ Becomes(k, l)
        /\ \/ UNCHANGED <<account, observed>>
           \/ \E c \in run.costs :
                 /\ account' = Billed(c)
                 /\ observed' = [observed EXCEPT !.paid = @ + c, !.read = @ \cup l.read]
  BY DEF LoopMoves, Free, Pays
<1>2. tasks' = [tasks EXCEPT ![k].loop = l] /\ LoopTyped(l)
  <2>1. Becomes(k, l) BY <1>1
  <2> QED BY <2>1 DEF Becomes
<1>3. TaskTyped(tasks[k]) /\ TaskTyped([tasks[k] EXCEPT !.loop = l])
  <2>1. TaskTyped(tasks[k]) BY DEF LoopsTyped, TasksTyped
  <2>2. TaskTyped([tasks[k] EXCEPT !.loop = l]) BY <1>2, <2>1 DEF TaskTyped
  <2> QED BY <2>1, <2>2
<1>4. /\ DOMAIN tasks' = DOMAIN tasks /\ tasks'[k] = [tasks[k] EXCEPT !.loop = l]
      /\ \A j \in DOMAIN tasks \ {k} : tasks'[j] = tasks[j]
      /\ tasks' = [j \in DOMAIN tasks' |-> tasks'[j]]
  BY <1>2 DEF LoopsTyped, TasksTyped
<1>5. tasks'[k].loop = l BY <1>3, <1>4 DEF TaskTyped
<1>6. TasksTyped(tasks')
  BY <1>3, <1>4 DEF LoopsTyped, TasksTyped
<1>7. BooksTyped'
  <2>1. CASE UNCHANGED <<account, observed>> BY <2>1 DEF LoopsTyped, BooksTyped
  <2>2. ASSUME NEW c \in run.costs, account' = Billed(c),
               observed' = [observed EXCEPT !.paid = @ + c, !.read = @ \cup l.read]
        PROVE  BooksTyped'
    <3>1. c \in Nat BY <2>2 DEF LoopsTyped, BooksTyped
    <3>2. account' \in [max : Nat, spent : Nat, peak : Nat]
      <4>1. account \in [max : Nat, spent : Nat, peak : Nat] BY DEF LoopsTyped, BooksTyped
      <4>2. account.spent + c \in Nat /\ AtLeast(account.peak, c) \in Nat
        BY <3>1, <4>1 DEF AtLeast
      <4> HIDE DEF AtLeast
      <4> QED BY <2>2, <4>1, <4>2 DEF Billed
    <3>3. observed' \in [read : {observed'.read}, paid : Nat, lost : Nat, loops : Nat,
                         failed : {observed'.failed}]
      <4>1. observed \in [read : {observed.read}, paid : Nat, lost : Nat, loops : Nat,
                          failed : {observed.failed}]
        BY DEF LoopsTyped, BooksTyped
      <4>2. observed.paid + c \in Nat BY <3>1, <4>1
      <4> QED BY <2>2, <4>1, <4>2
    <3> QED BY <3>2, <3>3 DEF LoopsTyped, BooksTyped
  <2> QED BY <1>1, <2>1, <2>2
<1> QED BY <1>2, <1>4, <1>5, <1>6, <1>7 DEF LoopsTyped

------------------------------------------------------------------------------
(* A chat turn.                                                               *)

Parts == {"earlier", "latest", "answer", "call", "result"}

(* The conversation so far: the history first, the line to answer after it,    *)
(* and results after their calls.                                             *)
InOrder(d) ==
    /\ d \in Seq(Parts)
    /\ \A i \in DOMAIN d : d[i] = "earlier" => i = 1
    /\ \A i, j \in DOMAIN d : d[i] = "latest" /\ j < i => d[j] = "earlier"
    /\ \A i \in DOMAIN d : d[i] = "result" => i > 1 /\ d[i - 1] = "call"

EndsWith(d, part) == Len(d) > 0 /\ d[Len(d)] = part

(* What one step of the conversation adds. *)
May(d, part) ==
    \/ part \in {"answer", "call"}
    \/ part = "latest" /\ d = Earlier
    \/ part = "result" /\ EndsWith(d, "call")

\* A conversation that begins, with a history or without, is in order.
LEMMA EarlierInOrder == InOrder(Earlier) /\ InOrder(<<>>)
<1>1. InOrder(<<>>) BY DEF InOrder
<1>2. InOrder(<<"earlier">>)
  <2> DEFINE d == <<"earlier">>
  <2>1. d \in Seq(Parts) /\ DOMAIN d = {1} /\ d[1] = "earlier" BY DEF Parts
  <2> HIDE DEF d
  <2>2. InOrder(d) BY <2>1 DEF InOrder
  <2> QED BY <2>2 DEF d
<1> QED BY <1>1, <1>2 DEF Earlier

\* A conversation stays in order when the next part may follow it.
LEMMA SaysInOrder ==
    ASSUME NEW d, InOrder(d), NEW part, May(d, part)
    PROVE  InOrder(Append(d, part)) /\ EndsWith(Append(d, part), part)
<1> DEFINE e == Append(d, part)
<1>0. d \in Seq(Parts) /\ part \in Parts /\ Len(d) \in Nat /\ DOMAIN d = 1 .. Len(d)
  BY DEF InOrder, May, Parts
<1>1. /\ e \in Seq(Parts) /\ Len(e) = Len(d) + 1 /\ DOMAIN e = 1 .. Len(d) + 1
      /\ \A i \in 1 .. Len(d) : e[i] = d[i]
      /\ e[Len(d) + 1] = part
  BY <1>0
<1> HIDE DEF e
<1>2. \A i \in DOMAIN e : i \in DOMAIN d \/ i = Len(d) + 1
  BY <1>0, <1>1
<1>3. part = "earlier" => FALSE BY DEF May
<1>4. \A i \in DOMAIN e : e[i] = "earlier" => i = 1
  BY <1>0, <1>1, <1>2, <1>3 DEF InOrder
<1>5. \A i, j \in DOMAIN e : e[i] = "latest" /\ j < i => e[j] = "earlier"
  <2> SUFFICES ASSUME NEW i \in DOMAIN e, NEW j \in DOMAIN e, e[i] = "latest", j < i
               PROVE  e[j] = "earlier"
    OBVIOUS
  <2>1. j \in DOMAIN d /\ e[j] = d[j] BY <1>0, <1>1
  <2>2. CASE i \in DOMAIN d BY <1>0, <1>1, <2>1, <2>2 DEF InOrder
  <2>3. CASE i = Len(d) + 1
    <3>1. d = Earlier BY <1>1, <2>3 DEF May
    <3>2. \A k \in DOMAIN Earlier : Earlier[k] = "earlier" BY DEF Earlier
    <3> QED BY <2>1, <3>1, <3>2
  <2> QED BY <1>2, <2>2, <2>3
<1>6. \A i \in DOMAIN e : e[i] = "result" => i > 1 /\ e[i - 1] = "call"
  <2> SUFFICES ASSUME NEW i \in DOMAIN e, e[i] = "result" PROVE i > 1 /\ e[i - 1] = "call"
    OBVIOUS
  <2>2. CASE i \in DOMAIN d
    <3>1. i > 1 /\ d[i - 1] = "call" /\ i - 1 \in DOMAIN d BY <1>0, <1>1, <2>2 DEF InOrder
    <3> QED BY <1>0, <1>1, <3>1
  <2>3. CASE i = Len(d) + 1
    <3>1. EndsWith(d, "call") BY <1>1, <2>3 DEF May
    <3> QED BY <1>0, <1>1, <2>3, <3>1 DEF EndsWith
  <2> QED BY <1>2, <2>2, <2>3
<1>7. EndsWith(e, part) BY <1>0, <1>1 DEF EndsWith
<1> QED BY <1>1, <1>4, <1>5, <1>6, <1>7 DEF InOrder, e

------------------------------------------------------------------------------
(* The conversation of a turn.                                                *)

Steps == {"load", "seed", "input", Turn, "settle", "deliver"}

TalkTyped ==
    /\ channels \in [dialog : Seq(Parts), said : {channels.said},
                     proposals : {channels.proposals}, rows : {channels.rows},
                     result : {channels.result}]
    /\ attempt \in [number : Nat, phase : {attempt.phase}, step : Steps, tries : {attempt.tries},
                    resumed : BOOLEAN]
    /\ attempt.step = Turn => Turn \in DOMAIN tasks /\ tasks[Turn].stage = "running"

DialogInv ==
    /\ InOrder(channels.dialog)
    /\ saved # None => InOrder(saved)
    /\ attempt.step = "input" /\ ~attempt.resumed => channels.dialog = Earlier
    /\ attempt.step = Turn /\ Loop.phase \in Tools => EndsWith(channels.dialog, "call")

RowsInv ==
    /\ \A row \in channels.rows :
          /\ row \in [id : {row.id}, attempt : Nat, heard : BOOLEAN]
          /\ row.attempt <= attempt.number
          /\ row.id \in channels.proposals \/ ~row.heard \/ row.attempt < attempt.number
    /\ channels.proposals \subseteq {row.id : row \in channels.rows}
    /\ channels.result # None =>
          attempt.step = "deliver" /\ channels.result.cites = channels.proposals

TalkInv == LoopsTyped /\ TalkTyped /\ DialogInv /\ RowsInv

(* A step that changes the attempt and what is saved, and neither the          *)
(* conversation nor the loop.                                                 *)
LEMMA BesideTalk ==
    ASSUME TalkInv, UNCHANGED <<run, account, tasks, observed, channels>>,
           TalkTyped', attempt'.number = attempt.number,
           saved' # None => InOrder(saved'),
           attempt'.step = "input" => attempt.step = "input" /\ attempt'.resumed = attempt.resumed,
           attempt'.step = Turn => attempt.step = Turn,
           attempt.step = "deliver" => attempt'.step = "deliver"
    PROVE  TalkInv'
<1>1. LoopsTyped' BY DEF TalkInv, LoopsTyped, BooksTyped
<1>2. Earlier' = Earlier BY DEF Earlier
<1>3. DialogInv' BY <1>2 DEF TalkInv, DialogInv, Loop
<1>4. RowsInv' BY DEF TalkInv, RowsInv
<1> QED BY <1>1, <1>3, <1>4 DEF TalkInv

\* The end of an attempt leaves the conversation as it is.
LEMMA EndRunTalk ==
    ASSUME TalkInv, NEW phase, EndRun(phase)
    PROVE  TalkInv'
<1>1. attempt' = [attempt EXCEPT !.phase = phase] /\ UNCHANGED <<run, account, tasks, observed,
        channels, saved>>
  BY DEF EndRun, loopVars
<1>2. /\ TalkTyped' /\ attempt'.number = attempt.number /\ attempt'.step = attempt.step
      /\ attempt'.resumed = attempt.resumed
  BY <1>1 DEF TalkInv, TalkTyped
<1>3. saved' # None => InOrder(saved') BY <1>1 DEF TalkInv, DialogInv
<1> QED BY <1>1, <1>2, <1>3, BesideTalk

\* Nothing is said while the context is loaded.
LEMMA LoadTalk ==
    ASSUME TalkInv, LoadContext \/ ContextUnreached \/ ContextRefused
    PROVE  TalkInv'
<1>1. CASE ContextRefused BY <1>1, EndRunTalk DEF ContextRefused
<1>2. CASE LoadContext \/ ContextUnreached
  <2>1. /\ UNCHANGED <<run, account, tasks, observed, channels, saved>> /\ attempt.step = "load"
        /\ \/ attempt' = [attempt EXCEPT !.step = "seed"]
           \/ attempt' = [attempt EXCEPT !.tries = @ + 1]
    BY <1>2 DEF LoadContext, ContextUnreached, loopVars, At
  <2>2. TalkTyped' /\ attempt'.number = attempt.number /\ attempt'.step \in {"load", "seed"}
    BY <2>1 DEF TalkInv, TalkTyped, Steps, Turn
  <2>3. saved' # None => InOrder(saved') BY <2>1 DEF TalkInv, DialogInv
  <2> QED BY <2>1, <2>2, <2>3, BesideTalk DEF Turn
<1> QED BY <1>1, <1>2

\* What was saved is taken for the conversation, or the history is (seed_checkpoint).
LEMMA SeedTalk ==
    ASSUME TalkInv, SeedCheckpoint
    PROVE  TalkInv'
<1> DEFINE d == IF saved # None THEN saved ELSE Earlier
<1>1. /\ channels' = [channels EXCEPT !.dialog = d]
      /\ saved' = IF saved = None /\ run.earlier THEN Earlier ELSE saved
      /\ attempt' = [attempt EXCEPT !.step = "input", !.resumed = saved # None]
      /\ UNCHANGED <<run, account, tasks, observed>> /\ attempt.step = "seed"
  BY DEF SeedCheckpoint, loopVars, At
<1>2. InOrder(d) /\ (saved' # None => InOrder(saved'))
  BY <1>1, EarlierInOrder DEF TalkInv, DialogInv
<1>3. d \in Seq(Parts) BY <1>2 DEF InOrder
<1>4. saved = None => d = Earlier OBVIOUS
<1> HIDE DEF d
<1>5. /\ channels'.dialog = d /\ channels'.rows = channels.rows
      /\ channels'.proposals = channels.proposals /\ channels'.result = channels.result
      /\ channels' \in [dialog : Seq(Parts), said : {channels'.said},
                        proposals : {channels'.proposals}, rows : {channels'.rows},
                        result : {channels'.result}]
  BY <1>1, <1>3 DEF TalkInv, TalkTyped
<1>6. /\ attempt'.number = attempt.number /\ attempt'.step = "input"
      /\ attempt'.resumed = (saved # None)
      /\ attempt' \in [number : Nat, phase : {attempt'.phase}, step : Steps,
                       tries : {attempt'.tries}, resumed : BOOLEAN]
  BY <1>1 DEF TalkInv, TalkTyped, Steps
<1>7. LoopsTyped' BY <1>1 DEF TalkInv, LoopsTyped, BooksTyped
<1>8. TalkTyped' BY <1>5, <1>6 DEF TalkTyped, Turn
<1>9. DialogInv'
  <2>1. Earlier' = Earlier BY <1>1 DEF Earlier
  <2> QED BY <1>2, <1>4, <1>5, <1>6, <2>1 DEF DialogInv, Turn
<1>10. RowsInv' BY <1>1, <1>5, <1>6 DEF TalkInv, RowsInv
<1> QED BY <1>7, <1>8, <1>9, <1>10 DEF TalkInv

------------------------------------------------------------------------------
(* The step of the conversation with the model: the attempt goes on.          *)
LEMMA TalkGoesOn ==
    ASSUME TalkInv, UNCHANGED <<run, attempt, saved>>, attempt.step = Turn,
           LoopsTyped', Turn \in DOMAIN tasks', tasks'[Turn].stage = "running",
           channels' \in [dialog : Seq(Parts), said : {channels'.said},
                          proposals : {channels'.proposals}, rows : {channels'.rows},
                          result : {channels'.result}],
           InOrder(channels'.dialog), RowsInv',
           tasks'[Turn].loop.phase \in Tools => EndsWith(channels'.dialog, "call")
    PROVE  TalkInv'
<1>1. TalkTyped' BY DEF TalkInv, TalkTyped
<1>2. DialogInv'
  <2>1. attempt.step # "input" BY DEF Turn
  <2> QED BY <2>1 DEF TalkInv, DialogInv, Loop
<1> QED BY <1>1, <1>2 DEF TalkInv

\* The loop moves; what is said, if anything, is the next part of the conversation.
LEMMA LoopTalk ==
    ASSUME TalkInv, UNCHANGED <<run, attempt, saved>>, attempt.step = Turn, LoopMoves(Turn),
           \/ channels' = channels /\ tasks'[Turn].loop.phase \notin Tools
           \/ \E step \in {"answer", "call"} : \E m :
                 /\ channels' = [channels EXCEPT !.dialog = Append(@, step), !.said = Append(@, m)]
                 /\ tasks'[Turn].loop.phase \in Tools => step = "call"
    PROVE  TalkInv'
<1>0. /\ Turn \in DOMAIN tasks /\ tasks[Turn].stage = "running" /\ LoopsTyped
      /\ TaskTyped(tasks[Turn])
  BY DEF TalkInv, TalkTyped, LoopsTyped, TasksTyped
<1>1. /\ LoopsTyped' /\ DOMAIN tasks' = DOMAIN tasks
      /\ tasks'[Turn] = [tasks[Turn] EXCEPT !.loop = tasks'[Turn].loop]
  BY <1>0, LoopChanges
<1>2. tasks'[Turn].stage = "running" BY <1>0, <1>1 DEF TaskTyped
<1>3. CASE channels' = channels /\ tasks'[Turn].loop.phase \notin Tools
  <2>1. RowsInv' BY <1>3 DEF TalkInv, RowsInv
  <2>2. InOrder(channels'.dialog) BY <1>3 DEF TalkInv, DialogInv
  <2>3. channels' \in [dialog : Seq(Parts), said : {channels'.said},
                       proposals : {channels'.proposals}, rows : {channels'.rows},
                       result : {channels'.result}]
    BY <1>3 DEF TalkInv, TalkTyped
  <2> QED BY <1>0, <1>1, <1>2, <1>3, <2>1, <2>2, <2>3, TalkGoesOn
<1>4. ASSUME NEW step \in {"answer", "call"}, NEW m,
             channels' = [channels EXCEPT !.dialog = Append(@, step), !.said = Append(@, m)],
             tasks'[Turn].loop.phase \in Tools => step = "call"
      PROVE  TalkInv'
  <2> DEFINE d == Append(channels.dialog, step)
             s == Append(channels.said, m)
  <2>1. InOrder(d) /\ EndsWith(d, step)
    <3>1. InOrder(channels.dialog) /\ May(channels.dialog, step)
      BY <1>4 DEF TalkInv, DialogInv, May
    <3> QED BY <3>1, SaysInOrder
  <2>2. channels' = [channels EXCEPT !.dialog = d, !.said = s] BY <1>4
  <2>3. d \in Seq(Parts) BY <2>1 DEF InOrder
  <2> HIDE DEF d, s
  <2>4. /\ channels'.dialog = d /\ channels'.rows = channels.rows
        /\ channels'.proposals = channels.proposals /\ channels'.result = channels.result
        /\ channels' \in [dialog : Seq(Parts), said : {channels'.said},
                          proposals : {channels'.proposals}, rows : {channels'.rows},
                          result : {channels'.result}]
    BY <2>2, <2>3 DEF TalkInv, TalkTyped
  <2>5. RowsInv' BY <2>4 DEF TalkInv, RowsInv
  <2> QED BY <1>0, <1>1, <1>2, <1>4, <2>1, <2>4, <2>5, TalkGoesOn
<1> QED BY <1>3, <1>4

\* The line to answer is put in once, after the history alone (converse).
LEMMA OpenTalk ==
    ASSUME TalkInv, OpenTurn
    PROVE  TalkInv'
<1> DEFINE lease == Lease(run.limits.turns, run.limits.usd)
           l == NewLoop(lease.usd)
           t == [node |-> Turn, lease |-> lease, tools |-> TRUE, tries |-> 1,
                 stage |-> "running", loop |-> l, update |-> None]
           d == IF attempt.resumed THEN channels.dialog ELSE Append(channels.dialog, "latest")
<1>1. /\ channels' = [channels EXCEPT !.dialog = d]
      /\ tasks' = [k \in {Turn} |-> t]
      /\ attempt' = [attempt EXCEPT !.step = Turn]
      /\ observed' = [observed EXCEPT !.loops = @ + 1]
      /\ UNCHANGED <<run, account, saved>> /\ attempt.step = "input"
  BY DEF OpenTurn, At
<1>2. LoopTyped(l) /\ l.phase = "ready"
  BY DEF NewLoop, LoopTyped
<1>3. TaskTyped(t) /\ t.stage = "running" /\ t.loop = l
  <2> HIDE DEF l, lease
  <2> QED BY <1>2 DEF TaskTyped
<1> HIDE DEF t, l
<1>4. LoopsTyped'
  <2>1. /\ DOMAIN tasks' = {Turn} /\ tasks'[Turn] = t
        /\ tasks' = [k \in DOMAIN tasks' |-> tasks'[k]]
    BY <1>1
  <2>2. IsFiniteSet({Turn}) BY FS_Singleton
  <2>3. TasksTyped(tasks') BY <1>3, <2>1, <2>2 DEF TasksTyped
  <2>4. BooksTyped' BY <1>1 DEF TalkInv, LoopsTyped, BooksTyped
  <2> QED BY <2>3, <2>4 DEF LoopsTyped
<1>5. InOrder(d)
  <2>1. InOrder(channels.dialog) BY DEF TalkInv, DialogInv
  <2>2. ~attempt.resumed => May(channels.dialog, "latest")
    BY <1>1 DEF TalkInv, DialogInv, May
  <2> QED BY <2>1, <2>2, SaysInOrder
<1>6. d \in Seq(Parts) BY <1>5 DEF InOrder
<1> HIDE DEF d
<1>7. /\ channels'.dialog = d /\ channels'.rows = channels.rows
      /\ channels'.proposals = channels.proposals /\ channels'.result = channels.result
      /\ channels' \in [dialog : Seq(Parts), said : {channels'.said},
                        proposals : {channels'.proposals}, rows : {channels'.rows},
                        result : {channels'.result}]
  BY <1>1, <1>6 DEF TalkInv, TalkTyped
<1>8. /\ attempt'.number = attempt.number /\ attempt'.step = Turn
      /\ attempt' \in [number : Nat, phase : {attempt'.phase}, step : Steps,
                       tries : {attempt'.tries}, resumed : BOOLEAN]
  BY <1>1 DEF TalkInv, TalkTyped, Steps
<1>9. Turn \in DOMAIN tasks' /\ tasks'[Turn] = t BY <1>1
<1>10. TalkTyped' BY <1>3, <1>7, <1>8, <1>9 DEF TalkTyped
<1>11. DialogInv'
  <2>1. tasks'[Turn].loop.phase \notin Tools BY <1>2, <1>3, <1>9 DEF Tools
  <2>2. saved' # None => InOrder(saved') BY <1>1 DEF TalkInv, DialogInv
  <2>3. attempt'.step # "input" BY <1>8 DEF Turn
  <2> QED BY <1>5, <1>7, <2>1, <2>2, <2>3 DEF DialogInv, Loop
<1>12. RowsInv' BY <1>1, <1>7, <1>8 DEF TalkInv, RowsInv, Turn
<1> QED BY <1>4, <1>10, <1>11, <1>12 DEF TalkInv

\* Asking the model moves its loop, and says nothing.
LEMMA AskTalk ==
    ASSUME TalkInv, AskChat
    PROVE  TalkInv' /\ LoopMoves(Turn)
<1>1. Turn \in DOMAIN tasks /\ attempt.step = Turn /\ LoopsTyped
  BY DEF TalkInv, TalkTyped, AskChat, At
<1>2. Free(Turn) BY <1>1, AskMoves DEF AskChat
<1>3. tasks'[Turn].loop.phase \notin Tools
  BY <1>1, <1>2 DEF Free, Becomes, LoopsTyped, TasksTyped, TaskTyped
<1> QED BY <1>1, <1>2, <1>3, LoopTalk DEF AskChat, Ask, ReachTurnLimit, LoopMoves

\* What the model answers moves its loop, and is said at most once.
LEMMA AnswerTalk ==
    ASSUME TalkInv, At(Turn), ChatAnswer
    PROVE  TalkInv' /\ LoopMoves(Turn)
<1>1. /\ Turn \in DOMAIN tasks /\ attempt.step = Turn /\ LoopsTyped /\ Asking(Turn)
      /\ UNCHANGED <<attempt, saved>> /\ TaskTyped(tasks[Turn]) /\ LoopTyped(Loop)
  BY DEF TalkInv, TalkTyped, ChatAnswer, At, LoopsTyped, TasksTyped, TaskTyped, Loop, Asking,
         Looping
<1>2. CASE (Unpriced(Turn, FALSE) \/ Unavailable(Turn) \/ Lose(Turn)) /\ UNCHANGED channels
  <2>1. Free(Turn) BY <1>1, <1>2, FreeMoves
  <2>2. tasks'[Turn].loop.phase \notin Tools
    BY <1>1, <2>1 DEF Free, Becomes, LoopsTyped, TasksTyped, TaskTyped
  <2>3. UNCHANGED run BY <1>2 DEF Unpriced, Unavailable, Lose
  <2> QED BY <1>1, <1>2, <2>1, <2>2, <2>3, LoopTalk DEF LoopMoves
<1>3. ASSUME NEW c \in run.costs, Truncate(Turn, c), UNCHANGED channels
      PROVE  TalkInv' /\ LoopMoves(Turn)
  <2>1. Settle(Turn, c, TRUE, tasks[Turn].loop) BY <1>3 DEF Truncate
  <2>2. Pays(Turn, c) /\ tasks'[Turn].loop.phase \in {"budget", "truncated"}
    BY <1>1, <2>1, SettlePays
  <2>3. UNCHANGED run BY <1>3 DEF Truncate
  <2> QED BY <1>1, <1>3, <2>2, <2>3, LoopTalk DEF LoopMoves, Tools
<1>4. ASSUME NEW c \in run.costs, NEW p \in Tools \cup {"output"}, NEW step \in {"answer", "call"},
             NEW m, Says(step, m), UNCHANGED run, p \in Tools => step = "call",
             Settle(Turn, c, FALSE, [Charged(Loop, c) EXCEPT !.phase = p, !.turns = @ + 1])
      PROVE  TalkInv' /\ LoopMoves(Turn)
  <2> DEFINE g == Charged(Loop, c)
             n == [g EXCEPT !.phase = p, !.turns = @ + 1]
  <2>1. c \in Nat BY <1>1 DEF LoopsTyped, BooksTyped
  <2>2. LoopTyped(g) /\ g.spent = Loop.spent + c BY <1>1, <2>1, ChargedLoop
  <2>0. Settle(Turn, c, FALSE, n) BY <1>4
  <2> HIDE DEF g
  <2>3. g.turns + 1 \in Nat BY <2>2 DEF LoopTyped
  <2>4. ASSUME NEW t \in Nat, NEW o, o = [g EXCEPT !.phase = p, !.turns = t]
        PROVE  LoopTyped(o) /\ o.spent = g.spent /\ o.phase = p
    BY <1>4, <2>2, <2>4 DEF LoopTyped, LoopEnds
  <2>5. LoopTyped(n) /\ n.spent = g.spent /\ n.phase = p BY <2>3, <2>4
  <2> HIDE DEF n
  <2>6. Pays(Turn, c) /\ tasks'[Turn].loop.phase \in {"budget", p}
    <3>1. n.spent = tasks[Turn].loop.spent + c BY <2>2, <2>5 DEF Loop
    <3> QED BY <1>1, <2>0, <2>5, <3>1, SettlePays
  <2>7. \/ channels' = channels /\ tasks'[Turn].loop.phase \notin Tools
        \/ /\ channels' = [channels EXCEPT !.dialog = Append(@, step), !.said = Append(@, m)]
           /\ tasks'[Turn].loop.phase \in Tools => step = "call"
    BY <1>4, <2>6 DEF Says, Tools
  <2> QED BY <1>1, <1>4, <2>6, <2>7, LoopTalk DEF LoopMoves
<1>5. ASSUME NEW c \in run.costs, NEW text, ChatText(c, text)
      PROVE  TalkInv' /\ LoopMoves(Turn)
  BY <1>4, <1>5 DEF ChatText, Tools
<1>6. ASSUME NEW c \in run.costs, NEW text, NEW tool \in Tools, ChatCall(c, tool, text)
      PROVE  TalkInv' /\ LoopMoves(Turn)
  BY <1>4, <1>6 DEF ChatCall
<1> QED BY <1>2, <1>3, <1>5, <1>6 DEF ChatAnswer

------------------------------------------------------------------------------
\* The task of the conversation with its loop in another phase, or its tries counted.
LEMMA TurnTaskKept ==
    ASSUME LoopsTyped, Turn \in DOMAIN tasks, tasks[Turn].stage = "running",
           NEW p \in LoopEnds \cup {"ready", "asking"} \cup Tools, NEW n,
           UNCHANGED <<run, account, observed>>,
           \/ tasks' = [tasks EXCEPT ![Turn].loop.phase = p, ![Turn].tries = n]
           \/ tasks' = [tasks EXCEPT ![Turn].loop.phase = p]
           \/ tasks' = [tasks EXCEPT ![Turn].tries = n] /\ p = Loop.phase
    PROVE  /\ LoopsTyped' /\ Turn \in DOMAIN tasks'
           /\ tasks'[Turn].stage = "running" /\ tasks'[Turn].loop.phase = p
<1> DEFINE l == [Loop EXCEPT !.phase = p]
<1>1. /\ TaskTyped(tasks[Turn]) /\ LoopTyped(Loop) /\ IsFiniteSet(DOMAIN tasks)
      /\ \A k \in DOMAIN tasks : TaskTyped(tasks[k])
      /\ tasks = [k \in DOMAIN tasks |-> tasks[k]]
  BY DEF LoopsTyped, TasksTyped, TaskTyped, Loop
<1>2. LoopTyped(l) /\ l.phase = p BY <1>1, LoopEdits
<1>3. p = Loop.phase => l = Loop BY <1>1 DEF LoopTyped
<1>4. \/ tasks' = [tasks EXCEPT ![Turn] = [@ EXCEPT !.loop = l, !.tries = n]]
      \/ tasks' = [tasks EXCEPT ![Turn] = [@ EXCEPT !.loop = l]]
      \/ tasks' = [tasks EXCEPT ![Turn] = [@ EXCEPT !.tries = n]] /\ l = Loop
  BY <1>1, <1>3 DEF Loop
<1> HIDE DEF l
<1>5. ASSUME NEW t, \/ t = [tasks[Turn] EXCEPT !.loop = l, !.tries = n]
                    \/ t = [tasks[Turn] EXCEPT !.loop = l]
                    \/ t = [tasks[Turn] EXCEPT !.tries = n] /\ l = Loop
      PROVE  TaskTyped(t) /\ t.stage = "running" /\ t.loop = l
  BY <1>1, <1>2, <1>5 DEF TaskTyped, Loop
<1>6. PICK t : /\ tasks' = [tasks EXCEPT ![Turn] = t]
               /\ TaskTyped(t) /\ t.stage = "running" /\ t.loop = l
  BY <1>4, <1>5
<1>7. TasksTyped(tasks') BY <1>1, <1>6 DEF TasksTyped
<1>8. BooksTyped' BY DEF LoopsTyped, BooksTyped
<1> QED BY <1>1, <1>2, <1>6, <1>7, <1>8 DEF LoopsTyped

\* A row is proposed, and its id kept or not heard of.
LEMMA RowTalk ==
    ASSUME TalkInv, UNCHANGED attempt, attempt.step = Turn, NEW heard \in BOOLEAN,
           channels'.rows = channels.rows \cup {NewProposal(heard)},
           channels'.proposals = channels.proposals
                                   \cup (IF heard THEN {NewProposal(heard).id} ELSE {}),
           channels'.result = channels.result
    PROVE  RowsInv'
<1> DEFINE row == NewProposal(heard)
<1>1. /\ row \in [id : {row.id}, attempt : Nat, heard : BOOLEAN]
      /\ row.attempt = attempt.number /\ row.heard = heard
  BY DEF NewProposal, TalkInv, TalkTyped
<1> HIDE DEF row
<1>2. channels'.rows = channels.rows \cup {row} BY DEF row
<1>3. channels'.proposals = channels.proposals \cup (IF heard THEN {row.id} ELSE {}) BY DEF row
<1>4. attempt.number \in Nat BY DEF TalkInv, TalkTyped
<1>5. channels.result = None BY DEF TalkInv, RowsInv, Turn
<1>6. \A r \in channels'.rows :
          /\ r \in [id : {r.id}, attempt : Nat, heard : BOOLEAN]
          /\ r.attempt <= attempt.number
          /\ r.id \in channels'.proposals \/ ~r.heard \/ r.attempt < attempt.number
  BY <1>1, <1>2, <1>3, <1>4 DEF TalkInv, RowsInv
<1>7. channels'.proposals \subseteq {r.id : r \in channels'.rows}
  BY <1>2, <1>3 DEF TalkInv, RowsInv
<1> QED BY <1>5, <1>6, <1>7 DEF RowsInv

\* A tool's result follows its call; a proposal is cited by its id.
LEMMA ToolTalk ==
    ASSUME TalkInv, ReadReturns \/ RecallReturns \/ WriteRefused \/ Propose
    PROVE  TalkInv'
<1> DEFINE d == Append(channels.dialog, "result")
<1>1. /\ Turn \in DOMAIN tasks /\ tasks[Turn].stage = "running" /\ LoopsTyped
      /\ attempt.step = Turn /\ ToolAnswered /\ Loop.phase \in Tools
      /\ EndsWith(channels.dialog, "call")
  BY DEF TalkInv, TalkTyped, DialogInv, ReadReturns, RecallReturns, WriteRefused, ResultReturns,
         Propose, Tooling, At
<1>2. /\ LoopsTyped' /\ Turn \in DOMAIN tasks'
      /\ tasks'[Turn].stage = "running" /\ tasks'[Turn].loop.phase = "ready"
  BY <1>1, TurnTaskKept DEF ToolAnswered
<1>3. InOrder(d)
  <2>1. InOrder(channels.dialog) /\ May(channels.dialog, "result")
    BY <1>1 DEF TalkInv, DialogInv, May
  <2> QED BY <2>1, SaysInOrder
<1>4. d \in Seq(Parts) BY <1>3 DEF InOrder
<1>5. \/ channels' = [channels EXCEPT !.dialog = d]
      \/ \E row \in {NewProposal(TRUE)} :
            channels' = [channels EXCEPT !.dialog = d, !.rows = @ \cup {row},
                                         !.proposals = @ \cup {row.id}]
  BY DEF ReadReturns, RecallReturns, WriteRefused, ResultReturns, Propose
<1> HIDE DEF d
<1>6. /\ channels'.dialog = d
      /\ channels' \in [dialog : Seq(Parts), said : {channels'.said},
                        proposals : {channels'.proposals}, rows : {channels'.rows},
                        result : {channels'.result}]
      /\ channels'.result = channels.result
  BY <1>4, <1>5 DEF TalkInv, TalkTyped
<1>7. RowsInv'
  <2>1. CASE channels' = [channels EXCEPT !.dialog = d]
    <3>1. channels'.rows = channels.rows /\ channels'.proposals = channels.proposals
      BY <2>1 DEF TalkInv, TalkTyped
    <3> QED BY <1>1, <1>6, <3>1 DEF TalkInv, RowsInv, ToolAnswered
  <2>2. CASE channels' = [channels EXCEPT !.dialog = d, !.rows = @ \cup {NewProposal(TRUE)},
                                          !.proposals = @ \cup {NewProposal(TRUE).id}]
    <3>1. /\ channels'.rows = channels.rows \cup {NewProposal(TRUE)}
          /\ channels'.proposals = channels.proposals \cup {NewProposal(TRUE).id}
      BY <2>2 DEF TalkInv, TalkTyped
    <3> QED BY <1>1, <1>6, <3>1, RowTalk DEF ToolAnswered
  <2> QED BY <1>5, <2>1, <2>2
<1> QED BY <1>1, <1>2, <1>3, <1>6, <1>7, TalkGoesOn DEF ToolAnswered, Tools

\* A tool that is not reached says nothing; a row it left was never heard of.
LEMMA UnreachedTalk ==
    ASSUME TalkInv, ToolUnreached
    PROVE  TalkInv'
<1>1. /\ Turn \in DOMAIN tasks /\ tasks[Turn].stage = "running" /\ LoopsTyped
      /\ attempt.step = Turn /\ Loop.phase \in Tools
      /\ EndsWith(channels.dialog, "call") /\ InOrder(channels.dialog)
      /\ UNCHANGED <<run, account, observed, attempt, saved>>
  BY DEF TalkInv, TalkTyped, DialogInv, ToolUnreached, Tooling, At
<1>2. /\ LoopsTyped' /\ Turn \in DOMAIN tasks' /\ tasks'[Turn].stage = "running"
  <2>1. \/ tasks' = [tasks EXCEPT ![Turn].tries = @ + 1]
        \/ tasks' = [tasks EXCEPT ![Turn].loop.phase = "lost"]
    BY DEF ToolUnreached
  <2> QED BY <1>1, <2>1, TurnTaskKept DEF LoopEnds
<1>3. \/ channels' = channels
      \/ channels' = [channels EXCEPT !.rows = @ \cup {NewProposal(FALSE)}]
  BY DEF ToolUnreached
<1>4. /\ channels'.dialog = channels.dialog
      /\ channels' \in [dialog : Seq(Parts), said : {channels'.said},
                        proposals : {channels'.proposals}, rows : {channels'.rows},
                        result : {channels'.result}]
      /\ channels'.result = channels.result
  BY <1>3 DEF TalkInv, TalkTyped
<1>5. RowsInv'
  <2>1. CASE channels' = channels BY <1>1, <2>1 DEF TalkInv, RowsInv
  <2>2. CASE channels' = [channels EXCEPT !.rows = @ \cup {NewProposal(FALSE)}]
    <3>1. /\ channels'.rows = channels.rows \cup {NewProposal(FALSE)}
          /\ channels'.proposals = channels.proposals
      BY <2>2 DEF TalkInv, TalkTyped
    <3> QED BY <1>1, <1>4, <3>1, RowTalk
  <2> QED BY <1>3, <2>1, <2>2
<1> QED BY <1>1, <1>2, <1>4, <1>5, TalkGoesOn

\* The end of a conversation saves it as it is.
LEMMA EndTalk ==
    ASSUME TalkInv, EndTurn \/ FailTurn \/ TurnTooLong \/ DeliverTurn \/ Crash \/ SaveTurn
    PROVE  TalkInv'
<1>1. CASE TurnTooLong \/ DeliverTurn \/ Crash
  BY <1>1, EndRunTalk DEF TurnTooLong, DeliverTurn, Crash
<1>2. CASE EndTurn \/ FailTurn \/ SaveTurn
  <2>1. /\ UNCHANGED <<run, account, tasks, observed, channels>> /\ saved' = channels.dialog
        /\ attempt.step # "deliver"
        /\ \/ attempt.step = Turn /\ attempt' = [attempt EXCEPT !.step = "settle"]
           \/ \E p : attempt' = [attempt EXCEPT !.phase = p]
           \/ attempt' = attempt
    BY <1>2 DEF EndTurn, FailTurn, SaveTurn, loopVars, At, Turn
  <2>2. /\ TalkTyped' /\ attempt'.number = attempt.number
        /\ attempt'.step \in {attempt.step, "settle"} /\ attempt'.resumed = attempt.resumed
    BY <2>1 DEF TalkInv, TalkTyped, Steps, Turn
  <2>3. InOrder(saved') BY <2>1 DEF TalkInv, DialogInv
  <2> QED BY <2>1, <2>2, <2>3, BesideTalk DEF Turn
<1> QED BY <1>1, <1>2

\* The answer cites what was proposed (SettleStep).
LEMMA SettleTalk ==
    ASSUME TalkInv, SettleTurn
    PROVE  TalkInv'
<1> DEFINE r == [text |-> FinalText(channels.said), cites |-> channels.proposals]
<1>1. /\ channels' = [channels EXCEPT !.result = r]
      /\ saved' \in {None, saved}
      /\ attempt' = [attempt EXCEPT !.step = "deliver"]
      /\ UNCHANGED <<run, account, tasks, observed>>
  BY DEF SettleTurn, loopVars
<1>2. r.cites = channels.proposals OBVIOUS
<1> HIDE DEF r
<1>3. /\ channels'.dialog = channels.dialog /\ channels'.rows = channels.rows
      /\ channels'.proposals = channels.proposals /\ channels'.result = r
      /\ channels' \in [dialog : Seq(Parts), said : {channels'.said},
                        proposals : {channels'.proposals}, rows : {channels'.rows},
                        result : {channels'.result}]
  BY <1>1 DEF TalkInv, TalkTyped
<1>4. /\ attempt'.number = attempt.number /\ attempt'.step = "deliver"
      /\ attempt' \in [number : Nat, phase : {attempt'.phase}, step : Steps,
                       tries : {attempt'.tries}, resumed : BOOLEAN]
  BY <1>1 DEF TalkInv, TalkTyped, Steps
<1>5. LoopsTyped' BY <1>1 DEF TalkInv, LoopsTyped, BooksTyped
<1>6. TalkTyped' BY <1>3, <1>4 DEF TalkTyped, Turn
<1>7. DialogInv' BY <1>1, <1>3, <1>4 DEF TalkInv, DialogInv, Turn
<1>8. RowsInv' BY <1>2, <1>3, <1>4 DEF TalkInv, RowsInv
<1> QED BY <1>5, <1>6, <1>7, <1>8 DEF TalkInv

\* An attempt that is resumed knows the rows of those before it as theirs.
LEMMA ResumeTalk ==
    ASSUME TalkInv, ResumeTurn
    PROVE  TalkInv'
<1>1. /\ attempt' = ChatAttempt(attempt.number + 1) /\ channels' = ChatChannels(channels.rows)
      /\ account' = [account EXCEPT !.spent = 0, !.peak = 0] /\ tasks' = <<>>
      /\ UNCHANGED <<run, saved, observed>>
  BY DEF ResumeTurn
<1>2. attempt.number \in Nat BY DEF TalkInv, TalkTyped
<1>3. /\ attempt'.number = attempt.number + 1 /\ attempt'.step = "load"
      /\ attempt' \in [number : Nat, phase : {attempt'.phase}, step : Steps,
                       tries : {attempt'.tries}, resumed : BOOLEAN]
  BY <1>1, <1>2 DEF ChatAttempt, Steps
<1>4. /\ channels'.dialog = <<>> /\ channels'.rows = channels.rows
      /\ channels'.proposals = {} /\ channels'.result = None
      /\ channels' \in [dialog : Seq(Parts), said : {channels'.said},
                        proposals : {channels'.proposals}, rows : {channels'.rows},
                        result : {channels'.result}]
  BY <1>1 DEF ChatChannels
<1>5. TasksTyped(tasks')
  <2>1. DOMAIN tasks' = {} /\ tasks' = [k \in DOMAIN tasks' |-> tasks'[k]]
    BY <1>1
  <2>2. IsFiniteSet({}) BY FS_EmptySet
  <2> QED BY <2>1, <2>2 DEF TasksTyped
<1>6. LoopsTyped' BY <1>1, <1>5 DEF TalkInv, LoopsTyped, BooksTyped
<1>7. TalkTyped' BY <1>3, <1>4 DEF TalkTyped, Turn
<1>8. DialogInv' BY <1>1, <1>3, <1>4, EarlierInOrder DEF TalkInv, DialogInv, Turn
<1>9. RowsInv' BY <1>2, <1>3, <1>4 DEF TalkInv, RowsInv
<1> QED BY <1>6, <1>7, <1>8, <1>9 DEF TalkInv

\* Every step of a turn keeps its conversation in order and its rows cited.
LEMMA TurnTalk ==
    ASSUME TalkInv, TurnWork \/ Crash \/ SaveTurn \/ Ending \/ UNCHANGED vars
    PROVE  TalkInv'
<1>1. CASE Ending \/ UNCHANGED vars
  <2>1. UNCHANGED <<run, account, tasks, observed, channels, attempt, saved>>
    BY <1>1 DEF Ending, vars, loopVars
  <2>2. TalkTyped' /\ (saved' # None => InOrder(saved')) BY <2>1 DEF TalkInv, TalkTyped, DialogInv
  <2> QED BY <2>1, <2>2, BesideTalk
<1> QED BY <1>1, LoadTalk, SeedTalk, OpenTalk, AskTalk, AnswerTalk, ToolTalk, UnreachedTalk,
           EndTalk, SettleTalk, ResumeTalk DEF TurnWork

\* A turn begins with nothing said and nothing proposed.
LEMMA ChatInitTalk == ChatInit => TalkInv
<1> SUFFICES ASSUME ChatInit PROVE TalkInv OBVIOUS
<1>1. run \in ChatScenarios /\ Priced(run) BY ChatScenariosAssumption DEF ChatInit
<1>2. /\ attempt.number = 1 /\ attempt.step = "load"
      /\ attempt \in [number : Nat, phase : {attempt.phase}, step : Steps,
                      tries : {attempt.tries}, resumed : BOOLEAN]
  BY DEF ChatInit, ChatAttempt, Steps
<1>3. /\ channels.dialog = <<>> /\ channels.rows = {}
      /\ channels.proposals = {} /\ channels.result = None
      /\ channels \in [dialog : Seq(Parts), said : {channels.said},
                       proposals : {channels.proposals}, rows : {channels.rows},
                       result : {channels.result}]
  BY DEF ChatInit, ChatChannels
<1>4. TasksTyped(tasks)
  <2>1. DOMAIN tasks = {} /\ tasks = [k \in DOMAIN tasks |-> tasks[k]] BY DEF ChatInit
  <2>2. IsFiniteSet({}) BY FS_EmptySet
  <2> QED BY <2>1, <2>2 DEF TasksTyped
<1>5. BooksTyped BY <1>1 DEF BooksTyped, ChatInit, Priced
<1>6. TalkTyped BY <1>2, <1>3 DEF TalkTyped, Turn
<1>7. DialogInv BY <1>2, <1>3, EarlierInOrder DEF DialogInv, Turn, ChatInit
<1>8. RowsInv BY <1>3 DEF RowsInv
<1> QED BY <1>4, <1>5, <1>6, <1>7, <1>8 DEF TalkInv, LoopsTyped

\* A turn's conversation is in order and its rows are cited, always.
LEMMA TalkIsOrderly == AgentsSpec => [](IsTurn => TalkInv)
<1>1. AgentsInit => (IsTurn => TalkInv)
  <2>1. Init => ~IsTurn BY ScenariosAssumption DEF Init, IsTurn
  <2> QED BY <2>1, ChatInitTalk DEF AgentsInit
<1>2. (IsTurn => TalkInv) /\ [AgentsNext]_vars => (IsTurn => TalkInv)'
  <2> SUFFICES ASSUME IsTurn => TalkInv, [AgentsNext]_vars, IsTurn' PROVE TalkInv'
    OBVIOUS
  <2>1. IsTurn BY RunStays DEF IsTurn
  <2> QED BY <2>1, TurnTalk DEF AgentsNext, AgentsWork
<1> QED BY <1>1, <1>2, PTL DEF AgentsSpec

(* Whatever attempts before it left behind, the model is asked about each part*)
(* of the conversation once and in its order (seed_checkpoint, converse).    *)
THEOREM ConversationKeepsItsOrder == AgentsSpec => []ConversationOnce
<1>1. ASSUME IsTurn => TalkInv PROVE ConversationOnce
  <2> DEFINE d == channels.dialog
             places(part) == {i \in DOMAIN d : d[i] = part}
  <2> SUFFICES ASSUME IsTurn
               PROVE  /\ places("earlier") \subseteq {1}
                      /\ Cardinality(places("latest")) <= 1
                      /\ \A i \in places("latest") : \A j \in DOMAIN d : j < i => d[j] = "earlier"
                      /\ \A i \in places("result") : i > 1 /\ d[i - 1] = "call"
    BY DEF ConversationOnce
  <2>1. InOrder(d) BY <1>1 DEF TalkInv, DialogInv
  <2>2. d \in Seq(Parts) /\ DOMAIN d = 1 .. Len(d) /\ Len(d) \in Nat BY <2>1 DEF InOrder
  <2>3. Cardinality(places("latest")) <= 1
    <3>1. \A i, j \in places("latest") : i = j
      <4> SUFFICES ASSUME NEW i \in DOMAIN d, NEW j \in DOMAIN d, d[i] = "latest", d[j] = "latest"
                   PROVE  i = j
        OBVIOUS
      <4>1. ~(j < i) /\ ~(i < j) BY <2>1 DEF InOrder
      <4> QED BY <2>2, <4>1
    <3>2. CASE places("latest") = {}
      <4>1. Cardinality({}) = 0 BY FS_EmptySet
      <4> QED BY <3>2, <4>1
    <3>3. CASE places("latest") # {}
      <4>1. PICK i : i \in places("latest") BY <3>3
      <4>2. places("latest") = {i} BY <3>1, <4>1
      <4>3. Cardinality({i}) = 1 BY FS_Singleton
      <4> QED BY <4>2, <4>3
    <3> QED BY <3>2, <3>3
  <2> QED BY <2>1, <2>3 DEF InOrder
<1> QED BY <1>1, TalkIsOrderly, PTL

(* A row that waits for the user's decision is cited by the answer the user  *)
(* gets, unless it was never heard of or a lost attempt proposed it.         *)
THEOREM ProposalsAreCited == AgentsSpec => []WaitingIsCited
<1>1. ASSUME IsTurn => TalkInv PROVE WaitingIsCited
  BY <1>1 DEF WaitingIsCited, TalkInv, RowsInv
<1> QED BY <1>1, TalkIsOrderly, PTL
==============================================================================
