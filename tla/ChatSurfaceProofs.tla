--------------------------- MODULE ChatSurfaceProofs ---------------------------
(* A confirmation is decided once, for any numbers of turns, streams,            *)
(* confirmations, decisions and calls of the user's own.                         *)
EXTENDS ChatSurface, TLAPS, FiniteSetTheorems

Verdicts == {"approved", "rejected"}
Points   == {"new", "found", "refused", "deciding", "failing", "resolved", "recording", "opened",
             "recorded", "done", "failed", "died"}
Asks     == [pc : Points, on : Confirmations \cup {None}, choice : {"approve", "reject"},
             held : BOOLEAN, to : SUBSET Turns]

Typed == /\ conf \in [Confirmations -> {"absent", "pending"} \cup Verdicts]
         /\ ask \in [Decisions -> Asks]
         /\ thread = [there |-> thread.there, closing |-> thread.closing,
                      through |-> thread.through, covers |-> thread.covers]

\* A request holds what it claimed, and its confirmation has the verdict, unless
\* the thread has gone and taken the confirmation with it.
Held(d) ==
    /\ ask[d].on \in Confirmations
    /\ \/ conf[ask[d].on] = Verdict(ask[d].choice)
       \/ ~thread.there /\ conf[ask[d].on] = "absent"

Claims ==
    \A d \in Decisions :
        /\ ask[d].pc \in {"new", "found", "refused"} => ~ask[d].held
        /\ ask[d].pc \in Holding => ask[d].held
        /\ ask[d].held => Held(d)
        /\ ask[d].pc # "new" => ask[d].on \in Confirmations

\* Two requests do not hold one confirmation.
Alone == \A d, e \in Decisions :
             ask[d].held /\ ask[e].held /\ ask[d].on = ask[e].on => d = e

\* A result in the thread comes from a request that will not give it back.
Backed == \A d \in Decisions :
             Tool(d) \in recorded =>
                 ask[d].held /\ ask[d].pc \in {"opened", "recorded", "done", "failed", "died"}

DecisionInv == Typed /\ Claims /\ Alone /\ Backed

---------------------------------------------------------------------------------
\* The three kinds of message differ, and a tool message names its call.
LEMMA MessagesDiffer ==
    \A d, e : /\ Tool(d) # User(e) /\ Tool(d) # Assistant(e)
              /\ Tool(d) = Tool(e) => d = e
<1> SUFFICES ASSUME NEW d, NEW e
             PROVE  /\ Tool(d) # User(e) /\ Tool(d) # Assistant(e)
                    /\ Tool(d) = Tool(e) => d = e
  OBVIOUS
<1>1. Tool(d).role = "tool" /\ User(e).role = "user" /\ Assistant(e).role = "assistant"
  BY DEF Tool, User, Assistant
<1>2. Tool(d).of = d /\ Tool(e).of = e BY DEF Tool
<1> QED BY <1>1, <1>2

\* A choice is turned into one of the two verdicts.
LEMMA VerdictType == \A choice : Verdict(choice) \in Verdicts
BY DEF Verdict, Verdicts

\* The initial states satisfy the decisions' invariant.
LEMMA InitInv == Init => DecisionInv
<1> SUFFICES ASSUME Init PROVE DecisionInv OBVIOUS
<1>1. \A d \in Decisions :
        ask[d] = [pc |-> "new", on |-> None, choice |-> "approve", held |-> FALSE, to |-> {}]
  BY DEF Init, ConfirmationsInit
<1>2. Typed
  <2>1. ask \in [Decisions -> Asks] BY DEF Init, ConfirmationsInit, Asks, Points
  <2>2. conf \in [Confirmations -> {"absent", "pending"} \cup Verdicts]
    BY DEF Init, ConfirmationsInit
  <2>3. thread = [there |-> thread.there, closing |-> thread.closing,
                  through |-> thread.through, covers |-> thread.covers]
    BY DEF Init, HistoryInit
  <2> QED BY <2>1, <2>2, <2>3 DEF Typed
<1>3. \A d \in Decisions : Tool(d) \notin recorded
  <2> SUFFICES ASSUME NEW d \in Decisions, Tool(d) \in recorded PROVE FALSE OBVIOUS
  <2>1. recorded = {stamped[i] : i \in DOMAIN stamped} BY DEF Init, HistoryInit, Range
  <2>2. PICK i \in DOMAIN stamped : Tool(d) = stamped[i] BY <2>1
  <2>3. \E t : stamped[i] = User(t) \/ stamped[i] = Assistant(t) BY <2>2 DEF Init, HistoryInit
  <2> QED BY <2>2, <2>3, MessagesDiffer
<1> QED BY <1>1, <1>2, <1>3 DEF DecisionInv, Claims, Alone, Backed, Holding

---------------------------------------------------------------------------------
\* A step that leaves the requests and confirmations alone keeps the invariant when
\* it adds no result and the thread stays what it is or goes.
LEMMA QuietInv ==
    ASSUME DecisionInv, UNCHANGED <<conf, ask>>,
           thread'.there = thread.there,
           thread' = [there |-> thread'.there, closing |-> thread'.closing,
                      through |-> thread'.through, covers |-> thread'.covers],
           \A d \in Decisions : Tool(d) \in recorded' => Tool(d) \in recorded
    PROVE  DecisionInv'
<1> USE DEF DecisionInv
<1>1. Typed' BY DEF Typed
<1>2. Claims' BY DEF Claims, Held
<1>3. Alone' BY DEF Alone
<1>4. Backed' BY DEF Backed
<1> QED BY <1>1, <1>2, <1>3, <1>4

\* A step that leaves confirmations and thread alone preserves it.
LEMMA UnchangedInv ==
    ASSUME DecisionInv, UNCHANGED <<conf, ask, thread, recorded>>
    PROVE  DecisionInv'
BY QuietInv DEF DecisionInv, Typed

\* A step of the turns and their history preserves the decisions' invariant.
LEMMA HistoryInv ==
    ASSUME DecisionInv, HistoryStep, UNCHANGED confirmationVars
    PROVE  DecisionInv'
<1>0. UNCHANGED <<conf, ask>> BY DEF confirmationVars
<1>1. ASSUME NEW p, Post(p) PROVE DecisionInv'
  <2>1. thread' = thread /\ recorded' = recorded \cup {User(p)} BY <1>1 DEF Post
  <2> QED BY <1>0, <2>1, QuietInv, MessagesDiffer DEF DecisionInv, Typed
<1>2. ASSUME NEW t, Answer(t) PROVE DecisionInv'
  <2>1. thread' = thread /\ recorded' = recorded \cup {Assistant(t)} BY <1>2 DEF Answer
  <2> QED BY <1>0, <2>1, QuietInv, MessagesDiffer DEF DecisionInv, Typed
<1>3. CASE DeleteActive
  <2>1. thread = [there |-> thread.there, closing |-> thread.closing,
                  through |-> thread.through, covers |-> thread.covers]
    BY DEF DecisionInv, Typed
  <2>2. thread' = [thread EXCEPT !.closing = TRUE] /\ recorded' = recorded
    BY <1>3 DEF DeleteActive
  <2>3. thread'.there = thread.there BY <2>1, <2>2, Zenon
  <2>4. thread' = [there |-> thread'.there, closing |-> thread'.closing,
                   through |-> thread'.through, covers |-> thread'.covers]
    BY <2>1, <2>2, Zenon
  <2> QED BY <1>0, <2>2, <2>3, <2>4, QuietInv
<1>4. CASE UNCHANGED <<thread, recorded>> BY <1>0, <1>4, UnchangedInv
<1> QED BY <1>1, <1>2, <1>3, <1>4
        DEF HistoryStep, Claim, ReadThread, ReadMessages, Reattempt, Fail, Tell

\* A step of the summariser preserves the decisions' invariant.
LEMMA SummaryInv ==
    ASSUME DecisionInv, SummaryStep, UNCHANGED confirmationVars
    PROVE  DecisionInv'
<1>0. UNCHANGED <<conf, ask>> BY DEF confirmationVars
<1>1. ASSUME NEW t, FoldSummary(t) PROVE DecisionInv'
  <2>1. thread = [there |-> thread.there, closing |-> thread.closing,
                  through |-> thread.through, covers |-> thread.covers]
    BY DEF DecisionInv, Typed
  <2>2. CASE thread' = thread
    BY <1>0, <1>1, <2>2, UnchangedInv DEF FoldSummary
  <2>3. ASSUME NEW x, NEW y, thread' = [thread EXCEPT !.through = x, !.covers = y]
        PROVE  DecisionInv'
    <3>1. thread'.there = thread.there BY <2>1, <2>3, Zenon
    <3>2. thread' = [there |-> thread'.there, closing |-> thread'.closing,
                     through |-> thread'.through, covers |-> thread'.covers]
      BY <2>1, <2>3, Zenon
    <3> QED BY <1>0, <1>1, <3>1, <3>2, QuietInv DEF FoldSummary
  <2>4. \/ thread' = thread
        \/ thread' = [thread EXCEPT !.through = Last(fold[t].older), !.covers = Range(fold[t].older)]
    BY <1>1 DEF FoldSummary
  <2> QED BY <2>2, <2>3, <2>4
<1>2. ASSUME NEW t, ReadOlder(t) \/ SummaryFails(t) PROVE DecisionInv'
  BY <1>0, <1>2, UnchangedInv DEF ReadOlder, SummaryFails, historyVars
<1> QED BY <1>1, <1>2 DEF SummaryStep

---------------------------------------------------------------------------------
(* The steps of a decision.                                                      *)

\* A request goes on, holding what it held and no result of its own taken back.
LEMMA GoOnInv ==
    ASSUME DecisionInv, NEW d \in Decisions, NEW q \in Asks,
           ask' = [ask EXCEPT ![d] = q], UNCHANGED <<conf, thread>>,
           q.held = ask[d].held, q.on = ask[d].on, q.choice = ask[d].choice,
           q.pc \in {"new", "found", "refused"} => ~q.held,
           q.pc \in Holding => q.held,
           ask[d].pc # "new",
           \A e \in Decisions : Tool(e) \in recorded' =>
               Tool(e) \in recorded \/ (e = d /\ q.held),
           Tool(d) \in recorded' => q.pc \in {"opened", "recorded", "done", "failed", "died"}
    PROVE  DecisionInv'
<1> USE DEF DecisionInv
<1>0. \A e \in Decisions : ask'[e] = IF e = d THEN q ELSE ask[e] BY DEF Typed
<1>1. Typed' BY DEF Typed
<1>2. Claims' BY <1>0 DEF Claims, Held
<1>3. Alone' BY <1>0 DEF Alone
<1>4. Backed' BY <1>0 DEF Backed
<1> QED BY <1>1, <1>2, <1>3, <1>4

\* The usual case: only the point changes, and nothing is recorded.
LEMMA PointInv ==
    ASSUME DecisionInv, NEW d \in Decisions, NEW pc \in Points, Goto(d, pc),
           UNCHANGED <<conf, thread, recorded>>,
           pc \notin {"new", "found", "refused"}, ask[d].held \/ pc \notin Holding,
           ask[d].pc # "new",
           pc \in {"opened", "recorded", "done", "failed", "died"} \/ Tool(d) \notin recorded
    PROVE  DecisionInv'
<1>0. ask[d] \in Asks BY DEF DecisionInv, Typed
<1>1. PICK q \in Asks : q = [ask[d] EXCEPT !.pc = pc] BY <1>0 DEF Asks
<1>2. /\ q.pc = pc /\ q.held = ask[d].held /\ q.on = ask[d].on /\ q.choice = ask[d].choice
  BY <1>0, <1>1 DEF Asks
<1>3. ask' = [ask EXCEPT ![d] = q] BY <1>1 DEF Goto
<1> QED BY <1>2, <1>3, GoOnInv

\* Proposing a confirmation preserves the decisions' invariant.
LEMMA ProposeInv ==
    ASSUME DecisionInv, NEW c \in Confirmations, Propose(c)
    PROVE  DecisionInv'
<1> USE DEF DecisionInv
<1>1. /\ conf[c] = "absent" /\ thread.there /\ conf' = [conf EXCEPT ![c] = "pending"]
      /\ UNCHANGED <<ask, thread, recorded>>
  BY DEF Propose, historyVars
<1>2. \A d \in Decisions : ask[d].held => ask[d].on # c
  BY <1>1, VerdictType DEF Claims, Held, Verdicts
<1>3. \A b \in Confirmations : conf'[b] = IF b = c THEN "pending" ELSE conf[b]
  BY <1>1 DEF Typed
<1>4. Typed' BY <1>1 DEF Typed
<1>5. Claims' BY <1>1, <1>2, <1>3 DEF Claims, Held
<1>6. Alone' /\ Backed' BY <1>1 DEF Alone, Backed
<1> QED BY <1>4, <1>5, <1>6

\* The start of a decision's request preserves the decisions' invariant.
LEMMA DecideInv ==
    ASSUME DecisionInv, NEW d \in Decisions, NEW c \in Confirmations,
           NEW choice \in {"approve", "reject"}, Decide(d, c, choice)
    PROVE  DecisionInv'
<1> USE DEF DecisionInv
<1>0. ask[d] \in Asks /\ ask[d].pc = "new" /\ ~ask[d].held BY DEF Decide, Typed, Claims
<1>1. PICK pc \in {"found", "refused"} :
        ask' = [ask EXCEPT ![d].pc = pc, ![d].on = c, ![d].choice = choice]
  BY DEF Decide
<1>2. PICK q \in Asks : q = [ask[d] EXCEPT !.pc = pc, !.on = c, !.choice = choice]
  BY <1>0 DEF Asks, Points
<1>3. q.pc = pc /\ ~q.held /\ q.on = c BY <1>0, <1>2 DEF Asks
<1>4. ask' = [ask EXCEPT ![d] = q] BY <1>1, <1>2
<1>5. \A e \in Decisions : ask'[e] = IF e = d THEN q ELSE ask[e] BY <1>4 DEF Typed
<1>6. UNCHANGED <<conf, thread, recorded>> BY DEF Decide
<1>7. Typed' BY <1>4, <1>6 DEF Typed
<1>8. Claims' BY <1>3, <1>5, <1>6 DEF Claims, Held, Holding
<1>9. Alone' BY <1>3, <1>5 DEF Alone
<1>10. Backed' BY <1>0, <1>3, <1>5, <1>6 DEF Backed
<1> QED BY <1>7, <1>8, <1>9, <1>10

\* Marking the confirmation decided preserves the invariant.
LEMMA ResolveInv ==
    ASSUME DecisionInv, NEW d \in Decisions, Resolve(d)
    PROVE  DecisionInv'
<1> USE DEF DecisionInv
<1> DEFINE c == ask[d].on
<1>0. /\ ask[d] \in Asks /\ ask[d].pc = "found" /\ ~ask[d].held /\ c \in Confirmations
      /\ UNCHANGED <<thread, recorded>>
  BY DEF Resolve, Typed, Claims, historyVars
<1>1. Tool(d) \notin recorded BY <1>0 DEF Backed
<1>2. CASE conf[c] = "pending"
  <2>1. PICK pc \in {"deciding", "resolved"} : ask' = [ask EXCEPT ![d].held = TRUE, ![d].pc = pc]
    BY <1>2 DEF Resolve
  <2>2. PICK q \in Asks : q = [ask[d] EXCEPT !.held = TRUE, !.pc = pc]
    BY <1>0 DEF Asks, Points
  <2>3. q.pc = pc /\ q.held /\ q.on = c /\ q.choice = ask[d].choice BY <1>0, <2>2 DEF Asks
  <2>4. ask' = [ask EXCEPT ![d] = q] BY <2>1, <2>2
  <2>5. \A e \in Decisions : ask'[e] = IF e = d THEN q ELSE ask[e] BY <2>4 DEF Typed
  <2>6. conf' = [conf EXCEPT ![c] = Verdict(q.choice)] BY <1>2, <2>3 DEF Resolve
  <2>7. \A b \in Confirmations : conf'[b] = IF b = c THEN Verdict(q.choice) ELSE conf[b]
    BY <2>6 DEF Typed
  <2>8. \A e \in Decisions : ask[e].held => ask[e].on # c
    BY <1>2, VerdictType DEF Claims, Held, Verdicts
  <2>9. Typed' BY <1>0, <2>4, <2>6, VerdictType DEF Typed
  <2>10. \A e \in Decisions : ask'[e].held => Held(e)'
    <3> SUFFICES ASSUME NEW e \in Decisions, ask'[e].held PROVE Held(e)' OBVIOUS
    <3>1. CASE e = d BY <1>0, <2>3, <2>5, <2>7, <3>1 DEF Held
    <3>2. CASE e # d BY <1>0, <2>5, <2>7, <2>8, <3>2 DEF Held, Claims
    <3> QED BY <3>1, <3>2
  <2>11. Claims' BY <1>0, <2>3, <2>5, <2>10 DEF Claims
  <2>12. Alone' BY <2>3, <2>5, <2>8 DEF Alone
  <2>13. Backed' BY <1>0, <1>1, <2>5 DEF Backed
  <2> QED BY <2>9, <2>11, <2>12, <2>13
<1>3. CASE conf[c] # "pending"
  <2>1. Goto(d, "refused") /\ UNCHANGED conf BY <1>3 DEF Resolve
  <2>2. PICK q \in Asks : q = [ask[d] EXCEPT !.pc = "refused"] BY <1>0 DEF Asks, Points
  <2>3. q.pc = "refused" /\ q.held = ask[d].held /\ q.on = ask[d].on /\ q.choice = ask[d].choice
    BY <1>0, <2>2 DEF Asks
  <2>4. ask' = [ask EXCEPT ![d] = q] BY <2>1, <2>2 DEF Goto
  <2> QED BY <1>0, <1>1, <2>1, <2>3, <2>4, GoOnInv DEF Holding
<1> QED BY <1>2, <1>3

\* The end of the confirmed call preserves the decisions' invariant.
LEMMA ExecutedInv ==
    ASSUME DecisionInv, NEW d \in Decisions, NEW ok \in BOOLEAN, Executed(d, ok)
    PROVE  DecisionInv'
<1>1. /\ ask[d].pc = "deciding" /\ ask[d].held /\ Tool(d) \notin recorded
      /\ UNCHANGED <<conf, thread, recorded>>
  BY DEF Executed, DecisionInv, Claims, Holding, Backed, historyVars
<1>2. PICK pc \in {"resolved", "failing"} : Goto(d, pc) BY DEF Executed
<1> QED BY <1>1, <1>2, PointInv DEF Points

\* Putting a confirmation back to pending preserves the invariant.
LEMMA ReopenInv ==
    ASSUME DecisionInv, NEW d \in Decisions, Reopen(d)
    PROVE  DecisionInv'
<1> USE DEF DecisionInv
<1> DEFINE c == ask[d].on
<1>0. /\ ask[d] \in Asks /\ ask[d].pc = "failing" /\ ask[d].held /\ c \in Confirmations
      /\ UNCHANGED <<thread, recorded>>
  BY DEF Reopen, Typed, Claims, Holding, Held, historyVars
<1>1. Tool(d) \notin recorded BY <1>0 DEF Backed
<1>2. PICK q \in Asks : q = [ask[d] EXCEPT !.pc = "refused", !.held = FALSE]
  BY <1>0 DEF Asks, Points
<1>3. q.pc = "refused" /\ ~q.held /\ q.on = c BY <1>0, <1>2 DEF Asks
<1>4. ask' = [ask EXCEPT ![d] = q] BY <1>2 DEF Reopen
<1>5. \A e \in Decisions : ask'[e] = IF e = d THEN q ELSE ask[e] BY <1>4 DEF Typed
<1>6. PICK v \in {"absent", "pending"} : conf' = [conf EXCEPT ![c] = v] BY DEF Reopen
<1>7. \A b \in Confirmations : b # c => conf'[b] = conf[b] BY <1>6 DEF Typed
<1>8. \A e \in Decisions : e # d /\ ask[e].held => ask[e].on # c BY <1>0 DEF Alone
<1>9. Typed' BY <1>0, <1>4, <1>6 DEF Typed
<1>10. \A e \in Decisions : ask'[e].held => Held(e)'
  <2> SUFFICES ASSUME NEW e \in Decisions, ask'[e].held PROVE Held(e)' OBVIOUS
  <2>1. e # d /\ ask[e].held /\ ask'[e] = ask[e] BY <1>3, <1>5
  <2> QED BY <1>0, <1>7, <1>8, <2>1 DEF Held, Claims
<1>11. Claims' BY <1>0, <1>3, <1>5, <1>10 DEF Claims, Holding
<1>12. Alone' BY <1>3, <1>5 DEF Alone
<1>13. Backed' BY <1>0, <1>1, <1>5 DEF Backed
<1> QED BY <1>9, <1>11, <1>12, <1>13

\* Looking for a queued turn preserves the decisions' invariant.
LEMMA FindQueuedInv ==
    ASSUME DecisionInv, NEW d \in Decisions, FindQueued(d)
    PROVE  DecisionInv'
<1>0. /\ ask[d] \in Asks /\ ask[d].pc = "resolved" /\ ask[d].held /\ Tool(d) \notin recorded
      /\ UNCHANGED <<conf, thread, recorded>>
  BY DEF FindQueued, DecisionInv, Typed, Claims, Holding, Backed, historyVars
<1>1. PICK to \in SUBSET Turns : ask' = [ask EXCEPT ![d].pc = "recording", ![d].to = to]
  BY DEF FindQueued, QueuedTurns
<1>2. PICK q \in Asks : q = [ask[d] EXCEPT !.pc = "recording", !.to = to]
  BY <1>0 DEF Asks, Points
<1>3. /\ q.pc = "recording" /\ q.held = ask[d].held /\ q.on = ask[d].on /\ q.choice = ask[d].choice
  BY <1>0, <1>2 DEF Asks
<1>4. ask' = [ask EXCEPT ![d] = q] BY <1>1, <1>2
<1> QED BY <1>0, <1>3, <1>4, GoOnInv

\* Recording the tool message preserves the decisions' invariant.
LEMMA RecordInv ==
    ASSUME DecisionInv, NEW d \in Decisions, Record(d)
    PROVE  DecisionInv'
<1>0. /\ ask[d] \in Asks /\ ask[d].pc = "recording" /\ ask[d].held
      /\ UNCHANGED <<conf, thread>> /\ recorded' = recorded \cup {Tool(d)}
  BY DEF Record, DecisionInv, Typed, Claims, Holding
<1>1. PICK pc \in {"opened", "recorded"} : Goto(d, pc) BY DEF Record
<1>2. PICK q \in Asks : q = [ask[d] EXCEPT !.pc = pc] BY <1>0 DEF Asks, Points
<1>3. /\ q.pc = pc /\ q.held = ask[d].held /\ q.on = ask[d].on /\ q.choice = ask[d].choice
  BY <1>0, <1>2 DEF Asks
<1>4. ask' = [ask EXCEPT ![d] = q] BY <1>1, <1>2 DEF Goto
<1>5. \A e \in Decisions : Tool(e) \in recorded' => Tool(e) \in recorded \/ e = d
  BY <1>0, MessagesDiffer
<1> QED BY <1>0, <1>3, <1>4, <1>5, GoOnInv

\* The last steps of a decision preserve the decisions' invariant.
LEMMA LaterInv ==
    ASSUME DecisionInv, NEW d \in Decisions, Start(d) \/ AnnounceResult(d) \/ Die(d)
    PROVE  DecisionInv'
<1>1. UNCHANGED <<conf, thread, recorded>>
  BY DEF Start, AnnounceResult, Die, historyVars
<1>2. CASE Start(d)
  <2>1. ask[d].pc = "opened" /\ ask[d].held BY <1>2 DEF Start, DecisionInv, Claims, Holding
  <2> QED BY <1>1, <1>2, <2>1, PointInv DEF Start, Points
<1>3. CASE AnnounceResult(d)
  BY <1>1, <1>3, PointInv DEF AnnounceResult, Points, Holding
<1>4. CASE Die(d)
  BY <1>1, <1>4, PointInv DEF Die, Points, Holding
<1> QED BY <1>2, <1>3, <1>4

\* Deleting the thread preserves the decisions' invariant.
LEMMA DeleteThreadInv ==
    ASSUME DecisionInv, DeleteThread
    PROVE  DecisionInv'
<1> USE DEF DecisionInv
<1>1. /\ thread' = [thread EXCEPT !.there = FALSE] /\ recorded' = {}
      /\ conf' = [c \in Confirmations |-> "absent"] /\ ask' = ask
  BY DEF DeleteThread
<1>2. thread = [there |-> thread.there, closing |-> thread.closing,
                through |-> thread.through, covers |-> thread.covers]
  BY DEF Typed
<1>3. thread'.there = FALSE BY <1>1, <1>2, Zenon
<1>4. thread' = [there |-> thread'.there, closing |-> thread'.closing,
                 through |-> thread'.through, covers |-> thread'.covers]
  BY <1>1, <1>2, Zenon
<1>5. Typed' BY <1>1, <1>4 DEF Typed
<1>6. Claims' BY <1>1, <1>3 DEF Claims, Held
<1>7. Alone' BY <1>1 DEF Alone
<1>8. Backed' BY <1>1 DEF Backed
<1> QED BY <1>5, <1>6, <1>7, <1>8

\* Every step of the confirmations preserves the invariant.
LEMMA ConfirmationInv ==
    ASSUME DecisionInv, ConfirmationStep
    PROVE  DecisionInv'
BY ProposeInv, DecideInv, ResolveInv, ReopenInv, FindQueuedInv, RecordInv, LaterInv,
   DeleteThreadInv DEF ConfirmationStep

---------------------------------------------------------------------------------
\* Every step preserves the decisions' invariant.
LEMMA StepInv == DecisionInv /\ [Next]_vars => DecisionInv'
<1> SUFFICES ASSUME DecisionInv, [Next]_vars PROVE DecisionInv' OBVIOUS
<1>1. CASE HistoryStep /\ UNCHANGED confirmationVars BY <1>1, HistoryInv
<1>2. CASE UpdatesStep /\ UNCHANGED <<historyVars, confirmationVars>>
  BY <1>2, UnchangedInv DEF historyVars, confirmationVars
<1>3. CASE SummaryStep /\ UNCHANGED confirmationVars BY <1>3, SummaryInv
<1>4. CASE ConfirmationStep BY <1>4, ConfirmationInv
<1>5. CASE StreamStep
  <2>1. UNCHANGED <<historyVars, confirmationVars>>
    BY <1>5 DEF StreamStep, Open, ReadExecution, SendFrame, Wake, Resend, Disconnect, othersVars
  <2> QED BY <2>1, UnchangedInv DEF historyVars, confirmationVars
<1>6. ASSUME NEW d \in Decisions, ExecuteUpstream(d) \/ CallAnswered(d) PROVE DecisionInv'
  BY <1>6, ExecutedInv DEF ExecuteUpstream, CallAnswered
<1>7. CASE /\ UNCHANGED <<historyVars, confirmationVars>>
  BY <1>7, UnchangedInv DEF historyVars, confirmationVars
<1>8. (\E d \in Decisions : CallBack(d)) \/ (\E a \in Clicks : Click(a)) \/ Cleanup \/ UNCHANGED vars
        => UNCHANGED <<historyVars, confirmationVars>>
  BY DEF CallBack, Click, Cleanup, vars
<1> QED BY <1>1, <1>2, <1>3, <1>4, <1>5, <1>6, <1>7, <1>8 DEF Next

(* A confirmation is decided once: however many requests find it pending, one    *)
(* holds it, whichever of them die, until the owner of the tool refuses the      *)
(* call; and a result in the thread never loses the verdict it came from         *)
(* (resolution.py _claim, _decide, _record).                                     *)
THEOREM OneDecision == Spec => []DecidedOnce
<1>1. Init => DecisionInv BY InitInv
<1>2. DecisionInv /\ [Next]_vars => DecisionInv' BY StepInv
<1>3. DecisionInv => DecidedOnce
  <2> SUFFICES ASSUME DecisionInv PROVE DecidedOnce OBVIOUS
  <2>1. ASSUME NEW c \in Confirmations
        PROVE  Cardinality({d \in Decisions : Holds(d) /\ ask[d].on = c}) <= 1
    <3> DEFINE S == {d \in Decisions : Holds(d) /\ ask[d].on = c}
    <3>1. CASE S = {} BY <3>1, FS_EmptySet
    <3>2. ASSUME NEW d \in S PROVE Cardinality(S) = 1
      <4>1. S = {d} BY <3>2 DEF DecisionInv, Alone, Holds
      <4> QED BY <4>1, FS_Singleton
    <3> QED BY <3>1, <3>2
  <2>2. ASSUME thread.there, NEW d \in Decisions, Tool(d) \in recorded
        PROVE  conf[ask[d].on] = Verdict(ask[d].choice)
    BY <2>2 DEF DecisionInv, Backed, Claims, Held
  <2> QED BY <2>1, <2>2 DEF DecidedOnce
<1> QED BY <1>1, <1>2, <1>3, PTL DEF Spec

---------------------------------------------------------------------------------
(* The suggestions.  Several calls may be at one row: what answers for an          *)
(* acceptance without an archive is the call that wrote it, wherever it stopped.  *)

CallPoints == {"new", "again", "accepting", "dismissing", "refused", "archiving", "answered",
               "reverting", "stuck", "lost"}
Rows       == [status : {"absent", "pending", "accepted", "dismissed"}, observed : Nat]
Calls      == [pc : CallPoints, on : SUBSET Suggestions, since : Nat]

CleanupTyped ==
    /\ suggestion \in [Suggestions -> Rows]
    /\ task \in [last : Nat, archived : BOOLEAN]
    /\ call \in [Callers -> Calls]
    /\ scan \in [Scans -> [pc : {"new", "observed", "writing", "done"}, observed : Nat,
                           standing : SUBSET Suggestions]]

CleanupInv == CleanupTyped /\ AcceptedIsArchived

\* The initial states satisfy the cleanup's invariant.
LEMMA CleanupInitInv == Init => CleanupInv
<1> SUFFICES ASSUME Init PROVE CleanupInv OBVIOUS
<1>1. CleanupTyped
  BY DEF Init, CleanupInit, CleanupTyped, Rows, Calls, CallPoints
<1>2. AcceptedIsArchived BY DEF Init, CleanupInit, AcceptedIsArchived
<1> QED BY <1>1, <1>2 DEF CleanupInv

\* A step of one call that leaves the rows alone: it may take its row up, move on
\* among the points that answer for an acceptance, or leave once the task is archived.
LEMMA CallMoves ==
    ASSUME CleanupInv, NEW a \in Callers, NEW c \in Calls, call' = [call EXCEPT ![a] = c],
           UNCHANGED <<suggestion, scan>>, task' \in [last : Nat, archived : BOOLEAN],
           task.archived => task'.archived,
           \/ task'.archived
           \/ call[a].pc \notin {"archiving", "reverting", "lost", "stuck"}
           \/ c.on = call[a].on /\ c.pc \in {"archiving", "reverting", "lost", "stuck"}
    PROVE  CleanupInv'
<1> USE DEF CleanupInv
<1>1. \A b \in Callers : call'[b] = IF b = a THEN c ELSE call[b] BY DEF CleanupTyped
<1>2. CleanupTyped' BY DEF CleanupTyped
<1>3. AcceptedIsArchived'
  <2> SUFFICES ASSUME NEW s \in Suggestions, suggestion'[s].status = "accepted", ~task'.archived
               PROVE  \E b \in Callers : /\ s \in call'[b].on
                                         /\ call'[b].pc \in {"archiving", "reverting", "lost", "stuck"}
    BY DEF AcceptedIsArchived
  <2>1. suggestion[s].status = "accepted" /\ ~task.archived BY DEF CleanupTyped
  <2>2. PICK b \in Callers : /\ s \in call[b].on
                             /\ call[b].pc \in {"archiving", "reverting", "lost", "stuck"}
    BY <2>1 DEF AcceptedIsArchived
  <2> QED BY <1>1, <2>2
<1> QED BY <1>2, <1>3

\* Moving one caller along its call preserves the cleanup's invariant.
LEMMA PointMoves ==
    ASSUME CleanupInv, NEW a \in Callers, NEW pc \in CallPoints, Step(a, pc),
           UNCHANGED <<suggestion, scan>>, task' \in [last : Nat, archived : BOOLEAN],
           task.archived => task'.archived,
           \/ task'.archived
           \/ call[a].pc \notin {"archiving", "reverting", "lost", "stuck"}
           \/ pc \in {"archiving", "reverting", "lost", "stuck"}
    PROVE  CleanupInv'
<1>0. call[a] \in Calls BY DEF CleanupInv, CleanupTyped
<1>1. PICK c \in Calls : c = [call[a] EXCEPT !.pc = pc] BY <1>0 DEF Calls
<1>2. c.pc = pc /\ c.on = call[a].on BY <1>0, <1>1 DEF Calls
<1>3. call' = [call EXCEPT ![a] = c] BY <1>1 DEF Step
<1> QED BY <1>2, <1>3, CallMoves

\* The call that takes up row s.
LEMMA TakesUp ==
    ASSUME CleanupInv, NEW a, NEW s \in Suggestions, AcceptCleanup(a, s) \/ DismissCleanup(a, s)
    PROVE  CleanupInv'
<1> USE DEF CleanupInv
<1>1. PICK pc \in CallPoints : call' = [call EXCEPT ![a] = [on |-> {s}, pc |-> pc,
                                                          since |-> suggestion[s].observed]]
  BY DEF AcceptCleanup, DismissCleanup, CallPoints
<1>2. call[a].pc = "new" /\ UNCHANGED <<suggestion, task, scan>>
  BY DEF AcceptCleanup, DismissCleanup
<1>3. CASE a \in Callers
  <2> DEFINE c == [on |-> {s}, pc |-> pc, since |-> suggestion[s].observed]
  <2>1. c \in Calls BY DEF CleanupTyped, Rows, Calls
  <2>2. task' \in [last : Nat, archived : BOOLEAN] BY <1>2 DEF CleanupTyped
  <2> HIDE DEF c
  <2>3. call' = [call EXCEPT ![a] = c] BY <1>1 DEF c
  <2> QED BY <1>2, <1>3, <2>1, <2>2, <2>3, CallMoves
<1>4. CASE a \notin Callers
  <2>1. call' = call BY <1>1, <1>4 DEF CleanupTyped
  <2> QED BY <1>2, <2>1 DEF CleanupTyped, AcceptedIsArchived
<1> QED BY <1>3, <1>4

\* What a call writes on its row.
LEMMA Becoming ==
    ASSUME CleanupInv, NEW a \in Callers, NEW status \in {"pending", "accepted", "dismissed"},
           Becomes(a, status)
    PROVE  /\ suggestion' \in [Suggestions -> Rows]
           /\ \A s \in Suggestions : suggestion'[s].status = IF s \in call[a].on THEN status
                                                             ELSE suggestion[s].status
<1>1. \A s \in Suggestions : suggestion[s] \in Rows BY DEF CleanupInv, CleanupTyped
<1>2. ASSUME NEW s \in Suggestions
      PROVE  /\ [suggestion[s] EXCEPT !.status = status] \in Rows
             /\ [suggestion[s] EXCEPT !.status = status].status = status
  BY <1>1 DEF Rows
<1>3. suggestion' = [s \in Suggestions |-> IF s \in call[a].on
                       THEN [suggestion[s] EXCEPT !.status = status] ELSE suggestion[s]]
  BY DEF Becomes
<1>4. suggestion' \in [Suggestions -> Rows] BY <1>1, <1>2, <1>3
<1>5. ASSUME NEW s \in Suggestions
      PROVE  suggestion'[s].status = IF s \in call[a].on THEN status ELSE suggestion[s].status
  BY <1>2, <1>3
<1> QED BY <1>4, <1>5

\* A call writes its row and goes on: if it accepts it answers for it.
LEMMA BecomingMoves ==
    ASSUME CleanupInv, NEW a \in Callers, NEW status \in {"pending", "accepted", "dismissed"},
           NEW pc \in CallPoints, Becomes(a, status), Step(a, pc), UNCHANGED <<task, scan>>,
           status = "accepted" => pc = "archiving"
    PROVE  CleanupInv'
<1> USE DEF CleanupInv
<1>0. call[a] \in Calls BY DEF CleanupTyped
<1>1. PICK c \in Calls : c = [call[a] EXCEPT !.pc = pc] BY <1>0 DEF Calls
<1>2. c.pc = pc /\ c.on = call[a].on BY <1>0, <1>1 DEF Calls
<1>3. call' = [call EXCEPT ![a] = c] BY <1>1 DEF Step
<1>4. \A b \in Callers : call'[b] = IF b = a THEN c ELSE call[b] BY <1>3 DEF CleanupTyped
<1>5. CleanupTyped' BY <1>3, Becoming DEF CleanupTyped
<1>6. AcceptedIsArchived'
  <2> SUFFICES ASSUME NEW s \in Suggestions, suggestion'[s].status = "accepted", ~task.archived
               PROVE  \E b \in Callers : /\ s \in call'[b].on
                                         /\ call'[b].pc \in {"archiving", "reverting", "lost", "stuck"}
    BY DEF AcceptedIsArchived
  <2>1. CASE s \in call[a].on BY <1>2, <1>4, <2>1, Becoming
  <2>2. CASE s \notin call[a].on
    <3>1. suggestion[s].status = "accepted" BY <2>2, Becoming
    <3>2. PICK b \in Callers : /\ s \in call[b].on
                               /\ call[b].pc \in {"archiving", "reverting", "lost", "stuck"}
      BY <3>1 DEF AcceptedIsArchived
    <3> QED BY <1>4, <2>2, <3>2
  <2> QED BY <2>1, <2>2
<1> QED BY <1>5, <1>6

\* The rows a scan writes are pending, or keep their status.
LEMMA ScanWrites ==
    ASSUME CleanupInv, UNCHANGED <<task, call>>,
           suggestion' \in [Suggestions -> Rows],
           scan' \in [Scans -> [pc : {"new", "observed", "writing", "done"}, observed : Nat,
                                standing : SUBSET Suggestions]],
           \A s \in Suggestions : suggestion'[s].status \in {"pending", suggestion[s].status}
    PROVE  CleanupInv'
<1> USE DEF CleanupInv
<1>1. CleanupTyped' BY DEF CleanupTyped
<1>2. \A s \in Suggestions : suggestion'[s].status = "accepted" => suggestion[s].status = "accepted"
  OBVIOUS
<1>3. AcceptedIsArchived' BY <1>2 DEF AcceptedIsArchived
<1> QED BY <1>1, <1>3

\* A step of a scan preserves the cleanup's invariant.
LEMMA ScanInv ==
    ASSUME CleanupInv, ScanStep
    PROVE  CleanupInv'
<1> USE DEF CleanupInv
<1>0. /\ task \in [last : Nat, archived : BOOLEAN]
      /\ \A x \in Scans : scan[x] \in [pc : {"new", "observed", "writing", "done"},
                                       observed : Nat, standing : SUBSET Suggestions]
      /\ \A s \in Suggestions : suggestion[s] \in Rows
  BY DEF CleanupTyped
<1>1. ASSUME NEW x \in Scans, Observe(x) PROVE CleanupInv'
  <2>1. UNCHANGED <<suggestion, task, call>> BY <1>1 DEF Observe
  <2>2. scan' \in [Scans -> [pc : {"new", "observed", "writing", "done"}, observed : Nat,
                             standing : SUBSET Suggestions]]
    BY <1>0, <1>1 DEF Observe, CleanupTyped
  <2> QED BY <2>1, <2>2, ScanWrites DEF CleanupTyped
<1>2. ASSUME NEW x \in Scans, FindStanding(x) PROVE CleanupInv'
  <2>1. UNCHANGED <<suggestion, task, call>> BY <1>2 DEF FindStanding
  <2>2. scan' \in [Scans -> [pc : {"new", "observed", "writing", "done"}, observed : Nat,
                             standing : SUBSET Suggestions]]
    BY <1>0, <1>2 DEF FindStanding, PendingRows, CleanupTyped
  <2> QED BY <2>1, <2>2, ScanWrites DEF CleanupTyped
<1>3. ASSUME NEW x \in Scans, WriteOne(x) PROVE CleanupInv'
  <2>1. UNCHANGED <<task, call>> BY <1>3 DEF WriteOne
  <2>2. scan' \in [Scans -> [pc : {"new", "observed", "writing", "done"}, observed : Nat,
                             standing : SUBSET Suggestions]]
    BY <1>0, <1>3 DEF WriteOne, CleanupTyped
  <2>3. /\ suggestion' \in [Suggestions -> Rows]
        /\ \A s \in Suggestions : suggestion'[s].status \in {"pending", suggestion[s].status}
    <3>1. CASE RefreshPending(x)
      <4>1. ASSUME NEW s \in Suggestions
            PROVE  /\ [suggestion[s] EXCEPT !.observed = scan[x].observed] \in Rows
                   /\ [suggestion[s] EXCEPT !.observed = scan[x].observed].status
                        = suggestion[s].status
        BY <1>0 DEF Rows
      <4> QED BY <1>0, <3>1, <4>1 DEF RefreshPending
    <3>2. CASE InsertSuggestion(x)
      <4>1. CASE UNCHANGED suggestion BY <4>1 DEF CleanupTyped
      <4>2. CASE \E s \in Suggestions :
                    suggestion' = [suggestion EXCEPT ![s] = [status |-> "pending",
                                                             observed |-> scan[x].observed]]
        BY <1>0, <4>2 DEF Rows, CleanupTyped
      <4> QED BY <3>2, <4>1, <4>2 DEF InsertSuggestion
    <3> QED BY <1>3, <3>1, <3>2 DEF WriteOne
  <2> QED BY <2>1, <2>2, <2>3, ScanWrites
<1> QED BY <1>1, <1>2, <1>3 DEF ScanStep

\* A step of a call on a suggestion preserves the cleanup's invariant.
LEMMA CallInv ==
    ASSUME CleanupInv, NEW a \in Callers, CallStep(a)
    PROVE  CleanupInv'
<1> USE DEF CleanupInv
<1>0. task \in [last : Nat, archived : BOOLEAN] BY DEF CleanupTyped
<1>1. CASE SaveAcceptance(a)
  BY <1>1, BecomingMoves DEF SaveAcceptance, CallPoints
<1>2. CASE SaveDismissal(a)
  BY <1>2, BecomingMoves DEF SaveDismissal, CallPoints
<1>3. CASE Archive(a)
  <2>1. UNCHANGED <<suggestion, scan>> BY <1>3 DEF Archive
  <2>2. PICK pc \in {"answered", "reverting", "refused"} :
          /\ Step(a, pc)
          /\ \/ task' = [task EXCEPT !.archived = TRUE]
             \/ /\ task' = task
                /\ call[a].pc = "archiving" => pc = "reverting"
                /\ call[a].pc \in {"archiving", "again"}
    BY <1>3 DEF Archive
  <2>3. CASE task' = [task EXCEPT !.archived = TRUE]
    <3>1. task' \in [last : Nat, archived : BOOLEAN] /\ task'.archived BY <1>0, <2>3
    <3> QED BY <2>1, <2>2, <3>1, PointMoves DEF CallPoints
  <2>4. CASE /\ task' = task
             /\ call[a].pc = "archiving" => pc = "reverting"
             /\ call[a].pc \in {"archiving", "again"}
    BY <1>0, <2>1, <2>2, <2>4, PointMoves DEF CallPoints
  <2> QED BY <2>2, <2>3, <2>4
<1>4. CASE Revert(a)
  <2>1. CASE Becomes(a, "pending") /\ Step(a, "refused")
    BY <1>4, <2>1, BecomingMoves DEF Revert, CallPoints
  <2>2. CASE UNCHANGED suggestion /\ Step(a, "stuck")
    BY <1>0, <1>4, <2>2, PointMoves DEF Revert, CallPoints
  <2> QED BY <1>4, <2>1, <2>2 DEF Revert
<1>5. CASE CallLost(a)
  BY <1>0, <1>5, PointMoves DEF CallLost, CallPoints
<1> QED BY <1>1, <1>2, <1>3, <1>4, <1>5 DEF CallStep

\* Every step preserves the cleanup's invariant.
LEMMA CleanupStepInv == CleanupInv /\ [Next]_vars => CleanupInv'
<1> SUFFICES ASSUME CleanupInv, [Next]_vars PROVE CleanupInv' OBVIOUS
<1>1. CASE UNCHANGED cleanupVars
  BY <1>1 DEF CleanupInv, CleanupTyped, AcceptedIsArchived, cleanupVars
<1>2. ASSUME NEW d, CallBack(d) \/ Click(d) PROVE CleanupInv'
  BY <1>2, TakesUp DEF CallBack, Click
<1>3. CASE Cleanup
  <2>1. CASE Event
    <3>1. task' \in [last : Nat, archived : BOOLEAN] /\ task'.archived = task.archived
      BY <2>1 DEF Event, CleanupInv, CleanupTyped
    <3> QED BY <2>1, <3>1 DEF Event, CleanupInv, CleanupTyped, AcceptedIsArchived
  <2> QED BY <1>3, <2>1, ScanInv, CallInv DEF Cleanup
<1>4. UNCHANGED cleanupVars \/ (\E d : CallBack(d) \/ Click(d)) \/ Cleanup
  BY DEF Next, ExecuteUpstream, CallAnswered, vars
<1> QED BY <1>1, <1>2, <1>3, <1>4

(* A suggestion that is accepted while its task is not archived has a call that   *)
(* is still at its archive, or died or failed there, for any numbers of scans,    *)
(* calls and rows (service.py accept_cleanup_suggestion).                         *)
THEOREM AcceptanceIsAnsweredFor == Spec => []AcceptedIsArchived
<1>1. Init => CleanupInv BY CleanupInitInv
<1>2. CleanupInv /\ [Next]_vars => CleanupInv' BY CleanupStepInv
<1>3. CleanupInv => AcceptedIsArchived BY DEF CleanupInv
<1> QED BY <1>1, <1>2, <1>3, PTL DEF Spec

---------------------------------------------------------------------------------
(* The streams.  A stream has to hear of every change of its turn: between its    *)
(* read and its wait a change either leaves something on its way to it, or is     *)
(* still to be announced, or counts as missed.  That a turn a stream has opened   *)
(* is not opened a second time under it takes the messages and the requests.      *)

Message == [role : {"user", "tool", "assistant"}, of : Turns]
Written == {"opened", "recorded", "done", "failed", "died"}

\* r is a record with these fields.
TurnShape(r)   == r \in [status : {r.status}, step : {r.step}, anchor : {r.anchor},
                         through : {r.through}, covers : {r.covers}, window : {r.window}]
StreamShape(r) == r \in [pc : {r.pc}, of : {r.of}, got : {r.got}, status : {r.status},
                         pending : {r.pending}]

StreamTyped ==
    /\ stamped \in Seq(Message)
    /\ turn = [t \in Turns |-> turn[t]] /\ \A t \in Turns : TurnShape(turn[t])
    /\ listening \in [Streams -> Turns \cup {None}]
    /\ stream = [w \in Streams |-> stream[w]] /\ \A w \in Streams : StreamShape(stream[w])

\* The step that opens a turn is over: its message has its place, or its request is
\* past the commit.
Opened(t) ==
    /\ t \in Posts => User(t) \in Range(stamped)
    /\ t \in Decisions => ask[t].pc \in Written

Told == heard \cup flight \cup missed

Entered == \A t \in Turns : turn[t].status # "absent" => Opened(t)

Follows(w) ==
    LET t == stream[w].of
    IN  /\ Watching(w) => t \in Turns /\ listening[w] = t /\ Opened(t)
        /\ stream[w].pc = "read" =>
              w \in Told \/ t \in owed \/ stream[w].got = turn[t].status
        /\ stream[w].pc = "waiting" =>
              w \in Told \/ t \in owed \/ stream[w].status = turn[t].status

FollowInv == StreamTyped /\ Entered /\ \A w \in Streams : Follows(w)

\* What appending a message does to a thread's messages.
LEMMA Appended ==
    ASSUME NEW S, NEW s \in Seq(S), NEW m \in S
    PROVE  /\ Append(s, m) \in Seq(S)
           /\ Range(Append(s, m)) = Range(s) \cup {m}
<1>1. /\ Append(s, m) \in Seq(S) /\ Len(Append(s, m)) = Len(s) + 1
      /\ \A i \in 1 .. Len(s) : Append(s, m)[i] = s[i]
      /\ Append(s, m)[Len(s) + 1] = m
      /\ DOMAIN s = 1 .. Len(s) /\ DOMAIN Append(s, m) = 1 .. Len(s) + 1
      /\ Len(s) \in Nat
  OBVIOUS
<1>2. Range(Append(s, m)) = {Append(s, m)[i] : i \in 1 .. Len(s) + 1}
  BY <1>1 DEF Range
<1>3. 1 .. Len(s) + 1 = (1 .. Len(s)) \cup {Len(s) + 1} BY <1>1
<1>4. Range(s) = {s[i] : i \in 1 .. Len(s)} BY <1>1 DEF Range
<1>5. Range(Append(s, m)) = {Append(s, m)[i] : i \in 1 .. Len(s)} \cup {m}
  BY <1>1, <1>2, <1>3
<1>6. {Append(s, m)[i] : i \in 1 .. Len(s)} = {s[i] : i \in 1 .. Len(s)} BY <1>1
<1> QED BY <1>1, <1>4, <1>5, <1>6

\* A turn's messages are messages.
LEMMA MessageTypes == \A t \in Turns : /\ User(t) \in Message /\ Tool(t) \in Message
                                       /\ Assistant(t) \in Message
BY DEF User, Tool, Assistant, Message

\* The initial states satisfy the followers' invariant.
LEMMA FollowInitInv == Init => FollowInv
<1> SUFFICES ASSUME Init PROVE FollowInv OBVIOUS
<1> DEFINE over == scene.over
<1>1. over \in Seq(Posts) BY TurnsAssumption DEF Init, HistoryInit
<1>2. Len(over) \in Nat /\ \A k \in 1 .. Len(over) : over[k] \in Posts /\ over[k] \in Turns
  BY <1>1 DEF Turns
<1>3. stamped = [i \in 1 .. 2 * Len(over) |-> IF i % 2 = 1 THEN User(over[(i + 1) \div 2])
                                              ELSE Assistant(over[(i + 1) \div 2])]
  BY DEF Init, HistoryInit
<1>4. \A i \in 1 .. 2 * Len(over) : (i + 1) \div 2 \in 1 .. Len(over) BY <1>2
<1>5. stamped \in Seq(Message)
  <2>1. \A i \in 1 .. 2 * Len(over) : stamped[i] \in Message BY <1>2, <1>3, <1>4, MessageTypes
  <2>2. 2 * Len(over) \in Nat BY <1>2
  <2>3. stamped \in [1 .. 2 * Len(over) -> Message] BY <1>3, <2>1
  <2> QED BY <2>2, <2>3
<1>6. \A k \in 1 .. Len(over) : User(over[k]) \in Range(stamped)
  <2> SUFFICES ASSUME NEW k \in 1 .. Len(over) PROVE User(over[k]) \in Range(stamped) OBVIOUS
  <2>1. 2 * k - 1 \in 1 .. 2 * Len(over) /\ (2 * k - 1) % 2 = 1 /\ ((2 * k - 1) + 1) \div 2 = k
    BY <1>2
  <2>2. stamped[2 * k - 1] = User(over[k]) /\ 2 * k - 1 \in DOMAIN stamped BY <1>3, <2>1
  <2> QED BY <2>2 DEF Range
<1>7. \A t \in Turns :
        /\ t \notin Range(over) => turn[t] = NoTurn
        /\ t \in Range(over) => turn[t] = [NoTurn EXCEPT !.status = "completed", !.anchor = User(t)]
  BY DEF Init, HistoryInit
<1>8. StreamTyped
  <2>1. \A t \in Turns : TurnShape(turn[t])
    <3>1. TurnShape(NoTurn) BY DEF TurnShape, NoTurn
    <3>2. ASSUME NEW m PROVE TurnShape([NoTurn EXCEPT !.status = "completed", !.anchor = m])
      BY DEF TurnShape, NoTurn
    <3> QED BY <1>7, <3>1, <3>2
  <2>2. turn = [t \in Turns |-> turn[t]] BY DEF Init, HistoryInit
  <2>3. listening \in [Streams -> Turns \cup {None}] BY DEF Init, UpdatesInit
  <2>4. \A w \in Streams : stream[w] = Unopened BY DEF Init, StreamInit
  <2>5. StreamShape(Unopened) BY DEF StreamShape, Unopened
  <2>6. stream = [w \in Streams |-> stream[w]] BY DEF Init, StreamInit
  <2> QED BY <1>5, <2>1, <2>2, <2>3, <2>4, <2>5, <2>6 DEF StreamTyped
<1>9. Entered
  <2> SUFFICES ASSUME NEW t \in Turns, turn[t].status # "absent" PROVE Opened(t)
    BY DEF Entered
  <2>1. t \in Range(over)
    <3>1. NoTurn.status = "absent" BY DEF NoTurn
    <3> QED BY <1>7, <3>1, Zenon
  <2>2. PICK k \in DOMAIN over : t = over[k] BY <2>1 DEF Range
  <2>3. DOMAIN over = 1 .. Len(over) BY <1>1
  <2> QED BY <1>2, <1>6, <2>2, <2>3, TurnsAssumption DEF Opened
<1>10. \A w \in Streams : Follows(w)
  BY DEF Init, StreamInit, Unopened, Follows, Watching
<1> QED BY <1>8, <1>9, <1>10 DEF FollowInv

\* A step beside the streams.  What it changes of a turn, it leaves to be announced,
\* sends on its way or lets every stream of that turn miss.
LEMMA BesideStreams ==
    ASSUME FollowInv, StreamTyped', UNCHANGED <<stream, listening>>,
           \A t \in Turns : Opened(t) => Opened(t)',
           \A t \in Turns : turn'[t].status # "absent" => turn[t].status # "absent" \/ Opened(t)',
           Told \subseteq Told',
           \A t \in owed \ owed' : Listeners(t) \subseteq Told',
           \A t \in Turns : turn'[t].status # turn[t].status /\ Opened(t) =>
               t \in owed' \/ Listeners(t) \subseteq Told'
    PROVE  FollowInv'
<1> USE DEF FollowInv
<1>1. Entered' BY DEF Entered
<1>2. ASSUME NEW w \in Streams PROVE Follows(w)'
  <2> DEFINE t == stream[w].of
  <2>1. CASE ~Watching(w) BY <2>1 DEF Follows, Watching
  <2>2. CASE Watching(w)
    <3>1. t \in Turns /\ listening[w] = t /\ Opened(t) BY <2>2 DEF Follows
    <3>2. w \in Listeners(t) BY <3>1 DEF Listeners
    <3>3. w \in Told' \/ t \in owed' \/ turn'[t].status = turn[t].status BY <3>1, <3>2
    <3>4. w \in Told \/ t \in owed => w \in Told' \/ t \in owed' BY <3>2
    <3>5. stream'[w] = stream[w] /\ listening'[w] = listening[w] OBVIOUS
    <3>6. Watching(w)' BY <2>2, <3>5 DEF Watching
    <3>7. Opened(t)' BY <3>1
    <3> QED BY <3>1, <3>3, <3>4, <3>5, <3>6, <3>7 DEF Follows
  <2> QED BY <2>1, <2>2
<1> QED BY <1>1, <1>2

\* The same for a step of one turn.
LEMMA OneTurn ==
    ASSUME FollowInv, NEW t \in Turns, NEW r, TurnShape(r), turn' = [turn EXCEPT ![t] = r],
           stamped' \in Seq(Message), Range(stamped) \subseteq Range(stamped'),
           UNCHANGED <<ask, updateVars, stream>>, turn[t].status # "absent",
           \/ owed' = owed /\ r.status = turn[t].status
           \/ owed' = Owing(t)
    PROVE  FollowInv'
<1> USE DEF FollowInv
<1>1. \A u \in Turns : turn'[u] = IF u = t THEN r ELSE turn[u] BY DEF StreamTyped
<1>2. StreamTyped' BY <1>1 DEF StreamTyped, updateVars
<1>3. \A u \in Turns : Opened(u) => Opened(u)' BY DEF Opened
<1>4. \A u \in Turns : turn'[u].status # "absent" => turn[u].status # "absent" BY <1>1
<1>5. Told' = Told BY DEF Told, updateVars
<1>6. owed \subseteq owed' BY DEF Owing
<1>7. \A u \in Turns : turn'[u].status # turn[u].status =>
        u \in owed' \/ Listeners(u) \subseteq Told'
  BY <1>1 DEF Owing
<1> QED BY <1>2, <1>3, <1>4, <1>5, <1>6, <1>7, BesideStreams DEF updateVars

\* A turn just queued, and no turn at all, have a turn's shape.
LEMMA NewTurnShape == ASSUME NEW m
                      PROVE  /\ TurnShape(Queued(m)) /\ Queued(m).status = "queued"
                             /\ TurnShape(NoTurn) /\ NoTurn.status = "absent"
BY DEF TurnShape, Queued, NoTurn

\* A listener of a published turn is told of it or known to have missed it.
LEMMA PublishTells ==
    ASSUME NEW t, Publish(t)
    PROVE  UNCHANGED listening /\ Told \cup Listeners(t) \subseteq Told'
BY DEF Publish, Silent, Told

\* Posting a message preserves the followers' invariant.
LEMMA PostFollows ==
    ASSUME FollowInv, NEW p \in Posts, Post(p), UNCHANGED <<ask, stream>>
    PROVE  FollowInv'
<1> USE DEF FollowInv
<1> DEFINE r == Queued(User(p))
<1>0. p \in Turns /\ User(p) \in Message BY MessageTypes DEF Turns
<1>1. /\ turn' = [turn EXCEPT ![p] = r] /\ stamped' = Append(stamped, User(p))
      /\ User(p) \notin Range(stamped) /\ UNCHANGED <<owed, updateVars>>
  BY DEF Post
<1>2. stamped' \in Seq(Message) /\ Range(stamped') = Range(stamped) \cup {User(p)}
  BY <1>0, <1>1, Appended DEF StreamTyped
<1>3. TurnShape(r) BY NewTurnShape
<1> HIDE DEF r
<1>4. \A u \in Turns : turn'[u] = IF u = p THEN r ELSE turn[u] BY <1>1 DEF StreamTyped
<1>5. StreamTyped' BY <1>1, <1>2, <1>3, <1>4 DEF StreamTyped, updateVars
<1>6. ~Opened(p) BY <1>1 DEF Opened
<1>7. Opened(p)' BY <1>2, TurnsAssumption DEF Opened
<1>8. \A u \in Turns : Opened(u) => Opened(u)' BY <1>2 DEF Opened
<1>9. Told' = Told /\ listening' = listening BY <1>1 DEF Told, updateVars
<1>10. \A u \in Turns : turn'[u].status # "absent" => turn[u].status # "absent" \/ Opened(u)'
  BY <1>4, <1>7
<1>11. \A u \in Turns : Opened(u) => turn'[u].status = turn[u].status BY <1>4, <1>6
<1> QED BY <1>1, <1>5, <1>8, <1>9, <1>10, <1>11, BesideStreams

\* A step of a turn's execution preserves the followers' invariant.
LEMMA TurnFollows ==
    ASSUME FollowInv, NEW t \in Turns, UNCHANGED <<ask, stream>>,
           Claim(t) \/ ReadThread(t) \/ ReadMessages(t) \/ Reattempt(t) \/ Answer(t) \/ Fail(t)
    PROVE  FollowInv'
<1> USE DEF FollowInv
<1>0. /\ TurnShape(turn[t]) /\ stamped \in Seq(Message) BY DEF StreamTyped
<1>1. turn[t].status # "absent" /\ UNCHANGED updateVars
  BY DEF Claim, ReadThread, ReadMessages, Reattempt, Answer, Fail, QueuedTurns, ActiveTurns,
         Running, Live
<1>2. stamped' \in Seq(Message) /\ Range(stamped) \subseteq Range(stamped')
  <2>1. CASE stamped' = stamped BY <1>0, <2>1
  <2>2. CASE Answer(t) BY <1>0, <2>2, Appended, MessageTypes DEF Answer
  <2> QED BY <2>1, <2>2 DEF Claim, ReadThread, ReadMessages, Reattempt, Fail
<1>3. CASE Claim(t)
  <2> DEFINE r == [turn[t] EXCEPT !.status = "running", !.step = "claimed"]
  <2>1. TurnShape(r) BY <1>0 DEF TurnShape
  <2>2. turn' = [turn EXCEPT ![t] = r] BY <1>3 DEF Claim
  <2> HIDE DEF r
  <2> QED BY <1>1, <1>2, <1>3, <2>1, <2>2, OneTurn DEF Claim
<1>4. CASE ReadThread(t)
  <2> DEFINE r == [turn[t] EXCEPT !.step = "context", !.through = thread.through,
                                  !.covers = thread.covers]
  <2>1. TurnShape(r) /\ r.status = turn[t].status BY <1>0 DEF TurnShape
  <2>2. turn' = [turn EXCEPT ![t] = r] BY <1>4 DEF ReadThread
  <2> HIDE DEF r
  <2> QED BY <1>1, <1>2, <1>4, <2>1, <2>2, OneTurn DEF ReadThread
<1>5. CASE ReadMessages(t)
  <2> DEFINE r == [turn[t] EXCEPT !.step = "speaking",
                     !.window = ReplayWindow(UntilAnchor(Messages, turn[t].anchor),
                                             turn[t].through)]
  <2>1. ASSUME NEW x PROVE /\ TurnShape([turn[t] EXCEPT !.step = "speaking", !.window = x])
                           /\ [turn[t] EXCEPT !.step = "speaking", !.window = x].status
                                = turn[t].status
    BY <1>0 DEF TurnShape
  <2>2. TurnShape(r) /\ r.status = turn[t].status BY <2>1
  <2>3. turn' = [turn EXCEPT ![t] = r] BY <1>5 DEF ReadMessages
  <2> HIDE DEF r
  <2> QED BY <1>1, <1>2, <1>5, <2>2, <2>3, OneTurn DEF ReadMessages
<1>6. CASE Reattempt(t)
  <2> DEFINE r == [turn[t] EXCEPT !.step = "claimed", !.through = None, !.covers = {},
                                  !.window = <<>>]
  <2>1. TurnShape(r) /\ r.status = turn[t].status BY <1>0 DEF TurnShape
  <2>2. turn' = [turn EXCEPT ![t] = r] BY <1>6 DEF Reattempt
  <2> HIDE DEF r
  <2> QED BY <1>1, <1>2, <1>6, <2>1, <2>2, OneTurn DEF Reattempt
<1>7. CASE Answer(t) \/ Fail(t)
  <2>1. PICK s \in {"completed", "canceled", "failed"} : turn' = [turn EXCEPT ![t].status = s]
    BY <1>7 DEF Answer, Fail
  <2> DEFINE r == [turn[t] EXCEPT !.status = s]
  <2>2. TurnShape(r) BY <1>0 DEF TurnShape
  <2>3. turn' = [turn EXCEPT ![t] = r] BY <2>1
  <2> HIDE DEF r
  <2> QED BY <1>1, <1>2, <1>7, <2>2, <2>3, OneTurn DEF Answer, Fail
<1> QED BY <1>3, <1>4, <1>5, <1>6, <1>7

\* Announcing a turn's end preserves the followers' invariant.
LEMMA TellFollows ==
    ASSUME FollowInv, NEW t \in Turns, Tell(t), UNCHANGED <<ask, stream>>
    PROVE  FollowInv'
<1> USE DEF FollowInv
<1>1. /\ owed' = owed \ {t} /\ UNCHANGED <<listening, turn, stamped>>
      /\ Told \cup Listeners(t) \subseteq Told'
  BY PublishTells DEF Tell
<1>2. StreamTyped' BY <1>1 DEF StreamTyped
<1>3. \A u \in Turns : Opened(u) => Opened(u)' BY <1>1 DEF Opened
<1>4. \A u \in owed \ owed' : Listeners(u) \subseteq Told' BY <1>1
<1> QED BY <1>1, <1>2, <1>3, <1>4, BesideStreams

\* The deletion of the thread announces none of its changes: every stream misses them.
LEMMA DeleteActiveFollows ==
    ASSUME FollowInv, DeleteActive, UNCHANGED <<ask, stream>>
    PROVE  FollowInv'
<1> USE DEF FollowInv
<1>1. /\ turn' = [t \in Turns |-> IF t \in ActiveTurns THEN [turn[t] EXCEPT !.status = "canceled"]
                                  ELSE turn[t]]
      /\ missed' = missed \cup {w \in Streams : listening[w] \in ActiveTurns}
      /\ UNCHANGED <<stamped, owed, listening, heard, flight>>
  BY DEF DeleteActive
<1>2. \A t \in Turns : TurnShape(turn[t]) BY DEF StreamTyped
<1>3. ASSUME NEW t \in Turns
      PROVE  TurnShape([turn[t] EXCEPT !.status = "canceled"])
    BY <1>2 DEF TurnShape
<1>4. \A t \in Turns : TurnShape(turn'[t]) /\ (t \notin ActiveTurns => turn'[t] = turn[t])
  BY <1>1, <1>2, <1>3
<1>5. turn' = [t \in Turns |-> turn'[t]] BY <1>1
<1>6. StreamTyped' BY <1>1, <1>4, <1>5 DEF StreamTyped
<1>7. \A t \in Turns : Opened(t) => Opened(t)' BY <1>1 DEF Opened
<1>8. Told \subseteq Told' BY <1>1 DEF Told
<1>9. \A t \in Turns : turn'[t].status # "absent" => turn[t].status # "absent"
  BY <1>4 DEF ActiveTurns, Live
<1>10. \A t \in Turns : turn'[t].status # turn[t].status => Listeners(t) \subseteq Told'
  BY <1>1, <1>4 DEF Listeners, Told
<1> QED BY <1>1, <1>6, <1>7, <1>8, <1>9, <1>10, BesideStreams

\* A step of the turns and their history preserves the followers' invariant.
LEMMA HistoryFollows ==
    ASSUME FollowInv, HistoryStep, UNCHANGED <<ask, stream>>
    PROVE  FollowInv'
BY PostFollows, TurnFollows, TellFollows, DeleteActiveFollows DEF HistoryStep

\* A step that changes no turn, and loses nothing that is on its way.
LEMMA QuietFollows ==
    ASSUME FollowInv, UNCHANGED <<turn, owed, stream, listening>>, Told \subseteq Told',
           stamped' \in Seq(Message), Range(stamped) \subseteq Range(stamped'),
           \A d \in Decisions : ask[d].pc \in Written => ask'[d].pc \in Written
    PROVE  FollowInv'
<1> USE DEF FollowInv
<1>1. StreamTyped' BY DEF StreamTyped
<1>2. \A t \in Turns : Opened(t) => Opened(t)' BY DEF Opened
<1> QED BY <1>1, <1>2, BesideStreams

\* A step of the update channel preserves the followers' invariant.
LEMMA UpdatesFollow ==
    ASSUME FollowInv, UpdatesStep, UNCHANGED <<historyVars, ask, stream>>
    PROVE  FollowInv'
<1>1. listening' = listening /\ Told \subseteq Told'
  BY DEF UpdatesStep, ConsumerStarts, ConsumerDies, Deliver, Told
<1> QED BY <1>1, QuietFollows DEF historyVars, FollowInv, StreamTyped

\* A step of the summariser preserves the followers' invariant.
LEMMA SummaryFollows ==
    ASSUME FollowInv, SummaryStep, UNCHANGED <<ask, stream>>
    PROVE  FollowInv'
<1>1. UNCHANGED <<turn, owed, stamped, listening, heard, flight, missed>>
  BY DEF SummaryStep, ReadOlder, SummaryFails, FoldSummary, historyVars, updateVars
<1> QED BY <1>1, QuietFollows DEF Told, FollowInv, StreamTyped

\* An announcement takes back nothing it told.
LEMMA AnnounceTells == ASSUME Announce PROVE listening' = listening /\ Told \subseteq Told'
<1>1. CASE UNCHANGED updateVars BY <1>1 DEF updateVars, Told
<1>2. ASSUME NEW t, Publish(t) PROVE listening' = listening /\ Told \subseteq Told'
  BY <1>2, PublishTells
<1>3. ASSUME NEW t, heard' = heard \cup Listeners(t), UNCHANGED <<listening, flight, missed, consumer>>
      PROVE  listening' = listening /\ Told \subseteq Told'
  BY <1>3 DEF Told
<1> QED BY <1>1, <1>2, <1>3 DEF Announce

\* A request moves on, and its turn, if it is to have one, is still to come or there.
LEMMA RequestFollows ==
    ASSUME DecisionInv, FollowInv, NEW d \in Decisions,
           Resolve(d) \/ Reopen(d) \/ FindQueued(d) \/ Start(d) \/ AnnounceResult(d) \/ Die(d)
             \/ (\E ok \in BOOLEAN : Executed(d, ok))
             \/ (\E c \in Confirmations, choice \in {"approve", "reject"} : Decide(d, c, choice)),
           UNCHANGED stream
    PROVE  FollowInv'
<1>0. /\ ask \in [Decisions -> Asks] /\ stamped \in Seq(Message)
  BY DEF DecisionInv, Typed, FollowInv, StreamTyped
<1>1. ask[d] \in Asks BY <1>0
<1>2. \A e \in Decisions : ask[e].pc \in Written => ask'[e].pc \in Written
  <2>1. \A e \in Decisions : e # d => ask'[e] = ask[e]
    BY <1>0 DEF Resolve, Reopen, FindQueued, Start, AnnounceResult, Die, Executed, Decide, Goto
  <2>2. ASSUME ask[d].pc \in Written PROVE ask'[d].pc \in Written
    <3>1. CASE Start(d) \/ AnnounceResult(d) \/ Die(d)
      BY <1>0, <1>1, <3>1 DEF Start, AnnounceResult, Die, Goto, Asks, Written
    <3> QED BY <2>2, <3>1 DEF Resolve, Reopen, FindQueued, Executed, Decide, Written
  <2> QED BY <2>1, <2>2
<1>3. stamped' \in Seq(Message) /\ Range(stamped) \subseteq Range(stamped')
  <2>1. CASE stamped' = stamped BY <1>0, <2>1
  <2>2. CASE stamped' = Append(stamped, Tool(d))
    BY <1>0, <2>2, Appended, MessageTypes DEF Turns
  <2> QED BY <2>1, <2>2
          DEF Resolve, Reopen, FindQueued, Start, AnnounceResult, Die, Executed, Decide, historyVars
<1>4. UNCHANGED <<turn, owed>>
  BY DEF Resolve, Reopen, FindQueued, Start, AnnounceResult, Die, Executed, Decide, historyVars
<1>5. listening' = listening /\ Told \subseteq Told'
  <2>1. CASE UNCHANGED updateVars BY <2>1 DEF updateVars, Told
  <2>2. CASE AnnounceResult(d) BY <2>2, AnnounceTells DEF AnnounceResult
  <2> QED BY <2>1, <2>2 DEF Resolve, Reopen, FindQueued, Start, Die, Executed, Decide
<1> QED BY <1>2, <1>3, <1>4, <1>5, QuietFollows

\* The commit of a result opens the request's own turn, which no stream can know yet.
LEMMA RecordFollows ==
    ASSUME DecisionInv, FollowInv, NEW d \in Decisions, Record(d), UNCHANGED stream
    PROVE  FollowInv'
<1> USE DEF FollowInv
<1>0. /\ ask \in [Decisions -> Asks] /\ ask[d] \in Asks /\ ask[d].pc = "recording" /\ d \in Turns
      /\ UNCHANGED <<stamped, owed, updateVars>>
  BY DEF Record, DecisionInv, Typed, Turns
<1>1. PICK pc \in {"opened", "recorded"} :
        /\ Goto(d, pc)
        /\ \/ turn' = turn
           \/ turn' = [turn EXCEPT ![d] = Queued(Tool(d))]
  BY DEF Record
<1>2. \A e \in Decisions : e # d => ask'[e] = ask[e] BY <1>0, <1>1 DEF Goto
<1>3. ask'[d].pc \in Written BY <1>0, <1>1 DEF Goto, Asks, Written
<1>4. \A t \in Turns : Opened(t) => Opened(t)' BY <1>0, <1>2, <1>3 DEF Opened
<1>5. ~Opened(d) BY <1>0 DEF Opened, Written
<1>6. Opened(d)' BY <1>3, TurnsAssumption DEF Opened
<1>7. Told' = Told /\ listening' = listening BY <1>0 DEF updateVars, Told
<1>8. CASE turn' = turn
  BY <1>0, <1>2, <1>3, <1>7, <1>8, QuietFollows DEF StreamTyped
<1>9. CASE turn' = [turn EXCEPT ![d] = Queued(Tool(d))]
  <2> DEFINE r == Queued(Tool(d))
  <2>1. TurnShape(r) BY NewTurnShape
  <2> HIDE DEF r
  <2>2. \A t \in Turns : turn'[t] = IF t = d THEN r ELSE turn[t] BY <1>9 DEF StreamTyped, r
  <2>3. turn' = [t \in Turns |-> turn'[t]] BY <1>9 DEF StreamTyped
  <2>4. StreamTyped' BY <1>0, <1>7, <2>1, <2>2, <2>3 DEF StreamTyped
  <2>5. \A t \in Turns : turn'[t].status # "absent" => turn[t].status # "absent" \/ Opened(t)'
    BY <1>6, <2>2
  <2>6. \A t \in Turns : Opened(t) => turn'[t].status = turn[t].status BY <1>5, <2>2
  <2> QED BY <1>0, <1>4, <1>7, <2>4, <2>5, <2>6, BesideStreams
<1> QED BY <1>1, <1>8, <1>9

\* Deleting the thread preserves the followers' invariant.
LEMMA DeleteThreadFollows ==
    ASSUME FollowInv, DeleteThread, UNCHANGED stream
    PROVE  FollowInv'
<1> USE DEF FollowInv
<1>1. /\ turn' = [t \in Turns |-> NoTurn]
      /\ missed' = missed \cup {w \in Streams : listening[w] # None}
      /\ UNCHANGED <<stamped, owed, listening, heard, flight, ask>>
  BY DEF DeleteThread
<1>2. \A t \in Turns : turn'[t] = NoTurn BY <1>1
<1>3. StreamTyped' BY <1>1, <1>2, NewTurnShape DEF StreamTyped
<1>4. \A t \in Turns : Opened(t) => Opened(t)' BY <1>1 DEF Opened
<1>5. Told \subseteq Told' /\ \A t \in Turns : Listeners(t) \subseteq Told'
  BY <1>1, TurnsAssumption DEF Told, Listeners
<1>6. \A t \in Turns : turn'[t].status = "absent" BY <1>2, NewTurnShape
<1> QED BY <1>1, <1>3, <1>4, <1>5, <1>6, BesideStreams

\* A step of the confirmations preserves the followers' invariant.
LEMMA ConfirmationFollows ==
    ASSUME DecisionInv, FollowInv, ConfirmationStep, UNCHANGED stream
    PROVE  FollowInv'
<1>1. ASSUME NEW c \in Confirmations, Propose(c) PROVE FollowInv'
  <2>1. UNCHANGED <<turn, owed, stamped, ask>> BY <1>1 DEF Propose, historyVars
  <2>2. listening' = listening /\ Told \subseteq Told' BY <1>1, AnnounceTells DEF Propose
  <2> QED BY <2>1, <2>2, QuietFollows DEF FollowInv, StreamTyped
<1> QED BY <1>1, RequestFollows, RecordFollows, DeleteThreadFollows DEF ConfirmationStep

\* A step of one stream, which leaves the others what they have heard.
LEMMA OneStream ==
    ASSUME FollowInv, NEW w \in Streams, NEW r, StreamShape(r), stream' = [stream EXCEPT ![w] = r],
           UNCHANGED <<turn, owed, stamped, ask>>,
           listening' \in [Streams -> Turns \cup {None}],
           \A v \in Streams \ {w} : listening'[v] = listening[v] /\ (v \in Told => v \in Told'),
           Follows(w)'
    PROVE  FollowInv'
<1> USE DEF FollowInv
<1>1. \A v \in Streams : stream'[v] = IF v = w THEN r ELSE stream[v] BY DEF StreamTyped
<1>2. stream' = [v \in Streams |-> stream'[v]] BY DEF StreamTyped
<1>3. StreamTyped' BY <1>1, <1>2 DEF StreamTyped
<1>4. Entered' BY DEF Entered, Opened
<1>5. ASSUME NEW v \in Streams, v # w PROVE Follows(v)'
  <2>1. stream'[v] = stream[v] /\ Follows(v) BY <1>1, <1>5
  <2>2. /\ listening'[v] = listening[v] /\ (v \in Told => v \in Told')
        /\ UNCHANGED <<turn, owed>> /\ (Watching(v) <=> Watching(v)')
        /\ \A t : Opened(t) <=> Opened(t)'
    BY <1>5, <2>1 DEF Watching, Opened
  <2> QED BY <2>1, <2>2 DEF Follows
<1> QED BY <1>3, <1>4, <1>5

\* What goes off the air.
LEMMA ClosesFollows ==
    ASSUME FollowInv, NEW w \in Streams, NEW r, StreamShape(r), stream' = [stream EXCEPT ![w] = r],
           r.pc = "closed", Unsubscribe(w), UNCHANGED <<turn, owed, stamped, ask>>
    PROVE  FollowInv'
<1>1. listening' \in [Streams -> Turns \cup {None}]
  BY DEF Unsubscribe, FollowInv, StreamTyped
<1>2. \A v \in Streams \ {w} : listening'[v] = listening[v] /\ (v \in Told => v \in Told')
  BY DEF Unsubscribe, FollowInv, StreamTyped, Told
<1>3. stream'[w] = r BY DEF FollowInv, StreamTyped
<1>4. Follows(w)' BY <1>3 DEF Follows, Watching
<1> QED BY <1>1, <1>2, <1>4, OneStream

\* A step of an event stream preserves the followers' invariant.
LEMMA StreamFollows ==
    ASSUME FollowInv, StreamStep
    PROVE  FollowInv'
<1> USE DEF FollowInv
<1>0. UNCHANGED <<turn, owed, stamped, ask>>
  BY DEF StreamStep, Open, ReadExecution, SendFrame, Wake, Resend, Disconnect, othersVars,
         historyVars, confirmationVars
<1>1. PICK w \in Streams :
        \/ \E t \in Turns : Open(w, t)
        \/ ReadExecution(w) \/ SendFrame(w) \/ Wake(w) \/ Resend(w) \/ Disconnect(w)
  BY DEF StreamStep
<1>2. StreamShape(stream[w]) /\ Follows(w) BY DEF StreamTyped
<1>3. listening \in [Streams -> Turns \cup {None}] BY DEF StreamTyped
<1> DEFINE closed == [stream[w] EXCEPT !.pc = "closed"]
<1>4. StreamShape(closed) /\ closed.pc = "closed" BY <1>2 DEF StreamShape
<1>5. CASE \E t \in Turns : Open(w, t)
  <2>1. PICK t \in Turns : Open(w, t) BY <1>5
  <2> DEFINE r == [stream[w] EXCEPT !.pc = "reading", !.of = t]
  <2>2. StreamShape(r) /\ r.pc = "reading" /\ r.of = t BY <1>2 DEF StreamShape
  <2>3. stream' = [stream EXCEPT ![w] = r] BY <2>1 DEF Open
  <2> HIDE DEF r
  <2>4. listening' = [listening EXCEPT ![w] = t] /\ UNCHANGED <<heard, flight, missed>>
    BY <2>1 DEF Open, Subscribe
  <2>5. stream'[w] = r /\ listening'[w] = t BY <1>3, <2>3, <2>4 DEF StreamTyped
  <2>6. Opened(t)' BY <1>0, <2>1 DEF Open, Readable, Entered, Opened
  <2>7. Follows(w)' BY <2>2, <2>5, <2>6 DEF Follows, Watching
  <2> QED BY <1>0, <1>3, <2>2, <2>3, <2>4, <2>7, OneStream DEF Told
<1>6. CASE ReadExecution(w)
  <2>1. CASE Close(w)
    BY <1>0, <1>4, <2>1, ClosesFollows DEF Close
  <2>2. CASE /\ stream' = [stream EXCEPT ![w].pc = "read",
                                         ![w].got = turn[stream[w].of].status]
             /\ UNCHANGED updateVars
    <3> DEFINE g == turn[stream[w].of].status
               r == [stream[w] EXCEPT !.pc = "read", !.got = g]
    <3>1. StreamShape(r) /\ r.pc = "read" /\ r.got = g /\ r.of = stream[w].of
      <4>1. ASSUME NEW x PROVE LET q == [stream[w] EXCEPT !.pc = "read", !.got = x]
                               IN  /\ StreamShape(q) /\ q.pc = "read" /\ q.got = x
                                   /\ q.of = stream[w].of
        BY <1>2 DEF StreamShape
      <4> QED BY <4>1
    <3>2. stream' = [stream EXCEPT ![w] = r] BY <2>2
    <3> HIDE DEF r
    <3>3. stream'[w] = r BY <3>2 DEF StreamTyped
    <3>4. /\ stream[w].of \in Turns /\ listening[w] = stream[w].of /\ Opened(stream[w].of)
      BY <1>2, <1>6 DEF ReadExecution, Follows, Watching
    <3>5. Opened(stream[w].of)' BY <1>0, <3>1, <3>3, <3>4 DEF Opened
    <3>6. Follows(w)' BY <1>0, <2>2, <3>1, <3>3, <3>4, <3>5 DEF Follows, Watching, updateVars
    <3> QED BY <1>0, <1>3, <2>2, <3>1, <3>2, <3>6, OneStream DEF updateVars, Told
  <2> QED BY <1>6, <2>1, <2>2 DEF ReadExecution
<1>7. CASE SendFrame(w)
  <2>0. stream[w].pc = "read" /\ stream[w].of \in Turns /\ listening[w] = stream[w].of
          /\ Opened(stream[w].of)
    BY <1>2, <1>7 DEF SendFrame, Follows, Watching
  <2>1. PICK pc \in {"closed", "waiting"} :
          /\ stream' = [stream EXCEPT ![w].pc = pc, ![w].status = stream[w].got,
                                      ![w].pending = Pending]
          /\ pc = "closed" => Unsubscribe(w)
          /\ pc = "waiting" => UNCHANGED updateVars
    BY <1>7 DEF SendFrame
  <2> DEFINE r == [stream[w] EXCEPT !.pc = pc, !.status = stream[w].got, !.pending = Pending]
  <2>2. /\ StreamShape(r) /\ r.pc = pc /\ r.status = stream[w].got /\ r.of = stream[w].of
    <3>1. ASSUME NEW x, NEW y PROVE LET q == [stream[w] EXCEPT !.pc = pc, !.status = x, !.pending = y]
                                    IN  /\ StreamShape(q) /\ q.pc = pc /\ q.status = x
                                        /\ q.of = stream[w].of
      BY <1>2 DEF StreamShape
    <3> QED BY <3>1
  <2>3. stream' = [stream EXCEPT ![w] = r] BY <2>1
  <2> HIDE DEF r
  <2>4. CASE pc = "closed" BY <1>0, <2>1, <2>2, <2>3, <2>4, ClosesFollows
  <2>5. CASE pc = "waiting"
    <3>1. stream'[w] = r BY <2>3 DEF StreamTyped
    <3>2. Opened(stream[w].of)' BY <1>0, <2>0, <2>2, <3>1 DEF Opened
    <3>3. w \in Told \/ stream[w].of \in owed \/ stream[w].got = turn[stream[w].of].status
      BY <1>2, <2>0 DEF Follows
    <3>4. Told' = Told /\ listening' = listening BY <2>1, <2>5 DEF updateVars, Told
    <3>5. Follows(w)' BY <1>0, <2>0, <2>2, <2>5, <3>1, <3>2, <3>3, <3>4 DEF Follows, Watching
    <3> QED BY <1>0, <1>3, <2>2, <2>3, <3>4, <3>5, OneStream
  <2> QED BY <2>1, <2>4, <2>5
<1>8. CASE Wake(w) \/ Resend(w)
  <2>0. stream[w].pc = "waiting" /\ stream[w].of \in Turns /\ listening[w] = stream[w].of
          /\ Opened(stream[w].of)
    BY <1>2, <1>8 DEF Wake, Resend, Follows, Watching
  <2> DEFINE r == [stream[w] EXCEPT !.pc = "reading"]
  <2>1. StreamShape(r) /\ r.pc = "reading" /\ r.of = stream[w].of BY <1>2 DEF StreamShape
  <2>2. stream' = [stream EXCEPT ![w] = r] BY <1>8 DEF Wake, Resend
  <2> HIDE DEF r
  <2>3. /\ listening' = listening /\ flight' = flight
        /\ heard \ {w} \subseteq heard' /\ missed' = missed \ {w}
    BY <1>8 DEF Wake, Resend
  <2>4. \A v \in Streams \ {w} : v \in Told => v \in Told' BY <2>3 DEF Told
  <2>5. stream'[w] = r BY <2>2 DEF StreamTyped
  <2>6. Opened(stream[w].of)' BY <1>0, <2>0, <2>1, <2>5 DEF Opened
  <2>7. Follows(w)' BY <2>0, <2>1, <2>3, <2>5, <2>6 DEF Follows, Watching
  <2> QED BY <1>0, <1>3, <2>1, <2>2, <2>3, <2>4, <2>7, OneStream
<1>9. CASE Disconnect(w)
  BY <1>0, <1>4, <1>9, ClosesFollows DEF Disconnect, Close
<1> QED BY <1>1, <1>5, <1>6, <1>7, <1>8, <1>9

\* Every step preserves the followers' invariant.
LEMMA FollowStepInv == DecisionInv /\ FollowInv /\ [Next]_vars => FollowInv'
<1> SUFFICES ASSUME DecisionInv, FollowInv, [Next]_vars PROVE FollowInv' OBVIOUS
<1>1. CASE HistoryStep /\ UNCHANGED <<confirmationVars, streamVars>>
  BY <1>1, HistoryFollows DEF confirmationVars, streamVars
<1>2. CASE UpdatesStep /\ UNCHANGED <<historyVars, confirmationVars, streamVars>>
  BY <1>2, UpdatesFollow DEF confirmationVars, streamVars
<1>3. CASE SummaryStep /\ UNCHANGED <<confirmationVars, streamVars>>
  BY <1>3, SummaryFollows DEF confirmationVars, streamVars
<1>4. CASE ConfirmationStep /\ UNCHANGED streamVars
  BY <1>4, ConfirmationFollows DEF streamVars
<1>5. CASE StreamStep BY <1>5, StreamFollows
<1>6. ASSUME NEW d \in Decisions, ExecuteUpstream(d) \/ CallAnswered(d) PROVE FollowInv'
  BY <1>6, RequestFollows DEF ExecuteUpstream, CallAnswered, streamVars
<1>7. CASE UNCHANGED <<historyVars, updateVars, confirmationVars, streamVars>>
  <2>1. Told' = Told BY <1>7 DEF updateVars, Told
  <2> QED BY <1>7, <2>1, QuietFollows
          DEF historyVars, updateVars, confirmationVars, streamVars, FollowInv, StreamTyped
<1>8. (\E d \in Decisions : CallBack(d)) \/ (\E a \in Clicks : Click(a)) \/ Cleanup \/ UNCHANGED vars
        => UNCHANGED <<historyVars, updateVars, confirmationVars, streamVars>>
  BY DEF CallBack, Click, Cleanup, vars
<1> QED BY <1>1, <1>2, <1>3, <1>4, <1>5, <1>6, <1>7, <1>8 DEF Next

(* A stream that waits with nothing on its way to it, nothing left to announce    *)
(* and nothing missed has sent the state its turn is in, for any numbers of       *)
(* turns, requests and streams (stream.py frames, _await_change).                 *)
THEOREM NoChangeIsSleptThrough == Spec => []WaitingIsCurrent
<1>1. Init => DecisionInv /\ FollowInv BY InitInv, FollowInitInv
<1>2. DecisionInv /\ FollowInv /\ [Next]_vars => (DecisionInv /\ FollowInv)'
  BY StepInv, FollowStepInv
<1>3. FollowInv => WaitingIsCurrent BY DEF FollowInv, Follows, Told, WaitingIsCurrent
<1> QED BY <1>1, <1>2, <1>3, PTL DEF Spec
=================================================================================
