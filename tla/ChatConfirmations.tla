---------------------------- MODULE ChatConfirmations ---------------------------
(* Tools that need the user's word: proposed while a turn runs, decided by       *)
(* requests of their own, their result written into the thread and carried on by *)
(* a turn (chat/surface/confirmations.py, resolution.py).  Each await is a step: *)
(* the requests interleave, and the process of one may die between two of them.  *)
EXTENDS ChatSummary, ChatTools

CONSTANT Confirmations

VARIABLES
    conf,   \* chat_pending_tools: the status of each
    ask,    \* the decision requests
    late    \* results recorded behind what a summary had passed (history)

confirmationVars == <<conf, ask, late>>

Verdict(choice) == IF choice = "approve" THEN "approved" ELSE "rejected"

\* Where a request stands while it holds the confirmation it decides.
Holding == {"deciding", "failing", "resolved", "recording", "opened", "recorded"}

ConfirmationsInit ==
    /\ conf = [c \in Confirmations |-> IF c \in scene.proposed THEN "pending" ELSE "absent"]
    /\ ask = [d \in Decisions |-> [pc |-> "new", on |-> None, choice |-> "approve",
                                   held |-> FALSE, to |-> {}]]
    /\ late = {}

Goto(d, pc) == ask' = [ask EXCEPT ![d].pc = pc]

\* The change is sent on the channel of the latest active turn: to the streams of
\* this process at once, and through the broker.
Announce ==
    IF \E t \in Turns : LatestActive(t)
    THEN LET t == CHOOSE u \in Turns : LatestActive(u)
         IN  \/ /\ heard' = heard \cup Listeners(t)
                /\ UNCHANGED <<listening, flight, missed, consumer>>
             \/ Publish(t)
    ELSE UNCHANGED updateVars

------------------------------------------------------------------------------
\* propose_chat_tool, called by the model of a running turn.  A call that could not
\* be carried out is refused here, and not when the user has approved it.
Propose(c) ==
    /\ c \in scene.confirmations /\ conf[c] = "absent"
    /\ Planned(scene.tool)
    /\ thread.there
    /\ \E t \in Turns : Running(t) /\ turn[t].step = "speaking"
    /\ conf' = [conf EXCEPT ![c] = "pending"]
    /\ Announce
    /\ UNCHANGED <<historyVars, fold, ask, late>>

\* A decision request: the stamp of what it will write is taken first.
Decide(d, c, choice) ==
    /\ d \in scene.decisions /\ ask[d].pc = "new"
    /\ c \in scene.confirmations /\ conf[c] # "absent"
    /\ choice \in scene.choices
    /\ stamped' = Append(stamped, Tool(d))
    /\ ask' = [ask EXCEPT ![d].pc = IF thread.there /\ conf[c] = "pending" THEN "found"
                                    ELSE "refused",
                          ![d].on = c, ![d].choice = choice]
    /\ UNCHANGED <<scene, thread, recorded, turn, owed, updateVars, fold, conf, late>>

\* A faulty form: the claim that does not mind what became of the confirmation.
ResolveAnyStatus(d) ==
    /\ ask[d].pc = "found"
    /\ conf' = [conf EXCEPT ![ask[d].on] = Verdict(ask[d].choice)]
    /\ ask' = [ask EXCEPT ![d].held = TRUE,
                          ![d].pc = IF ask[d].choice = "approve" THEN "deciding" ELSE "resolved"]
    /\ UNCHANGED <<historyVars, updateVars, fold, late>>

\* The claim: of several requests that found it pending, one moves it.
Resolve(d) ==
    /\ ask[d].pc = "found"
    /\ IF conf[ask[d].on] = "pending"
       THEN /\ conf' = [conf EXCEPT ![ask[d].on] = Verdict(ask[d].choice)]
            /\ ask' = [ask EXCEPT ![d].held = TRUE,
                                  ![d].pc = IF ask[d].choice = "approve" THEN "deciding"
                                            ELSE "resolved"]
       ELSE Goto(d, "refused") /\ UNCHANGED conf
    /\ UNCHANGED <<historyVars, updateVars, fold, late>>

\* The call to the tool's owner has an answer: its result, or an error, a refusal
\* or silence, after which it may have been carried out all the same.
Executed(d, ok) ==
    /\ ask[d].pc = "deciding"
    /\ Goto(d, IF ok THEN "resolved" ELSE "failing")
    /\ UNCHANGED <<historyVars, updateVars, fold, conf, late>>

\* The confirmation is given back, whatever its status, and nobody is told.
Reopen(d) ==
    /\ ask[d].pc = "failing"
    /\ conf' = [conf EXCEPT ![ask[d].on] = IF @ = "absent" THEN @ ELSE "pending"]
    /\ ask' = [ask EXCEPT ![d].pc = "refused", ![d].held = FALSE]
    /\ UNCHANGED <<historyVars, updateVars, fold, late>>

\* Inside the transaction that records: is there a queued turn to read the result?
FindQueued(d) ==
    /\ ask[d].pc = "resolved"
    /\ ask' = [ask EXCEPT ![d].pc = "recording",
                          ![d].to = IF ask[d].choice = "approve" THEN QueuedTurns ELSE {}]
    /\ UNCHANGED <<historyVars, updateVars, fold, conf, late>>

\* A summary has passed the place where the message goes, or is about to, or had
\* when a turn that has yet to read the messages asked.
Passed(m) ==
    LET points == {thread.through} \cup
                  {Last(fold[t].older) : t \in {u \in Turns : fold[u].pc = "summarizing"}} \cup
                  {turn[t].through : t \in {u \in Turns : turn[u].step = "context"}}
    IN  \E x \in points : Place(x, stamped) > Place(m, stamped)

\* The commit: the result's message, and a turn when nobody else is to read it.
\* Nothing asks whether the thread is still there.
Record(d) ==
    /\ ask[d].pc = "recording"
    /\ recorded' = recorded \cup {Tool(d)}
    /\ late' = IF Passed(Tool(d)) THEN late \cup {Tool(d)} ELSE late
    /\ IF ask[d].choice = "approve" /\ ask[d].to = {}
       THEN turn' = [turn EXCEPT ![d] = Queued(Tool(d))] /\ Goto(d, "opened")
       ELSE UNCHANGED turn /\ Goto(d, "recorded")
    /\ UNCHANGED <<scene, thread, stamped, owed, updateVars, fold, conf>>

\* Temporal is told of the new turn; when it refuses, nobody hears of the result.
Start(d) ==
    /\ ask[d].pc = "opened"
    /\ \/ Goto(d, "recorded")
       \/ Goto(d, "failed")
    /\ UNCHANGED <<historyVars, updateVars, fold, conf, late>>

AnnounceResult(d) ==
    /\ ask[d].pc = "recorded"
    /\ Goto(d, "done")
    /\ Announce
    /\ UNCHANGED <<historyVars, fold, conf, late>>

\* The API process of a request dies.
Die(d) ==
    /\ scene.dies /\ ask[d].pc \in Holding \cup {"found"}
    /\ Goto(d, "died")
    /\ UNCHANGED <<historyVars, updateVars, fold, conf, late>>

\* delete_thread: the thread and all that belongs to it, in one transaction.
DeleteThread ==
    /\ thread.there /\ thread.closing
    /\ thread' = [thread EXCEPT !.there = FALSE]
    /\ recorded' = {}
    /\ turn' = [t \in Turns |-> NoTurn]
    /\ conf' = [c \in Confirmations |-> "absent"]
    /\ missed' = missed \cup {w \in Streams : listening[w] # None}
    /\ UNCHANGED <<scene, stamped, owed, listening, heard, flight, consumer, fold, ask, late>>

ConfirmationStep ==
    \/ \E c \in Confirmations : Propose(c)
    \/ \E d \in Decisions :
          \/ \E c \in Confirmations, choice \in {"approve", "reject"} : Decide(d, c, choice)
          \/ Resolve(d) \/ Reopen(d) \/ FindQueued(d) \/ Record(d) \/ Start(d)
          \/ AnnounceResult(d) \/ Die(d)
    \/ DeleteThread
=================================================================================
