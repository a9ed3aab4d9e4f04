------------------------------- MODULE ChatHistory ------------------------------
(* The messages and turns of one chat thread: posting, what a turn reads before  *)
(* it speaks, its answer, the thread's deletion.  The workflows behind a turn    *)
(* are module ChatTurn's; here a turn is queued, runs, reads and ends.           *)
EXTENDS ChatReplay, ChatUpdates

CONSTANTS
    Posts,          \* messages the user posts, each opening a turn
    Decisions,      \* requests that decide a confirmation
    Scenarios       \* what the runs of the model consider

Turns == Posts \cup Decisions       \* a decision may open a turn of its own

\* A message and a request never share an id, and what is over was posted.
ASSUME TurnsAssumption ==
    /\ Posts \cap Decisions = {} /\ None \notin Turns
    /\ \A s \in Scenarios : s.over \in Seq(Posts)

Live  == {"queued", "running"}

VARIABLES
    scene,      \* the scenario
    thread,     \* there; how far its deletion is; the summary and its point
    stamped,    \* messages in the order their time stamps were taken
    recorded,   \* messages in the ledger
    turn,       \* chat_executions, and what the worker of each has read
    owed        \* turns whose change the worker has yet to announce

historyVars == <<scene, thread, stamped, recorded, turn, owed>>

User(p)      == [role |-> "user", of |-> p]
Tool(d)      == [role |-> "tool", of |-> d]
Assistant(t) == [role |-> "assistant", of |-> t]

NoTurn == [status |-> "absent", step |-> "none", anchor |-> None,
           through |-> None, covers |-> {}, window |-> <<>>]

\* The thread may begin with turns that are over.
HistoryInit ==
    /\ scene \in Scenarios
    /\ thread = [there |-> TRUE, closing |-> FALSE, through |-> None, covers |-> {}]
    /\ stamped = [i \in 1 .. 2 * Len(scene.over) |->
                     LET t == scene.over[(i + 1) \div 2]
                     IN  IF i % 2 = 1 THEN User(t) ELSE Assistant(t)]
    /\ recorded = Range(stamped) /\ owed = {}
    /\ turn = [t \in Turns |-> IF t \in Range(scene.over)
                               THEN [NoTurn EXCEPT !.status = "completed", !.anchor = User(t)]
                               ELSE NoTurn]

\* The thread's messages by created_at.
Messages == SelectSeq(stamped, LAMBDA m : m \in recorded)

Queued(anchor) == [NoTurn EXCEPT !.status = "queued", !.anchor = anchor]

QueuedTurns  == {t \in Turns : turn[t].status = "queued"}
ActiveTurns  == {t \in Turns : turn[t].status \in Live}
Running(t)   == turn[t].status = "running"
Earlier(t, u) == Place(turn[t].anchor, stamped) < Place(turn[u].anchor, stamped)

\* What is left to announce once t has changed; an announcement that no stream
\* subscribed in time for is not followed.
Owing(t) == IF Listeners(t) = {} THEN owed ELSE owed \cup {t}

\* The turn whose stream hears of a change to the thread: the latest active one.
LatestActive(t) == t \in ActiveTurns /\ \A u \in ActiveTurns \ {t} : Earlier(u, t)

------------------------------------------------------------------------------
Post(p) ==
    /\ p \in scene.posts
    /\ User(p) \notin Range(stamped)
    /\ thread.there /\ ActiveTurns = {}
    /\ stamped' = Append(stamped, User(p))
    /\ recorded' = recorded \cup {User(p)}
    /\ turn' = [turn EXCEPT ![p] = Queued(User(p))]
    /\ UNCHANGED <<scene, thread, owed, updateVars>>

\* The oldest queued turn takes the thread's one running seat.
Claim(t) ==
    /\ t \in QueuedTurns
    /\ \A u \in Turns : ~Running(u)
    /\ \A u \in QueuedTurns \ {t} : Earlier(t, u)
    /\ turn' = [turn EXCEPT ![t].status = "running", ![t].step = "claimed"]
    /\ owed' = Owing(t)
    /\ UNCHANGED <<scene, thread, stamped, recorded, updateVars>>

\* The two reads of the replay; READ COMMITTED lets writes in between.
ReadThread(t) ==
    /\ Running(t) /\ turn[t].step = "claimed"
    /\ thread.there
    /\ turn' = [turn EXCEPT ![t].step = "context", ![t].through = thread.through,
                            ![t].covers = thread.covers]
    /\ UNCHANGED <<scene, thread, stamped, recorded, owed, updateVars>>

ReadMessages(t) ==
    /\ Running(t) /\ turn[t].step = "context"
    /\ turn[t].anchor \in recorded
    /\ turn' = [turn EXCEPT ![t].step = "speaking",
                            ![t].window = ReplayWindow(UntilAnchor(Messages, turn[t].anchor),
                                                       turn[t].through)]
    /\ UNCHANGED <<scene, thread, stamped, recorded, owed, updateVars>>

\* The attempt is lost, and the next one reads again.
Reattempt(t) ==
    /\ scene.fails
    /\ Running(t) /\ turn[t].step \in {"context", "speaking"}
    /\ turn' = [turn EXCEPT ![t].step = "claimed", ![t].through = None, ![t].covers = {},
                            ![t].window = <<>>]
    /\ owed' = Owing(t)
    /\ UNCHANGED <<scene, thread, stamped, recorded, updateVars>>

\* A cancelled turn keeps the answer it had begun.
Answer(t) ==
    /\ Running(t) /\ turn[t].step = "speaking"
    /\ thread.there
    /\ stamped' = Append(stamped, Assistant(t))
    /\ recorded' = recorded \cup {Assistant(t)}
    /\ \/ turn' = [turn EXCEPT ![t].status = "completed"]
       \/ scene.fails /\ turn' = [turn EXCEPT ![t].status = "canceled"]
    /\ owed' = Owing(t)
    /\ UNCHANGED <<scene, thread, updateVars>>

\* Failed, or cancelled before a word was written.
Fail(t) ==
    /\ scene.fails \/ ~thread.there
    /\ t \in ActiveTurns
    /\ turn' = [turn EXCEPT ![t].status = "failed"]
    /\ owed' = Owing(t)
    /\ UNCHANGED <<scene, thread, stamped, recorded, updateVars>>

\* The worker announces what it has committed.
Tell(t) ==
    /\ t \in owed
    /\ owed' = owed \ {t}
    /\ Publish(t)
    /\ UNCHANGED <<scene, thread, stamped, recorded, turn>>

\* Deletion first cancels the open turns, and announces none of it.
DeleteActive ==
    /\ scene.deletes /\ thread.there /\ ~thread.closing
    /\ thread' = [thread EXCEPT !.closing = TRUE]
    /\ turn' = [t \in Turns |-> IF t \in ActiveTurns THEN [turn[t] EXCEPT !.status = "canceled"]
                                ELSE turn[t]]
    /\ missed' = missed \cup {w \in Streams : listening[w] \in ActiveTurns}
    /\ UNCHANGED <<scene, stamped, recorded, owed, listening, heard, flight, consumer>>

HistoryStep ==
    \/ \E p \in Posts : Post(p)
    \/ \E t \in Turns : \/ Claim(t) \/ ReadThread(t) \/ ReadMessages(t) \/ Reattempt(t)
                        \/ Answer(t) \/ Fail(t) \/ Tell(t)
    \/ DeleteActive
=================================================================================
