------------------------------- MODULE ChatSummary ------------------------------
(* The summary of a thread's older messages, made after a turn is recorded       *)
(* (worker/agents/chat/summary.py).  The model's call lies between the read and  *)
(* the write, and a finalize attempt given up for lost goes on beside the next   *)
(* turn, so two summaries may be on their way.                                   *)
EXTENDS ChatHistory

VARIABLE fold   \* fold[t]: the summary made after turn t, and what it folds

Unfolded == [pc |-> "none", older |-> <<>>]

SummaryInit == fold = [t \in Turns |-> Unfolded]

\* The thread may be below the threshold of a summary, which counts messages and
\* characters.
ReadOlder(t) ==
    /\ t \in scene.summaries /\ thread.there
    /\ turn[t].status = "completed" /\ fold[t].pc = "none"
    /\ MessagesToFold(Messages) # <<>>
    /\ fold' = [fold EXCEPT ![t] = [pc |-> "summarizing", older |-> MessagesToFold(Messages)]]
    /\ UNCHANGED <<historyVars, updateVars>>

\* The model fails, or writes nothing: the turn does not mind.
SummaryFails(t) ==
    /\ scene.fails
    /\ fold[t].pc = "summarizing"
    /\ fold' = [fold EXCEPT ![t] = [Unfolded EXCEPT !.pc = "done"]]
    /\ UNCHANGED <<historyVars, updateVars>>

\* A faulty form: the summary's point is the newest message it found.
FoldSummaryToEnd(t) ==
    /\ fold[t].pc = "summarizing"
    /\ thread' = IF thread.there THEN [thread EXCEPT !.through = Last(Messages),
                                                     !.covers = Range(fold[t].older)]
                 ELSE thread
    /\ fold' = [fold EXCEPT ![t] = [Unfolded EXCEPT !.pc = "done"]]
    /\ UNCHANGED <<scene, stamped, recorded, turn, owed, updateVars>>

\* Body and point are written together, over whatever is there.
FoldSummary(t) ==
    /\ fold[t].pc = "summarizing"
    /\ thread' = IF thread.there THEN [thread EXCEPT !.through = Last(fold[t].older),
                                                     !.covers = Range(fold[t].older)]
                 ELSE thread
    /\ fold' = [fold EXCEPT ![t] = [Unfolded EXCEPT !.pc = "done"]]
    /\ UNCHANGED <<scene, stamped, recorded, turn, owed, updateVars>>

SummaryStep == \E t \in Turns : ReadOlder(t) \/ SummaryFails(t) \/ FoldSummary(t)
=================================================================================
