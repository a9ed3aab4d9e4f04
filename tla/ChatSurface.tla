------------------------------- MODULE ChatSurface ------------------------------
(* A chat thread as its user meets it: turns, summaries, confirmations, event    *)
(* streams, and the cleanup suggestions, which the user resolves directly or by  *)
(* approving the chat's propose_cleanup_write, whose call comes back to this     *)
(* service as any caller's would (surface/tool_calls.py, tool_client.py).        *)
EXTENDS ChatStream, CleanupSuggestions

CONSTANT Clicks   \* accept and dismiss calls of the user's own

vars == <<historyVars, updateVars, fold, confirmationVars, streamVars, cleanupVars>>

Init ==
    /\ HistoryInit /\ UpdatesInit /\ SummaryInit /\ ConfirmationsInit /\ StreamInit
    /\ CleanupInit

\* Of the tools whose paths are this service's own, the one whose owner is composed
\* here: the accept and the dismiss of a cleanup suggestion.
CallsBack == scene.tool.tool = "propose_cleanup_write"

\* The approved tool's owner is elsewhere, the tracer for most: nothing of it is seen
\* here but the answer.
ExecuteUpstream(d) ==
    /\ ~CallsBack
    /\ \E ok \in BOOLEAN : Executed(d, ok)
    /\ UNCHANGED <<streamVars, cleanupVars>>

\* The approved call comes back to this service: it runs beside the request, ...
CallBack(d) ==
    /\ CallsBack /\ ask[d].pc = "deciding"
    /\ \E s \in Suggestions : IF scene.tool.action = "accept" THEN AcceptCleanup(d, s)
                              ELSE DismissCleanup(d, s)
    /\ UNCHANGED <<historyVars, updateVars, fold, confirmationVars, streamVars>>

\* ... which waits for the answer, but not for ever.
CallAnswered(d) ==
    /\ CallsBack
    /\ \/ call[d].pc = "answered" /\ Executed(d, TRUE)
       \/ call[d].pc # "new" /\ Executed(d, FALSE)
    /\ UNCHANGED <<streamVars, cleanupVars>>

\* The user's own click.
Click(a) ==
    /\ CallsBack
    /\ \E s \in Suggestions : AcceptCleanup(a, s) \/ DismissCleanup(a, s)
    /\ UNCHANGED <<historyVars, updateVars, fold, confirmationVars, streamVars>>

Cleanup ==
    /\ CallsBack
    /\ Event \/ ScanStep \/ \E a \in Callers : CallStep(a)
    /\ UNCHANGED <<historyVars, updateVars, fold, confirmationVars, streamVars>>

Next ==
    \/ /\ HistoryStep
       /\ UNCHANGED <<fold, confirmationVars, streamVars, cleanupVars>>
    \/ /\ UpdatesStep
       /\ UNCHANGED <<historyVars, fold, confirmationVars, streamVars, cleanupVars>>
    \/ /\ SummaryStep
       /\ UNCHANGED <<confirmationVars, streamVars, cleanupVars>>
    \/ /\ ConfirmationStep
       /\ UNCHANGED <<streamVars, cleanupVars>>
    \/ /\ StreamStep
       /\ UNCHANGED cleanupVars
    \/ \E d \in Decisions : ExecuteUpstream(d) \/ CallBack(d) \/ CallAnswered(d)
    \/ \E a \in Clicks : Click(a)
    \/ Cleanup

Spec == Init /\ [][Next]_vars

\* The event loop runs a stream on, and the resend interval passes.  Nothing else
\* is assumed: no signal need ever arrive.
Watched(w) == (ReadExecution(w) \/ SendFrame(w) \/ Resend(w)) /\ UNCHANGED cleanupVars

FairSpec == Spec /\ \A w \in Streams : WF_vars(Watched(w))

------------------------------------------------------------------------------
(* Properties.                                                                *)

Holds(d) == ask[d].held

\* Of the requests that decide a confirmation, one holds it, however many found it
\* pending and whichever died, until the owner of the tool refuses the call; and
\* once a result is in the thread the confirmation keeps the status it came from
\* (resolution.py _claim, _decide, _record).
DecidedOnce ==
    /\ \A c \in Confirmations : Cardinality({d \in Decisions : Holds(d) /\ ask[d].on = c}) <= 1
    /\ thread.there => \A d \in Decisions :
          Tool(d) \in recorded => conf[ask[d].on] = Verdict(ask[d].choice)

\* The replay a turn is given holds its own anchor, and of every message then
\* stored before it the message or a summary that folded it, unless the window was
\* cut at the limit or the message was written behind the point of a summary
\* (replay.py build_chat_replay, summary.py).
Complete(t) ==
    LET given == Range(turn[t].window) \cup turn[t].covers \cup late
    IN  /\ turn[t].anchor \in Range(turn[t].window)
        /\ \/ Len(turn[t].window) = MaxReplay
           \/ Range(UntilAnchor(Messages, turn[t].anchor)) \subseteq given

ReplayIsComplete ==
    [][\A t \in Turns : turn[t].step = "context" /\ turn'[t].step = "speaking" => Complete(t)']_vars

\* A stream that waits, with nothing on its way to it and nothing it missed, has
\* sent the state its turn is in (stream.py frames, _await_change).
WaitingIsCurrent ==
    \A w \in Streams :
       /\ stream[w].pc = "waiting"
       /\ w \notin heard \cup flight \cup missed
       /\ stream[w].of \notin owed
       => stream[w].status = turn[stream[w].of].status

Watching(w) == stream[w].pc \in {"reading", "read", "waiting"}

\* Whatever is lost of the updates, a stream shows the end of its turn, or that it
\* is gone, by closing, and shows a confirmation that stays pending.
StreamCatchesUp ==
    \A w \in Streams :
       /\ (Watching(w) /\ turn[stream[w].of].status \in Terminal \cup {"absent"}) ~> ~Watching(w)
       /\ \A c \in Confirmations :
             (Watching(w) /\ conf[c] = "pending") ~>
                (~Watching(w) \/ conf[c] # "pending" \/ c \in stream[w].pending)

\* A suggestion stays accepted only if its task was archived, but for a call that
\* is still at it, died at it, or could not take the acceptance back (service.py
\* accept_cleanup_suggestion).
AcceptedIsArchived ==
    \A s \in Suggestions : suggestion[s].status = "accepted" /\ ~task.archived =>
       \E a \in Callers : s \in call[a].on /\ call[a].pc \in {"archiving", "reverting", "lost", "stuck"}

\* What the comment over the follow-up turn says (resolution.py:183): a turn that
\* has not read its context yet takes the result into its history.
QueuedTurnReadsResult ==
    [][\A t \in Turns : turn[t].step = "context" /\ turn'[t].step = "speaking" =>
          \A d \in Decisions : t \in ask[d].to /\ Tool(d) \in recorded =>
             Tool(d) \in Range(turn'[t].window) \cup turn'[t].covers]_vars
=================================================================================
