-------------------------------- MODULE ChatAgent --------------------------------
(* One chat turn inside its activity: the context is loaded, the conversation is *)
(* held with the model and its tools, and the answer is settled.                 *)
(*                                                                              *)
(* Unlike a job's, the conversation itself is what is saved after every step,    *)
(* and an attempt opens with a budget and a turn limit of its own.  A dialog is  *)
(* a sequence of what was said: "earlier" stands for the history before this     *)
(* turn, "latest" for the line to answer with its context prompt.                *)
EXTENDS AgentRun, SequencesExt

CONSTANTS
    ChatScenarios,  \* the turns to consider: "earlier" is whether the thread has a history,
                    \* "wired" whether the request names the services to ask
    ContextTries,   \* tries of loading the context
    ToolTries       \* tries of a tool call whose answer does not arrive

ASSUME ChatScenariosAssumption == \A s \in ChatScenarios : s.kind = "chat" /\ Priced(s)

Turn == "converse"

ChatAttempt(n) ==
    [number |-> n, phase |-> "open", step |-> "load", tries |-> 1, resumed |-> FALSE]

\* What an attempt begins with; the rows proposed so far are in the ledger.
ChatChannels(rows) ==
    [dialog |-> <<>>, said |-> <<>>, proposals |-> {}, rows |-> rows, result |-> None]

ChatInit ==
    /\ run \in ChatScenarios
    /\ account = [max |-> run.limits.usd, spent |-> 0, peak |-> 0]
    /\ attempt = ChatAttempt(1)
    /\ channels = ChatChannels({})
    /\ tasks = <<>>
    /\ saved = None
    /\ observed = [read |-> {}, paid |-> 0, lost |-> 0, loops |-> 0, failed |-> FALSE]

At(step) == Running /\ attempt.step = step

---------------------------------------------------------------------------------
(* Loading the context.  A connection error is tried again, a refusal is not.    *)
LoadContext ==
    /\ At("load")
    /\ attempt' = [attempt EXCEPT !.step = "seed"]
    /\ UNCHANGED <<loopVars, channels, saved>>

ContextUnreached ==
    /\ At("load")
    /\ run.wired
    /\ "unread" \in run.answers
    /\ attempt.tries < ContextTries
    /\ attempt' = [attempt EXCEPT !.tries = @ + 1]
    /\ UNCHANGED <<loopVars, channels, saved>>

ContextRefused ==
    /\ At("load")
    /\ run.wired
    /\ "unread" \in run.answers
    /\ EndRun("failed")

---------------------------------------------------------------------------------
(* Seeding.  The history is saved before the line to answer is put in; whoever   *)
(* finds something saved takes it for the whole conversation and adds nothing.   *)
Earlier == IF run.earlier THEN <<"earlier">> ELSE <<>>

\* Variant: what is saved is not looked at.
SeedAlways ==
    /\ At("seed")
    /\ channels' = [channels EXCEPT !.dialog = (IF saved = None THEN <<>> ELSE saved) \o Earlier]
    /\ saved' = channels'.dialog
    /\ attempt' = [attempt EXCEPT !.step = "input"]
    /\ UNCHANGED loopVars

SeedCheckpoint ==
    /\ At("seed")
    /\ channels' = [channels EXCEPT !.dialog = IF saved # None THEN saved ELSE Earlier]
    /\ saved' = IF saved = None /\ run.earlier THEN Earlier ELSE saved
    /\ attempt' = [attempt EXCEPT !.step = "input", !.resumed = saved # None]
    /\ UNCHANGED loopVars

OpenTurn ==
    LET lease == Lease(run.limits.turns, run.limits.usd) IN
    /\ At("input")
    /\ channels' = [channels EXCEPT !.dialog = IF attempt.resumed THEN @ ELSE Append(@, "latest")]
    /\ tasks' = [k \in {Turn} |->
                   [node |-> Turn, lease |-> lease, tools |-> TRUE, tries |-> 1,
                    stage |-> "running", loop |-> NewLoop(lease.usd), update |-> None]]
    /\ attempt' = [attempt EXCEPT !.step = Turn]
    /\ observed' = [observed EXCEPT !.loops = @ + 1]
    /\ UNCHANGED <<run, account, saved>>

---------------------------------------------------------------------------------
(* The model's answers.  The calls, the ceilings and the turn limit are those of *)
(* every loop; text ends this one, and so does the limit.                        *)
Loop == tasks[Turn].loop

Tools == {"read", "recall", "write"}

\* A message is part of the conversation unless the call that brought it is cut off.
Says(step, m) ==
    channels' = IF tasks'[Turn].loop.phase \in {"budget", "truncated"} THEN channels
                ELSE [channels EXCEPT !.dialog = Append(@, step), !.said = Append(@, m)]

ChatText(cost, text) ==
    LET l == Charged(Loop, cost) IN
    /\ Settle(Turn, cost, FALSE, [l EXCEPT !.phase = "output", !.turns = @ + 1])
    /\ Says("answer", [calls |-> FALSE, text |-> text])
    /\ UNCHANGED run

ChatCall(cost, tool, text) ==
    LET l == Charged(Loop, cost) IN
    /\ ~Loop.landed
    /\ Settle(Turn, cost, FALSE, [l EXCEPT !.phase = tool, !.turns = @ + 1])
    /\ Says("call", [calls |-> TRUE, text |-> text])
    /\ UNCHANGED run

\* A tool call nobody answered: new input starts at the model and drops the tool's step.
Dangling == channels.dialog # <<>> /\ Last(channels.dialog) = "call"

ChatAnswer ==
    /\ Asking(Turn)
    /\ \/ /\ ~Dangling
          /\ \E c \in run.costs :
                \/ \E text \in {TRUE} \cup (IF "silent" \in run.answers THEN {FALSE} ELSE {}) :
                      \/ ChatText(c, text)
                      \/ \E tool \in Tools \cap run.answers : ChatCall(c, tool, text)
                \/ "truncated" \in run.answers /\ Truncate(Turn, c) /\ UNCHANGED channels
       \/ /\ \/ Dangling /\ Lose(Turn)
             \/ "unpriced" \in run.answers /\ Unpriced(Turn, FALSE)
             \/ "unavailable" \in run.answers /\ Unavailable(Turn)
             \/ "lost" \in run.answers /\ Lose(Turn)
          /\ UNCHANGED channels
    /\ UNCHANGED <<attempt, saved>>

AskChat ==
    /\ At(Turn)
    /\ Ask(Turn) \/ ReachTurnLimit(Turn)
    /\ UNCHANGED <<channels, attempt, saved>>

---------------------------------------------------------------------------------
(* Tools.  A write is not carried out but put before the user, as a row that     *)
(* waits for a decision; the answer cites it by its id.  A tool that was given   *)
(* no service to ask says so.                                                    *)
Tooling == At(Turn) /\ Loop.phase \in Tools

NewProposal(heard) ==
    [id |-> Cardinality(channels.rows) + 1, attempt |-> attempt.number, heard |-> heard]

ToolAnswered ==
    /\ tasks' = [tasks EXCEPT ![Turn].loop.phase = "ready", ![Turn].tries = 1]
    /\ UNCHANGED <<run, account, observed, attempt, saved>>

\* What was found, or why nothing was, is a result the model reads; so is a refusal.
ResultReturns(tool) ==
    /\ Tooling
    /\ Loop.phase = tool
    /\ channels' = [channels EXCEPT !.dialog = Append(@, "result")]
    /\ ToolAnswered

ReadReturns == ResultReturns("read")

RecallReturns == ResultReturns("recall")

WriteRefused == ResultReturns("write")

\* Variant: the id of the row is not kept.
ProposeForgotten ==
    /\ Tooling
    /\ run.wired
    /\ Loop.phase = "write"
    /\ channels' = [channels EXCEPT !.dialog = Append(@, "result"),
                                    !.rows = @ \cup {NewProposal(TRUE)}]
    /\ ToolAnswered

Propose ==
    /\ Tooling
    /\ run.wired
    /\ Loop.phase = "write"
    /\ \E row \in {NewProposal(TRUE)} :
          channels' = [channels EXCEPT !.dialog = Append(@, "result"),
                                       !.rows = @ \cup {row},
                                       !.proposals = @ \cup {row.id}]
    /\ ToolAnswered

\* No answer arrives, whether the row was inserted or not; the same call is made again.
ToolUnreached ==
    /\ Tooling
    /\ run.wired
    /\ "unreached" \in run.answers
    /\ \/ UNCHANGED channels
       \/ /\ Loop.phase = "write"
          /\ channels' = [channels EXCEPT !.rows = @ \cup {NewProposal(FALSE)}]
    /\ tasks' = IF tasks[Turn].tries < ToolTries
                THEN [tasks EXCEPT ![Turn].tries = @ + 1]
                ELSE [tasks EXCEPT ![Turn].loop.phase = "lost"]
    /\ UNCHANGED <<run, account, observed, attempt, saved>>

---------------------------------------------------------------------------------
(* The end of the conversation.  Saves still under way are waited for.           *)
EndTurn ==
    /\ At(Turn)
    /\ Loop.phase \in {"output", "limit"}
    /\ saved' = channels.dialog
    /\ attempt' = [attempt EXCEPT !.step = "settle"]
    /\ UNCHANGED <<loopVars, channels>>

Again == IF attempt.number < run.attempts THEN "retry" ELSE "failed"

\* Only an unavailable provider is worth another attempt of the activity.
FailTurn ==
    /\ At(Turn)
    /\ Loop.phase \in {"budget", "truncated", "lost", "transient"}
    /\ saved' = channels.dialog
    /\ attempt' = [attempt EXCEPT !.phase = IF Loop.phase = "transient" THEN Again ELSE "failed"]
    /\ UNCHANGED <<loopVars, channels>>

\* The conversation passes its share of the deadline.
TurnTooLong ==
    /\ At(Turn)
    /\ "late" \in run.answers
    /\ Asking(Turn) \/ Tooling
    /\ EndRun("failed")

\* The last text without a tool call, or else the last text at all; None without any.
FinalText(said) ==
    LET texts == {i \in DOMAIN said : said[i].text}
        last  == {i \in texts : ~said[i].calls}
    IN  CASE last # {} -> Max(last)
          [] last = {} /\ texts # {} -> Max(texts)
          [] OTHER -> None

\* The saved conversation is forgotten, if the database lets it.
SettleTurn ==
    /\ At("settle")
    /\ channels' = [channels EXCEPT !.result = [text |-> FinalText(channels.said),
                                                cites |-> channels.proposals]]
    /\ saved' \in {None, saved}
    /\ attempt' = [attempt EXCEPT !.step = "deliver"]
    /\ UNCHANGED loopVars

\* An answer without text is an error, and worth another attempt.
DeliverTurn ==
    /\ At("deliver")
    /\ EndRun(IF channels.result.text = None THEN Again ELSE "done")

---------------------------------------------------------------------------------
SaveTurn ==
    /\ At("input") \/ At(Turn)
    /\ attempt.number < run.attempts
    /\ saved' = channels.dialog
    /\ saved' # saved
    /\ UNCHANGED <<loopVars, channels, attempt>>

\* Nothing of what an attempt spent or proposed is known to the next one.
ResumeTurn ==
    /\ attempt.phase = "retry"
    /\ attempt' = ChatAttempt(attempt.number + 1)
    /\ account' = [account EXCEPT !.spent = 0, !.peak = 0]
    /\ channels' = ChatChannels(channels.rows)
    /\ tasks' = <<>>
    /\ UNCHANGED <<run, saved, observed>>

TurnWork ==
    \/ LoadContext \/ ContextUnreached \/ ContextRefused
    \/ SeedCheckpoint \/ OpenTurn
    \/ AskChat \/ (At(Turn) /\ ChatAnswer)
    \/ ReadReturns \/ RecallReturns \/ WriteRefused \/ Propose \/ ToolUnreached
    \/ EndTurn \/ FailTurn \/ TurnTooLong \/ SettleTurn \/ DeliverTurn
    \/ ResumeTurn

---------------------------------------------------------------------------------
(* Jobs and turns together: what the agents of a worker do.                      *)
IsTurn == run.kind = "chat"

AgentsInit == Init \/ ChatInit

AgentsWork == (~IsTurn /\ Work) \/ (IsTurn /\ TurnWork)

AgentsNext ==
    \/ AgentsWork
    \/ Crash
    \/ ~IsTurn /\ Save
    \/ IsTurn /\ SaveTurn
    \/ Ending

AgentsSpec == AgentsInit /\ [][AgentsNext]_vars /\ WF_vars(AgentsWork)

---------------------------------------------------------------------------------
(* Properties.                                                                   *)

(* Whatever attempts before it left behind, an attempt asks the model about each *)
(* part of the conversation once and in its order: the history, the line to      *)
(* answer, and every tool's result after its call (seed_checkpoint, _seed).      *)
ConversationOnce ==
    LET dialog == channels.dialog
        places(part) == {i \in DOMAIN dialog : dialog[i] = part}
    IN  IsTurn =>
          /\ places("earlier") \subseteq {1}
          /\ Cardinality(places("latest")) <= 1
          /\ \A i \in places("latest") : \A j \in DOMAIN dialog : j < i => dialog[j] = "earlier"
          /\ \A i \in places("result") : i > 1 /\ dialog[i - 1] = "call"

(* A row that waits for the user's decision is cited by the answer the user      *)
(* gets, so that it can be decided on; only a row whose insertion was never      *)
(* heard of, or one that a lost attempt proposed, is not (ChatProposalTool,      *)
(* SettleStep).                                                                  *)
WaitingIsCited ==
    IsTurn /\ channels.result # None =>
        /\ channels.result.cites \subseteq {row.id : row \in channels.rows}
        /\ \A row \in channels.rows :
              \/ row.id \in channels.result.cites
              \/ ~row.heard
              \/ row.attempt < attempt.number

(* What the code says of a resumed attempt: the tail an attempt before it put in *)
(* is already there, so the model is never asked without the line to answer.     *)
TailCarried == IsTurn /\ At(Turn) /\ Asking(Turn) => Contains(channels.dialog, "latest")
=================================================================================
