------------------------------- MODULE ChatReplay -------------------------------
(* Which stored messages a turn is given back, and which of them a summary folds *)
(* (chat/surface/replay.py).  A message sequence is in the ledger's order, by    *)
(* time stamp.  The pairing of tool calls with their answers is left out: a      *)
(* result goes into the replay with its pair or without.                         *)
EXTENDS Naturals, FiniteSetsExt, SequencesExt

CONSTANTS
    RecentKeep,     \* recentKeepCount: turns a summary leaves alone
    MaxReplay       \* maxReplayMessages: the most messages a turn is given

ASSUME ReplayAssumption == {RecentKeep, MaxReplay} \subseteq Nat \ {0}

\* The place of a message, 0 when it is not there.
Place(message, messages) == SelectInSeq(messages, LAMBDA m : m = message)

UntilAnchor(messages, anchor) == SubSeq(messages, 1, Place(anchor, messages))

\* The messages after the summarized ones; all of them when the point is not here.
AfterSummary(messages, through) ==
    SubSeq(messages, Place(through, messages) + 1, Len(messages))

ReplayWindow(messages, through) ==
    LET after == AfterSummary(messages, through)
        cut   == Len(after) - MaxReplay
    IN  IF cut > 0 THEN SubSeq(after, cut + 1, Len(after)) ELSE after

\* Where the messages to keep begin is after the last turn that is one too many;
\* a tool's result is not a turn.
Surplus(messages) ==
    LET turns == {i \in DOMAIN messages : messages[i].role # "tool"}
    IN  {i \in turns : Cardinality({j \in turns : j >= i}) > RecentKeep}

MessagesToFold(messages) == SubSeq(messages, 1, Max(Surplus(messages) \cup {0}))
=================================================================================
