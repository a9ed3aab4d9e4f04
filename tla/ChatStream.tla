------------------------------- MODULE ChatStream -------------------------------
(* The event stream of one turn (chat/surface/stream.py): subscribe, then read   *)
(* the ledger and send what is new, until a frame shows the turn's end.  A signal *)
(* wakes it, and so does the clock.                                              *)
EXTENDS ChatConfirmations

VARIABLE stream     \* stream[w]: its loop, what it has read and last sent

streamVars == <<stream>>
othersVars == <<historyVars, fold, confirmationVars>>

Unopened == [pc |-> "new", of |-> None, got |-> "none", status |-> "none", pending |-> {}]

StreamInit == stream = [w \in Streams |-> Unopened]

Terminal == {"completed", "failed", "canceled"}
Pending  == {c \in Confirmations : conf[c] = "pending"}
Readable(t) == thread.there /\ turn[t].status # "absent"

Open(w, t) ==
    /\ w \in scene.streams /\ stream[w].pc = "new"
    /\ Readable(t)
    /\ stream' = [stream EXCEPT ![w].pc = "reading", ![w].of = t]
    /\ Subscribe(w, t)
    /\ UNCHANGED othersVars

Close(w) == stream' = [stream EXCEPT ![w].pc = "closed"] /\ Unsubscribe(w)

\* The thread and the execution first, the confirmations after.
ReadExecution(w) ==
    /\ stream[w].pc = "reading"
    /\ IF Readable(stream[w].of)
       THEN /\ stream' = [stream EXCEPT ![w].pc = "read", ![w].got = turn[stream[w].of].status]
            /\ UNCHANGED updateVars
       ELSE Close(w)
    /\ UNCHANGED othersVars

\* A faulty form: the signal is cleared once the ledger has been read.
SendFrameClearing(w) ==
    /\ stream[w].pc = "read"
    /\ stream' = [stream EXCEPT ![w].pc = IF stream[w].got \in Terminal THEN "closed" ELSE "waiting",
                                ![w].status = stream[w].got, ![w].pending = Pending]
    /\ IF stream[w].got \in Terminal THEN Unsubscribe(w)
       ELSE heard' = heard \ {w} /\ UNCHANGED <<listening, flight, missed, consumer>>
    /\ UNCHANGED othersVars

SendFrame(w) ==
    /\ stream[w].pc = "read"
    /\ stream' = [stream EXCEPT ![w].pc = IF stream[w].got \in Terminal THEN "closed" ELSE "waiting",
                                ![w].status = stream[w].got, ![w].pending = Pending]
    /\ IF stream[w].got \in Terminal THEN Unsubscribe(w) ELSE UNCHANGED updateVars
    /\ UNCHANGED othersVars

\* The signal is cleared before the next read.
Wake(w) ==
    /\ stream[w].pc = "waiting" /\ w \in heard
    /\ stream' = [stream EXCEPT ![w].pc = "reading"]
    /\ heard' = heard \ {w} /\ missed' = missed \ {w}
    /\ UNCHANGED <<listening, flight, consumer, othersVars>>

\* A faulty form: the clock wakes only a stream that knows of a change.
ResendIfHeard(w) ==
    /\ stream[w].pc = "waiting" /\ w \in heard
    /\ stream' = [stream EXCEPT ![w].pc = "reading"]
    /\ missed' = missed \ {w}
    /\ UNCHANGED <<listening, heard, flight, consumer, othersVars>>

\* The resend interval is over: read again, whatever was heard.
Resend(w) ==
    /\ stream[w].pc = "waiting"
    /\ stream' = [stream EXCEPT ![w].pc = "reading"]
    /\ missed' = missed \ {w}
    /\ UNCHANGED <<listening, heard, flight, consumer, othersVars>>

\* The client goes away, or the ledger does.
Disconnect(w) ==
    /\ stream[w].pc \in {"reading", "read", "waiting"}
    /\ Close(w)
    /\ UNCHANGED othersVars

StreamStep ==
    \E w \in Streams :
       \/ \E t \in Turns : Open(w, t)
       \/ ReadExecution(w) \/ SendFrame(w) \/ Wake(w) \/ Resend(w) \/ Disconnect(w)
=================================================================================
