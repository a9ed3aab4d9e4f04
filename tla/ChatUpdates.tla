------------------------------ MODULE ChatUpdates ------------------------------
(* How an open event stream learns that its execution changed: a publication on  *)
(* the broker, read by one consumer for all the streams of an API process        *)
(* (runtime/wakeup.py, chat/surface/updates.py).                                  *)
EXTENDS FiniteSets

CONSTANTS
    Streams,    \* connections of one API process
    None

VARIABLES
    listening,  \* listening[w]: the execution stream w has subscribed to
    heard,      \* streams whose signal is set
    flight,     \* streams that a published update is on its way to
    missed,     \* streams that were not told of an update (history)
    consumer    \* the process's consumer: "down", "up" or "dead"

updateVars == <<listening, heard, flight, missed, consumer>>

UpdatesInit ==
    /\ listening = [w \in Streams |-> None]
    /\ heard = {} /\ flight = {} /\ missed = {}
    /\ consumer = "down"

Listeners(t) == {w \in Streams : listening[w] = t}

\* A change of t that nobody announces.
Silent(t) ==
    /\ missed' = missed \cup Listeners(t)
    /\ UNCHANGED <<listening, heard, flight, consumer>>

\* The broker may refuse, or be too slow, and a consumer that is not up reads
\* only what comes later.
Publish(t) ==
    \/ Silent(t)
    \/ /\ consumer = "up"
       /\ flight' = flight \cup Listeners(t)
       /\ UNCHANGED <<listening, heard, missed, consumer>>

\* The first subscription starts the consumer, while the stream already reads.
ConsumerStarts ==
    /\ consumer = "down"
    /\ \E w \in Streams : listening[w] # None
    /\ consumer' = "up"
    /\ UNCHANGED <<listening, heard, flight, missed>>

\* An error ends the task that reads; the consumer is still set, so no later
\* subscription starts another.
ConsumerDies ==
    /\ consumer = "up"
    /\ consumer' = "dead"
    /\ missed' = missed \cup flight
    /\ flight' = {}
    /\ UNCHANGED <<listening, heard>>

Deliver(w) ==
    /\ w \in flight
    /\ flight' = flight \ {w}
    /\ heard' = heard \cup {w}
    /\ UNCHANGED <<listening, missed, consumer>>

\* Effects on a stream's own side.
Subscribe(w, t) ==
    /\ listening' = [listening EXCEPT ![w] = t]
    /\ UNCHANGED <<heard, flight, missed, consumer>>

Unsubscribe(w) ==
    /\ listening' = [listening EXCEPT ![w] = None]
    /\ heard' = heard \ {w} /\ flight' = flight \ {w} /\ missed' = missed \ {w}
    /\ UNCHANGED consumer

UpdatesStep ==
    \/ ConsumerStarts
    \/ ConsumerDies
    \/ \E w \in Streams : Deliver(w)
=================================================================================
