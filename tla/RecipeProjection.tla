---------------------------- MODULE RecipeProjection ----------------------------
(* The projection of the tracer's event stream onto recipe applications.        *)
(*                                                                              *)
(* One consumer of the group reads the stream from its committed offset.  An    *)
(* event it could not project sends it back to that offset; an offset it could  *)
(* not commit ends the listening task, which nothing starts again before the    *)
(* process does.                                                                *)
EXTENDS RecipeLedger, Sequences

VARIABLES
    stream,         \* events the tracer has published, oldest first
    committed,      \* offset of the group
    listener        \* the consumer's position, its phase and the rows it has read

projectionVars == <<stream, committed, listener>>

Listening(position) == [position |-> position, phase |-> "poll", seen |-> {}]

ProjectionInit(published) ==
    /\ stream = published
    /\ committed = 0
    /\ listener = Listening(0)

Event == stream[listener.position]

\* Only an injection that names an application and a recipe is projected.
Selected(event) == event.kind = "recipe.injected" /\ event.app # None /\ event.recipe # None

Poll ==
    /\ listener.phase = "poll"
    /\ listener.position < Len(stream)
    /\ listener' = [listener EXCEPT !.position = @ + 1,
            !.phase = IF Selected(stream[listener.position + 1]) THEN "find" ELSE "commit"]
    /\ UNCHANGED <<ledgerVars, stream, committed>>

FindByTask ==
    /\ listener.phase = "find"
    /\ listener' = [listener EXCEPT !.phase = "upsert",
            !.seen = {a \in applications : a.task = Event.task}]
    /\ UNCHANGED <<ledgerVars, stream, committed>>

\* Variant: every delivery is projected.
KnownNever == FALSE

\* The recipe was already brought into this task.
Known == \E a \in listener.seen : a.recipe = Event.recipe

Projected ==
    [id |-> Event.app, recipe |-> Event.recipe, task |-> Event.task,
     via |-> Event.via, outcome |-> None, anchored |-> TRUE]

UpsertEvent ==
    /\ listener.phase = "upsert"
    /\ applications' = IF Known THEN applications ELSE UpsertApplication(applications, Projected)
    /\ listener' = [listener EXCEPT !.phase = "commit", !.seen = {}]
    /\ UNCHANGED <<recipes, outbox, open, clock, stream, committed>>

(* The statement failed, or was applied and its answer lost: back to the        *)
(* committed offset.                                                            *)
FailEvent ==
    /\ listener.phase \in {"find", "upsert"}
    /\ \/ UNCHANGED applications
       \/ /\ listener.phase = "upsert" /\ ~Known
          /\ applications' = UpsertApplication(applications, Projected)
    /\ listener' = Listening(committed)
    /\ UNCHANGED <<recipes, outbox, open, clock, stream, committed>>

CommitOffset ==
    /\ listener.phase = "commit"
    /\ committed' = listener.position
    /\ listener' = [listener EXCEPT !.phase = "poll"]
    /\ UNCHANGED <<ledgerVars, stream>>

(* The exception of a failed offset commit ends the listening task.             *)
FailOffset ==
    /\ listener.phase = "commit"
    /\ committed' \in {committed, listener.position}
    /\ listener' = [listener EXCEPT !.phase = "dead"]
    /\ UNCHANGED <<ledgerVars, stream>>

(* The process dies, or is started again with a dead listener.                  *)
RestartProjector ==
    /\ listener # Listening(committed)
    /\ listener' = Listening(committed)
    /\ UNCHANGED <<ledgerVars, stream, committed>>

ProjectionNext ==
    Poll \/ FindByTask \/ UpsertEvent \/ FailEvent \/ CommitOffset \/ FailOffset
        \/ RestartProjector
=================================================================================
