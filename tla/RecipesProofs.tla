------------------------------ MODULE RecipesProofs -----------------------------
(* A stale document of the search index is always announced, for any number of   *)
(* recipes, requests, scans and events, and for any number of replicas as long   *)
(* as no session is dropped, or for one replica whose sessions are.              *)
(*                                                                               *)
(* The rows of the recipe tables stay of their kind, a scan's candidates are     *)
(* written once, an injection makes one row for its recipe and its task, and no  *)
(* report is taken away by an event that is delivered again.                     *)
EXTENDS Recipes, FiniteSetTheorems, TLAPS

---------------------------------------------------------------------------------
(* The index: the inductive invariant.                                           *)

\* Requests for a recipe that no running drain counts as served.
Owed(id) == {r \in outbox : r.target = id /\ \A d \in Drainers : r \notin drain[d].served}

\* Rows of the outbox, and those a drain has read.
InUse ==
    outbox \cup UNION {drain[d].batch \cup drain[d].served
                         \cup ({drain[d].row} \ {None}) : d \in Drainers}

Unused(at) == \A r \in InUse : r.at # at

\* The shape of the functions and records, whatever their values.
Shapes ==
    /\ index = [id \in RecipeIds |-> index[id]]
    /\ writing = [j \in Jobs |-> writing[j]]
    /\ drain = [d \in Drainers |-> [on |-> drain[d].on, batch |-> drain[d].batch,
                                    row |-> drain[d].row, doc |-> drain[d].doc,
                                    served |-> drain[d].served]]

\* A commit to come has an instant of its own, past that of every row in use.
Stamps ==
    /\ clock \in Nat
    /\ \A r \in InUse : r.at \in Nat /\ r.at <= clock
    /\ \A q \in open : q.at \in Nat /\ q.at <= clock /\ Unused(q.at)
    /\ \A p, q \in open : p.at = q.at => p = q
    /\ \A j \in Jobs : writing[j] # None =>
          /\ writing[j].at \in Nat /\ writing[j].at <= clock /\ Unused(writing[j].at)
          /\ \A q \in open : q.at # writing[j].at
          /\ \A i \in Jobs \ {j} : writing[i] # None => writing[i].at # writing[j].at

\* One drain at a time; the lock is its own unless a session was dropped.
Alone ==
    /\ \A d, e \in Drainers : drain[d].on /\ drain[e].on => d = e
    /\ \A d \in Drainers : ~drain[d].on => drain[d] = Idle
    /\ \A d \in Drainers : ~SessionsDrop /\ drain[d].on => lock = d

\* A document that differs from the ledger is owed, and so is one in hand that does.
Announced == \A id \in RecipeIds : index[id] # Document(id) => Owed(id) # {}

InHand(d) ==
    LET row == drain[d].row
    IN  row # None /\ drain[d].doc # Document(row.target) => Owed(row.target) \ {row} # {}

OutboxInv == Shapes /\ Stamps /\ Alone /\ Announced /\ \A d \in Drainers : InHand(d)

---------------------------------------------------------------------------------
(* The start.                                                                    *)
LEMMA InitInv == Init => OutboxInv
<1> SUFFICES ASSUME Init PROVE OutboxInv OBVIOUS
<1> USE DEF Init, CandidatesInit, OutboxInit, LedgerInit, ProjectionInit, Idle
<1>1. Shapes BY DEF Shapes
<1>2. InUse = {} BY DEF InUse
<1>3. Stamps BY <1>2, ScenarioAssumption DEF Stamps, Unused
<1>4. Alone BY DEF Alone
<1>5. Announced BY DEF Announced, Document, Live, NoDocument
<1>6. \A d \in Drainers : InHand(d) BY DEF InHand
<1> QED BY <1>1, <1>3, <1>4, <1>5, <1>6 DEF OutboxInv

---------------------------------------------------------------------------------
(* Steps of the ledger.                                                          *)

\* A commit puts requests into the outbox that no drain has read.
LEMMA CommitInv ==
    ASSUME OutboxInv, NEW at, NEW rows,
           Unused(at),
           recipes' = Overwrite(rows),
           outbox' = outbox \cup Enqueued(at, rows),
           UNCHANGED drainVars
    PROVE  Announced' /\ \A d \in Drainers : InHand(d)'
<1> USE DEF OutboxInv, drainVars
<1>1. ASSUME NEW id, id \in DOMAIN rows
      PROVE  \E r \in Owed(id)' : \A d \in Drainers : drain[d].row # None => r # drain[d].row
  <2> DEFINE new == [at |-> at, target |-> id]
  <2>1. new \in outbox' /\ new.target = id /\ new.at = at
    BY <1>1 DEF Enqueued
  <2>2. new \notin InUse
    BY <2>1 DEF Unused
  <2>3. \A d \in Drainers : new \notin drain[d].served /\ (drain[d].row # None => new # drain[d].row)
    BY <2>2 DEF InUse
  <2>4. new \in Owed(id)'
    BY <2>1, <2>3 DEF Owed
  <2> QED BY <2>3, <2>4
<1>2. ASSUME NEW id, id \notin DOMAIN rows
      PROVE  Document(id)' = Document(id) /\ Owed(id) \subseteq Owed(id)'
  <2>1. /\ id \in DOMAIN recipes' <=> id \in DOMAIN recipes
        /\ id \in DOMAIN recipes => recipes'[id] = recipes[id]
    BY <1>2 DEF Overwrite
  <2>3. Document(id)' = Document(id)
    BY <2>1 DEF Document, Live, NoDocument
  <2>2. Owed(id) \subseteq Owed(id)'
    BY DEF Owed
  <2> QED BY <2>2, <2>3
<1>3. Announced'
  BY <1>1, <1>2 DEF Announced
<1>4. \A d \in Drainers : InHand(d)'
  <2> SUFFICES ASSUME NEW d \in Drainers PROVE InHand(d)' OBVIOUS
  <2>1. CASE drain[d].row.target \in DOMAIN rows
    BY <2>1, <1>1 DEF InHand
  <2>2. CASE drain[d].row.target \notin DOMAIN rows
    BY <2>2, <1>2 DEF InHand
  <2> QED BY <2>1, <2>2
<1> QED BY <1>3, <1>4

\* A step that leaves the rows and the drain alone leaves their agreement alone.
LEMMA QuietInv ==
    ASSUME OutboxInv, UNCHANGED <<recipes, outbox, drainVars>>
    PROVE  /\ Alone' /\ Announced' /\ \A d \in Drainers : InHand(d)'
           /\ InUse' = InUse
<1> USE DEF OutboxInv, drainVars
<1>1. \A id : Document(id)' = Document(id) /\ Owed(id)' = Owed(id)
  BY DEF Document, Live, NoDocument, Owed
<1>2. Alone' BY DEF Alone, Idle, NoDocument
<1>3. Announced' BY <1>1 DEF Announced
<1>4. \A d \in Drainers : InHand(d)' BY <1>1 DEF InHand
<1>5. InUse' = InUse BY DEF InUse
<1> QED BY <1>2, <1>3, <1>4, <1>5

\* The read half of a request.
LEMMA OpenInv ==
    ASSUME OutboxInv, NEW writes, NEW apps, Open(writes, apps),
           UNCHANGED <<candidateVars, drainVars>>
    PROVE  OutboxInv'
<1> USE DEF OutboxInv, Open, candidateVars, drainVars
<1>1. Alone' /\ Announced' /\ (\A d \in Drainers : InHand(d)') /\ InUse' = InUse
  BY QuietInv
<1>2. Shapes' BY DEF Shapes
<1>3. Stamps'
  <2> DEFINE new == [at |-> clock + 1, writes |-> writes, apps |-> apps]
  <2>1. new.at = clock + 1 /\ open' = open \cup {new} /\ clock' = clock + 1 OBVIOUS
  <2>2. clock \in Nat /\ Unused(clock + 1) BY DEF Stamps, Unused
  <2>3. \A at : Unused(at)' = Unused(at) BY <1>1 DEF Unused
  <2> QED BY <1>1, <2>1, <2>2, <2>3 DEF Stamps
<1> QED BY <1>1, <1>2, <1>3

\* The write half.
LEMMA CommitRequestInv ==
    ASSUME OutboxInv, NEW q \in open, Commit(q), UNCHANGED <<candidateVars, drainVars>>
    PROVE  OutboxInv'
<1> USE DEF OutboxInv, Commit, candidateVars, drainVars
<1>1. Unused(q.at) BY DEF Stamps
<1>2. Announced' /\ \A d \in Drainers : InHand(d)'
  BY <1>1, CommitInv
<1>3. Shapes' BY DEF Shapes
<1>4. Alone' BY DEF Alone, Idle, NoDocument
<1>5. Stamps'
  <2>1. \A r \in InUse' : r \in InUse \/ r.at = q.at
    BY DEF InUse, Enqueued
  <2>2. \A at : Unused(at) /\ at # q.at => Unused(at)'
    BY <2>1 DEF Unused
  <2>3. clock' = clock /\ open' \subseteq open \ {q} /\ writing' = writing OBVIOUS
  <2> QED BY <2>1, <2>2, <2>3 DEF Stamps
<1> QED BY <1>2, <1>3, <1>4, <1>5

\* Rolling a transaction back preserves the outbox's invariant.
LEMMA RollbackInv ==
    ASSUME OutboxInv, NEW q \in open, Rollback(q), UNCHANGED <<candidateVars, drainVars>>
    PROVE  OutboxInv'
<1> USE DEF OutboxInv, Rollback, candidateVars, drainVars
<1>1. Alone' /\ Announced' /\ (\A d \in Drainers : InHand(d)') /\ InUse' = InUse
  BY QuietInv
<1>2. Shapes' BY DEF Shapes
<1>3. Stamps' BY <1>1 DEF Stamps, Unused
<1> QED BY <1>1, <1>2, <1>3

\* A step of the job ledger preserves the outbox's invariant.
LEMMA LedgerInv ==
    ASSUME OutboxInv, LedgerNext, UNCHANGED <<candidateVars, drainVars, projectionVars>>
    PROVE  OutboxInv'
<1>1. CASE \E writes, apps : Open(writes, apps) BY <1>1, OpenInv
<1>2. CASE \E q \in open : Commit(q) BY <1>2, CommitRequestInv
<1>3. CASE \E q \in open : Rollback(q) BY <1>3, RollbackInv
<1>4. ASSUME NEW id \in DOMAIN recipes,
             \/ Accept(id) \/ Dismiss(id) \/ Retire(id) \/ Delete(id)
             \/ \E body \in Bodies : Edit(id, body)
             \/ \E task \in TaskIds, outcome \in Outcomes : ReportOutcome(id, task, outcome)
      PROVE  \E writes, apps : Open(writes, apps)
  BY <1>4 DEF Accept, Dismiss, Retire, Delete, Edit, ReportOutcome
<1> QED BY <1>1, <1>2, <1>3, <1>4 DEF LedgerNext

---------------------------------------------------------------------------------
(* Steps of a scan's outputs and of the projection.                              *)
LEMMA BeginCandidatesInv ==
    ASSUME OutboxInv, NEW job \in Jobs, BeginCandidates(job), UNCHANGED drainVars
    PROVE  OutboxInv'
<1> USE DEF OutboxInv, drainVars
<1>0. PICK rows : /\ writing' = [writing EXCEPT ![job] = [at |-> clock + 1, rows |-> rows]]
                  /\ clock' = clock + 1
                  /\ UNCHANGED <<recipes, outbox, open>>
  BY DEF BeginCandidates
<1>1. Alone' /\ Announced' /\ (\A d \in Drainers : InHand(d)') /\ InUse' = InUse
  BY <1>0, QuietInv
<1>2. Shapes' BY <1>0 DEF Shapes
<1>3. Stamps'
  <2>1. writing'[job].at = clock + 1 /\ \A j \in Jobs \ {job} : writing'[j] = writing[j]
    BY <1>0 DEF Shapes
  <2>2. clock \in Nat /\ Unused(clock + 1) BY DEF Stamps, Unused
  <2>3. \A at : Unused(at)' = Unused(at) BY <1>1 DEF Unused
  <2> QED BY <1>0, <1>1, <2>1, <2>2, <2>3 DEF Stamps
<1> QED BY <1>1, <1>2, <1>3

\* Committing a scan's candidates preserves the outbox's invariant.
LEMMA CommitCandidatesInv ==
    ASSUME OutboxInv, NEW job \in Jobs, CommitCandidates(job), UNCHANGED drainVars
    PROVE  OutboxInv'
<1> USE DEF OutboxInv, drainVars, CommitCandidates
<1>1. Unused(writing[job].at) BY DEF Stamps
<1>2. Announced' /\ \A d \in Drainers : InHand(d)'
  BY <1>1, CommitInv
<1>3. Shapes' BY DEF Shapes
<1>4. Alone' BY DEF Alone, Idle, NoDocument
<1>5. Stamps'
  <2>1. \A r \in InUse' : r \in InUse \/ r.at = writing[job].at
    BY DEF InUse, Enqueued
  <2>2. \A at : Unused(at) /\ at # writing[job].at => Unused(at)'
    BY <2>1 DEF Unused
  <2>3. /\ clock' = clock /\ open' = open
        /\ \A j \in Jobs : writing'[j] # None => j # job /\ writing'[j] = writing[j]
    BY DEF Shapes
  <2> QED BY <2>1, <2>2, <2>3 DEF Stamps
<1> QED BY <1>2, <1>3, <1>4, <1>5

\* A step of the candidates' write preserves the outbox's invariant.
LEMMA CandidatesInv ==
    ASSUME OutboxInv, CandidatesNext, UNCHANGED drainVars
    PROVE  OutboxInv'
<1>1. ASSUME NEW job \in Jobs, LoseCandidates(job) PROVE OutboxInv'
  <2> USE <1>1 DEF OutboxInv, LoseCandidates, ledgerVars
  <2>1. Alone' /\ Announced' /\ (\A d \in Drainers : InHand(d)') /\ InUse' = InUse
    BY QuietInv
  <2>2. Shapes' BY DEF Shapes, drainVars
  <2>3. \A j \in Jobs : writing'[j] # None => writing'[j] = writing[j] BY DEF Shapes
  <2>4. Stamps' BY <2>1, <2>3 DEF Stamps, Unused
  <2> QED BY <2>1, <2>2, <2>4
<1> QED BY <1>1, BeginCandidatesInv, CommitCandidatesInv DEF CandidatesNext

\* A step of the projection preserves the outbox's invariant.
LEMMA ProjectionInv ==
    ASSUME OutboxInv, ProjectionNext, UNCHANGED <<candidateVars, drainVars>>
    PROVE  OutboxInv'
<1> USE DEF OutboxInv, candidateVars, drainVars
<1>1. UNCHANGED <<recipes, outbox, open, clock>>
  BY DEF ProjectionNext, Poll, FindByTask, UpsertEvent, FailEvent, CommitOffset, FailOffset,
         RestartProjector, ledgerVars
<1>2. Alone' /\ Announced' /\ (\A d \in Drainers : InHand(d)') /\ InUse' = InUse
  BY <1>1, QuietInv
<1>3. Shapes' BY DEF Shapes
<1>4. Stamps' BY <1>1, <1>2 DEF Stamps, Unused
<1> QED BY <1>2, <1>3, <1>4

---------------------------------------------------------------------------------
(* Steps of the drain.                                                           *)

\* A drain's step that reads no row of its own making keeps the instants.
LEMMA DrainStamps ==
    ASSUME Stamps, InUse' \subseteq InUse, UNCHANGED <<open, clock, writing>>
    PROVE  Stamps'
BY DEF Stamps, Unused

\* A drain that gives up, or whose session is gone, leaves every request.
LEMMA EndedInv ==
    ASSUME OutboxInv, NEW d \in Drainers, drain[d].on, drain' = [drain EXCEPT ![d] = Idle],
           lock' = (IF lock = d THEN None ELSE lock),
           \A id : Owed(id) \subseteq Owed(id)',
           outbox' \subseteq outbox, UNCHANGED <<recipes, open, clock, candidateVars>>,
           Shapes', Announced'
    PROVE  OutboxInv'
<1> USE DEF OutboxInv, candidateVars
<1>1. \A e \in Drainers : drain'[e] = Idle
  BY DEF Shapes, Alone
<1>2. Alone'
  <2>1. Idle' = Idle /\ Idle.on = FALSE BY DEF Idle, NoDocument
  <2> QED BY <1>1, <2>1 DEF Alone
<1>3. \A e \in Drainers : InHand(e)' BY <1>1 DEF InHand, Idle
<1>4. InUse' \subseteq InUse BY <1>1 DEF InUse, Idle
<1> QED BY <1>2, <1>3, <1>4, DrainStamps

\* One drain at a time where sessions may be dropped.
Sole == SessionsDrop => \A d, e \in Drainers : d = e

\* Claiming a batch preserves the outbox's invariant.
LEMMA BeginDrainInv ==
    ASSUME OutboxInv, Sole, NEW d \in Drainers, BeginDrain(d), UNCHANGED candidateVars
    PROVE  OutboxInv'
<1> USE DEF OutboxInv, candidateVars, ledgerVars
<1>1. \A e \in Drainers : drain[e] = Idle
  BY DrainerAssumption DEF Sole, Alone, BeginDrain
<1>2. PICK rows : /\ rows \subseteq outbox
                  /\ drain' = [drain EXCEPT ![d] = [Idle EXCEPT !.on = TRUE, !.batch = rows]]
  BY DEF BeginDrain, IsBatch
<1>3. /\ drain'[d] = [on |-> TRUE, batch |-> rows, row |-> None, doc |-> NoDocument, served |-> {}]
      /\ \A e \in Drainers \ {d} : drain'[e] = Idle
  BY <1>1, <1>2 DEF Shapes, Idle
<1>4. Shapes' BY <1>2, <1>3 DEF Shapes, BeginDrain, Idle
<1>5. Alone'
  <2>1. Idle' = Idle /\ Idle.on = FALSE BY DEF Idle, NoDocument
  <2>2. drain'[d].on = TRUE /\ lock' = d BY <1>3 DEF BeginDrain
  <2> QED BY <1>3, <2>1, <2>2 DEF Alone
<1>6. \A id : Owed(id)' = Owed(id) /\ Document(id)' = Document(id)
  BY <1>1, <1>3 DEF Owed, Idle, BeginDrain, Document, Live, NoDocument
<1>7. Announced' BY <1>6 DEF Announced, BeginDrain
<1>8. \A e \in Drainers : InHand(e)' BY <1>3 DEF InHand, Idle
<1>9. InUse' \subseteq InUse BY <1>2, <1>3 DEF InUse, Idle, BeginDrain
<1> QED BY <1>4, <1>5, <1>7, <1>8, <1>9, DrainStamps DEF BeginDrain

\* Reading the claimed recipe preserves the outbox's invariant.
LEMMA ReadRecipeInv ==
    ASSUME OutboxInv, NEW d \in Drainers, ReadRecipe(d), UNCHANGED candidateVars
    PROVE  OutboxInv'
<1> USE DEF OutboxInv, candidateVars, ledgerVars
<1>1. PICK row \in drain[d].batch :
         drain' = [drain EXCEPT ![d].row = row, ![d].batch = @ \ {row},
                                ![d].doc = Document(row.target)]
  BY DEF ReadRecipe
<1>2. /\ drain'[d] = [drain[d] EXCEPT !.row = row, !.batch = @ \ {row},
                                      !.doc = Document(row.target)]
      /\ \A e \in Drainers \ {d} : drain'[e] = drain[e]
  BY <1>1 DEF Shapes
<1>3. /\ drain'[d].on = drain[d].on /\ drain'[d].served = drain[d].served
      /\ drain'[d].batch = drain[d].batch \ {row} /\ drain'[d].row = row
      /\ drain'[d].doc = Document(row.target)
      /\ drain'[d] = [on |-> drain'[d].on, batch |-> drain'[d].batch, row |-> drain'[d].row,
                      doc |-> drain'[d].doc, served |-> drain'[d].served]
  <2>1. drain[d] = [on |-> drain[d].on, batch |-> drain[d].batch, row |-> drain[d].row,
                    doc |-> drain[d].doc, served |-> drain[d].served]
    BY DEF Shapes
  <2>2. drain'[d].on = drain[d].on /\ drain'[d].served = drain[d].served
    BY <1>2, <2>1, Zenon
  <2>3. drain'[d].row = row /\ drain'[d].doc = Document(row.target)
    BY <1>2, <2>1, Zenon
  <2>4. drain'[d].batch = drain[d].batch \ {row}
    BY <1>2, <2>1, Zenon
  <2>5. drain'[d] = [on |-> drain'[d].on, batch |-> drain'[d].batch, row |-> drain'[d].row,
                     doc |-> drain'[d].doc, served |-> drain'[d].served]
    BY <1>2, <2>1, Zenon
  <2> QED BY <2>2, <2>3, <2>4, <2>5
<1>4. Shapes'
  <2>1. drain' = [e \in Drainers |-> drain'[e]] BY <1>1 DEF Shapes
  <2>2. \A e \in Drainers \ {d} :
           drain'[e] = [on |-> drain'[e].on, batch |-> drain'[e].batch, row |-> drain'[e].row,
                        doc |-> drain'[e].doc, served |-> drain'[e].served]
    BY <1>2 DEF Shapes
  <2>3. \A e \in Drainers :
           drain'[e] = [on |-> drain'[e].on, batch |-> drain'[e].batch, row |-> drain'[e].row,
                        doc |-> drain'[e].doc, served |-> drain'[e].served]
    BY <1>3, <2>2
  <2> QED BY <2>1, <2>3 DEF Shapes, ReadRecipe
<1>5. Alone'
  <2>1. Idle' = Idle BY DEF Idle, NoDocument
  <2> QED BY <1>2, <1>3, <2>1 DEF Alone, ReadRecipe
<1>6. \A id : Owed(id)' = Owed(id) /\ Document(id)' = Document(id)
  <2>1. \A e \in Drainers : drain'[e].served = drain[e].served BY <1>2, <1>3
  <2>2. UNCHANGED <<outbox, recipes>> BY DEF ReadRecipe
  <2>3. \A id : Owed(id)' = Owed(id) BY <2>1, <2>2 DEF Owed
  <2>4. \A id : Document(id)' = Document(id) BY <2>2 DEF Document, Live, NoDocument
  <2> QED BY <2>3, <2>4
<1>7. Announced' BY <1>6 DEF Announced, ReadRecipe
<1>8. \A e \in Drainers : InHand(e)'
  <2> SUFFICES ASSUME NEW e \in Drainers PROVE InHand(e)' OBVIOUS
  <2>1. CASE e # d BY <1>2, <1>6, <2>1 DEF InHand
  <2>2. CASE e = d BY <1>3, <1>6, <2>2 DEF InHand
  <2> QED BY <2>1, <2>2
<1>9. InUse' \subseteq InUse
  <2> SUFFICES ASSUME NEW r \in InUse' PROVE r \in InUse OBVIOUS
  <2>1. CASE r \in outbox' BY <2>1 DEF InUse, ReadRecipe
  <2>2. ASSUME NEW e \in Drainers, e # d,
               r \in drain'[e].batch \cup drain'[e].served \cup ({drain'[e].row} \ {None})
        PROVE  r \in InUse
    BY <1>2, <2>2 DEF InUse
  <2>3. CASE r \in drain'[d].batch \cup drain'[d].served \cup ({drain'[d].row} \ {None})
    BY <1>3, <2>3 DEF InUse
  <2> QED BY <2>1, <2>2, <2>3 DEF InUse
<1> QED BY <1>4, <1>5, <1>7, <1>8, <1>9, DrainStamps DEF ReadRecipe

\* The index call: what was written, and whether the request counts as served.
LEMMA CallInv ==
    ASSUME OutboxInv, NEW d \in Drainers, drain[d].row # None, NEW served,
           AfterCall(d, served), UNCHANGED <<ledgerVars, lock, candidateVars>>,
           \/ served = {} /\ index' = index
           \/ /\ served \in {{}, {drain[d].row}}
              /\ index' = [index EXCEPT ![drain[d].row.target] = drain[d].doc]
    PROVE  OutboxInv'
<1> USE DEF OutboxInv, candidateVars, ledgerVars
<1> DEFINE row == drain[d].row
           doc == drain[d].doc
<1>1. index' = [id \in RecipeIds |-> index'[id]] BY DEF Shapes
<1>2. \A id : Document(id)' = Document(id) BY DEF Document, Live, NoDocument
<1>3. \A id \in RecipeIds : index'[id] # Document(id) =>
         \E r \in Owed(id) : r \notin served
  <2> SUFFICES ASSUME NEW id \in RecipeIds, index'[id] # Document(id)
               PROVE  \E r \in Owed(id) : r \notin served
    OBVIOUS
  <2>1. CASE index'[id] = index[id] /\ (served = {} \/ id # row.target)
    BY <2>1 DEF Announced, Owed
  <2>2. CASE index'[id] = doc /\ id = row.target
    <3>1. Owed(row.target) \ {row} # {} BY <2>2 DEF InHand
    <3> QED BY <2>2, <3>1
  <2> QED BY <2>1, <2>2 DEF Shapes
<1>4. drain[d].on BY DEF Alone, Idle
<1>5. CASE lock = d
  <2>1. /\ drain'[d] = [drain[d] EXCEPT !.row = None, !.doc = NoDocument,
                                        !.served = drain[d].served \cup served]
        /\ \A e \in Drainers \ {d} : drain'[e] = drain[e] /\ drain[e] = Idle
        /\ drain' = [e \in Drainers |-> drain'[e]]
    <3>1. drain' = [drain EXCEPT ![d].row = None, ![d].doc = NoDocument,
                                 ![d].served = @ \cup served]
      BY <1>5 DEF AfterCall
    <3>2. \A e \in Drainers \ {d} : drain[e] = Idle BY <1>4 DEF Alone
    <3> QED BY <3>1, <3>2 DEF Shapes
  <2>2. /\ drain'[d].on = drain[d].on /\ drain'[d].served = drain[d].served \cup served
        /\ drain'[d].batch = drain[d].batch /\ drain'[d].row = None
        /\ drain'[d] = [on |-> drain'[d].on, batch |-> drain'[d].batch, row |-> drain'[d].row,
                        doc |-> drain'[d].doc, served |-> drain'[d].served]
    <3>1. drain[d] = [on |-> drain[d].on, batch |-> drain[d].batch, row |-> drain[d].row,
                      doc |-> drain[d].doc, served |-> drain[d].served]
      BY DEF Shapes
    <3>2. drain'[d].on = drain[d].on /\ drain'[d].served = drain[d].served \cup served
      BY <2>1, <3>1, Zenon
    <3>3. drain'[d].batch = drain[d].batch /\ drain'[d].row = None
      BY <2>1, <3>1, Zenon
    <3>4. drain'[d] = [on |-> drain'[d].on, batch |-> drain'[d].batch, row |-> drain'[d].row,
                       doc |-> drain'[d].doc, served |-> drain'[d].served]
      BY <2>1, <3>1, Zenon
    <3> QED BY <3>2, <3>3, <3>4
  <2>3. Shapes' BY <1>1, <2>1, <2>2 DEF Shapes
  <2>4. Alone'
    <3>1. Idle' = Idle BY DEF Idle, NoDocument
    <3>2. drain'[d].on BY <1>4, <2>2
    <3>3. \A e \in Drainers \ {d} : drain'[e] = Idle BY <2>1
    <3>4. Idle.on = FALSE BY DEF Idle
    <3> QED BY <1>5, <3>1, <3>2, <3>3, <3>4 DEF Alone
  <2>5. \A id : Owed(id)' = Owed(id) \ served
    BY <2>1, <2>2 DEF Owed
  <2>6. Announced' BY <1>2, <1>3, <2>5 DEF Announced
  <2>7. \A e \in Drainers : InHand(e)' BY <2>1, <2>2 DEF InHand, Idle
  <2>8. InUse' \subseteq InUse BY <2>1, <2>2 DEF InUse
  <2> QED BY <2>3, <2>4, <2>6, <2>7, <2>8, DrainStamps
<1>6. CASE lock # d
  <2>1. drain' = [drain EXCEPT ![d] = Idle] BY <1>6 DEF AfterCall
  <2>2. \A e \in Drainers : drain'[e] = Idle BY <1>4, <2>1 DEF Shapes, Alone
  <2>3. Shapes' BY <1>1, <2>1, <2>2 DEF Shapes, Idle
  <2>4. \A id : Owed(id) \subseteq Owed(id)' BY <2>2 DEF Owed, Idle
  <2>5. Announced' BY <1>2, <1>3, <2>4 DEF Announced
  <2> QED BY <1>4, <1>6, <2>1, <2>3, <2>4, <2>5, EndedInv
<1> QED BY <1>5, <1>6

\* The end of a drain, its abort, and the loss of its session.
LEMMA EndDrainInv ==
    ASSUME OutboxInv, NEW d \in Drainers, EndDrain(d) \/ AbortDrain(d), UNCHANGED candidateVars
    PROVE  OutboxInv'
<1> USE DEF OutboxInv, candidateVars, ledgerVars
<1>0. /\ drain[d].on /\ lock = d /\ lock' = None /\ drain' = [drain EXCEPT ![d] = Idle]
      /\ outbox' \in {outbox, outbox \ drain[d].served}
      /\ UNCHANGED <<recipes, open, clock, index, writing>>
  BY DEF EndDrain, AbortDrain
<1>1. \A e \in Drainers : drain'[e] = Idle BY <1>0 DEF Shapes, Alone
<1>2. Shapes' BY <1>0, <1>1 DEF Shapes, Idle
<1>3. \A id : Owed(id) \subseteq Owed(id)' BY <1>0, <1>1 DEF Owed, Idle
<1>4. \A id : Document(id)' = Document(id) BY <1>0 DEF Document, Live, NoDocument
<1>5. Announced' BY <1>0, <1>3, <1>4 DEF Announced
<1> QED BY <1>0, <1>2, <1>3, <1>5, EndedInv

\* A drainer that loses its session preserves the outbox's invariant.
LEMMA DropSessionInv ==
    ASSUME OutboxInv, NEW d \in Drainers, DropSession(d), UNCHANGED candidateVars
    PROVE  OutboxInv'
<1> USE DEF OutboxInv, candidateVars, ledgerVars, DropSession
<1>1. \A id : Document(id)' = Document(id) /\ Owed(id)' = Owed(id)
  BY DEF Document, Live, NoDocument, Owed
<1>2. Alone' BY DEF Alone, Idle, NoDocument
<1>3. Shapes' BY DEF Shapes
<1>4. Announced' BY <1>1 DEF Announced
<1>5. \A e \in Drainers : InHand(e)' BY <1>1 DEF InHand
<1>6. InUse' = InUse BY DEF InUse
<1> QED BY <1>2, <1>3, <1>4, <1>5, <1>6, DrainStamps

\* Every step of a drainer preserves the outbox's invariant.
LEMMA DrainInv ==
    ASSUME OutboxInv, Sole, DrainNext, UNCHANGED candidateVars
    PROVE  OutboxInv'
<1>1. PICK d \in Drainers :
         \/ BeginDrain(d) \/ ReadRecipe(d) \/ WriteDocument(d) \/ FailDocument(d)
         \/ EndDrain(d) \/ AbortDrain(d) \/ DropSession(d)
  BY DEF DrainNext
<1>2. CASE WriteDocument(d) BY <1>2, CallInv DEF WriteDocument
<1>3. CASE FailDocument(d) BY <1>3, CallInv DEF FailDocument
<1> QED BY <1>1, <1>2, <1>3, BeginDrainInv, ReadRecipeInv, EndDrainInv, DropSessionInv

---------------------------------------------------------------------------------
(* The theorem.                                                                  *)
LEMMA StepInv ==
    ASSUME OutboxInv, Sole, [Next]_vars
    PROVE  OutboxInv'
<1>1. CASE LedgerNext /\ UNCHANGED <<candidateVars, drainVars, projectionVars>>
  BY <1>1, LedgerInv
<1>2. CASE CandidatesNext /\ UNCHANGED <<drainVars, projectionVars>>
  BY <1>2, CandidatesInv DEF drainVars
<1>3. CASE DrainNext /\ UNCHANGED <<candidateVars, projectionVars>>
  BY <1>3, DrainInv
<1>4. CASE ProjectionNext /\ UNCHANGED <<candidateVars, drainVars>>
  BY <1>4, ProjectionInv
<1>5. CASE UNCHANGED vars
  <2> USE <1>5 DEF OutboxInv, vars, ledgerVars, candidateVars, drainVars
  <2>1. Alone' /\ Announced' /\ (\A d \in Drainers : InHand(d)') /\ InUse' = InUse
    BY QuietInv
  <2>2. Shapes' BY DEF Shapes
  <2>3. Stamps' BY <2>1, DrainStamps
  <2> QED BY <2>1, <2>2, <2>3
<1> QED BY <1>1, <1>2, <1>3, <1>4, <1>5 DEF Next

(* The outbox announces every stale document: whatever requests, scans and       *)
(* events interleave with drains that are refused, aborted or cut off, a         *)
(* document of the index that differs from the ledger has an index request       *)
(* waiting for it (outbox.py, search.py).                                        *)
THEOREM StaleIsAnnounced ==
    ASSUME Sole
    PROVE  Spec => []StaleIsPending
<1>1. Init => OutboxInv BY InitInv
<1>2. OutboxInv /\ [Next]_vars => OutboxInv' BY StepInv
<1>3. OutboxInv => StaleIsPending BY DEF OutboxInv, Announced, StaleIsPending, Owed
<1> QED BY <1>1, <1>2, <1>3, PTL DEF Spec

---------------------------------------------------------------------------------
(* The rows: the inductive invariant.                                            *)

\* Whole rows that keep the job of the row they will replace.
WritesOK(writes) ==
    /\ DOMAIN writes \subseteq DOMAIN recipes
    /\ \A id \in DOMAIN writes : writes[id] \in Rows /\ writes[id].job = recipes[id].job

\* A report, on a row already there or on one made on the spot.
ReportsOK(apps) ==
    \A a \in apps :
        /\ a \in ApplicationRows(a.id) /\ a.outcome \in Outcomes
        /\ IF a.anchored THEN \E b \in applications : b.id = a.id ELSE a.id \in Nat

RowsOK ==
    /\ clock \in Nat
    /\ DOMAIN recipes \subseteq RecipeIds /\ IsFiniteSet(DOMAIN recipes)
    /\ \A id \in DOMAIN recipes : recipes[id] \in Rows
    /\ outbox \subseteq [at : 1 .. MaxRequests, target : RecipeIds]
    /\ lock \in Drainers \cup {None}

RequestsOK ==
    \A q \in open : q.at \in 1 .. MaxRequests /\ WritesOK(q.writes) /\ ReportsOK(q.apps)

\* What a scan is about to write is the first row of its job, and no other scan's.
Pending(j) ==
    /\ writing[j].at \in 1 .. MaxRequests
    /\ \E id \in RecipeIds \ DOMAIN recipes :
          /\ DOMAIN writing[j].rows = {id}
          /\ writing[j].rows[id] \in Rows /\ writing[j].rows[id].job = j
    /\ \A id \in DOMAIN recipes : recipes[id].job # j
    /\ \A i \in Jobs \ {j} :
          writing[i] # None => DOMAIN writing[i].rows \cap DOMAIN writing[j].rows = {}

ScansOK ==
    /\ writing = [j \in Jobs |-> writing[j]]
    /\ \A j \in Jobs : writing[j] # None => Pending(j)
    /\ \A a, b \in DOMAIN recipes : recipes[a].job = recipes[b].job /\ recipes[a].job \in Jobs
                                        => a = b

\* The injection a row was made from.
MadeOf(a) ==
    \E i \in 1 .. Len(stream) :
        /\ Selected(stream[i]) /\ a.id = stream[i].app
        /\ a.recipe = stream[i].recipe /\ a.task = stream[i].task

ApplicationsOK ==
    /\ IsFiniteSet(applications)
    /\ \A a \in applications :
          a \in ApplicationRows(a.id) /\ IF a.anchored THEN MadeOf(a) ELSE a.id \in Nat
    /\ \A a, b \in applications : a.id = b.id => a = b
    /\ InjectedOnce

\* No row was made from an event about the recipe and the task of this one.
Unprojected(event) ==
    \A a \in applications : a.anchored => ~(a.recipe = event.recipe /\ a.task = event.task)

ListenerOK ==
    /\ \E s \in Scenarios : stream = s.stream
    /\ listener = [position |-> listener.position, phase |-> listener.phase,
                   seen |-> listener.seen]
    /\ listener.position \in 0 .. Len(stream) /\ committed \in 0 .. Len(stream)
    /\ listener.phase \in {"find", "upsert"}
          => listener.position \in 1 .. Len(stream) /\ Selected(Event)
    /\ listener.phase = "upsert" /\ ~Known => Unprojected(Event)

RowsInv == RowsOK /\ RequestsOK /\ ScansOK /\ ApplicationsOK /\ ListenerOK

---------------------------------------------------------------------------------
(* The operators.                                                                *)
LEMMA OverwriteRows ==
    ASSUME NEW rows, recipes' = Overwrite(rows)
    PROVE  /\ DOMAIN recipes' = DOMAIN recipes \cup DOMAIN rows
           /\ \A id \in DOMAIN rows : recipes'[id] = rows[id]
           /\ \A id \in DOMAIN recipes \ DOMAIN rows : recipes'[id] = recipes[id]
BY DEF Overwrite

\* The columns an upsert on a conflict keeps.
SameCoordinates(a, b) ==
    a.id = b.id /\ a.recipe = b.recipe /\ a.task = b.task /\ a.anchored = b.anchored

\* What an upsert leaves of the applications' rows.
LEMMA UpsertRows ==
    ASSUME NEW apps, NEW row, IsFiniteSet(apps), row \in ApplicationRows(row.id),
           \A a \in apps : a \in ApplicationRows(a.id),
           \A a, b \in apps : a.id = b.id => a = b
    PROVE  /\ IsFiniteSet(UpsertApplication(apps, row))
           /\ \A u \in UpsertApplication(apps, row) : u \in ApplicationRows(u.id)
           /\ \A u, v \in UpsertApplication(apps, row) : u.id = v.id => u = v
           /\ \A u \in UpsertApplication(apps, row) :
                 \/ \E a \in apps : SameCoordinates(a, u)
                 \/ u = row /\ \A a \in apps : a.id # row.id
           /\ \A a \in apps : \E u \in UpsertApplication(apps, row) :
                 SameCoordinates(a, u) /\ u.outcome = IF a.id = row.id THEN row.outcome ELSE a.outcome
<1> DEFINE Moved(a) == IF a.id = row.id
                       THEN [a EXCEPT !.via = row.via, !.outcome = row.outcome] ELSE a
           U == UpsertApplication(apps, row)
<1>1. ASSUME NEW a \in apps
      PROVE  /\ Moved(a) \in ApplicationRows(a.id) /\ SameCoordinates(a, Moved(a))
             /\ Moved(a).outcome = IF a.id = row.id THEN row.outcome ELSE a.outcome
  <2>1. a \in ApplicationRows(a.id) OBVIOUS
  <2>2. CASE a.id = row.id
    <3>1. Moved(a) = [id |-> a.id, recipe |-> a.recipe, task |-> a.task, via |-> row.via,
                      outcome |-> row.outcome, anchored |-> a.anchored]
      BY <2>1, <2>2 DEF ApplicationRows
    <3> QED BY <2>1, <2>2, <3>1 DEF ApplicationRows, SameCoordinates
  <2>3. CASE a.id # row.id BY <2>1, <2>3 DEF SameCoordinates
  <2> QED BY <2>2, <2>3
<1> HIDE DEF Moved
<1>2. CASE \E a \in apps : a.id = row.id
  <2>1. U = {Moved(a) : a \in apps} BY <1>2 DEF UpsertApplication, Moved
  <2>2. IsFiniteSet(U)
    <3> DEFINE f == [a \in apps |-> Moved(a)]
    <3>1. f \in Surjection(apps, U) BY <2>1 DEF Surjection
    <3> QED BY <3>1, FS_Surjection
  <2>3. ASSUME NEW u \in U
        PROVE  \E a \in apps : u = Moved(a) /\ u \in ApplicationRows(a.id) /\ SameCoordinates(a, u)
    <3>1. PICK a \in apps : u = Moved(a) BY <2>1
    <3> QED BY <3>1, <1>1
  <2>4. \A u \in U : u \in ApplicationRows(u.id)
    BY <2>3 DEF SameCoordinates
  <2>5. \A u, v \in U : u.id = v.id => u = v
    BY <2>3 DEF SameCoordinates
  <2>6. \A a \in apps : Moved(a) \in U BY <2>1
  <2> HIDE DEF U
  <2>7. \A a \in apps : \E u \in U :
           SameCoordinates(a, u) /\ u.outcome = IF a.id = row.id THEN row.outcome ELSE a.outcome
    <3> TAKE a \in apps
    <3>1. Moved(a) \in U BY <2>6
    <3> QED BY <1>1, <3>1
  <2>8. \A u \in U : \E a \in apps : SameCoordinates(a, u) BY <2>3
  <2> QED BY <2>2, <2>4, <2>5, <2>7, <2>8 DEF U
<1>3. CASE ~\E a \in apps : a.id = row.id
  <2>1. U = apps \cup {row} BY <1>3 DEF UpsertApplication
  <2>2. IsFiniteSet(U) BY <2>1, FS_AddElement
  <2>3. \A u, v \in U : u.id = v.id => u = v BY <2>1, <1>3
  <2> QED BY <2>1, <2>2, <2>3, <1>3 DEF SameCoordinates
<1> QED BY <1>2, <1>3

(* A row upserted where one is already there, or made from an event no row was   *)
(* made from, or not made from an event.                                         *)
Upsertable(row) ==
    \/ \E a \in applications : a.id = row.id
    \/ row.anchored /\ MadeOf(row) /\ Unprojected(row)
    \/ ~row.anchored /\ row.id \in Nat

\* An upsert keeps the applications' rows, one for each injection.
LEMMA UpsertKeeps ==
    ASSUME ApplicationsOK, NEW row, row \in ApplicationRows(row.id), Upsertable(row),
           applications' = UpsertApplication(applications, row), stream' = stream
    PROVE  /\ ApplicationsOK'
           /\ \A apps : ReportsOK(apps) => ReportsOK(apps)'
           /\ \A e : Unprojected(e) /\ (row.anchored => \E a \in applications : a.id = row.id)
                        => Unprojected(e)'
<1> USE DEF ApplicationsOK
<1>0. \A a : MadeOf(a)' = MadeOf(a) BY DEF MadeOf
<1>1. /\ IsFiniteSet(applications')
      /\ \A u \in applications' : u \in ApplicationRows(u.id)
      /\ \A u, v \in applications' : u.id = v.id => u = v
      /\ \A u \in applications' :
            \/ \E a \in applications : SameCoordinates(a, u)
            \/ u = row /\ \A a \in applications : a.id # row.id
      /\ \A a \in applications : \E u \in applications' : SameCoordinates(a, u)
  BY UpsertRows
<1>2. \A u \in applications' : IF u.anchored THEN MadeOf(u) ELSE u.id \in Nat
  BY <1>1 DEF SameCoordinates, Upsertable, MadeOf
<1>3. InjectedOnce'
  <2> SUFFICES ASSUME NEW u \in applications', NEW v \in applications',
                      u.anchored, v.anchored, u.recipe = v.recipe, u.task = v.task
               PROVE  u.id = v.id
    BY <1>1 DEF InjectedOnce
  <2>1. CASE \E a, b \in applications : SameCoordinates(a, u) /\ SameCoordinates(b, v)
    BY <2>1 DEF SameCoordinates, InjectedOnce
  <2>2. CASE u = row /\ (\A a \in applications : a.id # row.id)
    BY <1>1, <2>2 DEF SameCoordinates, Upsertable, Unprojected
  <2>3. CASE v = row /\ (\A a \in applications : a.id # row.id)
    BY <1>1, <2>3 DEF SameCoordinates, Upsertable, Unprojected
  <2> QED BY <1>1, <2>1, <2>2, <2>3
<1>4. \A apps : ReportsOK(apps) => ReportsOK(apps)'
  BY <1>1 DEF ReportsOK, SameCoordinates, ApplicationRows
<1>5. \A e : Unprojected(e) /\ (row.anchored => \E a \in applications : a.id = row.id)
                => Unprojected(e)'
  BY <1>1 DEF Unprojected, SameCoordinates
<1> QED BY <1>0, <1>1, <1>2, <1>3, <1>4, <1>5

\* The moves of a row keep its kind and its job.
LEMMA MovedRows ==
    ASSUME NEW r \in Rows
    PROVE  /\ \A status \in Statuses : Resolved(r, status) \in Rows /\ Resolved(r, status).job = r.job
           /\ Deleted(r) \in Rows /\ Deleted(r).job = r.job
           /\ \A body \in Bodies :
                 CanEdit(r) => Edited(r, body) \in Rows /\ Edited(r, body).job = r.job
<1>1. r.rev \in 1 .. MaxRev + 1 /\ (CanEdit(r) => r.rev + 1 \in 1 .. MaxRev + 1)
  BY LedgerAssumption DEF Rows, CanEdit
<1>2. \A status \in Statuses : Resolved(r, status) \in Rows /\ Resolved(r, status).job = r.job
  BY DEF Rows, Resolved
<1>3. Deleted(r) \in Rows /\ Deleted(r).job = r.job
  BY DEF Rows, Deleted
<1>4. ASSUME NEW body \in Bodies, CanEdit(r)
      PROVE  Edited(r, body) \in Rows /\ Edited(r, body).job = r.job
  BY <1>1, <1>4 DEF Rows, Edited
<1> QED BY <1>2, <1>3, <1>4

---------------------------------------------------------------------------------
(* The start, and what steps that leave the rows alone keep.                     *)
LEMMA InitRows == Init => RowsInv
<1> SUFFICES ASSUME Init PROVE RowsInv OBVIOUS
<1> USE DEF Init, CandidatesInit, OutboxInit, LedgerInit, ProjectionInit
<1>1. PICK s \in Scenarios : LedgerInit(s.now) /\ ProjectionInit(s.stream) OBVIOUS
<1>2. DOMAIN recipes = {} BY <1>1
<1>3. RowsOK BY <1>1, <1>2, ScenarioAssumption, FS_EmptySet DEF RowsOK
<1>4. RequestsOK BY DEF RequestsOK
<1>5. ScansOK BY <1>2 DEF ScansOK
<1>6. ApplicationsOK BY FS_EmptySet DEF ApplicationsOK, InjectedOnce
<1>7. Len(stream) \in Nat BY <1>1, StreamAssumption
<1>8. ListenerOK BY <1>1, <1>7 DEF ListenerOK, Listening
<1> QED BY <1>3, <1>4, <1>5, <1>6, <1>8 DEF RowsInv

\* The listener's position survives steps that project nothing.
LEMMA ListenerKept ==
    ASSUME ListenerOK, UNCHANGED projectionVars, \A e : Unprojected(e) => Unprojected(e)'
    PROVE  ListenerOK'
BY DEF ListenerOK, projectionVars, Event, Known

\* The applications survive steps that write none.
LEMMA ApplicationsKept ==
    ASSUME ApplicationsOK, UNCHANGED <<applications, stream>>
    PROVE  /\ ApplicationsOK'
           /\ \A apps : ReportsOK(apps)' = ReportsOK(apps)
           /\ \A e : Unprojected(e)' = Unprojected(e)
<1>1. \A a : MadeOf(a)' = MadeOf(a) BY DEF MadeOf
<1> QED BY <1>1 DEF ApplicationsOK, InjectedOnce, ReportsOK, Unprojected

\* A scan's recipes survive steps that leave their job alone.
LEMMA ScansKept ==
    ASSUME ScansOK, UNCHANGED writing, DOMAIN recipes' = DOMAIN recipes,
           \A id \in DOMAIN recipes : recipes'[id].job = recipes[id].job
    PROVE  ScansOK'
BY DEF ScansOK, Pending

\* Steps that leave recipes and applications alone keep the rows.
LEMMA KeptRows ==
    ASSUME RowsInv, UNCHANGED <<recipes, applications, clock, writing, projectionVars>>,
           open' \subseteq open, outbox' \subseteq outbox, lock' \in Drainers \cup {None}
    PROVE  RowsInv'
<1> USE DEF RowsInv
<1>1. /\ ApplicationsOK'
      /\ \A apps : ReportsOK(apps)' = ReportsOK(apps)
      /\ \A e : Unprojected(e)' = Unprojected(e)
  BY ApplicationsKept DEF projectionVars
<1>2. RowsOK' BY DEF RowsOK
<1>3. \A writes : WritesOK(writes)' = WritesOK(writes) BY DEF WritesOK
<1>4. RequestsOK' BY <1>1, <1>3 DEF RequestsOK
<1>5. ScansOK' BY ScansKept
<1>6. ListenerOK' BY <1>1, ListenerKept
<1> QED BY <1>1, <1>2, <1>4, <1>5, <1>6

---------------------------------------------------------------------------------
(* Requests.                                                                     *)
LEMMA OpenRows ==
    ASSUME RowsInv, NEW writes, NEW apps, Open(writes, apps), WritesOK(writes), ReportsOK(apps),
           UNCHANGED <<candidateVars, drainVars, projectionVars>>
    PROVE  RowsInv'
<1> USE DEF RowsInv, Open, candidateVars, drainVars
<1>1. /\ ApplicationsOK'
      /\ \A as : ReportsOK(as)' = ReportsOK(as)
      /\ \A e : Unprojected(e)' = Unprojected(e)
  BY ApplicationsKept DEF projectionVars
<1>2. RowsOK' BY DEF RowsOK
<1>3. \A ws : WritesOK(ws)' = WritesOK(ws) BY DEF WritesOK
<1>4. RequestsOK'
  <2> DEFINE new == [at |-> clock + 1, writes |-> writes, apps |-> apps]
  <2>1. new.at \in 1 .. MaxRequests BY LedgerAssumption DEF RowsOK
  <2>2. open' = open \cup {new} /\ new.writes = writes /\ new.apps = apps OBVIOUS
  <2> HIDE DEF new
  <2> QED BY <1>1, <1>3, <2>1, <2>2 DEF RequestsOK
<1>5. ScansOK' BY ScansKept
<1>6. ListenerOK' BY <1>1, ListenerKept
<1> QED BY <1>1, <1>2, <1>4, <1>5, <1>6

\* What the requests read is of its kind.
LEMMA RequestReads ==
    ASSUME RowsInv, NEW id \in DOMAIN recipes,
           \/ Accept(id) \/ Dismiss(id) \/ Retire(id) \/ Delete(id)
           \/ \E body \in Bodies : Edit(id, body)
           \/ \E task \in TaskIds, outcome \in Outcomes : ReportOutcome(id, task, outcome)
    PROVE  \E writes, apps : Open(writes, apps) /\ WritesOK(writes) /\ ReportsOK(apps)
<1> USE DEF RowsInv
<1>0. \A p \in DOMAIN recipes : recipes[p] \in Rows BY DEF RowsOK
<1>1. ASSUME NEW writes, DOMAIN writes \subseteq DOMAIN recipes,
             \A p \in DOMAIN writes : writes[p] \in Rows /\ writes[p].job = recipes[p].job,
             Open(writes, {})
      PROVE  \E ws, as : Open(ws, as) /\ WritesOK(ws) /\ ReportsOK(as)
  BY <1>1 DEF WritesOK, ReportsOK
<1>3. CASE Accept(id)
  <2> DEFINE w == [p \in {id} \cup OwnedParent(id) |->
                     Resolved(recipes[p], IF p \in OwnedParent(id) THEN "superseded" ELSE "active")]
  <2>1. OwnedParent(id) \subseteq DOMAIN recipes BY DEF OwnedParent, Live
  <2>2. \A p \in DOMAIN w : w[p] \in Rows /\ w[p].job = recipes[p].job
    BY <1>0, <2>1, MovedRows DEF Statuses
  <2>3. DOMAIN w \subseteq DOMAIN recipes BY <2>1
  <2>4. Open(w, {}) BY <1>3 DEF Accept
  <2> QED BY <1>1, <2>2, <2>3, <2>4
<1>4. CASE Dismiss(id)
  <2> DEFINE w == [p \in {id} |-> Resolved(recipes[p], "dismissed")]
  <2>1. \A p \in DOMAIN w : w[p] \in Rows /\ w[p].job = recipes[p].job
    BY <1>0, MovedRows DEF Statuses
  <2> QED BY <1>1, <1>4, <2>1 DEF Dismiss
<1>5. CASE Retire(id)
  <2> DEFINE w == [p \in {id} |-> Resolved(recipes[p], "retired")]
  <2>1. \A p \in DOMAIN w : w[p] \in Rows /\ w[p].job = recipes[p].job
    BY <1>0, MovedRows DEF Statuses
  <2> QED BY <1>1, <1>5, <2>1 DEF Retire
<1>6. CASE Delete(id)
  <2> DEFINE w == [p \in {id} |-> Deleted(recipes[p])]
  <2>1. \A p \in DOMAIN w : w[p] \in Rows /\ w[p].job = recipes[p].job
    BY <1>0, MovedRows
  <2> QED BY <1>1, <1>6, <2>1 DEF Delete
<1>7. ASSUME NEW body \in Bodies, Edit(id, body)
      PROVE  \E writes, apps : Open(writes, apps) /\ WritesOK(writes) /\ ReportsOK(apps)
  <2> DEFINE w == [p \in {id} |-> Edited(recipes[p], body)]
  <2>1. \A p \in DOMAIN w : w[p] \in Rows /\ w[p].job = recipes[p].job
    BY <1>0, <1>7, MovedRows DEF Edit
  <2> QED BY <1>1, <1>7, <2>1 DEF Edit
<1>8. ASSUME NEW task \in TaskIds, NEW outcome \in Outcomes, ReportOutcome(id, task, outcome)
      PROVE  \E writes, apps : Open(writes, apps) /\ WritesOK(writes) /\ ReportsOK(apps)
  <2> DEFINE manual == [id |-> clock + 1, recipe |-> id, task |-> task,
                        via |-> "manual", outcome |-> None, anchored |-> FALSE]
  <2>1. PICK a : a \in applications \cup {manual} /\ Open(<<>>, {[a EXCEPT !.outcome = outcome]})
    <3> DEFINE opened == {a \in applications : a.task = task /\ a.recipe = id}
    <3>1. PICK a \in IF opened = {} THEN {manual} ELSE opened :
             Open(<<>>, {[a EXCEPT !.outcome = outcome]})
      BY <1>8 DEF ReportOutcome
    <3>2. a \in applications \cup {manual} OBVIOUS
    <3> QED BY <3>1, <3>2
  <2> DEFINE row == [a EXCEPT !.outcome = outcome]
  <2>2. /\ a \in ApplicationRows(a.id)
        /\ IF a.anchored THEN a \in applications ELSE a.id \in Nat
    <3>1. CASE a \in applications BY <3>1 DEF ApplicationsOK
    <3>2. CASE a = manual
      <4>1. clock + 1 \in Nat /\ id \in RecipeIds BY DEF RowsOK
      <4> QED BY <3>2, <4>1 DEF ApplicationRows
    <3> QED BY <2>1, <3>1, <3>2
  <2>3. row \in ApplicationRows(row.id) /\ row.outcome = outcome /\ row.id = a.id
           /\ row.anchored = a.anchored
    BY <2>2 DEF ApplicationRows
  <2> HIDE DEF row
  <2>4. ReportsOK({row}) BY <2>2, <2>3 DEF ReportsOK
  <2>5. WritesOK(<<>>) BY DEF WritesOK
  <2> QED BY <2>1, <2>4, <2>5 DEF row
<1> QED BY <1>3, <1>4, <1>5, <1>6, <1>7, <1>8

\* Committing a transaction keeps the rows.
LEMMA CommitRows ==
    ASSUME RowsInv, NEW q \in open, Commit(q),
           UNCHANGED <<candidateVars, drainVars, projectionVars>>
    PROVE  RowsInv'
<1> USE DEF RowsInv, Commit, candidateVars, drainVars
<1>0. q.at \in 1 .. MaxRequests /\ WritesOK(q.writes) /\ ReportsOK(q.apps) BY DEF RequestsOK
<1>1. /\ DOMAIN recipes' = DOMAIN recipes
      /\ \A id \in DOMAIN recipes : recipes'[id].job = recipes[id].job /\ recipes'[id] \in Rows
  <2>1. /\ DOMAIN recipes' = DOMAIN recipes \cup DOMAIN q.writes
        /\ \A id \in DOMAIN q.writes : recipes'[id] = q.writes[id]
        /\ \A id \in DOMAIN recipes \ DOMAIN q.writes : recipes'[id] = recipes[id]
    BY OverwriteRows, Zenon
  <2> QED BY <1>0, <2>1 DEF WritesOK, RowsOK
<1>2. RowsOK'
  <2>1. Enqueued(q.at, q.writes) \subseteq [at : 1 .. MaxRequests, target : RecipeIds]
    BY <1>0 DEF Enqueued, WritesOK, RowsOK
  <2> QED BY <1>1, <2>1 DEF RowsOK
<1>3. /\ ApplicationsOK'
      /\ \A apps : ReportsOK(apps) => ReportsOK(apps)'
      /\ \A e : Unprojected(e) => Unprojected(e)'
  <2>1. CASE q.apps = {}
    <3>1. UNCHANGED <<applications, stream>> BY <2>1 DEF projectionVars
    <3> QED BY <3>1, ApplicationsKept
  <2>2. CASE q.apps # {}
    <3> DEFINE row == CHOOSE a \in q.apps : TRUE
    <3>1. row \in q.apps BY <2>2
    <3>2. applications' = UpsertApplication(applications, row) /\ stream' = stream
      BY <2>2 DEF projectionVars
    <3> HIDE DEF row
    <3>3. /\ row \in ApplicationRows(row.id) /\ Upsertable(row)
          /\ row.anchored => \E a \in applications : a.id = row.id
      BY <1>0, <3>1 DEF ReportsOK, Upsertable, ApplicationRows
    <3> QED BY <3>2, <3>3, UpsertKeeps
  <2> QED BY <2>1, <2>2
<1>4. \A writes : WritesOK(writes) => WritesOK(writes)'
  BY <1>1 DEF WritesOK
<1>5. RequestsOK' BY <1>3, <1>4 DEF RequestsOK
<1>6. ScansOK' BY <1>1, ScansKept
<1>7. ListenerOK' BY <1>3, ListenerKept
<1> QED BY <1>2, <1>3, <1>5, <1>6, <1>7

\* A step of the job ledger keeps the rows.
LEMMA LedgerRows ==
    ASSUME RowsInv, LedgerNext, UNCHANGED <<candidateVars, drainVars, projectionVars>>
    PROVE  RowsInv'
<1>1. ASSUME NEW q \in open, Rollback(q) PROVE RowsInv'
  <2>1. /\ UNCHANGED <<recipes, applications, clock, writing, outbox, lock>>
        /\ open' \subseteq open
    BY <1>1 DEF Rollback, candidateVars, drainVars
  <2>2. lock \in Drainers \cup {None} BY DEF RowsInv, RowsOK
  <2> QED BY <2>1, <2>2, KeptRows
<1>2. ASSUME NEW writes, NEW apps, Open(writes, apps), WritesOK(writes), ReportsOK(apps)
      PROVE  RowsInv'
  BY <1>2, OpenRows
<1> QED BY <1>1, <1>2, CommitRows, RequestReads DEF LedgerNext

---------------------------------------------------------------------------------
(* The outputs of a scan.                                                        *)

\* A job without candidates, deleted ones included, has no row at all.
LEMMA NoneCounted ==
    ASSUME RowsOK, NEW job, CountBySourceJob(job) = 0
    PROVE  \A id \in DOMAIN recipes : recipes[id].job # job
<1> DEFINE mine == {id \in DOMAIN recipes : recipes[id].job = job}
<1>1. IsFiniteSet(mine) BY FS_Subset DEF RowsOK
<1>2. mine = {} BY <1>1, FS_EmptySet DEF CountBySourceJob
<1> QED BY <1>2

\* Beginning a candidates' write keeps the rows.
LEMMA BeginCandidatesRows ==
    ASSUME RowsInv, NEW job \in Jobs, BeginCandidates(job), UNCHANGED <<drainVars, projectionVars>>
    PROVE  RowsInv'
<1> USE DEF RowsInv, drainVars
<1>0. UNCHANGED <<recipes, applications, outbox, open, stream, lock>> /\ clock' = clock + 1
  BY DEF BeginCandidates, projectionVars
<1>1. /\ ApplicationsOK'
      /\ \A as : ReportsOK(as)' = ReportsOK(as)
      /\ \A e : Unprojected(e)' = Unprojected(e)
  BY <1>0, ApplicationsKept
<1>2. RowsOK' BY <1>0 DEF RowsOK
<1>3. \A ws : WritesOK(ws)' = WritesOK(ws) BY <1>0 DEF WritesOK
<1>4. RequestsOK' BY <1>0, <1>1, <1>3 DEF RequestsOK
<1>5. ScansOK'
  <2>1. PICK id \in RecipeIds, body \in Bodies, named \in DOMAIN recipes \cup {None},
             seenRev \in 1 .. MaxRev :
           /\ Fresh(id)
           /\ named = None => seenRev = 1
           /\ writing' = [writing EXCEPT ![job] =
                [at |-> clock + 1, rows |-> [p \in {id} |-> Candidate(job, body, named, seenRev)]]]
    BY Zenon DEF BeginCandidates
  <2>2. Candidate(job, body, named, seenRev) \in Rows /\ Candidate(job, body, named, seenRev).job = job
    BY JobsAssumption, LedgerAssumption DEF Candidate, Rows, RowsOK, Statuses
  <2>3. clock + 1 \in 1 .. MaxRequests BY LedgerAssumption DEF RowsOK, BeginCandidates
  <2>4. \A p \in DOMAIN recipes : recipes[p].job # job
    BY NoneCounted DEF BeginCandidates
  <2>5. /\ writing'[job].at \in 1 .. MaxRequests /\ DOMAIN writing'[job].rows = {id}
        /\ writing'[job].rows[id] \in Rows /\ writing'[job].rows[id].job = job
        /\ \A j \in Jobs \ {job} : writing'[j] = writing[j]
        /\ writing' = [j \in Jobs |-> writing'[j]]
    BY <2>1, <2>2, <2>3 DEF ScansOK
  <2>6. ASSUME NEW j \in Jobs, writing'[j] # None PROVE Pending(j)'
    <3>1. CASE j = job BY <1>0, <2>1, <2>4, <2>5, <3>1 DEF Pending, Fresh
    <3>2. CASE j # job
      <4>1. writing'[j] = writing[j] /\ Pending(j) BY <2>5, <2>6, <3>2 DEF ScansOK
      <4>2. id \notin DOMAIN writing[j].rows BY <2>1, <2>6, <4>1 DEF Fresh
      <4>3. \A i \in Jobs \ {j} : writing'[i] # None
               => DOMAIN writing'[i].rows \cap DOMAIN writing'[j].rows = {}
        BY <2>5, <4>1, <4>2 DEF Pending
      <4> QED BY <1>0, <4>1, <4>3 DEF Pending
    <3> QED BY <3>1, <3>2
  <2>7. \A a, b \in DOMAIN recipes' :
           recipes'[a].job = recipes'[b].job /\ recipes'[a].job \in Jobs => a = b
    BY <1>0 DEF ScansOK
  <2> QED BY <2>5, <2>6, <2>7 DEF ScansOK
<1>6. ListenerOK' BY <1>1, ListenerKept
<1> QED BY <1>1, <1>2, <1>4, <1>5, <1>6

\* Committing a scan's candidates keeps the rows.
LEMMA CommitCandidatesRows ==
    ASSUME RowsInv, NEW job \in Jobs, CommitCandidates(job),
           UNCHANGED <<drainVars, projectionVars>>
    PROVE  RowsInv'
<1> USE DEF RowsInv, drainVars
<1>0. /\ writing[job] # None /\ recipes' = Overwrite(writing[job].rows)
      /\ outbox' = outbox \cup Enqueued(writing[job].at, writing[job].rows)
      /\ writing' = [writing EXCEPT ![job] = None]
      /\ UNCHANGED <<applications, open, clock, stream, lock>>
  BY DEF CommitCandidates, projectionVars
<1>1. Pending(job) BY <1>0 DEF ScansOK
<1>2. PICK id \in RecipeIds \ DOMAIN recipes :
         /\ DOMAIN writing[job].rows = {id}
         /\ writing[job].rows[id] \in Rows /\ writing[job].rows[id].job = job
  BY <1>1 DEF Pending
<1>3. /\ DOMAIN recipes' = DOMAIN recipes \cup {id}
      /\ recipes'[id] \in Rows /\ recipes'[id].job = job
      /\ \A p \in DOMAIN recipes : recipes'[p] = recipes[p]
  <2>1. /\ DOMAIN recipes' = DOMAIN recipes \cup DOMAIN writing[job].rows
        /\ \A p \in DOMAIN writing[job].rows : recipes'[p] = writing[job].rows[p]
        /\ \A p \in DOMAIN recipes \ DOMAIN writing[job].rows : recipes'[p] = recipes[p]
    BY <1>0, OverwriteRows, Zenon
  <2> QED BY <1>2, <2>1
<1>4. RowsOK'
  <2>1. Enqueued(writing[job].at, writing[job].rows) \subseteq [at : 1 .. MaxRequests, target : RecipeIds]
    BY <1>1, <1>2 DEF Enqueued, Pending
  <2>2. IsFiniteSet(DOMAIN recipes') BY <1>3, FS_AddElement DEF RowsOK
  <2> QED BY <1>0, <1>3, <2>1, <2>2 DEF RowsOK
<1>5. /\ ApplicationsOK'
      /\ \A as : ReportsOK(as)' = ReportsOK(as)
      /\ \A e : Unprojected(e)' = Unprojected(e)
  BY <1>0, ApplicationsKept
<1>6. \A ws : WritesOK(ws) => WritesOK(ws)' BY <1>3 DEF WritesOK
<1>7. RequestsOK' BY <1>0, <1>5, <1>6 DEF RequestsOK
<1>8. ScansOK'
  <2>1. /\ writing' = [j \in Jobs |-> writing'[j]]
        /\ \A j \in Jobs : writing'[j] # None => j # job /\ writing[j] # None /\ writing'[j] = writing[j]
    BY <1>0 DEF ScansOK
  <2>2. ASSUME NEW j \in Jobs, writing'[j] # None PROVE Pending(j)'
    <3>1. j # job /\ writing'[j] = writing[j] /\ Pending(j) BY <2>1, <2>2 DEF ScansOK
    <3>2. id \notin DOMAIN writing[j].rows BY <1>0, <1>2, <3>1 DEF Pending
    <3>3. \A p \in DOMAIN recipes' : recipes'[p].job # j BY <1>3, <3>1 DEF Pending
    <3>4. \E p \in RecipeIds \ DOMAIN recipes' :
             /\ DOMAIN writing'[j].rows = {p}
             /\ writing'[j].rows[p] \in Rows /\ writing'[j].rows[p].job = j
      BY <1>3, <3>1, <3>2 DEF Pending
    <3>5. \A i \in Jobs \ {j} : writing'[i] # None
               => DOMAIN writing'[i].rows \cap DOMAIN writing'[j].rows = {}
      BY <2>1, <3>1 DEF Pending
    <3>6. writing'[j].at \in 1 .. MaxRequests BY <3>1 DEF Pending
    <3> QED BY <3>3, <3>4, <3>5, <3>6 DEF Pending
  <2>3. \A a, b \in DOMAIN recipes' :
           recipes'[a].job = recipes'[b].job /\ recipes'[a].job \in Jobs => a = b
    BY <1>1, <1>3 DEF ScansOK, Pending
  <2> QED BY <2>1, <2>2, <2>3 DEF ScansOK
<1>9. ListenerOK' BY <1>5, ListenerKept
<1> QED BY <1>4, <1>5, <1>7, <1>8, <1>9

\* A candidates' write that is lost keeps the rows.
LEMMA LoseCandidatesRows ==
    ASSUME RowsInv, NEW job \in Jobs, LoseCandidates(job), UNCHANGED <<drainVars, projectionVars>>
    PROVE  RowsInv'
<1> USE DEF RowsInv, drainVars, ledgerVars, LoseCandidates
<1>1. /\ ApplicationsOK'
      /\ \A as : ReportsOK(as)' = ReportsOK(as)
      /\ \A e : Unprojected(e)' = Unprojected(e)
  BY ApplicationsKept DEF projectionVars
<1>2. RowsOK' BY DEF RowsOK
<1>3. \A ws : WritesOK(ws)' = WritesOK(ws) BY DEF WritesOK
<1>4. RequestsOK' BY <1>1, <1>3 DEF RequestsOK
<1>5. ScansOK'
  <2>1. /\ writing' = [j \in Jobs |-> writing'[j]]
        /\ \A j \in Jobs : writing'[j] # None => writing'[j] = writing[j]
    BY DEF ScansOK
  <2> QED BY <2>1 DEF ScansOK, Pending
<1>6. ListenerOK' BY <1>1, ListenerKept
<1> QED BY <1>1, <1>2, <1>4, <1>5, <1>6

\* A step of the candidates' write keeps the rows.
LEMMA CandidatesRows ==
    ASSUME RowsInv, CandidatesNext, UNCHANGED <<drainVars, projectionVars>>
    PROVE  RowsInv'
BY BeginCandidatesRows, CommitCandidatesRows, LoseCandidatesRows DEF CandidatesNext

---------------------------------------------------------------------------------
(* The projection.                                                               *)

\* An event whose pair was not projected names a row of its own.
LEMMA EventIsNew ==
    ASSUME RowsInv, listener.phase = "upsert", ~Known
    PROVE  /\ Projected \in ApplicationRows(Projected.id) /\ Upsertable(Projected)
           /\ \A a \in applications : a.id # Projected.id
<1> USE DEF RowsInv
<1>1. /\ listener.position \in 1 .. Len(stream) /\ Selected(Event) /\ Unprojected(Event)
      /\ Event = stream[listener.position]
  BY DEF ListenerOK, Event
<1>2. /\ Event.recipe \in RecipeIds /\ Event.task \in TaskIds /\ Event.via \in {"pull", "manual"}
      /\ Event.app \notin Nat
      /\ \A i \in 1 .. Len(stream) : Selected(stream[i]) /\ stream[i].app = Event.app
            => stream[i].recipe = Event.recipe /\ stream[i].task = Event.task
  <2>1. PICK s \in Scenarios : stream = s.stream BY DEF ListenerOK
  <2> QED BY <1>1, <2>1, StreamAssumption
<1>3. /\ Projected.id = Event.app /\ Projected.recipe = Event.recipe /\ Projected.task = Event.task
      /\ Projected.anchored /\ Projected \in ApplicationRows(Projected.id)
  BY <1>2 DEF Projected, ApplicationRows
<1>4. MadeOf(Projected) BY <1>1, <1>3 DEF MadeOf
<1>5. Unprojected(Projected) BY <1>1, <1>3 DEF Unprojected
<1>6. \A a \in applications : a.id # Event.app
  <2> SUFFICES ASSUME NEW a \in applications, a.id = Event.app PROVE FALSE OBVIOUS
  <2>1. a.anchored /\ MadeOf(a) BY <1>2 DEF ApplicationsOK
  <2>2. a.recipe = Event.recipe /\ a.task = Event.task BY <1>2, <2>1 DEF MadeOf
  <2> QED BY <1>1, <2>1, <2>2 DEF Unprojected
<1> QED BY <1>3, <1>4, <1>5, <1>6 DEF Upsertable

\* A step of the listener that may project the event in hand and goes on or back.
LEMMA ListenerRows ==
    ASSUME RowsInv, UNCHANGED <<recipes, outbox, open, clock, candidateVars, drainVars, stream>>,
           \/ UNCHANGED applications
           \/ /\ listener.phase = "upsert" /\ ~Known
              /\ applications' = UpsertApplication(applications, Projected),
           ListenerOK'
    PROVE  RowsInv'
<1> USE DEF RowsInv, candidateVars, drainVars
<1>1. /\ ApplicationsOK'
      /\ \A apps : ReportsOK(apps) => ReportsOK(apps)'
  <2>1. CASE UNCHANGED applications BY <2>1, ApplicationsKept
  <2>2. CASE /\ listener.phase = "upsert" /\ ~Known
             /\ applications' = UpsertApplication(applications, Projected)
    <3>1. Projected \in ApplicationRows(Projected.id) /\ Upsertable(Projected)
      BY <2>2, EventIsNew
    <3> QED BY <2>2, <3>1, UpsertKeeps
  <2> QED BY <2>1, <2>2
<1>2. RowsOK' BY DEF RowsOK
<1>3. \A writes : WritesOK(writes)' = WritesOK(writes) BY DEF WritesOK
<1>4. RequestsOK' BY <1>1, <1>3 DEF RequestsOK
<1>5. ScansOK' BY ScansKept
<1> QED BY <1>1, <1>2, <1>4, <1>5

\* A step of the projection keeps the rows.
LEMMA ProjectionRows ==
    ASSUME RowsInv, ProjectionNext, UNCHANGED <<candidateVars, drainVars>>
    PROVE  RowsInv'
<1> USE DEF RowsInv
<1>0. Len(stream) \in Nat BY StreamAssumption DEF ListenerOK
<1>1. /\ UNCHANGED <<recipes, outbox, open, clock, stream>>
      /\ \/ UNCHANGED applications
         \/ /\ listener.phase = "upsert" /\ ~Known
            /\ applications' = UpsertApplication(applications, Projected)
  BY DEF ProjectionNext, Poll, FindByTask, UpsertEvent, FailEvent, CommitOffset, FailOffset,
         RestartProjector, ledgerVars
<1>2. ListenerOK'
  <2> USE DEF ListenerOK
  <2>0. listener = [position |-> listener.position, phase |-> listener.phase,
                    seen |-> listener.seen]
    OBVIOUS
  <2>1. CASE Poll
    <3> DEFINE next == listener.position + 1
               phase == IF Selected(stream[next]) THEN "find" ELSE "commit"
    <3>1. /\ listener' = [position |-> next, phase |-> phase, seen |-> listener.seen]
          /\ committed' = committed /\ stream' = stream
          /\ next \in 1 .. Len(stream)
      <4>1. listener' = [listener EXCEPT !.position = next, !.phase = phase]
        BY <2>1 DEF Poll
      <4>2. listener' = [position |-> next, phase |-> phase, seen |-> listener.seen]
        <5> HIDE DEF next, phase
        <5> QED BY <2>0, <4>1, Zenon
      <4>3. next \in 1 .. Len(stream) BY <1>0, <2>1 DEF Poll
      <4> QED BY <2>1, <4>2, <4>3 DEF Poll
    <3>2. phase = "find" => Selected(stream[next]) OBVIOUS
    <3>3. phase # "upsert" OBVIOUS
    <3> HIDE DEF next, phase
    <3>4. Event' = stream[next] BY <3>1 DEF Event
    <3>5. Selected(Event)' = Selected(stream[next]) BY <3>4 DEF Selected
    <3> QED BY <3>1, <3>2, <3>3, <3>5
  <2>2. CASE FindByTask
    <3>1. /\ listener' = [position |-> listener.position, phase |-> "upsert",
                          seen |-> {a \in applications : a.task = Event.task}]
          /\ UNCHANGED <<applications, committed, stream>>
          /\ listener.position \in 1 .. Len(stream) /\ Selected(Event)
      BY <2>0, <2>2 DEF FindByTask, ledgerVars
    <3>2. Event' = Event BY <3>1 DEF Event
    <3>3. ~Known' => Unprojected(Event)'
      BY <3>1, <3>2 DEF Known, Unprojected
    <3> QED BY <3>1, <3>2, <3>3 DEF Selected
  <2>3. CASE UpsertEvent
    <3>1. /\ listener' = [position |-> listener.position, phase |-> "commit", seen |-> {}]
          /\ UNCHANGED <<committed, stream>>
      BY <2>0, <2>3 DEF UpsertEvent
    <3> QED BY <3>1
  <2>4. CASE listener' = Listening(committed) /\ UNCHANGED <<committed, stream>>
    BY <2>4 DEF Listening
  <2>5. CASE CommitOffset
    <3>1. /\ listener' = [position |-> listener.position, phase |-> "poll", seen |-> listener.seen]
          /\ committed' = listener.position /\ stream' = stream
      BY <2>0, <2>5 DEF CommitOffset
    <3> QED BY <3>1
  <2>6. CASE FailOffset
    <3>1. /\ listener' = [position |-> listener.position, phase |-> "dead", seen |-> listener.seen]
          /\ committed' \in {committed, listener.position} /\ stream' = stream
      BY <2>0, <2>6 DEF FailOffset
    <3> QED BY <3>1
  <2> QED BY <2>1, <2>2, <2>3, <2>4, <2>5, <2>6 DEF ProjectionNext, FailEvent, RestartProjector
<1> QED BY <1>1, <1>2, ListenerRows

---------------------------------------------------------------------------------
(* The drain, and a step of the system.                                          *)
LEMMA DrainRows ==
    ASSUME RowsInv, DrainNext, UNCHANGED <<candidateVars, projectionVars>>
    PROVE  RowsInv'
<1>1. lock \in Drainers \cup {None} BY DEF RowsInv, RowsOK
<1>2. /\ UNCHANGED <<recipes, applications, open, clock>> /\ outbox' \subseteq outbox
      /\ lock' \in Drainers \cup {None}
  BY <1>1 DEF DrainNext, BeginDrain, ReadRecipe, WriteDocument, FailDocument, EndDrain, AbortDrain,
         DropSession, ledgerVars
<1> QED BY <1>2, KeptRows DEF candidateVars

\* Every step keeps the rows.
LEMMA StepRows ==
    ASSUME RowsInv, [Next]_vars
    PROVE  RowsInv'
<1>1. CASE LedgerNext /\ UNCHANGED <<candidateVars, drainVars, projectionVars>>
  BY <1>1, LedgerRows
<1>2. CASE CandidatesNext /\ UNCHANGED <<drainVars, projectionVars>>
  BY <1>2, CandidatesRows
<1>3. CASE DrainNext /\ UNCHANGED <<candidateVars, projectionVars>>
  BY <1>3, DrainRows
<1>4. CASE ProjectionNext /\ UNCHANGED <<candidateVars, drainVars>>
  BY <1>4, ProjectionRows
<1>5. CASE UNCHANGED vars
  <2>1. UNCHANGED <<recipes, applications, clock, writing, projectionVars, open, outbox, lock>>
    BY <1>5 DEF vars, ledgerVars, candidateVars, drainVars
  <2>2. lock \in Drainers \cup {None} BY DEF RowsInv, RowsOK
  <2> QED BY <2>1, <2>2, KeptRows
<1> QED BY <1>1, <1>2, <1>3, <1>4, <1>5 DEF Next

\* The rows' invariant holds in every state.
LEMMA RowsHold == Spec => []RowsInv
<1>1. Init => RowsInv BY InitRows
<1>2. RowsInv /\ [Next]_vars => RowsInv' BY StepRows
<1> QED BY <1>1, <1>2, PTL DEF Spec

---------------------------------------------------------------------------------
(* The theorems.                                                                 *)

(* The tables are well typed, whatever requests overwrite each other (store.py). *)
THEOREM RecipesTypeCorrect == Spec => []TypeOK
<1>1. RowsInv => TypeOK
  BY DEF RowsInv, RowsOK, ApplicationsOK, ListenerOK, TypeOK
<1> QED BY <1>1, RowsHold, PTL

(* However often an injection is delivered, and however often a task brings the  *)
(* same recipe in, one event-made application counts for the pair                *)
(* (projection.py).                                                              *)
THEOREM InjectionsCountOnce == Spec => []InjectedOnce
<1>1. RowsInv => InjectedOnce BY DEF RowsInv, ApplicationsOK
<1> QED BY <1>1, RowsHold, PTL

(* Whatever attempts of a scan's outputs are lost or made again, and whatever    *)
(* the user has deleted of them, the job has its candidates once (outputs.py).   *)
THEOREM CandidatesWrittenOnce == Spec => []OneSetPerJob
<1>1. ASSUME RowsInv, NEW job \in Jobs PROVE CountBySourceJob(job) <= 1
  <2> DEFINE mine == {id \in DOMAIN recipes : recipes[id].job = job}
  <2>1. \A a, b \in mine : a = b BY <1>1 DEF RowsInv, ScansOK
  <2>2. mine = {} \/ \E id : mine = {id} BY <2>1
  <2>3. Cardinality(mine) \in {0, 1} BY <2>2, FS_EmptySet, FS_Singleton
  <2> HIDE DEF mine
  <2>4. Cardinality(mine) <= 1 BY <2>3
  <2> QED BY <2>4 DEF mine, CountBySourceJob
<1>2. RowsInv => OneSetPerJob BY <1>1 DEF OneSetPerJob
<1> QED BY <1>2, RowsHold, PTL

\* An upsert that reports, or that adds a row, takes no report away.
LEMMA DecidedGrow ==
    ASSUME ApplicationsOK, NEW row, row \in ApplicationRows(row.id),
           row.outcome # None \/ \A a \in applications : a.id # row.id,
           applications' = UpsertApplication(applications, row), NEW id
    PROVE  Stats(id, applications').decided >= Stats(id, applications).decided
<1> DEFINE mine(apps) == {a \in apps : a.recipe = id}
           decided(apps) == {a \in mine(apps) : a.outcome # None}
           D == decided(applications)
           E == decided(applications')
<1>1. /\ IsFiniteSet(applications')
      /\ \A a \in applications : \E u \in applications' : SameCoordinates(a, u)
            /\ u.outcome = IF a.id = row.id THEN row.outcome ELSE a.outcome
  BY UpsertRows DEF ApplicationsOK
<1>2. \A a \in D : \E u \in E : u.id = a.id BY <1>1 DEF SameCoordinates
<1>3. \A a, b \in D : a.id = b.id => a = b BY DEF ApplicationsOK
<1>4. IsFiniteSet(D) /\ IsFiniteSet(E) BY <1>1, FS_Subset DEF ApplicationsOK
<1>5. Stats(id, applications).decided = Cardinality(D)
  BY DEF Stats
<1>6. Stats(id, applications').decided = Cardinality(E)
  BY DEF Stats
<1> HIDE DEF D, E
<1>7. Cardinality(D) <= Cardinality(E)
  <2> DEFINE f == [a \in D |-> CHOOSE u \in E : u.id = a.id]
  <2>1. \A a \in D : f[a] \in E /\ f[a].id = a.id BY <1>2
  <2>2. f \in [D -> E] BY <2>1
  <2>3. \A a, b \in D : f[a] = f[b] => a = b BY <1>3, <2>1
  <2> HIDE DEF f
  <2>4. f \in Injection(D, E) BY <2>2, <2>3 DEF Injection, IsInjective
  <2> QED BY <1>4, <2>4, FS_Injection
<1>8. Cardinality(D) \in Nat /\ Cardinality(E) \in Nat BY <1>4, FS_CardinalityType
<1> QED BY <1>5, <1>6, <1>7, <1>8

(* A report is never taken away by a redelivered or repeated injection, so the   *)
(* decided applications of a recipe never get fewer (projection.py, service.py). *)
THEOREM ReportsAreKept == Spec => DecidedNeverDrops
<1>1. ASSUME RowsInv, [Next]_vars, NEW id \in RecipeIds
      PROVE  Stats(id, applications').decided >= Stats(id, applications).decided
  <2> USE <1>1 DEF RowsInv
  <2>1. CASE UNCHANGED applications
    <3>1. Stats(id, applications).decided \in Nat
      <4> DEFINE D == {a \in {a \in applications : a.recipe = id} : a.outcome # None}
      <4>1. IsFiniteSet(D) BY FS_Subset DEF ApplicationsOK
      <4>2. Cardinality(D) \in Nat BY <4>1, FS_CardinalityType
      <4> QED BY <4>2 DEF Stats
    <3> QED BY <2>1, <3>1
  <2>2. CASE LedgerNext /\ ~UNCHANGED applications
    <3>1. PICK q \in open : Commit(q)
      BY <2>2 DEF LedgerNext, Accept, Dismiss, Retire, Edit, Delete, ReportOutcome, Open, Rollback
    <3> DEFINE row == CHOOSE a \in q.apps : TRUE
    <3>2. q.apps # {} /\ applications' = UpsertApplication(applications, row)
      BY <2>2, <3>1 DEF Commit
    <3>3. row \in q.apps BY <3>2
    <3> HIDE DEF row
    <3>4. row \in ApplicationRows(row.id) /\ row.outcome # None
      BY <3>3, LedgerAssumption DEF RequestsOK, ReportsOK
    <3> QED BY <3>2, <3>4, DecidedGrow
  <2>3. CASE ProjectionNext /\ ~UNCHANGED applications
    <3>1. /\ listener.phase = "upsert" /\ ~Known
          /\ applications' = UpsertApplication(applications, Projected)
      BY <2>3 DEF ProjectionNext, Poll, FindByTask, UpsertEvent, FailEvent, CommitOffset, FailOffset,
             RestartProjector, ledgerVars
    <3> QED BY <3>1, EventIsNew, DecidedGrow
  <2>4. CASE CandidatesNext \/ DrainNext
    BY <2>1, <2>4 DEF CandidatesNext, BeginCandidates, CommitCandidates, LoseCandidates, DrainNext,
           BeginDrain, ReadRecipe, WriteDocument, FailDocument, EndDrain, AbortDrain, DropSession,
           ledgerVars
  <2>5. CASE UNCHANGED vars BY <2>1, <2>5 DEF vars, ledgerVars
  <2> QED BY <2>1, <2>2, <2>3, <2>4, <2>5 DEF Next
<1>2. RowsInv /\ [Next]_vars =>
         [\A id \in RecipeIds :
            Stats(id, applications').decided >= Stats(id, applications).decided]_vars
  BY <1>1
<1> QED BY <1>2, RowsHold, PTL DEF Spec, DecidedNeverDrops
=================================================================================
