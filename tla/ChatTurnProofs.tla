---------------------------- MODULE ChatTurnProofs ---------------------------
(* What holds of ChatTurn for any set of calls, any keys, hashes and times,    *)
(* any retry policy and any number of faults.                                  *)
EXTENDS ChatTurn, TLAPS

------------------------------------------------------------------------------
(* One row: the moves the ledger allows.                                       *)

(* A row as it is between two moves: a draft is of the attempt that owns it. *)
Sound(r) == r \in Rows /\ r.draft \in {0, r.attempt}

(* s is what one UPDATE of the ledger may make of r, or r itself. *)
Moves(r, s) ==
    \/ s = r
    \/ r.status = "running" /\ s = [r EXCEPT !.stale = TRUE]
    \/ s = Recover(r)
    \/ r.status = "queued" /\ s = Claim(r)
    \/ \E n \in AttemptIds : MayBegin(r, n) /\ s = BeginAttempt(r, n)
    \/ \E n \in AttemptIds : MayCheckpoint(r, n) /\ s = Checkpoint(r, n)
    \/ \E seen : MayComplete(r, seen) /\ s = Complete(r)
    \/ \E seen : MayRecordCanceled(r, seen) /\ s = RecordCanceled(r)
    \/ \E seen : MayFail(r, seen) /\ s = Fail(r)
    \/ \E seen : MayCancel(r, seen) /\ s = Cancel(r)

(* A closed row stays closed, but for the text of a canceled turn. *)
Final(r, s) ==
    r.status \in Terminal =>
        /\ s.status = r.status
        /\ s.message # r.message => r.status = "canceled" /\ s.message

\* What writing a status does to a row.
LEMMA RowFields ==
    ASSUME NEW r \in Rows, NEW status \in Statuses
    PROVE  /\ Touch(r, status) \in Rows
           /\ Touch(r, status).status = status
           /\ Touch(r, status).draft = r.draft
           /\ Touch(r, status).attempt = r.attempt
           /\ Touch(r, status).message = r.message
BY DEF Touch, Rows

\* A move along the ledger's states keeps a row sound and an end final.
LEMMA MoveKeeps ==
    ASSUME NEW r, Sound(r), NEW s, Moves(r, s)
    PROVE  /\ Sound(s)
           /\ Final(r, s)
           /\ s.status = "absent" <=> r.status = "absent"
<1> USE DEF Sound
<1>0. /\ r \in Rows
      /\ {"queued", "running", "completed", "failed", "canceled", "absent"} \subseteq Statuses
      /\ "running" \notin Terminal /\ "queued" \notin Terminal
  BY DEF Statuses, Live, Terminal
<1>1. CASE s = r
  BY <1>1 DEF Final
<1>3. CASE s = Recover(r) /\ s # r
  <2> DEFINE t == Touch(r, "queued")
  <2>1. r.status = "running" /\ s = [t EXCEPT !.started = FALSE, !.retaken = TRUE]
    BY <1>3 DEF Recover, MayRecover
  <2>2. t \in Rows /\ t.status = "queued" /\ t.draft = r.draft /\ t.attempt = r.attempt
    BY <1>0, RowFields
  <2> HIDE DEF t
  <2>3. s \in Rows /\ s.status = "queued" /\ s.draft = r.draft /\ s.attempt = r.attempt
    BY <2>1, <2>2 DEF Rows
  <2> QED BY <1>0, <2>1, <2>3 DEF Final
<1>4. CASE r.status = "queued" /\ s = Claim(r)
  <2> DEFINE t == Touch(r, "running")
  <2>1. s = [t EXCEPT !.started = TRUE] BY <1>4 DEF Claim
  <2>2. t \in Rows /\ t.status = "running" /\ t.draft = r.draft /\ t.attempt = r.attempt
    BY <1>0, RowFields
  <2> HIDE DEF t
  <2>3. s \in Rows /\ s.status = "running" /\ s.draft = r.draft /\ s.attempt = r.attempt
    BY <2>1, <2>2 DEF Rows
  <2> QED BY <1>0, <1>4, <2>3 DEF Final
<1>5. ASSUME NEW n \in AttemptIds, MayBegin(r, n), s = BeginAttempt(r, n)
      PROVE  Sound(s) /\ Final(r, s) /\ s.status # "absent" /\ r.status # "absent"
  <2> DEFINE t == Touch(r, "running")
  <2>1. s = [t EXCEPT !.attempt = n, !.draft = 0] BY <1>5 DEF BeginAttempt
  <2>2. t \in Rows /\ t.status = "running" BY <1>0, RowFields
  <2>3. n \in Nat BY AttemptAssumption
  <2> HIDE DEF t
  <2>4. s \in Rows /\ s.status = "running" /\ s.draft = 0
    BY <2>1, <2>2, <2>3 DEF Rows
  <2>5. r.status = "running" BY <1>5 DEF MayBegin
  <2> QED BY <1>0, <2>4, <2>5 DEF Final
<1>6. ASSUME NEW n \in AttemptIds, MayCheckpoint(r, n), s = Checkpoint(r, n)
      PROVE  Sound(s) /\ Final(r, s) /\ s.status # "absent" /\ r.status # "absent"
  <2> DEFINE t == Touch(r, "running")
  <2>1. s = [t EXCEPT !.draft = n] BY <1>6 DEF Checkpoint
  <2>2. t \in Rows /\ t.status = "running" /\ t.attempt = r.attempt BY <1>0, RowFields
  <2>3. n \in Nat /\ r.status = "running" /\ r.attempt = n
    BY <1>6, AttemptAssumption DEF MayCheckpoint
  <2> HIDE DEF t
  <2>4. s \in Rows /\ s.status = "running" /\ s.draft = n /\ s.attempt = n
    BY <2>1, <2>2, <2>3 DEF Rows
  <2> QED BY <1>0, <2>3, <2>4 DEF Final
<1>7. ASSUME NEW seen, MayComplete(r, seen), s = Complete(r)
      PROVE  Sound(s) /\ Final(r, s) /\ s.status # "absent" /\ r.status # "absent"
  <2> DEFINE t == Touch(r, "completed")
  <2>1. s = [t EXCEPT !.message = TRUE] BY <1>7 DEF Complete
  <2>2. t \in Rows /\ t.status = "completed" /\ t.draft = r.draft /\ t.attempt = r.attempt
    BY <1>0, RowFields
  <2> HIDE DEF t
  <2>3. s \in Rows /\ s.status = "completed" /\ s.draft = r.draft /\ s.attempt = r.attempt
    BY <2>1, <2>2 DEF Rows
  <2>4. r.status = "running" BY <1>7 DEF MayComplete
  <2> QED BY <1>0, <2>3, <2>4 DEF Final
<1>8. ASSUME NEW seen, MayRecordCanceled(r, seen), s = RecordCanceled(r)
      PROVE  Sound(s) /\ Final(r, s) /\ s.status # "absent" /\ r.status # "absent"
  <2> DEFINE t == Touch(r, "canceled")
  <2>1. s = [t EXCEPT !.message = TRUE] BY <1>8 DEF RecordCanceled
  <2>2. t \in Rows /\ t.status = "canceled" /\ t.draft = r.draft /\ t.attempt = r.attempt
    BY <1>0, RowFields
  <2> HIDE DEF t
  <2>3. /\ s \in Rows /\ s.status = "canceled" /\ s.draft = r.draft /\ s.attempt = r.attempt
        /\ s.message
    BY <2>1, <2>2 DEF Rows
  <2>4. r.status \in {"running", "canceled"} BY <1>8 DEF MayRecordCanceled
  <2> QED BY <1>0, <2>3, <2>4 DEF Final
<1>9. ASSUME NEW seen, MayFail(r, seen), s = Fail(r)
      PROVE  Sound(s) /\ Final(r, s) /\ s.status # "absent" /\ r.status # "absent"
  <2>1. s \in Rows /\ s.status = "failed" /\ s.draft = r.draft /\ s.attempt = r.attempt
    BY <1>0, <1>9, RowFields DEF Fail
  <2>2. r.status \in {"queued", "running"} BY <1>9 DEF MayFail
  <2> QED BY <1>0, <2>1, <2>2 DEF Final
<1>10. ASSUME NEW seen, MayCancel(r, seen), s = Cancel(r)
       PROVE  Sound(s) /\ Final(r, s) /\ s.status # "absent" /\ r.status # "absent"
  <2>1. s \in Rows /\ s.status = "canceled" /\ s.draft = r.draft /\ s.attempt = r.attempt
    BY <1>0, <1>10, RowFields DEF Cancel
  <2>2. r.status \in {"queued", "running"} BY <1>10 DEF MayCancel
  <2> QED BY <1>0, <2>1, <2>2 DEF Final
<1>11. CASE r.status = "running" /\ s = [r EXCEPT !.stale = TRUE]
  <2>1. s \in Rows /\ s.status = "running" /\ s.draft = r.draft /\ s.attempt = r.attempt
    BY <1>0, <1>11 DEF Rows
  <2> QED BY <1>0, <1>11, <2>1 DEF Final
<1> QED BY <1>1, <1>3, <1>4, <1>5, <1>6, <1>7, <1>8, <1>9, <1>10, <1>11 DEF Moves

------------------------------------------------------------------------------
(* Every step moves every row, or leaves it.                                   *)

Shaped == row = [e \in Execs |-> row[e]]

RowsMove == /\ row' = [e \in Execs |-> row'[e]]
            /\ \A e \in Execs : Moves(row[e], row'[e])

\* A step that leaves the rows alone moves them trivially.
LEMMA QuietRows == Shaped /\ UNCHANGED row => RowsMove
BY DEF Shaped, RowsMove, Moves

\* Moving one row moves the rows.
LEMMA OneRowMoves ==
    ASSUME Shaped, NEW e \in Execs, NEW s, Moves(row[e], s), row' = [row EXCEPT ![e] = s]
    PROVE  RowsMove
<1>1. \A f \in Execs : row'[f] = IF f = e THEN s ELSE row[f] BY DEF Shaped
<1>2. row' = [f \in Execs |-> row'[f]] BY DEF Shaped
<1> QED BY <1>1, <1>2 DEF RowsMove, Moves

\* A step of an activity moves the rows along the ledger's states.
LEMMA WorkRows ==
    ASSUME Shaped, NEW e \in Execs, NEW n \in AttemptIds, Work(e, n)
    PROVE  RowsMove
<1>1. CASE PrepareClaim(e, n)
  <2>1. CASE UNCHANGED row BY <2>1, QuietRows
  <2>2. CASE row[e].status = "queued" /\ row' = [row EXCEPT ![e] = Claim(@)]
    <3>1. Moves(row[e], Claim(row[e])) BY <2>2 DEF Moves
    <3>2. row' = [row EXCEPT ![e] = Claim(row[e])] BY <2>2
    <3> QED BY <3>1, <3>2, OneRowMoves
  <2> QED BY <1>1, <2>1, <2>2 DEF PrepareClaim
<1>2. CASE PrepareRecover(e, n)
  <2>1. row' = [f \in Execs |-> Recover(row[f])] BY <1>2 DEF PrepareRecover
  <2> QED BY <2>1 DEF RowsMove, Moves
<1>3. CASE PrepareReclaim(e, n)
  <2>1. CASE UNCHANGED row BY <2>1, QuietRows
  <2>2. CASE row[e].status = "queued" /\ row' = [row EXCEPT ![e] = Claim(@)]
    <3>1. Moves(row[e], Claim(row[e])) BY <2>2 DEF Moves
    <3>2. row' = [row EXCEPT ![e] = Claim(row[e])] BY <2>2
    <3> QED BY <3>1, <3>2, OneRowMoves
  <2> QED BY <1>3, <2>1, <2>2 DEF PrepareReclaim
<1>4. CASE GenerateBegin(e, n)
  <2>1. CASE UNCHANGED row BY <2>1, QuietRows
  <2>2. CASE MayBegin(row[e], n) /\ row' = [row EXCEPT ![e] = BeginAttempt(@, n)]
    <3>1. Moves(row[e], BeginAttempt(row[e], n)) BY <2>2 DEF Moves
    <3>2. row' = [row EXCEPT ![e] = BeginAttempt(row[e], n)] BY <2>2
    <3> QED BY <3>1, <3>2, OneRowMoves
  <2> QED BY <1>4, <2>1, <2>2 DEF GenerateBegin
<1>5. CASE Draft(e, n)
  <2>1. Moves(row[e], Checkpoint(row[e], n)) BY <1>5 DEF Draft, Moves
  <2>2. row' = [row EXCEPT ![e] = Checkpoint(row[e], n)] BY <1>5 DEF Draft
  <2> QED BY <2>1, <2>2, OneRowMoves
<1>6. CASE FinalizeCommit(e, n)
  <2>1. CASE UNCHANGED row BY <2>1, QuietRows
  <2>2. ASSUME NEW seen, row' = [row EXCEPT ![e] = Settled(e, seen)] PROVE RowsMove
    <3>1. Moves(row[e], Settled(e, seen)) BY DEF Moves, Settled
    <3> QED BY <2>2, <3>1, OneRowMoves
  <2> QED BY <1>6, <2>1, <2>2 DEF FinalizeCommit
<1>7. CASE FailClose(e, n)
  <2>1. CASE UNCHANGED row BY <2>1, QuietRows
  <2>2. CASE MayFail(row[e], Seen(e)) /\ row' = [row EXCEPT ![e] = Fail(@)]
    <3>1. Moves(row[e], Fail(row[e])) BY <2>2 DEF Moves
    <3>2. row' = [row EXCEPT ![e] = Fail(row[e])] BY <2>2
    <3> QED BY <3>1, <3>2, OneRowMoves
  <2> QED BY <1>7, <2>1, <2>2 DEF FailClose
<1>8. CASE UNCHANGED row BY <1>8, QuietRows
<1> QED BY <1>1, <1>2, <1>3, <1>4, <1>5, <1>6, <1>7, <1>8
        DEF Work, PrepareReturn, GenerateCanceled, Speak, DraftClosed, GenerateFail, GenerateRaise,
            GenerateReturn, FinalizeReturn

(* The one step that adds a row. *)
Inserts(r) == /\ req[r].pc = "checked"
              /\ row[r].status = "absent"
              /\ KeyHolders(r) = {}
              /\ row' = [row EXCEPT ![r] = Queued]
              /\ req' = [req EXCEPT ![r] = [pc |-> "accepted", exec |-> r]]

\* Every step moves the rows or inserts one request's row.
LEMMA StepRows ==
    Shaped /\ [Next]_vars => RowsMove \/ \E r \in Requests : Inserts(r)
<1> SUFFICES ASSUME Shaped, [Next]_vars
             PROVE  RowsMove \/ \E r \in Requests : Inserts(r)
  OBVIOUS
<1>1. ASSUME NEW r \in Requests, PostInsert(r) PROVE RowsMove \/ Inserts(r)
  BY <1>1, QuietRows DEF PostInsert, Inserts
<1>2. ASSUME NEW c \in Cancels, NEW e \in Execs, CancelClose(c, e) PROVE RowsMove
  <2>1. CASE UNCHANGED row BY <2>1, QuietRows
  <2>2. CASE MayCancel(row[e], Seen(e)) /\ row' = [row EXCEPT ![e] = Cancel(@)]
    <3>1. Moves(row[e], Cancel(row[e])) BY <2>2 DEF Moves
    <3>2. row' = [row EXCEPT ![e] = Cancel(row[e])] BY <2>2
    <3> QED BY <3>1, <3>2, OneRowMoves
  <2> QED BY <1>2, <2>1, <2>2 DEF CancelClose
<1>3. CASE WorkerStart
  BY <1>3 DEF WorkerStart, RowsMove, Moves
<1>4. CASE UNCHANGED row BY <1>4, QuietRows
<1>5. CASE Post
  BY <1>1, <1>4, <1>5 DEF Post, PostCheck, PostSignal, PostLost
<1>6. CASE CancelApi
  BY <1>2, <1>4, <1>6 DEF CancelApi, CancelDispatch, CancelLost
<1>7. CASE ThreadRun
  BY <1>4, <1>7 DEF ThreadRun, ThreadWake, ThreadIdle, ThreadAsk, ThreadDrained, ThreadStart,
                    ThreadChild
<1>8. CASE Temporal
  BY <1>4, <1>8 DEF Temporal, DeliverCancel, LoseAttempt, BusyWake
<1>9. ASSUME NEW e \in Execs, GoStale(e) PROVE RowsMove
  <2> DEFINE s == [row[e] EXCEPT !.stale = TRUE]
  <2>1. row' = [row EXCEPT ![e] = s] BY <1>9 DEF GoStale
  <2>2. Moves(row[e], s) BY <1>9 DEF GoStale, Moves
  <2> QED BY <2>1, <2>2, OneRowMoves
<1> QED BY <1>3, <1>4, <1>5, <1>6, <1>7, <1>8, <1>9, WorkRows DEF Next, vars

------------------------------------------------------------------------------
(* The rows: types, drafts and closed turns.                                   *)

RowsInv == Shaped /\ \A e \in Execs : Sound(row[e])

\* The rows are sound initially.
LEMMA RowsInit == Init => RowsInv
<1> SUFFICES ASSUME Init PROVE RowsInv OBVIOUS
<1>1. NoRow \in Rows /\ NoRow.draft = 0 BY DEF NoRow, Rows, Statuses
<1> QED BY <1>1 DEF Init, RowsInv, Shaped, Sound

\* Inserting a row keeps the rows sound and touches no other.
LEMMA InsertKeeps ==
    ASSUME RowsInv, NEW r \in Requests, Inserts(r)
    PROVE  /\ RowsInv'
           /\ \A e \in Execs : row'[e] = IF e = r THEN Queued ELSE row[e]
           /\ Queued.status = "queued"
<1>1. NoRow \in Rows BY DEF NoRow, Rows, Statuses
<1>2. Queued \in Rows /\ Queued.status = "queued" /\ Queued.draft = 0
  BY <1>1 DEF Queued, NoRow, Rows, Statuses, Live
<1>3. \A e \in Execs : row'[e] = IF e = r THEN Queued ELSE row[e]
  BY DEF Inserts, RowsInv, Shaped, Execs
<1>4. Shaped' BY DEF Inserts, RowsInv, Shaped
<1> QED BY <1>2, <1>3, <1>4 DEF RowsInv, Sound

\* Moving the rows keeps them sound and their ends final.
LEMMA MovesKeep ==
    ASSUME RowsInv, RowsMove
    PROVE  /\ RowsInv'
           /\ \A e \in Execs : Final(row[e], row'[e])
           /\ \A e \in Execs : row'[e].status = "absent" <=> row[e].status = "absent"
BY MoveKeeps DEF RowsInv, RowsMove, Shaped, Sound

\* Every step keeps the rows sound and their ends final.
LEMMA RowsStep ==
    RowsInv /\ [Next]_vars => RowsInv' /\ \A e \in Execs : Final(row[e], row'[e])
<1> SUFFICES ASSUME RowsInv, [Next]_vars
             PROVE  RowsInv' /\ \A e \in Execs : Final(row[e], row'[e])
  OBVIOUS
<1>1. ASSUME NEW r \in Requests, Inserts(r)
      PROVE  RowsInv' /\ \A e \in Execs : Final(row[e], row'[e])
  BY <1>1, InsertKeeps DEF Inserts, Final, Terminal
<1>2. CASE RowsMove
  BY <1>2, MovesKeep, Zenon
<1>3. RowsMove \/ \E r \in Requests : Inserts(r) BY StepRows DEF RowsInv
<1> QED BY <1>1, <1>2, <1>3

(* A stream that was given up for lost, or answers late, never writes its text *)
(* over the draft of the attempt that has taken the row (execution_ledger.py   *)
(* begin_attempt, checkpoint_draft).                                           *)
THEOREM DraftOfTheOwner == Spec => []DraftIsCurrent
<1>1. Init => RowsInv BY RowsInit
<1>2. RowsInv /\ [Next]_vars => RowsInv' BY RowsStep
<1>3. RowsInv => DraftIsCurrent BY DEF RowsInv, Sound, DraftIsCurrent
<1> QED BY <1>1, <1>2, <1>3, PTL DEF Spec

(* No attempt, cancel, lease or retry reopens a closed turn, and only a        *)
(* canceled one may still be given the text it had (execution_ledger.py).      *)
THEOREM ClosedRowIsFinal == Spec => ClosedTurnIsFinal
<1> DEFINE Kept == \A e \in Execs : Final(row[e], row'[e])
<1>1. Init => RowsInv BY RowsInit
<1>2. RowsInv /\ [Next]_vars => RowsInv' BY RowsStep
<1>3. RowsInv /\ [Next]_vars =>
        [\A e \in Execs :
           row[e].status \in Terminal =>
              /\ row'[e].status = row[e].status
              /\ row'[e].message # row[e].message => row[e].status = "canceled" /\ row'[e].message]_vars
  BY RowsStep DEF Final
<1> QED BY <1>1, <1>2, <1>3, PTL DEF Spec, ClosedTurnIsFinal

------------------------------------------------------------------------------
(* Intake: one row per client request id, and each answer names it.            *)

Calls == [pc : {"new", "checked", "accepted", "answered", "busy", "conflict", "lost"},
          exec : Execs \cup {NoExec}]

Served(q) == q.pc \in {"accepted", "answered", "lost"}

Serves(e, r) == /\ e \in Execs
                /\ row[e].status # "absent"
                /\ Key[e] = Key[r]
                /\ InputHash[e] = InputHash[r]

Answers == \A r \in Requests : Served(req[r]) => Serves(req[r].exec, r)

OneRowPerKey ==
    \A e, f \in Execs :
        row[e].status # "absent" /\ row[f].status # "absent" /\ Key[e] = Key[f] => e = f

IntakeInv == /\ RowsInv
             /\ req \in [Requests -> Calls]
             /\ Answers
             /\ OneRowPerKey

(* A row that is there serves the calls it serves for good. *)
LEMMA ServesStays ==
    ASSUME RowsInv, NEW e, NEW r, Serves(e, r),
           RowsMove \/ \E s \in Requests : Inserts(s)
    PROVE  Serves(e, r)'
<1>1. e \in Execs /\ row[e].status # "absent" BY DEF Serves
<1>2. row'[e].status # "absent"
  <2>1. CASE RowsMove
    <3>1. \A f \in Execs : row'[f].status = "absent" <=> row[f].status = "absent"
      BY <2>1, MovesKeep
    <3> QED BY <1>1, <3>1
  <2>2. ASSUME NEW s \in Requests, Inserts(s) PROVE row'[e].status # "absent"
    BY <1>1, <2>2, InsertKeeps
  <2> QED BY <2>1, <2>2
<1> QED BY <1>2 DEF Serves

(* An answer that serves its call, given while no row is added. *)
LEMMA AnswerInv ==
    ASSUME IntakeInv, NEW r \in Requests, NEW q \in Calls, Served(q) => Serves(q.exec, r),
           req' = [req EXCEPT ![r] = q], RowsMove
    PROVE  IntakeInv'
<1> USE DEF IntakeInv
<1>1. RowsInv' BY MovesKeep
<1>2. req' \in [Requests -> Calls] /\ \A s \in Requests : req'[s] = IF s = r THEN q ELSE req[s]
  OBVIOUS
<1>3. Answers'
  <2>1. \A e, s : Serves(e, s) => Serves(e, s)' BY ServesStays
  <2> QED BY <1>2, <2>1 DEF Answers
<1>4. OneRowPerKey' BY MovesKeep DEF OneRowPerKey
<1> QED BY <1>1, <1>2, <1>3, <1>4

\* A step that answers no request preserves intake's promise.
LEMMA SilentInv ==
    ASSUME IntakeInv, UNCHANGED req, RowsMove
    PROVE  IntakeInv'
<1> USE DEF IntakeInv
<1>1. RowsInv' BY MovesKeep
<1>2. Answers'
  <2>1. \A e, s : Serves(e, s) => Serves(e, s)' BY ServesStays
  <2> QED BY <2>1 DEF Answers
<1>3. OneRowPerKey' BY MovesKeep DEF OneRowPerKey
<1> QED BY <1>1, <1>2, <1>3

\* Inserting a turn preserves intake's promise.
LEMMA InsertInv ==
    ASSUME IntakeInv, NEW r \in Requests, Inserts(r)
    PROVE  IntakeInv'
<1> USE DEF IntakeInv
<1>1. /\ RowsInv' /\ Queued.status = "queued"
      /\ \A e \in Execs : row'[e] = IF e = r THEN Queued ELSE row[e]
  BY InsertKeeps
<1>2. req' = [req EXCEPT ![r] = [pc |-> "accepted", exec |-> r]] BY DEF Inserts
<1>3. [pc |-> "accepted", exec |-> r] \in Calls BY DEF Calls, Execs
<1>4. req' \in [Requests -> Calls] BY <1>2, <1>3
<1>5. Answers'
  <2>1. Serves(r, r)' BY <1>1 DEF Serves, Execs
  <2>2. \A e, s : Serves(e, s) => Serves(e, s)' BY ServesStays
  <2>3. \A s \in Requests :
          req'[s] = IF s = r THEN [pc |-> "accepted", exec |-> r] ELSE req[s]
    BY <1>2
  <2>4. ASSUME NEW s \in Requests, Served(req'[s])
        PROVE  \E e : e = req'[s].exec /\ Serves(e, s)'
    <3>1. CASE s = r BY <2>1, <2>3, <3>1
    <3>2. CASE s # r BY <2>2, <2>3, <2>4, <3>2 DEF Answers
    <3> QED BY <3>1, <3>2
  <2> QED BY <2>4 DEF Answers, Serves
<1>6. OneRowPerKey' BY <1>1 DEF OneRowPerKey, KeyHolders, Inserts
<1> QED BY <1>1, <1>4, <1>5, <1>6

\* The answer given to a repeated key comes from the row that holds it.
LEMMA ExistingServes ==
    ASSUME NEW r \in Requests, KeyHolders(r) # {}
    PROVE  \E q \in Calls : /\ q = Existing(r, CHOOSE e \in KeyHolders(r) : TRUE)
                            /\ Served(q) => Serves(q.exec, r)
<1> DEFINE e == CHOOSE f \in KeyHolders(r) : TRUE
<1>1. e \in Execs /\ Key[e] = Key[r] /\ row[e].status # "absent" BY DEF KeyHolders
<1> HIDE DEF e
<1>2. Existing(r, e) \in Calls BY <1>1 DEF Existing, Calls
<1>3. Served(Existing(r, e)) => Existing(r, e).exec = e /\ InputHash[e] = InputHash[r]
  BY DEF Existing, Served
<1>4. Served(Existing(r, e)) => Serves(Existing(r, e).exec, r) BY <1>1, <1>3 DEF Serves
<1> QED BY <1>2, <1>4 DEF e

\* A step of a post preserves intake's promise.
LEMMA PostInv ==
    ASSUME IntakeInv, Post
    PROVE  IntakeInv'
<1>0. Shaped /\ (UNCHANGED row => RowsMove) BY QuietRows DEF IntakeInv, RowsInv
<1>1. ASSUME NEW r \in Requests, PostCheck(r) PROVE IntakeInv'
  <2>1. \E q \in Calls : req' = [req EXCEPT ![r] = q] /\ (Served(q) => Serves(q.exec, r))
    <3>1. CASE KeyHolders(r) # {} BY <1>1, <3>1, ExistingServes DEF PostCheck
    <3>2. CASE KeyHolders(r) = {}
      <4>1. \E q \in Calls : ~Served(q) /\ req' = [req EXCEPT ![r] = q]
        <5>1. /\ [pc |-> "busy", exec |-> NoExec] \in Calls
              /\ [pc |-> "checked", exec |-> NoExec] \in Calls
          BY DEF Calls
        <5>2. \/ req' = [req EXCEPT ![r] = [pc |-> "busy", exec |-> NoExec]]
              \/ req' = [req EXCEPT ![r] = [pc |-> "checked", exec |-> NoExec]]
          BY <1>1, <3>2 DEF PostCheck
        <5> QED BY <5>1, <5>2 DEF Served
      <4> QED BY <4>1
    <3> QED BY <3>1, <3>2
  <2> QED BY <1>0, <1>1, <2>1, AnswerInv DEF PostCheck
<1>2. ASSUME NEW r \in Requests, PostInsert(r) PROVE IntakeInv'
  <2>1. CASE KeyHolders(r) = {} BY <1>2, <2>1, InsertInv DEF PostInsert, Inserts
  <2>2. CASE KeyHolders(r) # {}
    <3>1. req' = [req EXCEPT ![r] = Existing(r, CHOOSE e \in KeyHolders(r) : TRUE)] /\ UNCHANGED row
      BY <1>2, <2>2 DEF PostInsert
    <3> QED BY <1>0, <2>2, <3>1, ExistingServes, AnswerInv
  <2> QED BY <2>1, <2>2
<1>3. ASSUME NEW r \in Requests, PostSignal(r) \/ PostLost(r) PROVE IntakeInv'
  <2>1. PICK pc \in {"answered", "lost"} : req' = [req EXCEPT ![r].pc = pc] /\ UNCHANGED row
    BY <1>3 DEF PostSignal, PostLost
  <2>2. req[r] \in Calls /\ req[r].pc = "accepted"
    BY <1>3 DEF PostSignal, PostLost, IntakeInv
  <2>3. PICK q \in Calls : q = [req[r] EXCEPT !.pc = pc] BY <2>2 DEF Calls
  <2>4. q.exec = req[r].exec BY <2>2, <2>3 DEF Calls
  <2>5. Serves(q.exec, r) BY <2>2, <2>4 DEF IntakeInv, Answers, Served
  <2>6. req' = [req EXCEPT ![r] = q] BY <2>1, <2>3
  <2> QED BY <1>0, <2>1, <2>5, <2>6, AnswerInv
<1> QED BY <1>1, <1>2, <1>3 DEF Post

\* Every step preserves intake's promise.
LEMMA IntakeStep == IntakeInv /\ [Next]_vars => IntakeInv'
<1> SUFFICES ASSUME IntakeInv, [Next]_vars PROVE IntakeInv' OBVIOUS
<1>1. CASE Post BY <1>1, PostInv
<1>2. CASE UNCHANGED req
  <2>1. CASE RowsMove BY <1>2, <2>1, SilentInv
  <2>2. CASE \E r \in Requests : Inserts(r) BY <2>2, InsertInv
  <2> QED BY <2>1, <2>2, StepRows DEF IntakeInv, RowsInv
<1>3. ASSUME NEW e \in Execs, NEW n \in AttemptIds, Work(e, n) PROVE UNCHANGED req
  BY <1>3 DEF Work, PrepareClaim, PrepareRecover, PrepareReclaim, PrepareReturn, GenerateBegin,
              GenerateCanceled, Draft, Speak, DraftClosed, GenerateFail, GenerateRaise,
              GenerateReturn, FinalizeCommit, FinalizeReturn, FailClose
<1>4. CancelApi \/ ThreadRun \/ Temporal \/ WorkerStart \/ (\E e \in Execs : GoStale(e)) \/ UNCHANGED vars
        => UNCHANGED req
  BY DEF CancelApi, CancelClose, CancelDispatch, CancelLost, ThreadRun, ThreadWake, ThreadIdle,
         ThreadAsk, ThreadDrained, ThreadStart, ThreadChild, Temporal, DeliverCancel, LoseAttempt,
         BusyWake, WorkerStart, GoStale, vars
<1> QED BY <1>1, <1>2, <1>3, <1>4 DEF Next

\* The initial states satisfy intake's promise.
LEMMA IntakeInit == Init => IntakeInv
<1> SUFFICES ASSUME Init PROVE IntakeInv OBVIOUS
<1>1. RowsInv BY RowsInit
<1>2. \A r \in Requests : req[r] = [pc |-> "new", exec |-> NoExec] BY DEF Init
<1>3. req \in [Requests -> Calls] BY DEF Init, Calls
<1>4. Answers BY <1>2 DEF Answers, Served
<1>5. OneRowPerKey BY DEF Init, OneRowPerKey, NoRow
<1> QED BY <1>1, <1>3, <1>4, <1>5 DEF IntakeInv

(* However often a message is posted under one client request id, and however  *)
(* its calls race, they are answered with one turn, which has the input of     *)
(* each (turn.py post_turn).                                                   *)
THEOREM PostedOnce == Spec => []PostOnce
<1>1. Init => IntakeInv BY IntakeInit
<1>2. IntakeInv /\ [Next]_vars => IntakeInv' BY IntakeStep
<1>3. IntakeInv => PostOnce
  BY DEF IntakeInv, Answers, OneRowPerKey, PostOnce, Served, Serves
<1> QED BY <1>1, <1>2, <1>3, PTL DEF Spec

------------------------------------------------------------------------------
(* Types: what lies beside the rows and the calls.                             *)

Slots == [Activities -> [AttemptIds -> Attempt]]

Cancellations == [pc : {"new", "closed", "answered", "error"}, exec : Execs \cup {NoExec}]

RunsTyped == wf \in [Execs -> Workflow] /\ att \in [Execs -> Slots]

Typed == /\ obs \in [Execs -> [AttemptIds -> {"none", "failed", "succeeded", "cancelled"}]]
         /\ can \in [Cancels -> Cancellations]
         /\ thr \in Thread
         /\ RunsTyped
         /\ scene \in Scenes
         /\ used \in [Faults -> Nat]

\* Entering an activity keeps the types of the runs.
LEMMA EnterType ==
    ASSUME RunsTyped, NEW e \in Execs, NEW slots \in Slots, NEW w \in Workflow,
           NEW next \in Activities \cup {"busy", "closed"}, Enter(e, slots, w, next)
    PROVE  RunsTyped'
<1>1. [w EXCEPT !.phase = next, !.n = 1] \in Workflow
  BY AttemptAssumption DEF Workflow, Phases
<1>2. ASSUME next \in Activities
      PROVE  [slots EXCEPT ![next][1] = "scheduled"] \in Slots
  BY <1>2, AttemptAssumption DEF Slots, Attempt
<1> QED BY <1>1, <1>2 DEF Enter, RunsTyped

\* Filling one attempt's slot leaves a table of attempts.
LEMMA SlotType ==
    ASSUME NEW slots \in Slots, NEW a \in Activities, NEW n \in AttemptIds, NEW s \in Attempt
    PROVE  [slots EXCEPT ![a][n] = s] \in Slots
BY DEF Slots

\* A report that reaches the workflow keeps the types of the runs.
LEMMA ReportType ==
    ASSUME RunsTyped, NEW e \in Execs, NEW a \in Activities, NEW n \in AttemptIds,
           NEW w \in Workflow, NEW next \in Activities \cup {"busy", "closed"},
           Report(e, a, n, w, next)
    PROVE  RunsTyped'
<1> DEFINE slots == [att[e] EXCEPT ![a][n] = "idle"]
<1>1. slots \in Slots BY SlotType DEF RunsTyped, Attempt
<1>2. CASE Current(e, a, n)
  <2>1. Enter(e, slots, w, next) BY <1>2 DEF Report
  <2> QED BY <1>1, <2>1, EnterType
<1>3. CASE ~Current(e, a, n)
  <2>1. att' = [att EXCEPT ![e] = slots] /\ UNCHANGED wf BY <1>3 DEF Report
  <2> HIDE DEF slots
  <2> QED BY <1>1, <2>1 DEF RunsTyped
<1> QED BY <1>2, <1>3

\* One step of a running attempt keeps the types of the runs.
LEMMA StepType ==
    ASSUME RunsTyped, NEW e \in Execs, NEW a \in Activities, NEW n \in AttemptIds,
           NEW from, NEW to \in Attempt, Step(e, a, n, from, to), UNCHANGED wf
    PROVE  RunsTyped'
BY DEF Step, RunsTyped, Slots

\* A workflow whose activity broke is typed, and so is where it goes.
LEMMA BrokenType ==
    ASSUME RunsTyped, NEW e \in Execs, NEW a \in Activities
    PROVE  Broken(e, a) \in Workflow /\ AfterError(a) \in Activities \cup {"closed"}
BY DEF RunsTyped, Broken, Workflow, AfterError, Activities

\* An attempt that raises keeps the types of the runs.
LEMMA RetryType ==
    ASSUME RunsTyped, NEW e \in Execs, NEW a \in Activities, NEW n \in AttemptIds,
           Raise(e, a, n)
    PROVE  RunsTyped'
<1>1. CASE LastTry(e, a, n) \/ ~Current(e, a, n)
  BY <1>1, BrokenType, ReportType DEF Raise
<1>2. CASE ~LastTry(e, a, n) /\ Current(e, a, n)
  <2>1. n + 1 \in AttemptIds BY <1>2 DEF LastTry
  <2>2. wf' = [wf EXCEPT ![e].n = n + 1] BY <1>2 DEF Raise
  <2>3. wf' \in [Execs -> Workflow] BY <2>1, <2>2 DEF RunsTyped, Workflow
  <2> DEFINE tries == [att[e][a] EXCEPT ![n] = "idle", ![n + 1] = "scheduled"]
  <2>4. att' = [att EXCEPT ![e][a] = tries] BY <1>2 DEF Raise
  <2>5. tries \in [AttemptIds -> Attempt] BY <2>1 DEF RunsTyped, Slots, Attempt
  <2> HIDE DEF tries
  <2>6. att' \in [Execs -> Slots] BY <2>4, <2>5 DEF RunsTyped, Slots
  <2> QED BY <2>3, <2>6 DEF RunsTyped
<1> QED BY <1>1, <1>2

\* A step of an activity keeps the types.
LEMMA WorkType ==
    ASSUME Typed, NEW e \in Execs, NEW n \in AttemptIds, Work(e, n)
    PROVE  /\ RunsTyped'
           /\ obs' \in [Execs -> [AttemptIds -> {"none", "failed", "succeeded", "cancelled"}]]
           /\ used' \in [Faults -> Nat]
           /\ UNCHANGED <<can, thr>>
<1> USE DEF Typed
<1>0. /\ wf[e] \in Workflow /\ Activities = {"prepare", "generate", "finalize", "fail"}
      /\ {"idle", "scheduled", "blocked", "recovered", "claimed", "model", "spoke", "retryable",
          "final", "committed"} = Attempt
  BY DEF RunsTyped, Activities, Attempt
<1>1. ASSUME ReportPrepared(e, n) PROVE RunsTyped'
  BY <1>0, <1>1, ReportType, BrokenType DEF ReportPrepared
<1>2. ASSUME ReportBusy(e, n) PROVE RunsTyped'
  BY <1>0, <1>2, ReportType, BrokenType DEF ReportBusy
<1>3. CASE PrepareClaim(e, n)
  BY <1>0, <1>1, <1>3, StepType DEF PrepareClaim
<1>4. CASE PrepareRecover(e, n)
  BY <1>0, <1>2, <1>4, StepType DEF PrepareRecover
<1>5. CASE PrepareReclaim(e, n)
  BY <1>0, <1>2, <1>5, StepType DEF PrepareReclaim
<1>6. CASE PrepareReturn(e, n)
  BY <1>1, <1>6 DEF PrepareReturn
<1>7. CASE GenerateBegin(e, n)
  BY <1>0, <1>7, StepType, RetryType DEF GenerateBegin
<1>8. CASE GenerateCanceled(e, n)
  BY <1>0, <1>8, ReportType, BrokenType DEF GenerateCanceled
<1>9. CASE Draft(e, n)
  BY <1>9 DEF Draft, RunsTyped
<1>10. CASE Speak(e, n)
  BY <1>0, <1>10, StepType DEF Speak
<1>11. CASE DraftClosed(e, n)
  <2>1. wf' \in [Execs -> Workflow]
    <3>1. (att[e]["generate"][n] = "spoke") \in BOOLEAN OBVIOUS
    <3>2. [wf[e] EXCEPT !.spoke = (att[e]["generate"][n] = "spoke")] \in Workflow
      BY <1>0, <3>1 DEF Workflow
    <3> QED BY <1>11, <3>2 DEF DraftClosed, RunsTyped
  <2>2. att' \in [Execs -> Slots] BY <1>0, <1>11 DEF DraftClosed, RunsTyped, Slots
  <2> QED BY <1>11, <2>1, <2>2 DEF DraftClosed, RunsTyped
<1>12. CASE GenerateFail(e, n)
  <2>1. att' \in [Execs -> Slots] BY <1>0, <1>12 DEF GenerateFail, RunsTyped, Slots
  <2>2. used' \in [Faults -> Nat] BY <1>12 DEF GenerateFail, Use, Faults
  <2> QED BY <1>12, <2>1, <2>2 DEF GenerateFail, RunsTyped
<1>13. CASE GenerateRaise(e, n)
  BY <1>0, <1>13, RetryType, ReportType, BrokenType DEF GenerateRaise
<1>14. ASSUME NEW out \in Outcomes, GenerateReturn(e, n, out)
       PROVE  RunsTyped' /\ UNCHANGED <<obs, can, thr, used>>
  <2>1. [wf[e] EXCEPT !.out = out, !.by = n, !.spoke = (out # "blank")] \in Workflow
    BY <1>0 DEF Workflow
  <2> QED BY <1>0, <1>14, <2>1, ReportType DEF GenerateReturn
<1>15. CASE FinalizeCommit(e, n)
  <2>1. RunsTyped'
    BY <1>0, <1>15, StepType, RetryType DEF FinalizeCommit
  <2>2. \/ UNCHANGED obs
        \/ \E status \in {"cancelled", "succeeded"} : obs' = [obs EXCEPT ![e][wf[e].by] = status]
    BY <1>15 DEF FinalizeCommit
  <2>3. obs' \in [Execs -> [AttemptIds -> {"none", "failed", "succeeded", "cancelled"}]]
    BY <2>2
  <2> QED BY <1>15, <2>1, <2>3 DEF FinalizeCommit
<1>16. CASE FinalizeReturn(e, n)
  <2>1. [wf[e] EXCEPT !.failed = (wf[e].cancel = "requested")] \in Workflow BY <1>0 DEF Workflow
  <2> QED BY <1>0, <1>16, <2>1, ReportType DEF FinalizeReturn
<1>17. CASE FailClose(e, n)
  BY <1>0, <1>17, ReportType DEF FailClose
<1> QED BY <1>3, <1>4, <1>5, <1>6, <1>7, <1>8, <1>9, <1>10, <1>11, <1>12, <1>13, <1>14, <1>15,
           <1>16, <1>17 DEF Work

\* A step of a cancellation keeps the types.
LEMMA CancelType ==
    ASSUME Typed, CancelApi
    PROVE  RunsTyped' /\ can' \in [Cancels -> Cancellations] /\ UNCHANGED <<obs, thr, used>>
<1> USE DEF Typed
<1>1. ASSUME NEW c \in Cancels, NEW e \in Execs, CancelClose(c, e)
      PROVE  RunsTyped' /\ can' \in [Cancels -> Cancellations] /\ UNCHANGED <<obs, thr, used>>
  <2>1. [pc |-> "closed", exec |-> e] \in Cancellations BY DEF Cancellations
  <2> QED BY <1>1, <2>1 DEF CancelClose, RunsTyped
<1>2. ASSUME NEW c \in Cancels, CancelDispatch(c) \/ CancelLost(c)
      PROVE  RunsTyped' /\ can' \in [Cancels -> Cancellations] /\ UNCHANGED <<obs, thr, used>>
  <2>1. \E pc \in {"answered", "error"} : can' = [can EXCEPT ![c].pc = pc]
    BY <1>2 DEF CancelDispatch, CancelLost
  <2>2. can' \in [Cancels -> Cancellations] BY <2>1 DEF Cancellations
  <2>3. \/ UNCHANGED wf
        \/ \E e : wf' = [wf EXCEPT ![e].cancel = "requested"]
    BY <1>2 DEF CancelDispatch, CancelLost
  <2>4. ASSUME NEW e, wf' = [wf EXCEPT ![e].cancel = "requested"] PROVE wf' \in [Execs -> Workflow]
    <3>1. CASE e \in Execs
      <4>1. [wf[e] EXCEPT !.cancel = "requested"] \in Workflow BY <3>1 DEF RunsTyped, Workflow
      <4>2. wf' = [wf EXCEPT ![e] = [wf[e] EXCEPT !.cancel = "requested"]] BY <2>4
      <4> QED BY <3>1, <4>1, <4>2 DEF RunsTyped
    <3>2. CASE e \notin Execs BY <2>4, <3>2 DEF RunsTyped
    <3> QED BY <3>1, <3>2
  <2>5. wf' \in [Execs -> Workflow] BY <2>3, <2>4 DEF RunsTyped
  <2> QED BY <1>2, <2>2, <2>5 DEF CancelDispatch, CancelLost, RunsTyped
<1> QED BY <1>1, <1>2 DEF CancelApi

\* A step of the thread's workflow keeps the types.
LEMMA ThreadType ==
    ASSUME Typed, ThreadRun
    PROVE  RunsTyped' /\ thr' \in Thread /\ UNCHANGED <<obs, can, used>>
<1> USE DEF Typed
<1>1. CASE ThreadWake \/ ThreadIdle \/ ThreadDrained
  BY <1>1 DEF ThreadWake, ThreadIdle, ThreadDrained, Thread, RunsTyped
<1>2. CASE ThreadAsk
  <2>1. \E e \in Execs \cup {NoExec} : thr' = [thr EXCEPT !.phase = "told", !.cur = e]
    BY <1>2 DEF ThreadAsk, Oldest, QueuedExecs
  <2> QED BY <1>2, <2>1 DEF ThreadAsk, Thread, RunsTyped
<1>3. CASE ThreadStart
  <2> DEFINE e == thr.cur
  <2>1. e \in Execs BY <1>3 DEF ThreadStart, Thread
  <2>2. CASE wf[e].phase = "none"
    <3>1. wf' \in [Execs -> Workflow]
      <4>1. [wf[e] EXCEPT !.phase = "prepare"] \in Workflow
        <5>1. wf[e] \in Workflow BY <2>1 DEF RunsTyped
        <5>2. "prepare" \in Phases BY DEF Phases, Activities
        <5> QED BY <5>1, <5>2 DEF Workflow
      <4>2. wf' = [wf EXCEPT ![e] = [wf[e] EXCEPT !.phase = "prepare"]]
        BY <1>3, <2>2 DEF ThreadStart
      <4> QED BY <2>1, <4>1, <4>2 DEF RunsTyped
    <3>2. "prepare" \in Activities /\ "scheduled" \in Attempt /\ 1 \in AttemptIds
      BY AttemptAssumption DEF Activities, Attempt
    <3>3. att' \in [Execs -> Slots]
      <4>1. [att[e] EXCEPT !["prepare"][1] = "scheduled"] \in Slots
        BY <2>1, <3>2, SlotType DEF RunsTyped
      <4>2. att' = [att EXCEPT ![e] = [att[e] EXCEPT !["prepare"][1] = "scheduled"]]
        BY <1>3, <2>2 DEF ThreadStart
      <4> QED BY <2>1, <4>1, <4>2 DEF RunsTyped
    <3> QED BY <1>3, <2>2, <3>1, <3>3 DEF ThreadStart, RunsTyped, Thread
  <2>3. CASE wf[e].phase # "none"
    BY <1>3, <2>1, <2>3 DEF ThreadStart, RunsTyped, Thread
  <2> QED BY <2>2, <2>3
<1>4. CASE ThreadChild
  <2>1. Idle \in Thread BY DEF Idle, Thread
  <2>2. thr.served + 1 \in Nat /\ thr.cur \in Execs \cup {NoExec} BY DEF Thread
  <2>3. AfterChild \in Thread BY <2>1, <2>2 DEF AfterChild, Thread
  <2> QED BY <1>4, <2>3 DEF ThreadChild, RunsTyped
<1> QED BY <1>1, <1>2, <1>3, <1>4 DEF ThreadRun

\* A step of Temporal keeps the types.
LEMMA TemporalType ==
    ASSUME Typed, Temporal
    PROVE  RunsTyped' /\ used' \in [Faults -> Nat] /\ UNCHANGED <<obs, can, thr>>
<1> USE DEF Typed
<1>0. Activities = {"prepare", "generate", "finalize", "fail"} BY DEF Activities
<1>1. ASSUME NEW e \in Execs, DeliverCancel(e) PROVE RunsTyped' /\ UNCHANGED <<obs, can, thr, used>>
  <2> DEFINE w == [wf[e] EXCEPT !.cancel = "delivered"]
  <2>1. /\ w \in Workflow /\ [w EXCEPT !.failed = TRUE] \in Workflow
        /\ [w EXCEPT !.gaveUp = TRUE] \in Workflow /\ att[e] \in Slots
    BY DEF RunsTyped, Workflow
  <2>2. \/ Enter(e, att[e], [w EXCEPT !.failed = TRUE], "fail")
        \/ Enter(e, att[e], [w EXCEPT !.failed = TRUE], "closed")
        \/ wf' = [wf EXCEPT ![e] = w] /\ UNCHANGED att
        \/ Enter(e, att[e], [w EXCEPT !.gaveUp = TRUE], "closed")
    BY <1>1 DEF DeliverCancel
  <2> HIDE DEF w
  <2>3. RunsTyped'
    <3>1. CASE wf' = [wf EXCEPT ![e] = w] /\ UNCHANGED att BY <2>1, <3>1 DEF RunsTyped
    <3> QED BY <1>0, <2>1, <2>2, <3>1, EnterType
  <2> QED BY <1>1, <2>3 DEF DeliverCancel
<1>2. ASSUME NEW e \in Execs, LoseAttempt(e)
      PROVE  RunsTyped' /\ used' \in [Faults -> Nat] /\ UNCHANGED <<obs, can, thr>>
  <2> DEFINE a == wf[e].phase
             n == wf[e].n
  <2>1. a \in Activities /\ n \in AttemptIds /\ att[e] \in Slots
    BY <1>2 DEF LoseAttempt, RunsTyped, Workflow
  <2>2. ASSUME LastTry(e, a, n) PROVE RunsTyped'
    <3>1. Enter(e, att[e], Broken(e, a), AfterError(a)) BY <1>2, <2>2 DEF LoseAttempt
    <3>2. Broken(e, a) \in Workflow /\ AfterError(a) \in Activities \cup {"closed"}
      BY <2>1, BrokenType
    <3> QED BY <2>1, <3>1, <3>2, EnterType
  <2>3. ASSUME ~LastTry(e, a, n) PROVE RunsTyped'
    <3>1. n + 1 \in AttemptIds BY <2>3 DEF LastTry
    <3>2. wf' = [wf EXCEPT ![e].n = n + 1] /\ att' = [att EXCEPT ![e][a][n + 1] = "scheduled"]
      BY <1>2, <2>3 DEF LoseAttempt
    <3>3. [wf[e] EXCEPT !.n = n + 1] \in Workflow BY <3>1 DEF RunsTyped, Workflow
    <3>7. wf' \in [Execs -> Workflow] BY <3>2, <3>3 DEF RunsTyped
    <3>4. [att[e] EXCEPT ![a][n + 1] = "scheduled"] \in Slots
      BY <2>1, <3>1, SlotType DEF Attempt
    <3>5. att' = [att EXCEPT ![e] = [att[e] EXCEPT ![a][n + 1] = "scheduled"]] BY <3>2
    <3>6. att' \in [Execs -> Slots] BY <3>4, <3>5 DEF RunsTyped
    <3> QED BY <3>6, <3>7 DEF RunsTyped
  <2>4. used' \in [Faults -> Nat] BY <1>2 DEF LoseAttempt, Use, Faults
  <2> QED BY <1>2, <2>2, <2>3, <2>4 DEF LoseAttempt
<1>3. ASSUME NEW e \in Execs, BusyWake(e) PROVE RunsTyped' /\ UNCHANGED <<obs, can, thr, used>>
  <2>1. [wf[e] EXCEPT !.round = @ + 1] \in Workflow /\ att[e] \in Slots
    BY DEF RunsTyped, Workflow
  <2> QED BY <1>0, <1>3, <2>1, EnterType DEF BusyWake
<1> QED BY <1>1, <1>2, <1>3 DEF Temporal

\* Signalling the thread's workflow keeps its type.
LEMMA SignalType == thr \in Thread => Signalled \in Thread
BY DEF Signalled, Thread, Idle

\* Every step keeps the types.
LEMMA TypedStep == Typed /\ [Next]_vars => Typed'
<1> SUFFICES ASSUME Typed, [Next]_vars PROVE Typed' OBVIOUS
<1>0. Next => UNCHANGED scene BY DEF Next
<1>1. ASSUME Post, UNCHANGED scene PROVE Typed'
  <2>1. UNCHANGED <<obs, can, wf, att, used>> /\ thr' \in {thr, Signalled}
    BY <1>1 DEF Post, PostCheck, PostInsert, PostSignal, PostLost
  <2> QED BY <1>1, <2>1, SignalType DEF Typed, RunsTyped
<1>2. ASSUME CancelApi, UNCHANGED scene PROVE Typed'
  BY <1>2, CancelType DEF Typed
<1>3. ASSUME ThreadRun, UNCHANGED scene PROVE Typed'
  BY <1>3, ThreadType DEF Typed
<1>4. ASSUME Temporal, UNCHANGED scene PROVE Typed'
  BY <1>4, TemporalType DEF Typed
<1>5. ASSUME NEW e \in Execs, NEW n \in AttemptIds, Work(e, n), UNCHANGED scene PROVE Typed'
  BY <1>5, WorkType DEF Typed
<1>6. ASSUME NEW e \in Execs, GoStale(e), UNCHANGED scene PROVE Typed'
  BY <1>6 DEF GoStale, Use, Faults, Typed, RunsTyped
<1>7. ASSUME WorkerStart, UNCHANGED scene PROVE Typed'
  <2>1. UNCHANGED <<obs, can, wf, att>> /\ thr' \in {thr, Signalled} BY <1>7 DEF WorkerStart
  <2>2. used' \in [Faults -> Nat] BY <1>7 DEF WorkerStart, Use, Faults, Typed
  <2> QED BY <1>7, <2>1, <2>2, SignalType DEF Typed, RunsTyped
<1>8. CASE UNCHANGED vars BY <1>8 DEF vars, Typed, RunsTyped
<1> QED BY <1>0, <1>1, <1>2, <1>3, <1>4, <1>5, <1>6, <1>7, <1>8 DEF Next

\* The initial states are typed.
LEMMA TypedInit == Init => Typed
<1> SUFFICES ASSUME Init PROVE Typed OBVIOUS
<1>1. Idle \in Thread BY DEF Idle, Thread
<1>2. thr \in Thread BY <1>1 DEF Init, Thread
<1>3. wf \in [Execs -> Workflow] BY AttemptAssumption DEF Init, Workflow, Phases, Outcomes
<1>4. att \in [Execs -> Slots] BY DEF Init, Slots, Attempt
<1>5. can \in [Cancels -> Cancellations] BY DEF Init, Cancellations
<1> QED BY <1>2, <1>3, <1>4, <1>5 DEF Init, Typed, RunsTyped

(* Every row, call, workflow and attempt is of its kind, whatever came first. *)
THEOREM TypeCorrect == Spec => []TypeOK
<1>1. Init => IntakeInv /\ Typed BY IntakeInit, TypedInit
<1>2. IntakeInv /\ Typed /\ [Next]_vars => (IntakeInv /\ Typed)' BY IntakeStep, TypedStep
<1>3. IntakeInv /\ Typed => TypeOK
  <2> SUFFICES ASSUME IntakeInv, Typed PROVE TypeOK OBVIOUS
  <2>1. row \in [Execs -> Rows] BY DEF IntakeInv, RowsInv, Shaped, Sound
  <2> QED BY <2>1 DEF IntakeInv, Calls, Typed, Cancellations, RunsTyped, Slots, TypeOK
<1> QED BY <1>1, <1>2, <1>3, PTL DEF Spec

------------------------------------------------------------------------------
(* One turn at a time: an open workflow is the child the thread waits for.     *)

OpenIsChild == \A e \in Execs : Open(e) => thr.phase = "running" /\ thr.cur = e

(* What a step may do to the workflows, but for the start of a child: a closed *)
(* one is not touched.                                                         *)
OnlyOpen ==
    UNCHANGED wf \/ \E e \in Execs : Open(e) /\ \E w : wf' = [wf EXCEPT ![e] = w]

\* Steps of runs already open leave the open run the thread's child.
LEMMA OnlyOpenKeeps ==
    ASSUME Typed, OpenIsChild, OnlyOpen,
           thr' = thr \/ (thr.phase # "running" /\ UNCHANGED wf)
    PROVE  OpenIsChild'
<1>1. \A e \in Execs : Open(e)' => Open(e)
  <2>1. CASE UNCHANGED wf BY <2>1 DEF Open
  <2>2. ASSUME NEW f \in Execs, Open(f), NEW w, wf' = [wf EXCEPT ![f] = w]
        PROVE  \A e \in Execs : Open(e)' => Open(e)
    BY <2>2 DEF Open, Typed, RunsTyped
  <2> QED BY <2>1, <2>2 DEF OnlyOpen
<1>2. CASE thr' = thr BY <1>1, <1>2 DEF OpenIsChild
<1>3. CASE thr.phase # "running" /\ UNCHANGED wf BY <1>3 DEF OpenIsChild, Open
<1> QED BY <1>2, <1>3

\* Entering an activity touches a run that is open.
LEMMA EnterOnlyOpen ==
    ASSUME NEW e \in Execs, Open(e), NEW slots, NEW w, NEW next, Enter(e, slots, w, next)
    PROVE  OnlyOpen
BY DEF Enter, OnlyOpen

\* A report touches a run that is open, or none.
LEMMA ReportOnlyOpen ==
    ASSUME NEW e \in Execs, NEW a \in Activities, NEW n, NEW w, NEW next,
           Report(e, a, n, w, next)
    PROVE  OnlyOpen
<1>1. CASE Current(e, a, n)
  <2>1. Open(e) BY <1>1 DEF Current, Open, Activities
  <2> QED BY <1>1, <2>1, EnterOnlyOpen DEF Report
<1>2. CASE ~Current(e, a, n) BY <1>2 DEF Report, OnlyOpen
<1> QED BY <1>1, <1>2

\* An attempt that raises touches a run that is open, or none.
LEMMA RaiseOnlyOpen ==
    ASSUME NEW e \in Execs, NEW a \in Activities, NEW n, Raise(e, a, n)
    PROVE  OnlyOpen
<1>1. CASE LastTry(e, a, n) \/ ~Current(e, a, n) BY <1>1, ReportOnlyOpen DEF Raise
<1>2. CASE ~LastTry(e, a, n) /\ Current(e, a, n)
  <2>1. Open(e) BY <1>2 DEF Current, Open, Activities
  <2>2. wf' = [wf EXCEPT ![e] = [wf[e] EXCEPT !.n = n + 1]] BY <1>2 DEF Raise
  <2> QED BY <2>1, <2>2 DEF OnlyOpen
<1> QED BY <1>1, <1>2

\* A step of an activity touches open runs and no thread.
LEMMA WorkOnlyOpen ==
    ASSUME NEW e \in Execs, NEW n \in AttemptIds, Work(e, n)
    PROVE  OnlyOpen /\ UNCHANGED thr
<1>0. /\ {"prepare", "generate", "finalize", "fail"} \subseteq Activities
      /\ UNCHANGED wf => OnlyOpen
  BY DEF Activities, OnlyOpen
<1>1. ReportPrepared(e, n) \/ ReportBusy(e, n) => OnlyOpen
  BY <1>0, ReportOnlyOpen DEF ReportPrepared, ReportBusy
<1>2. CASE PrepareClaim(e, n) BY <1>0, <1>1, <1>2 DEF PrepareClaim
<1>3. CASE PrepareRecover(e, n) BY <1>0, <1>1, <1>3 DEF PrepareRecover
<1>4. CASE PrepareReclaim(e, n) BY <1>0, <1>1, <1>4 DEF PrepareReclaim
<1>5. CASE PrepareReturn(e, n) BY <1>1, <1>5 DEF PrepareReturn
<1>6. CASE GenerateBegin(e, n) BY <1>0, <1>6, RaiseOnlyOpen DEF GenerateBegin
<1>7. CASE GenerateCanceled(e, n) BY <1>0, <1>7, ReportOnlyOpen DEF GenerateCanceled
<1>8. CASE Draft(e, n) \/ Speak(e, n) \/ GenerateFail(e, n)
  BY <1>0, <1>8 DEF Draft, Speak, GenerateFail
<1>9. CASE DraftClosed(e, n)
  <2>1. CASE UNCHANGED wf BY <1>0, <1>9, <2>1 DEF DraftClosed
  <2>2. CASE Current(e, "generate", n)
    <3>1. Open(e) BY <2>2 DEF Current, Open
    <3>2. wf' = [wf EXCEPT ![e] = [wf[e] EXCEPT !.spoke = (att[e]["generate"][n] = "spoke")]]
      BY <1>9, <2>2 DEF DraftClosed
    <3> QED BY <1>9, <3>1, <3>2 DEF DraftClosed, OnlyOpen
  <2> QED BY <1>9, <2>1, <2>2 DEF DraftClosed
<1>10. CASE GenerateRaise(e, n) BY <1>0, <1>10, RaiseOnlyOpen, ReportOnlyOpen DEF GenerateRaise
<1>11. ASSUME NEW out, GenerateReturn(e, n, out) PROVE OnlyOpen /\ UNCHANGED thr
  BY <1>0, <1>11, ReportOnlyOpen DEF GenerateReturn
<1>12. CASE FinalizeCommit(e, n) BY <1>0, <1>12, RaiseOnlyOpen DEF FinalizeCommit
<1>13. CASE FinalizeReturn(e, n) BY <1>0, <1>13, ReportOnlyOpen DEF FinalizeReturn
<1>14. CASE FailClose(e, n) BY <1>0, <1>14, ReportOnlyOpen DEF FailClose
<1> QED BY <1>2, <1>3, <1>4, <1>5, <1>6, <1>7, <1>8, <1>9, <1>10, <1>11, <1>12, <1>13, <1>14
        DEF Work

\* A step of Temporal touches open runs and no thread.
LEMMA TemporalOnlyOpen == Temporal => OnlyOpen /\ UNCHANGED thr
<1>1. ASSUME NEW e \in Execs, DeliverCancel(e) PROVE OnlyOpen /\ UNCHANGED thr
  <2>1. Open(e) BY <1>1 DEF DeliverCancel, Open
  <2> QED BY <1>1, <2>1, EnterOnlyOpen DEF DeliverCancel, OnlyOpen
<1>2. ASSUME NEW e \in Execs, LoseAttempt(e) PROVE OnlyOpen /\ UNCHANGED thr
  <2>1. Open(e) BY <1>2 DEF LoseAttempt, Open, Activities
  <2>2. CASE LastTry(e, wf[e].phase, wf[e].n)
    BY <1>2, <2>1, <2>2, EnterOnlyOpen DEF LoseAttempt
  <2>3. CASE ~LastTry(e, wf[e].phase, wf[e].n)
    <3>1. wf' = [wf EXCEPT ![e] = [wf[e] EXCEPT !.n = wf[e].n + 1]]
      BY <1>2, <2>3 DEF LoseAttempt
    <3> QED BY <1>2, <2>1, <3>1 DEF LoseAttempt, OnlyOpen
  <2> QED BY <2>2, <2>3
<1>3. ASSUME NEW e \in Execs, BusyWake(e) PROVE OnlyOpen /\ UNCHANGED thr
  <2>1. Open(e) BY <1>3 DEF BusyWake, Open
  <2> QED BY <1>3, <2>1, EnterOnlyOpen DEF BusyWake
<1> QED BY <1>1, <1>2, <1>3 DEF Temporal

\* A step of a cancellation touches open runs and no thread.
LEMMA CancelOnlyOpen ==
    ASSUME Typed, CancelApi
    PROVE  OnlyOpen /\ UNCHANGED thr
<1>0. UNCHANGED wf => OnlyOpen BY DEF OnlyOpen
<1>1. ASSUME NEW c \in Cancels, CancelDispatch(c) PROVE OnlyOpen /\ UNCHANGED thr
  <2> DEFINE e == can[c].exec
  <2>1. CASE UNCHANGED wf BY <1>0, <1>1, <2>1 DEF CancelDispatch
  <2>2. CASE Open(e) /\ wf' = [wf EXCEPT ![e].cancel = "requested"]
    <3>1. wf' = [wf EXCEPT ![e] = [wf[e] EXCEPT !.cancel = "requested"]] BY <2>2
    <3>2. CASE e \in Execs BY <1>1, <2>2, <3>1, <3>2 DEF CancelDispatch, OnlyOpen
    <3>3. CASE e \notin Execs
      <4>1. UNCHANGED wf BY <3>1, <3>3 DEF Typed, RunsTyped
      <4> QED BY <1>0, <1>1, <4>1 DEF CancelDispatch
    <3> QED BY <3>2, <3>3
  <2> QED BY <1>1, <2>1, <2>2 DEF CancelDispatch
<1> QED BY <1>0, <1>1 DEF CancelApi, CancelClose, CancelLost

\* A step of the thread's workflow leaves the open run its child.
LEMMA ThreadKeeps ==
    ASSUME Typed, OpenIsChild, ThreadRun
    PROVE  OpenIsChild'
<1>1. CASE ThreadWake \/ ThreadIdle \/ ThreadAsk \/ ThreadDrained
  <2>1. thr.phase # "running" /\ UNCHANGED wf
    BY <1>1 DEF ThreadWake, ThreadIdle, ThreadAsk, ThreadDrained
  <2> QED BY <2>1, OnlyOpenKeeps DEF OnlyOpen
<1>2. CASE ThreadStart
  <2>1. \A e \in Execs : ~Open(e) BY <1>2 DEF ThreadStart, OpenIsChild
  <2>2. thr.cur \in Execs /\ thr \in Thread BY <1>2 DEF ThreadStart, Typed, Thread
  <2>3. CASE wf[thr.cur].phase = "none"
    <3>1. thr'.phase = "running" /\ thr'.cur = thr.cur
      BY <1>2, <2>2, <2>3 DEF ThreadStart, Thread
    <3>2. wf' = [wf EXCEPT ![thr.cur] = [wf[thr.cur] EXCEPT !.phase = "prepare"]]
      BY <1>2, <2>3 DEF ThreadStart
    <3>3. \A e \in Execs : e # thr.cur => wf'[e] = wf[e] BY <3>2 DEF Typed, RunsTyped
    <3> QED BY <2>1, <3>1, <3>3 DEF OpenIsChild, Open
  <2>4. CASE wf[thr.cur].phase # "none"
    <3>1. UNCHANGED wf BY <1>2, <2>4 DEF ThreadStart
    <3> QED BY <2>1, <3>1 DEF OpenIsChild, Open
  <2> QED BY <2>3, <2>4
<1>3. CASE ThreadChild
  <2>1. \A e \in Execs : ~Open(e) BY <1>3 DEF ThreadChild, OpenIsChild, Open
  <2> QED BY <1>3, <2>1 DEF ThreadChild, OpenIsChild, Open
<1> QED BY <1>1, <1>2, <1>3 DEF ThreadRun

\* A signal leaves the open run the thread's child.
LEMMA SignalKeeps ==
    ASSUME Typed, OpenIsChild, thr' \in {thr, Signalled}, UNCHANGED wf
    PROVE  OpenIsChild'
<1>1. CASE thr.phase # "running" BY <1>1, OnlyOpenKeeps DEF OnlyOpen
<1>2. CASE thr.phase = "running"
  <2>1. thr'.phase = thr.phase /\ thr'.cur = thr.cur BY <1>2 DEF Signalled, Typed, Thread
  <2> QED BY <2>1 DEF OpenIsChild, Open
<1> QED BY <1>1, <1>2

\* Every step leaves the open run the thread's child.
LEMMA OpenIsChildStep == Typed /\ OpenIsChild /\ [Next]_vars => OpenIsChild'
<1> SUFFICES ASSUME Typed, OpenIsChild, [Next]_vars PROVE OpenIsChild' OBVIOUS
<1>1. CASE Post \/ WorkerStart
  <2>1. UNCHANGED wf /\ thr' \in {thr, Signalled}
    BY <1>1 DEF Post, PostCheck, PostInsert, PostSignal, PostLost, WorkerStart
  <2> QED BY <2>1, SignalKeeps
<1>2. CASE CancelApi BY <1>2, CancelOnlyOpen, OnlyOpenKeeps
<1>3. CASE ThreadRun BY <1>3, ThreadKeeps
<1>4. CASE Temporal BY <1>4, TemporalOnlyOpen, OnlyOpenKeeps
<1>5. ASSUME NEW e \in Execs, NEW n \in AttemptIds, Work(e, n) PROVE OpenIsChild'
  BY <1>5, WorkOnlyOpen, OnlyOpenKeeps
<1>6. CASE (\E e \in Execs : GoStale(e)) \/ UNCHANGED vars
  BY <1>6, OnlyOpenKeeps DEF GoStale, vars, OnlyOpen
<1> QED BY <1>1, <1>2, <1>3, <1>4, <1>5, <1>6 DEF Next

(* The turns of a thread run one after the other: however POSTs, sweeps,       *)
(* cancels and lost attempts interleave, at most one of their workflows is     *)
(* open (chat_workflows.py, ChatThreadWorkflow).                               *)
THEOREM OneAtATime == Spec => []OneTurnAtATime
<1>1. Init => Typed /\ OpenIsChild
  BY TypedInit DEF Init, OpenIsChild, Open
<1>2. Typed /\ OpenIsChild /\ [Next]_vars => (Typed /\ OpenIsChild)'
  BY TypedStep, OpenIsChildStep
<1>3. Typed /\ OpenIsChild => OneTurnAtATime
  BY DEF OpenIsChild, OneTurnAtATime
<1> QED BY <1>1, <1>2, <1>3, PTL DEF Spec

------------------------------------------------------------------------------
(* One turn: its row r, its observations o, its workflow w, its attempts s.    *)

Early == {"none", "prepare", "busy"}

(* A row that has its text is closed, and a completed one has it. *)
Plain(r) == /\ r.message => r.status \in {"completed", "canceled"}
            /\ r.status = "completed" => r.message
            /\ r.retaken => r.status # "absent"

(* The lease or an end of the turn decide over the row. *)
Over(r) == r.status \in Terminal \/ r.retaken

Told(o, statuses) == \E n \in AttemptIds : o[n] \in statuses

(* A cancel has found the row open to it, or an attempt that has ended. *)
Tried(r, o) == r.status \in Terminal \/ Told(o, {"failed", "succeeded", "cancelled"})

Some(s, a) == \E n \in AttemptIds : s[a][n] # "idle"

(* Which attempts there may be, and what is known of the run, in each phase. *)
PhaseInv(w, s) ==
    /\ Some(s, "prepare") => w.phase # "none"
    /\ Some(s, "generate") => w.phase \notin Early
    /\ Some(s, "finalize") => w.out # "none"
    /\ Some(s, "fail") => w.phase \in {"fail", "closed"}
    /\ w.phase \in Early \cup {"generate"} => w.out = "none"
    /\ w.phase = "finalize" => w.out # "none"
    /\ w.phase = "fail" => w.failed
    /\ w.gaveUp => w.phase = "closed"
    /\ w.out = "blank" => w.cancel # "no"

RowInv(r, o, w) ==
    /\ w.phase # "none" => r.status # "absent"
    /\ w.phase = "generate" \/ w.out # "none" => r.status # "queued" \/ r.retaken
    /\ r.status = "failed" => w.phase \in {"fail", "closed"}
    /\ w.phase \in Early => ~Told(o, {"failed", "succeeded", "cancelled"})
    /\ w.out \in {"none", "blank"} => ~Told(o, {"succeeded", "cancelled"})
    /\ w.cancel # "no" => Tried(r, o)
    /\ Told(o, {"succeeded", "cancelled"}) => Over(r)

EndInv(r, o, w, s) ==
    /\ \A n \in AttemptIds : s["finalize"][n] = "committed" =>
          /\ Over(r)
          /\ w.out = "partial" => r.message \/ r.retaken \/ r.status = "failed"
    /\ w.phase = "closed" =>
          Over(r) \/ w.gaveUp \/ (w.out = "blank" /\ Told(o, {"failed"}))
    /\ w.phase = "closed" /\ w.out = "partial" /\ ~w.failed => r.message \/ r.retaken

TurnInv(r, o, w, s) ==
    Plain(r) /\ PhaseInv(w, s) /\ RowInv(r, o, w) /\ EndInv(r, o, w, s)

Turns == \A e \in Execs : TurnInv(row[e], obs[e], wf[e], att[e])

------------------------------------------------------------------------------
(* One row under the moves of the ledger.                                      *)

(* What r has stays in q, and only the lease sends a started turn back. *)
Stays(r, q) ==
    /\ r.status # "absent" => q.status # "absent"
    /\ r.status \in Terminal => q.status = r.status
    /\ r.message => q.message
    /\ r.retaken => q.retaken
    /\ q.status = "queued" => r.status \in {"absent", "queued"} \/ q.retaken

\* What writing a status does to a row of the table.
LEMMA TouchFields ==
    ASSUME NEW r \in Rows, NEW status \in Statuses
    PROVE  /\ Touch(r, status) \in Rows
           /\ Touch(r, status).status = status
           /\ Touch(r, status).message = r.message
           /\ Touch(r, status).retaken = r.retaken
BY DEF Touch, Rows

\* A row moved along the ledger's states stays plain and keeps its past.
LEMMA MoveStays ==
    ASSUME NEW r \in Rows, Plain(r), NEW q, Moves(r, q)
    PROVE  Plain(q) /\ Stays(r, q)
<1>0. /\ {"queued", "running", "completed", "failed", "canceled"} \subseteq Statuses
      /\ Terminal = {"completed", "failed", "canceled"}
  BY DEF Statuses, Live, Terminal
<1>1. CASE q = r
  BY <1>1 DEF Stays
<1>2. CASE r.status = "running" /\ q = [r EXCEPT !.stale = TRUE]
  <2>1. q.status = "running" /\ q.message = r.message /\ q.retaken = r.retaken
    BY <1>2 DEF Rows
  <2> QED BY <1>0, <1>2, <2>1 DEF Plain, Stays
<1>3. CASE q = Recover(r) /\ q # r
  <2> DEFINE t == Touch(r, "queued")
  <2>1. r.status = "running" /\ q = [t EXCEPT !.started = FALSE, !.retaken = TRUE]
    BY <1>3 DEF Recover, MayRecover
  <2>2. t \in Rows /\ t.status = "queued" /\ t.message = r.message
    BY <1>0, TouchFields
  <2> HIDE DEF t
  <2>3. q.status = "queued" /\ q.message = r.message /\ q.retaken
    BY <2>1, <2>2 DEF Rows
  <2> QED BY <1>0, <2>1, <2>3 DEF Plain, Stays
<1>4. CASE r.status = "queued" /\ q = Claim(r)
  <2> DEFINE t == Touch(r, "running")
  <2>1. q = [t EXCEPT !.started = TRUE] BY <1>4 DEF Claim
  <2>2. t \in Rows /\ t.status = "running" /\ t.message = r.message /\ t.retaken = r.retaken
    BY <1>0, TouchFields
  <2> HIDE DEF t
  <2>3. q.status = "running" /\ q.message = r.message /\ q.retaken = r.retaken
    BY <2>1, <2>2 DEF Rows
  <2> QED BY <1>0, <1>4, <2>3 DEF Plain, Stays
<1>5. ASSUME NEW n \in AttemptIds, MayBegin(r, n), q = BeginAttempt(r, n)
      PROVE  Plain(q) /\ Stays(r, q)
  <2> DEFINE t == Touch(r, "running")
  <2>1. q = [t EXCEPT !.attempt = n, !.draft = 0] BY <1>5 DEF BeginAttempt
  <2>2. t \in Rows /\ t.status = "running" /\ t.message = r.message /\ t.retaken = r.retaken
    BY <1>0, TouchFields
  <2> HIDE DEF t
  <2>3. q.status = "running" /\ q.message = r.message /\ q.retaken = r.retaken
    BY <2>1, <2>2 DEF Rows
  <2>4. r.status = "running" BY <1>5 DEF MayBegin
  <2> QED BY <1>0, <2>3, <2>4 DEF Plain, Stays
<1>6. ASSUME NEW n \in AttemptIds, MayCheckpoint(r, n), q = Checkpoint(r, n)
      PROVE  Plain(q) /\ Stays(r, q)
  <2> DEFINE t == Touch(r, "running")
  <2>1. q = [t EXCEPT !.draft = n] BY <1>6 DEF Checkpoint
  <2>2. t \in Rows /\ t.status = "running" /\ t.message = r.message /\ t.retaken = r.retaken
    BY <1>0, TouchFields
  <2> HIDE DEF t
  <2>3. q.status = "running" /\ q.message = r.message /\ q.retaken = r.retaken
    BY <2>1, <2>2 DEF Rows
  <2>4. r.status = "running" BY <1>6 DEF MayCheckpoint
  <2> QED BY <1>0, <2>3, <2>4 DEF Plain, Stays
<1>7. ASSUME NEW seen, MayComplete(r, seen), q = Complete(r)
      PROVE  Plain(q) /\ Stays(r, q)
  <2> DEFINE t == Touch(r, "completed")
  <2>1. q = [t EXCEPT !.message = TRUE] BY <1>7 DEF Complete
  <2>2. t \in Rows /\ t.status = "completed" /\ t.retaken = r.retaken BY <1>0, TouchFields
  <2> HIDE DEF t
  <2>3. q.status = "completed" /\ q.message /\ q.retaken = r.retaken BY <2>1, <2>2 DEF Rows
  <2>4. r.status = "running" BY <1>7 DEF MayComplete
  <2> QED BY <1>0, <2>3, <2>4 DEF Plain, Stays
<1>8. ASSUME NEW seen, MayRecordCanceled(r, seen), q = RecordCanceled(r)
      PROVE  Plain(q) /\ Stays(r, q)
  <2> DEFINE t == Touch(r, "canceled")
  <2>1. q = [t EXCEPT !.message = TRUE] BY <1>8 DEF RecordCanceled
  <2>2. t \in Rows /\ t.status = "canceled" /\ t.retaken = r.retaken BY <1>0, TouchFields
  <2> HIDE DEF t
  <2>3. q.status = "canceled" /\ q.message /\ q.retaken = r.retaken BY <2>1, <2>2 DEF Rows
  <2>4. r.status \in {"running", "canceled"} BY <1>8 DEF MayRecordCanceled
  <2> QED BY <1>0, <2>3, <2>4 DEF Plain, Stays
<1>9. ASSUME NEW seen, MayFail(r, seen), q = Fail(r)
      PROVE  Plain(q) /\ Stays(r, q)
  <2>1. q.status = "failed" /\ q.message = r.message /\ q.retaken = r.retaken
    BY <1>0, <1>9, TouchFields DEF Fail
  <2>2. r.status \in {"queued", "running"} BY <1>9 DEF MayFail
  <2> QED BY <1>0, <2>1, <2>2 DEF Plain, Stays
<1>10. ASSUME NEW seen, MayCancel(r, seen), q = Cancel(r)
       PROVE  Plain(q) /\ Stays(r, q)
  <2>1. q.status = "canceled" /\ q.message = r.message /\ q.retaken = r.retaken
    BY <1>0, <1>10, TouchFields DEF Cancel
  <2>2. r.status \in {"queued", "running"} BY <1>10 DEF MayCancel
  <2> QED BY <1>0, <2>1, <2>2 DEF Plain, Stays
<1> QED BY <1>1, <1>2, <1>3, <1>4, <1>5, <1>6, <1>7, <1>8, <1>9, <1>10 DEF Moves

------------------------------------------------------------------------------
(* One turn: its row, its observations, its attempts and its workflow change.  *)

\* A turn's account survives a move of its row.
LEMMA TurnRow ==
    ASSUME NEW r, NEW o, NEW w, NEW s, TurnInv(r, o, w, s), NEW q, Plain(q), Stays(r, q),
           q.status = "failed" => r.status = "failed" \/ w.phase \in {"fail", "closed"}
    PROVE  TurnInv(q, o, w, s)
<1>1. Over(r) => Over(q)
  BY DEF Over, Stays
<1>2. Tried(r, o) => Tried(q, o)
  BY DEF Tried, Stays
<1>3. RowInv(q, o, w)
  <2>1. w.phase = "generate" \/ w.out # "none" => q.status # "queued" \/ q.retaken
    BY DEF TurnInv, RowInv, PhaseInv, Early, Stays
  <2> QED BY <1>1, <1>2, <2>1 DEF TurnInv, RowInv, Stays
<1>4. EndInv(q, o, w, s)
  BY <1>1 DEF TurnInv, EndInv, Stays, Terminal
<1> QED BY <1>3, <1>4 DEF TurnInv

(* More is told of the run, and an end only of a turn that is over. *)
LEMMA TurnTold ==
    ASSUME NEW r, NEW o, NEW w, NEW s, TurnInv(r, o, w, s), NEW p,
           Told(o, {"failed", "succeeded", "cancelled"})
              => Told(p, {"failed", "succeeded", "cancelled"}),
           w.out = "blank" /\ Told(o, {"failed"}) => Told(p, {"failed"}),
           Told(p, {"succeeded", "cancelled"})
              => Told(o, {"succeeded", "cancelled"}) \/ (w.out \notin {"none", "blank"} /\ Over(r)),
           w.phase \notin Early
    PROVE  TurnInv(r, p, w, s)
<1>1. Tried(r, o) => Tried(r, p)
  BY DEF Tried
<1>2. RowInv(r, p, w)
  BY <1>1 DEF TurnInv, RowInv
<1>3. EndInv(r, p, w, s)
  BY DEF TurnInv, EndInv
<1> QED BY <1>2, <1>3 DEF TurnInv

(* Where an attempt of a may be on its way. *)
MayTry(a, w) ==
    /\ a = "prepare"  => w.phase # "none"
    /\ a = "generate" => w.phase \notin Early
    /\ a = "finalize" => w.out # "none"
    /\ a = "fail"     => w.phase \in {"fail", "closed"}

\* An activity with an attempt, or in progress, is one the turn may try.
LEMMA TriedMayTry ==
    ASSUME NEW r, NEW o, NEW w, NEW s, TurnInv(r, o, w, s), NEW a \in Activities,
           Some(s, a) \/ w.phase = a
    PROVE  MayTry(a, w)
BY DEF TurnInv, PhaseInv, MayTry, Early

(* What an attempt knows once it has been to the ledger. *)
Settles(r, w) ==
    /\ Over(r)
    /\ w.out = "partial" => r.message \/ r.retaken \/ r.status = "failed"

\* A turn's account survives a step of one of its attempts.
LEMMA TurnSlot ==
    ASSUME NEW r, NEW o, NEW w, NEW s \in Slots, TurnInv(r, o, w, s),
           NEW a \in Activities, NEW n \in AttemptIds, NEW v \in Attempt,
           v # "idle" => MayTry(a, w),
           a = "finalize" /\ v = "committed" => Settles(r, w)
    PROVE  TurnInv(r, o, w, [s EXCEPT ![a][n] = v])
<1> DEFINE z == [s EXCEPT ![a][n] = v]
<1>1. \A b \in Activities, m \in AttemptIds :
        z[b][m] = IF b = a /\ m = n THEN v ELSE s[b][m]
  BY DEF Slots
<1>2. Activities = {"prepare", "generate", "finalize", "fail"}
  BY DEF Activities
<1> HIDE DEF z
<1>3. \A b \in Activities : Some(z, b) => Some(s, b) \/ (b = a /\ MayTry(a, w))
  BY <1>1 DEF Some
<1>4. PhaseInv(w, z)
  BY <1>2, <1>3 DEF TurnInv, PhaseInv, MayTry
<1>5. \A m \in AttemptIds :
        z["finalize"][m] = "committed" => s["finalize"][m] = "committed" \/ Settles(r, w)
  BY <1>1, <1>2
<1>6. EndInv(r, o, w, z)
  BY <1>5 DEF TurnInv, EndInv, Settles
<1>7. TurnInv(r, o, w, z)
  BY <1>4, <1>6 DEF TurnInv
<1> QED BY <1>7 DEF z

(* What the workflow must know to go on to next with the record v. *)
MayEnter(r, o, w, v, next) ==
    /\ w.phase \notin {"none", "closed"}
    /\ v.out = w.out \/ (w.phase = "generate" /\ next = "finalize" /\ v.out # "none")
    /\ v.cancel # "no" => w.cancel # "no"
    /\ v.out = "blank" => v.cancel # "no"
    /\ next \in Early => w.phase \in Early
    /\ next = "generate" => w.phase \in Early /\ r.status = "running"
    /\ next = "finalize" => v.out # "none"
    /\ w.phase = "fail" => next = "closed"
    /\ next = "fail" => v.failed
    /\ v.gaveUp => next = "closed"
    /\ next = "closed" =>
          /\ Over(r) \/ v.gaveUp \/ (v.out = "blank" /\ Told(o, {"failed"}))
          /\ v.out = "partial" /\ ~v.failed => r.message \/ r.retaken

\* A turn's account survives entering the next activity.
LEMMA TurnEnter ==
    ASSUME NEW r, NEW o, NEW w, NEW s \in Slots, TurnInv(r, o, w, s),
           NEW v \in Workflow, NEW next \in Activities \cup {"busy", "closed"},
           MayEnter(r, o, w, v, next)
    PROVE  TurnInv(r, o, [v EXCEPT !.phase = next, !.n = 1],
                   IF next \in Activities THEN [s EXCEPT ![next][1] = "scheduled"] ELSE s)
<1> DEFINE u == [v EXCEPT !.phase = next, !.n = 1]
           z == IF next \in Activities THEN [s EXCEPT ![next][1] = "scheduled"] ELSE s
<1>1. /\ u.phase = next /\ u.out = v.out /\ u.cancel = v.cancel
      /\ u.failed = v.failed /\ u.gaveUp = v.gaveUp
  BY DEF Workflow
<1> HIDE DEF u
<1>2. TurnInv(r, o, u, s)
  <2>1. next \in {"prepare", "generate", "finalize", "fail", "busy", "closed"}
    BY DEF Activities
  <2>2. PhaseInv(u, s)
    BY <1>1, <2>1 DEF TurnInv, PhaseInv, MayEnter, Early
  <2>3. Tried(r, o) \/ u.cancel = "no"
    BY <1>1 DEF TurnInv, RowInv, MayEnter
  <2>4. RowInv(r, o, u)
    BY <1>1, <2>1, <2>3 DEF TurnInv, PhaseInv, RowInv, MayEnter, Early
  <2>5. \A n \in AttemptIds : s["finalize"][n] = "committed" => u.out = w.out
    BY <1>1 DEF TurnInv, PhaseInv, MayEnter, Some, Early
  <2>6. EndInv(r, o, u, s)
    BY <1>1, <2>5 DEF TurnInv, EndInv, MayEnter
  <2> QED BY <2>2, <2>4, <2>6 DEF TurnInv
<1>3. TurnInv(r, o, u, z)
  <2>1. CASE next \in Activities
    <3>1. MayTry(next, u)
      BY <1>1, <1>2, <2>1, TriedMayTry
    <3>2. TurnInv(r, o, u, [s EXCEPT ![next][1] = "scheduled"])
      BY <1>2, <2>1, <3>1, AttemptAssumption, TurnSlot DEF Attempt
    <3> QED BY <2>1, <3>2
  <2>2. CASE next \notin Activities
    BY <1>2, <2>2
  <2> QED BY <2>1, <2>2
<1> QED BY <1>3 DEF u

(* A stage that fails for good may go on to fail, and fail to the end. *)
LEMMA BrokenEnters ==
    ASSUME Typed, NEW e \in Execs, NEW r, NEW o, NEW s, TurnInv(r, o, wf[e], s),
           NEW a \in Activities, wf[e].phase = a
    PROVE  /\ MayEnter(r, o, wf[e], Broken(e, a), AfterError(a))
           /\ Broken(e, a) \in Workflow /\ AfterError(a) \in Activities \cup {"closed"}
<1>1. wf[e] \in Workflow
  BY DEF Typed, RunsTyped
<1> DEFINE v == Broken(e, a)
<1>2. /\ v.out = wf[e].out /\ v.failed /\ v.gaveUp = (a = "fail")
      /\ v.cancel # "no" <=> wf[e].cancel # "no"
  BY <1>1 DEF Broken, Workflow
<1> HIDE DEF v
<1>3. MayEnter(r, o, wf[e], v, AfterError(a))
  BY <1>2 DEF TurnInv, PhaseInv, MayEnter, AfterError, Activities, Early
<1> QED BY <1>3, BrokenType DEF v, Typed

\* A turn's account survives a report to its workflow.
LEMMA TurnReport ==
    ASSUME Typed, NEW e \in Execs, NEW a \in Activities, NEW n \in AttemptIds,
           NEW r, NEW o, TurnInv(r, o, wf[e], att[e]),
           NEW v \in Workflow, NEW next \in Activities \cup {"busy", "closed"},
           Current(e, a, n) => MayEnter(r, o, wf[e], v, next),
           Report(e, a, n, v, next)
    PROVE  /\ TurnInv(r, o, wf'[e], att'[e])
           /\ \A f \in Execs \ {e} : wf'[f] = wf[f] /\ att'[f] = att[f]
<1> DEFINE slots == [att[e] EXCEPT ![a][n] = "idle"]
<1>0. wf \in [Execs -> Workflow] /\ att \in [Execs -> Slots]
  BY DEF Typed, RunsTyped
<1>1. att[e] \in Slots /\ slots \in Slots
  BY <1>0, SlotType DEF Attempt
<1>2. TurnInv(r, o, wf[e], slots)
  BY <1>1, TurnSlot DEF Attempt
<1>3. CASE Current(e, a, n)
  <2> DEFINE u == [v EXCEPT !.phase = next, !.n = 1]
             z == IF next \in Activities THEN [slots EXCEPT ![next][1] = "scheduled"] ELSE slots
  <2>1. wf' = [wf EXCEPT ![e] = u] /\ att' = [att EXCEPT ![e] = z]
    BY <1>3 DEF Report, Enter
  <2> HIDE DEF slots
  <2>2. TurnInv(r, o, u, z)
    BY <1>1, <1>2, <1>3, TurnEnter
  <2> HIDE DEF u, z
  <2> QED BY <1>0, <2>1, <2>2
<1>4. CASE ~Current(e, a, n)
  <2>1. wf' = wf /\ att' = [att EXCEPT ![e] = slots]
    BY <1>4 DEF Report
  <2> HIDE DEF slots
  <2> QED BY <1>0, <1>2, <2>1
<1> QED BY <1>3, <1>4

(* A further attempt is scheduled, the last one left or still running. *)
LEMMA TurnRetry ==
    ASSUME Typed, NEW e \in Execs, NEW a \in Activities, NEW m \in AttemptIds,
           NEW r, NEW o, NEW s \in Slots, TurnInv(r, o, wf[e], s), wf[e].phase = a,
           wf' = [wf EXCEPT ![e].n = m],
           att' = [att EXCEPT ![e] = [s EXCEPT ![a][m] = "scheduled"]]
    PROVE  /\ TurnInv(r, o, wf'[e], att'[e])
           /\ \A f \in Execs \ {e} : wf'[f] = wf[f] /\ att'[f] = att[f]
<1> DEFINE u == [wf[e] EXCEPT !.n = m]
           z == [s EXCEPT ![a][m] = "scheduled"]
<1>0. wf \in [Execs -> Workflow] /\ att \in [Execs -> Slots] /\ wf[e] \in Workflow
  BY DEF Typed, RunsTyped
<1>1. /\ u.phase = wf[e].phase /\ u.out = wf[e].out /\ u.cancel = wf[e].cancel
      /\ u.failed = wf[e].failed /\ u.gaveUp = wf[e].gaveUp
  BY <1>0 DEF Workflow
<1>2. TurnInv(r, o, wf[e], z)
  BY TriedMayTry, TurnSlot DEF Attempt
<1>3. wf' = [wf EXCEPT ![e] = u] /\ att' = [att EXCEPT ![e] = z]
  OBVIOUS
<1> HIDE DEF u, z
<1>4. TurnInv(r, o, u, z)
  BY <1>1, <1>2 DEF TurnInv, PhaseInv, RowInv, EndInv
<1> QED BY <1>0, <1>3, <1>4

\* A turn's account survives an attempt that raises.
LEMMA TurnRaise ==
    ASSUME Typed, NEW e \in Execs, NEW a \in Activities, NEW n \in AttemptIds,
           NEW r, NEW o, TurnInv(r, o, wf[e], att[e]), Raise(e, a, n)
    PROVE  /\ TurnInv(r, o, wf'[e], att'[e])
           /\ \A f \in Execs \ {e} : wf'[f] = wf[f] /\ att'[f] = att[f]
<1>1. CASE LastTry(e, a, n) \/ ~Current(e, a, n)
  <2>1. Report(e, a, n, Broken(e, a), AfterError(a))
    BY <1>1 DEF Raise
  <2>2. Current(e, a, n) => MayEnter(r, o, wf[e], Broken(e, a), AfterError(a))
    BY BrokenEnters DEF Current
  <2>3. Broken(e, a) \in Workflow /\ AfterError(a) \in Activities \cup {"closed"}
    BY BrokenType DEF Typed
  <2> QED BY <2>1, <2>2, <2>3, TurnReport
<1>2. CASE ~LastTry(e, a, n) /\ Current(e, a, n)
  <2> DEFINE s == [att[e] EXCEPT ![a][n] = "idle"]
  <2>1. n + 1 \in AttemptIds /\ n + 1 # n
    BY <1>2, AttemptAssumption DEF LastTry
  <2>2. att \in [Execs -> Slots] /\ s \in Slots
    BY SlotType DEF Typed, RunsTyped, Attempt
  <2>3. TurnInv(r, o, wf[e], s)
    BY <2>2, TurnSlot DEF Attempt, Typed, RunsTyped
  <2>4. att' = [att EXCEPT ![e] = [s EXCEPT ![a][n + 1] = "scheduled"]]
    <3>1. att' = [att EXCEPT ![e][a] = [@ EXCEPT ![n] = "idle", ![n + 1] = "scheduled"]]
      BY <1>2 DEF Raise
    <3> QED BY <2>1, <2>2, <3>1 DEF Slots
  <2>5. wf' = [wf EXCEPT ![e].n = n + 1] /\ wf[e].phase = a
    BY <1>2 DEF Raise, Current
  <2> HIDE DEF s
  <2> QED BY <2>1, <2>2, <2>3, <2>4, <2>5, TurnRetry
<1> QED BY <1>1, <1>2

(* The rest of a workflow's record does not matter. *)
LEMMA TurnSame ==
    ASSUME NEW r, NEW o, NEW w, NEW s, TurnInv(r, o, w, s), NEW u,
           u.phase = w.phase, u.out = w.out, u.cancel = w.cancel,
           u.failed = w.failed, u.gaveUp = w.gaveUp
    PROVE  TurnInv(r, o, u, s)
BY DEF TurnInv, PhaseInv, RowInv, EndInv

------------------------------------------------------------------------------
(* Every turn, the cancels that were sent and the turn the thread was told of. *)

CancelsTried ==
    \A c \in Cancels :
        can[c].pc # "new" => can[c].exec \in Execs /\ Tried(row[can[c].exec], obs[can[c].exec])

ToldIsThere ==
    thr.phase = "told" /\ thr.cur # NoExec => row[thr.cur].status # "absent"

TurnsInv == Turns /\ CancelsTried /\ ToldIsThere

\* No step unwrites what a row already says.
LEMMA StepStays ==
    ASSUME RowsInv, Turns, [Next]_vars, NEW f \in Execs
    PROVE  Plain(row'[f]) /\ Stays(row[f], row'[f])
<1>0. row[f] \in Rows /\ Plain(row[f])
  BY DEF RowsInv, Sound, Turns, TurnInv
<1>1. CASE RowsMove
  BY <1>0, <1>1, MoveStays DEF RowsMove
<1>2. ASSUME NEW r \in Requests, Inserts(r)
      PROVE  Plain(row'[f]) /\ Stays(row[f], row'[f])
  <2>1. row'[f] = (IF f = r THEN Queued ELSE row[f]) /\ row[r].status = "absent"
    BY <1>2, InsertKeeps DEF Inserts
  <2>2. Queued.status = "queued" /\ ~Queued.message /\ ~Queued.retaken
    BY DEF Queued, NoRow
  <2>3. CASE f = r
    BY <1>0, <2>1, <2>2, <2>3 DEF Plain, Stays, Terminal
  <2>4. CASE f # r
    BY <1>0, <2>1, <2>4 DEF Stays
  <2> QED BY <2>3, <2>4
<1>3. RowsMove \/ \E r \in Requests : Inserts(r)
  BY StepRows DEF RowsInv
<1> QED BY <1>1, <1>2, <1>3

(* Only the fail activity makes a row failed. *)
LEMMA OnlyFailFails ==
    ASSUME RowsInv, [Next]_vars, NEW f \in Execs,
           row'[f].status = "failed", row[f].status # "failed"
    PROVE  Some(att[f], "fail")
<1>0. \A e \in Execs : row[e] \in Rows
  BY DEF RowsInv, Sound
<1>1. ASSUME NEW e \in Execs, NEW q, row' = [row EXCEPT ![e] = q], q.status # "failed"
      PROVE  FALSE
  BY <1>1 DEF RowsInv, Shaped
<1>2. \A e \in Execs : Recover(row[e]) = row[e] \/ Recover(row[e]).status = "queued"
  BY <1>0 DEF Recover, Touch, Rows
<1>3. CASE UNCHANGED row
  BY <1>3
<1>4. CASE row' = [e \in Execs |-> Recover(row[e])]
  BY <1>2, <1>4
<1>5. ASSUME NEW r \in Requests, PostInsert(r) PROVE FALSE
  <2>1. Queued.status = "queued"
    BY DEF Queued, NoRow
  <2> QED BY <1>1, <1>3, <1>5, <2>1 DEF PostInsert, Execs
<1>6. ASSUME NEW c \in Cancels, NEW e \in Execs, CancelClose(c, e) PROVE FALSE
  <2>1. Cancel(row[e]).status = "canceled"
    BY <1>0 DEF Cancel, Touch, Rows
  <2>2. row' = row \/ row' = [row EXCEPT ![e] = Cancel(row[e])]
    BY <1>6 DEF CancelClose
  <2> QED BY <1>1, <1>3, <2>1, <2>2
<1>7. ASSUME NEW e \in Execs, GoStale(e) PROVE FALSE
  <2>1. row' = [row EXCEPT ![e] = [row[e] EXCEPT !.stale = TRUE]] /\ row[e].status = "running"
    BY <1>7 DEF GoStale
  <2>2. [row[e] EXCEPT !.stale = TRUE].status = "running"
    BY <1>0, <2>1 DEF Rows
  <2> QED BY <1>1, <2>1, <2>2
<1>8. ASSUME NEW e \in Execs, NEW n \in AttemptIds, Work(e, n)
      PROVE  Some(att[f], "fail")
  <2>1. Claim(row[e]).status = "running"
    BY <1>0 DEF Claim, Touch, Rows
  <2>2. BeginAttempt(row[e], n).status = "running" /\ Checkpoint(row[e], n).status = "running"
    BY <1>0 DEF BeginAttempt, Checkpoint, Touch, Rows
  <2>3. CASE PrepareClaim(e, n) \/ PrepareReclaim(e, n)
    <3>1. row' = row \/ row' = [row EXCEPT ![e] = Claim(row[e])]
      BY <2>3 DEF PrepareClaim, PrepareReclaim
    <3> QED BY <1>1, <1>3, <2>1, <3>1
  <2>4. CASE GenerateBegin(e, n) \/ Draft(e, n)
    <3>1. row' = row \/ row' = [row EXCEPT ![e] = BeginAttempt(row[e], n)]
          \/ row' = [row EXCEPT ![e] = Checkpoint(row[e], n)]
      BY <2>4 DEF GenerateBegin, Draft
    <3> QED BY <1>1, <1>3, <2>2, <3>1
  <2>5. CASE FinalizeCommit(e, n)
    <3>1. Complete(row[e]).status = "completed" /\ RecordCanceled(row[e]).status = "canceled"
      BY <1>0 DEF Complete, RecordCanceled, Touch, Rows
    <3>2. \A seen : Settled(e, seen) \in {row[e], Complete(row[e]), RecordCanceled(row[e])}
      BY DEF Settled
    <3>3. row' = row \/ \E seen : row' = [row EXCEPT ![e] = Settled(e, seen)]
      BY <2>5 DEF FinalizeCommit
    <3>4. row' = row \/ row' = [row EXCEPT ![e] = row[e]]
          \/ row' = [row EXCEPT ![e] = Complete(row[e])]
          \/ row' = [row EXCEPT ![e] = RecordCanceled(row[e])]
      BY <3>2, <3>3
    <3>5. [row EXCEPT ![e] = row[e]] = row
      BY DEF RowsInv, Shaped
    <3> QED BY <1>1, <1>3, <3>1, <3>4, <3>5
  <2>6. CASE FailClose(e, n)
    <3>1. att[e]["fail"][n] = "scheduled"
          /\ (row' = row \/ row' = [row EXCEPT ![e] = Fail(row[e])])
      BY <2>6 DEF FailClose
    <3>2. f = e
      BY <3>1 DEF RowsInv, Shaped
    <3> QED BY <3>1, <3>2 DEF Some
  <2>7. CASE PrepareRecover(e, n)
    BY <1>4, <2>7 DEF PrepareRecover
  <2> QED BY <1>3, <1>8, <2>3, <2>4, <2>5, <2>6, <2>7
          DEF Work, PrepareReturn, GenerateCanceled, Speak, DraftClosed, GenerateFail,
              GenerateRaise, GenerateReturn, FinalizeReturn
<1>9. CASE Post
  BY <1>3, <1>5, <1>9 DEF Post, PostCheck, PostSignal, PostLost
<1>10. CASE CancelApi
  BY <1>3, <1>6, <1>10 DEF CancelApi, CancelDispatch, CancelLost
<1>11. CASE ThreadRun
  BY <1>3, <1>11 DEF ThreadRun, ThreadWake, ThreadIdle, ThreadAsk, ThreadDrained, ThreadStart,
                     ThreadChild
<1>12. CASE Temporal
  BY <1>3, <1>12 DEF Temporal, DeliverCancel, LoseAttempt, BusyWake
<1>13. CASE WorkerStart
  BY <1>4, <1>13 DEF WorkerStart
<1>14. CASE UNCHANGED vars
  BY <1>3, <1>14 DEF vars
<1> QED BY <1>7, <1>8, <1>9, <1>10, <1>11, <1>12, <1>13, <1>14 DEF Next

(* The row of a turn moves before anything else of the turn does. *)
LEMMA TurnRowMoved ==
    ASSUME RowsInv, Turns, [Next]_vars, NEW f \in Execs
    PROVE  TurnInv(row'[f], obs[f], wf[f], att[f])
<1>1. Plain(row'[f]) /\ Stays(row[f], row'[f])
  BY StepStays
<1>2. TurnInv(row[f], obs[f], wf[f], att[f])
  BY DEF Turns
<1>3. row'[f].status = "failed" => row[f].status = "failed" \/ wf[f].phase \in {"fail", "closed"}
  BY <1>2, OnlyFailFails DEF TurnInv, PhaseInv
<1> QED BY <1>1, <1>2, <1>3, TurnRow

\* A turn whose run does not move keeps its account.
LEMMA QuietTurn ==
    ASSUME RowsInv, Turns, [Next]_vars, NEW f \in Execs,
           obs'[f] = obs[f], wf'[f] = wf[f], att'[f] = att[f]
    PROVE  TurnInv(row'[f], obs'[f], wf'[f], att'[f])
BY TurnRowMoved

------------------------------------------------------------------------------
(* The attempts.                                                               *)

(* The transaction of finalize leaves the turn over, and with its text if the  *)
(* run was stopped half way.                                                   *)
LEMMA CommitSettles ==
    ASSUME RowsInv, Turns, NEW e \in Execs, NEW seen,
           wf[e].out \in {"answer", "partial"},
           (IF wf[e].out = "partial" THEN "cancelled" ELSE "succeeded") \in seen
    PROVE  Settles(Settled(e, seen), wf[e])
<1> DEFINE r == row[e]
<1>0. /\ r \in Rows /\ Plain(r) /\ RowInv(r, obs[e], wf[e]) /\ PhaseInv(wf[e], att[e])
  BY DEF RowsInv, Sound, Turns, TurnInv
<1>1. r.status \in Terminal \/ r.retaken \/ r.status = "running"
  BY <1>0 DEF RowInv, PhaseInv, Early, Rows, Statuses, Live, Terminal
<1>2. /\ Complete(r).status = "completed" /\ Complete(r).message
      /\ RecordCanceled(r).status = "canceled" /\ RecordCanceled(r).message
  BY <1>0 DEF Complete, RecordCanceled, Touch, Rows
<1>3. CASE wf[e].out = "partial"
  <2>1. CASE MayRecordCanceled(r, seen)
    BY <1>2, <1>3, <2>1 DEF Settled, Settles, Over, Terminal
  <2>2. CASE ~MayRecordCanceled(r, seen)
    <3>1. r.message \/ r.status \notin {"canceled", "running"}
      BY <1>3, <2>2 DEF MayRecordCanceled
    <3>2. Settled(e, seen) = r
      BY <1>3, <2>2 DEF Settled
    <3>3. Settles(r, wf[e])
      BY <1>0, <1>1, <3>1 DEF Settles, Over, Plain, Terminal
    <3> QED BY <3>2, <3>3
  <2> QED BY <2>1, <2>2
<1>4. CASE wf[e].out = "answer"
  <2>1. CASE MayComplete(r, seen)
    BY <1>2, <1>4, <2>1 DEF Settled, Settles, Over, Terminal
  <2>2. CASE ~MayComplete(r, seen)
    <3>1. r.status # "running"
      BY <1>4, <2>2 DEF MayComplete, Agrees
    <3>2. Settled(e, seen) = r
      BY <1>4, <2>2 DEF Settled
    <3> QED BY <1>1, <1>4, <3>1, <3>2 DEF Settles, Over
  <2> QED BY <2>1, <2>2
<1> QED BY <1>3, <1>4

(* What the attempts of a turn write of it, before its workflow hears. *)
LEMMA WorkTells ==
    ASSUME RowsInv, Typed, Turns, NEW e \in Execs, NEW n \in AttemptIds, Work(e, n), [Next]_vars
    PROVE  /\ TurnInv(row'[e], obs'[e], wf[e], att[e])
           /\ \A f \in Execs \ {e} : obs'[f] = obs[f]
<1> DEFINE All == {"failed", "succeeded", "cancelled"}
<1>0. /\ TurnInv(row'[e], obs[e], wf[e], att[e])
      /\ obs \in [Execs -> [AttemptIds -> {"none", "failed", "succeeded", "cancelled"}]]
      /\ wf[e] \in Workflow
  BY TurnRowMoved DEF Typed, RunsTyped
<1>1. CASE UNCHANGED obs
  BY <1>0, <1>1
<1>2. CASE DraftClosed(e, n) \/ GenerateFail(e, n)
  <2>1. obs' = [obs EXCEPT ![e] = [obs[e] EXCEPT ![n] = "failed"]] /\ InModel(e, n)
    BY <1>2 DEF DraftClosed, GenerateFail
  <2>2. obs'[e] = [obs[e] EXCEPT ![n] = "failed"] /\ \A f \in Execs \ {e} : obs'[f] = obs[f]
    BY <1>0, <2>1
  <2>3. wf[e].phase \notin Early
    BY <1>0, <2>1 DEF InModel, TurnInv, PhaseInv, Some
  <2>4. obs'[e][n] = "failed" /\ \A m \in AttemptIds : m # n => obs'[e][m] = obs[e][m]
    BY <1>0, <2>2
  <2>5. /\ Told(obs'[e], All) /\ Told(obs'[e], {"failed"})
        /\ Told(obs'[e], {"succeeded", "cancelled"}) => Told(obs[e], {"succeeded", "cancelled"})
    BY <2>4 DEF Told
  <2> QED BY <1>0, <2>2, <2>3, <2>5, TurnTold
<1>3. CASE FinalizeCommit(e, n) /\ obs' # obs
  <2> DEFINE status == IF wf[e].out = "partial" THEN "cancelled" ELSE "succeeded"
             by     == wf[e].by
  <2>1. /\ obs' = [obs EXCEPT ![e] = [obs[e] EXCEPT ![by] = status]]
        /\ row' = [row EXCEPT ![e] = Settled(e, Seen(e) \cup {status})]
        /\ att[e]["finalize"][n] = "scheduled" /\ wf[e].out # "blank"
    BY <1>3 DEF FinalizeCommit
  <2>2. wf[e].out \in {"answer", "partial"}
    BY <1>0, <2>1 DEF TurnInv, PhaseInv, Some, Workflow, Outcomes
  <2>3. Over(row'[e])
    <3>1. row'[e] = Settled(e, Seen(e) \cup {status})
      BY <2>1 DEF RowsInv, Shaped
    <3> QED BY <2>2, <3>1, CommitSettles DEF Settles
  <2>4. by \in AttemptIds /\ status \in {"cancelled", "succeeded"}
    BY <1>0 DEF Workflow
  <2> HIDE DEF status, by
  <2>5. obs'[e] = [obs[e] EXCEPT ![by] = status] /\ \A f \in Execs \ {e} : obs'[f] = obs[f]
    BY <1>0, <2>1
  <2>6. obs'[e][by] = status
    BY <1>0, <2>4, <2>5
  <2>7. Told(obs'[e], All)
    BY <2>4, <2>6 DEF Told
  <2>8. wf[e].phase \notin Early
    BY <1>0, <2>2 DEF TurnInv, PhaseInv
  <2> QED BY <1>0, <2>2, <2>3, <2>5, <2>7, <2>8, TurnTold
<1> QED BY <1>1, <1>2, <1>3
        DEF Work, PrepareClaim, PrepareRecover, PrepareReclaim, PrepareReturn, GenerateBegin,
            GenerateCanceled, Draft, Speak, GenerateRaise, GenerateReturn, FinalizeReturn, FailClose

\* A step of an activity keeps every turn's account.
LEMMA WorkTurns ==
    ASSUME RowsInv, Typed, Turns, NEW e \in Execs, NEW n \in AttemptIds, Work(e, n), [Next]_vars
    PROVE  Turns'
<1> DEFINE r == row'[e]
           o == obs'[e]
<1>0. /\ wf \in [Execs -> Workflow] /\ att \in [Execs -> Slots] /\ wf[e] \in Workflow
      /\ Activities = {"prepare", "generate", "finalize", "fail"}
      /\ TurnInv(r, o, wf[e], att[e])
  BY WorkTells DEF Typed, RunsTyped, Activities
<1> HIDE DEF r, o
<1> DEFINE Goal == /\ TurnInv(r, o, wf'[e], att'[e])
                   /\ \A f \in Execs \ {e} : wf'[f] = wf[f] /\ att'[f] = att[f]
<1>1. SUFFICES Goal
  BY <1>1, WorkTells, QuietTurn DEF Turns, r, o
<1>2. ASSUME NEW a \in Activities, NEW v \in Attempt, att[e][a][n] # "idle",
             a = "finalize" /\ v = "committed" => Settles(r, wf[e]),
             wf' = wf, att' = [att EXCEPT ![e][a][n] = v]
      PROVE  Goal
  <2> DEFINE z == [att[e] EXCEPT ![a][n] = v]
  <2>1. MayTry(a, wf[e])
    BY <1>0, <1>2, TriedMayTry DEF Some
  <2>2. TurnInv(r, o, wf[e], z)
    BY <1>0, <1>2, <2>1, TurnSlot
  <2>3. att' = [att EXCEPT ![e] = z]
    BY <1>2
  <2> HIDE DEF z
  <2> QED BY <1>0, <1>2, <2>2, <2>3
<1>3. ASSUME NEW a \in Activities, NEW v \in Workflow,
             NEW next \in Activities \cup {"busy", "closed"},
             Current(e, a, n) => MayEnter(r, o, wf[e], v, next),
             Report(e, a, n, v, next)
      PROVE  Goal
  BY <1>0, <1>3, TurnReport
<1>4. ASSUME NEW a \in Activities, Report(e, a, n, Broken(e, a), AfterError(a))
      PROVE  Goal
  <2>1. Current(e, a, n) => MayEnter(r, o, wf[e], Broken(e, a), AfterError(a))
    BY <1>0, BrokenEnters DEF Current
  <2>2. Broken(e, a) \in Workflow /\ AfterError(a) \in Activities \cup {"closed"}
    BY BrokenType DEF Typed
  <2> HIDE DEF Goal
  <2> QED BY <1>3, <1>4, <2>1, <2>2
<1>5. ASSUME NEW a \in Activities, Raise(e, a, n)
      PROVE  Goal
  BY <1>0, <1>5, TurnRaise
<1>6. ASSUME ReportBusy(e, n) PROVE Goal
  <2>1. CASE Report(e, "prepare", n, wf[e], "busy")
    <3>1. Current(e, "prepare", n) => MayEnter(r, o, wf[e], wf[e], "busy")
      BY <1>0 DEF Current, TurnInv, PhaseInv, MayEnter, Early
    <3> HIDE DEF Goal
    <3> QED BY <1>0, <1>3, <2>1, <3>1
  <2> HIDE DEF Goal
  <2> QED BY <1>0, <1>4, <1>6, <2>1 DEF ReportBusy
<1>7. ASSUME ReportPrepared(e, n), UNCHANGED row PROVE Goal
  <2>1. CASE row[e].status = "running" /\ Report(e, "prepare", n, wf[e], "generate")
    <3>1. r.status = "running"
      BY <1>7, <2>1 DEF r
    <3>2. Current(e, "prepare", n) => MayEnter(r, o, wf[e], wf[e], "generate")
      BY <1>0, <3>1 DEF Current, TurnInv, PhaseInv, MayEnter, Early
    <3> HIDE DEF Goal
    <3> QED BY <1>0, <1>3, <2>1, <3>2
  <2> HIDE DEF Goal
  <2> QED BY <1>0, <1>4, <1>7, <2>1 DEF ReportPrepared
<1> HIDE DEF Goal
<1>8. CASE PrepareClaim(e, n)
  BY <1>0, <1>2, <1>7, <1>8 DEF PrepareClaim, Step, Attempt
<1>9. CASE PrepareRecover(e, n)
  BY <1>0, <1>2, <1>6, <1>9 DEF PrepareRecover, Step, Attempt
<1>10. CASE PrepareReclaim(e, n)
  BY <1>0, <1>2, <1>6, <1>10 DEF PrepareReclaim, Step, Attempt
<1>11. CASE PrepareReturn(e, n)
  BY <1>7, <1>11 DEF PrepareReturn
<1>12. CASE GenerateBegin(e, n)
  BY <1>0, <1>2, <1>5, <1>12 DEF GenerateBegin, Step, Attempt
<1>13. CASE GenerateCanceled(e, n)
  BY <1>0, <1>4, <1>13 DEF GenerateCanceled
<1>14. CASE Draft(e, n)
  BY <1>0, <1>14 DEF Draft, Goal
<1>15. CASE Speak(e, n)
  BY <1>0, <1>2, <1>15 DEF Speak, Step, Attempt
<1>16. CASE DraftClosed(e, n)
  <2> DEFINE z == [att[e] EXCEPT !["generate"][n] = "final"]
             u == wf'[e]
  <2>1. att' = [att EXCEPT ![e] = z] /\ att[e]["generate"][n] # "idle"
    BY <1>16 DEF DraftClosed, InModel
  <2>2. MayTry("generate", wf[e])
    BY <1>0, <2>1, TriedMayTry DEF Some
  <2>3. TurnInv(r, o, wf[e], z)
    BY <1>0, <2>2, TurnSlot DEF Attempt
  <2>4. /\ u.phase = wf[e].phase /\ u.out = wf[e].out /\ u.cancel = wf[e].cancel
        /\ u.failed = wf[e].failed /\ u.gaveUp = wf[e].gaveUp
        /\ \A f \in Execs \ {e} : wf'[f] = wf[f]
    BY <1>0, <1>16 DEF DraftClosed, Workflow
  <2> HIDE DEF z, u
  <2>5. TurnInv(r, o, u, z)
    BY <2>3, <2>4, TurnSame
  <2> QED BY <1>0, <2>1, <2>4, <2>5 DEF u, Goal
<1>17. CASE GenerateFail(e, n)
  <2>1. PICK v \in {"retryable", "final"} : wf' = wf /\ att' = [att EXCEPT ![e]["generate"][n] = v]
    BY <1>17 DEF GenerateFail
  <2>2. att[e]["generate"][n] # "idle"
    BY <1>17 DEF GenerateFail, InModel
  <2> QED BY <1>0, <1>2, <2>1, <2>2 DEF Attempt
<1>18. CASE GenerateRaise(e, n)
  BY <1>0, <1>4, <1>5, <1>18 DEF GenerateRaise
<1>19. ASSUME NEW out \in Outcomes \ {"none"}, GenerateReturn(e, n, out) PROVE Goal
  <2> DEFINE v == [wf[e] EXCEPT !.out = out, !.by = n, !.spoke = (out # "blank")]
  <2>1. Report(e, "generate", n, v, "finalize")
    BY <1>19 DEF GenerateReturn
  <2>2. /\ v \in Workflow
        /\ v.out = out /\ v.cancel = wf[e].cancel /\ v.failed = wf[e].failed
        /\ v.gaveUp = wf[e].gaveUp
    BY <1>0 DEF Workflow
  <2>3. out = "blank" => wf[e].cancel = "delivered"
    BY <1>19 DEF GenerateReturn
  <2> HIDE DEF v
  <2>4. Current(e, "generate", n) => MayEnter(r, o, wf[e], v, "finalize")
    BY <1>0, <2>2, <2>3 DEF Current, TurnInv, PhaseInv, MayEnter, Early
  <2> QED BY <1>0, <1>3, <2>1, <2>2, <2>4
<1>20. CASE FinalizeCommit(e, n)
  <2>1. CASE Raise(e, "finalize", n)
    BY <1>0, <1>5, <2>1
  <2>2. CASE ~Raise(e, "finalize", n)
    <3> DEFINE status == IF wf[e].out = "partial" THEN "cancelled" ELSE "succeeded"
    <3>1. /\ wf' = wf /\ att' = [att EXCEPT ![e]["finalize"][n] = "committed"]
          /\ att[e]["finalize"][n] = "scheduled" /\ wf[e].out # "blank"
          /\ row' = [row EXCEPT ![e] = Settled(e, Seen(e) \cup {status})]
      BY <1>20, <2>2 DEF FinalizeCommit, Step
    <3>2. wf[e].out \in {"answer", "partial"}
      BY <1>0, <3>1 DEF TurnInv, PhaseInv, Some, Workflow, Outcomes
    <3>3. r = Settled(e, Seen(e) \cup {status})
      BY <3>1 DEF RowsInv, Shaped, r
    <3>4. Settles(r, wf[e])
      BY <3>2, <3>3, CommitSettles
    <3> QED BY <1>0, <1>2, <3>1, <3>4 DEF Attempt
  <2> QED BY <2>1, <2>2
<1>21. CASE FinalizeReturn(e, n)
  <2> DEFINE v == [wf[e] EXCEPT !.failed = (wf[e].cancel = "requested")]
  <2>1. Report(e, "finalize", n, v, "closed")
    BY <1>21 DEF FinalizeReturn
  <2>2. /\ v \in Workflow /\ v.out = wf[e].out /\ v.cancel = wf[e].cancel
        /\ v.gaveUp = wf[e].gaveUp
    BY <1>0 DEF Workflow
  <2> HIDE DEF v
  <2>3. ASSUME Current(e, "finalize", n) PROVE MayEnter(r, o, wf[e], v, "closed")
    <3>1. wf[e].phase = "finalize" /\ r.status # "failed"
      BY <1>0, <2>3 DEF Current, TurnInv, RowInv
    <3>2. CASE att[e]["finalize"][n] = "committed"
      <4>1. Over(r) /\ (wf[e].out = "partial" => r.message \/ r.retaken)
        BY <1>0, <3>1, <3>2 DEF TurnInv, EndInv
      <4> QED BY <1>0, <2>2, <3>1, <4>1 DEF TurnInv, PhaseInv, MayEnter, Early
    <3>3. CASE wf[e].out = "blank"
      <4>1. Tried(r, o) /\ ~Told(o, {"succeeded", "cancelled"})
        BY <1>0, <3>3 DEF TurnInv, PhaseInv, RowInv
      <4>2. Over(r) \/ Told(o, {"failed"})
        BY <4>1 DEF Tried, Told, Over
      <4> QED BY <1>0, <2>2, <3>1, <3>3, <4>2 DEF TurnInv, PhaseInv, MayEnter, Early
    <3> QED BY <1>21, <3>2, <3>3 DEF FinalizeReturn
  <2> QED BY <1>0, <1>3, <2>1, <2>2, <2>3
<1>22. CASE FailClose(e, n)
  <2>1. /\ Report(e, "fail", n, wf[e], "closed")
        /\ row' = IF MayFail(row[e], Seen(e)) THEN [row EXCEPT ![e] = Fail(@)] ELSE row
        /\ obs' = obs
    BY <1>22 DEF FailClose
  <2>2. ASSUME Current(e, "fail", n) PROVE MayEnter(r, o, wf[e], wf[e], "closed")
    <3>1. wf[e].phase = "fail"
      BY <2>2 DEF Current
    <3>2. CASE MayFail(row[e], Seen(e))
      <4>1. r = Fail(row[e]) /\ row[e] \in Rows
        BY <2>1, <3>2 DEF r, RowsInv, Shaped, Sound
      <4>2. r.status \in Terminal
        BY <4>1 DEF Fail, Touch, Rows, Terminal
      <4> QED BY <1>0, <3>1, <4>2 DEF Over, TurnInv, PhaseInv, MayEnter, Early
    <3>3. CASE ~MayFail(row[e], Seen(e))
      <4>1. r = row[e] /\ row[e] \in Rows /\ o = obs[e]
        BY <2>1, <3>3 DEF r, o, RowsInv, Sound
      <4>2. r.status # "absent" /\ r.status # "queued"
        BY <1>0, <3>1, <3>3, <4>1 DEF TurnInv, RowInv, MayFail
      <4>3. r.status = "running" => Over(r)
        <5>1. ASSUME r.status = "running" PROVE Seen(e) # {} /\ "failed" \notin Seen(e)
          BY <3>3, <4>1, <5>1 DEF MayFail, Agrees
        <5>2. ASSUME r.status = "running" PROVE Told(o, {"succeeded", "cancelled"})
          BY <4>1, <5>1, <5>2 DEF Seen, Told, Typed
        <5> QED BY <1>0, <5>2 DEF TurnInv, RowInv
      <4>4. Over(r)
        BY <4>1, <4>2, <4>3 DEF Over, Rows, Statuses, Live, Terminal
      <4> QED BY <1>0, <3>1, <4>4 DEF TurnInv, PhaseInv, MayEnter, Early
    <3> QED BY <3>2, <3>3
  <2> QED BY <1>0, <1>3, <2>1, <2>2
<1> QED BY <1>8, <1>9, <1>10, <1>11, <1>12, <1>13, <1>14, <1>15, <1>16, <1>17, <1>18, <1>19,
           <1>20, <1>21, <1>22 DEF Work

------------------------------------------------------------------------------
(* The thread, the cancels and Temporal.                                       *)

(* The record of one workflow, and perhaps its attempts, are replaced. *)
LEMMA OneTurn ==
    ASSUME RowsInv, Typed, Turns, [Next]_vars, NEW e \in Execs, NEW u, NEW z,
           wf' = [wf EXCEPT ![e] = u], att' = [att EXCEPT ![e] = z], UNCHANGED obs,
           TurnInv(row'[e], obs[e], u, z)
    PROVE  Turns'
<1> SUFFICES ASSUME NEW f \in Execs PROVE TurnInv(row'[f], obs'[f], wf'[f], att'[f])
  BY DEF Turns
<1>1. CASE f = e
  BY <1>1 DEF Typed, RunsTyped
<1>2. CASE f # e
  BY <1>2, QuietTurn DEF Typed, RunsTyped
<1> QED BY <1>1, <1>2

\* A step that moves no run keeps every turn's account.
LEMMA NoTurn ==
    ASSUME RowsInv, Turns, [Next]_vars, UNCHANGED <<obs, wf, att>>
    PROVE  Turns'
BY QuietTurn DEF Turns

\* A step of a cancellation keeps every turn's account.
LEMMA CancelTurns ==
    ASSUME RowsInv, Typed, TurnsInv, CancelApi, [Next]_vars
    PROVE  Turns'
<1> USE DEF TurnsInv
<1>1. ASSUME NEW c \in Cancels, CancelDispatch(c), wf' # wf PROVE Turns'
  <2> DEFINE e == can[c].exec
             u == [wf[e] EXCEPT !.cancel = "requested"]
  <2>1. e \in Execs /\ Tried(row[e], obs[e])
    BY <1>1 DEF CancelDispatch, CancelsTried
  <2>2. wf' = [wf EXCEPT ![e] = u] /\ UNCHANGED <<row, obs, att>>
    BY <1>1 DEF CancelDispatch
  <2>3. /\ u.phase = wf[e].phase /\ u.out = wf[e].out /\ u.cancel = "requested"
        /\ u.failed = wf[e].failed /\ u.gaveUp = wf[e].gaveUp
    BY <2>1 DEF Typed, RunsTyped, Workflow
  <2>4. TurnInv(row[e], obs[e], wf[e], att[e])
    BY <2>1 DEF Turns
  <2> HIDE DEF e, u
  <2>5. TurnInv(row[e], obs[e], u, att[e])
    BY <2>1, <2>3, <2>4 DEF TurnInv, PhaseInv, RowInv, EndInv
  <2>6. att' = [att EXCEPT ![e] = att[e]]
    BY <2>1, <2>2 DEF Typed, RunsTyped
  <2> QED BY <2>1, <2>2, <2>5, <2>6, OneTurn
<1>2. CASE UNCHANGED <<obs, wf, att>>
  BY <1>2, NoTurn
<1> QED BY <1>1, <1>2 DEF CancelApi, CancelClose, CancelDispatch, CancelLost

\* A step of the thread's workflow keeps every turn's account.
LEMMA ThreadTurns ==
    ASSUME RowsInv, Typed, TurnsInv, ThreadRun, [Next]_vars
    PROVE  Turns'
<1> USE DEF TurnsInv
<1>1. CASE ThreadStart /\ wf[thr.cur].phase = "none"
  <2> DEFINE e == thr.cur
             u == [wf[e] EXCEPT !.phase = "prepare"]
             z == [att[e] EXCEPT !["prepare"][1] = "scheduled"]
  <2>1. e \in Execs /\ row[e].status # "absent"
    BY <1>1 DEF ThreadStart, Typed, Thread, ToldIsThere
  <2>2. wf' = [wf EXCEPT ![e] = u] /\ att' = [att EXCEPT ![e] = z] /\ UNCHANGED <<row, obs>>
    BY <1>1 DEF ThreadStart
  <2>3. /\ u.phase = "prepare" /\ u.out = wf[e].out /\ u.cancel = wf[e].cancel
        /\ u.failed = wf[e].failed /\ u.gaveUp = wf[e].gaveUp
    BY <2>1 DEF Typed, RunsTyped, Workflow
  <2>4. TurnInv(row[e], obs[e], wf[e], att[e]) /\ att[e] \in Slots
    BY <2>1 DEF Turns, Typed, RunsTyped
  <2> HIDE DEF u
  <2>5. TurnInv(row[e], obs[e], u, att[e])
    BY <1>1, <2>1, <2>3, <2>4 DEF TurnInv, PhaseInv, RowInv, EndInv, Early
  <2>6. TurnInv(row[e], obs[e], u, z)
    BY <2>3, <2>4, <2>5, AttemptAssumption, TriedMayTry, TurnSlot DEF Activities, Attempt
  <2> HIDE DEF e, z
  <2> QED BY <2>1, <2>2, <2>6, OneTurn
<1>2. CASE UNCHANGED <<obs, wf, att>>
  BY <1>2, NoTurn
<1> QED BY <1>1, <1>2
        DEF ThreadRun, ThreadWake, ThreadIdle, ThreadAsk, ThreadDrained, ThreadStart, ThreadChild

\* A step of Temporal keeps every turn's account.
LEMMA TemporalTurns ==
    ASSUME RowsInv, Typed, Turns, Temporal, [Next]_vars
    PROVE  Turns'
<1> SUFFICES ASSUME NEW e \in Execs, DeliverCancel(e) \/ LoseAttempt(e) \/ BusyWake(e)
             PROVE  Turns'
  BY DEF Temporal
<1>0. /\ wf \in [Execs -> Workflow] /\ att \in [Execs -> Slots] /\ wf[e] \in Workflow
      /\ att[e] \in Slots
      /\ TurnInv(row[e], obs[e], wf[e], att[e])
      /\ UNCHANGED <<row, obs>>
  BY DEF Typed, RunsTyped, Turns, DeliverCancel, LoseAttempt, BusyWake
<1>1. ASSUME NEW v \in Workflow, NEW next \in Activities \cup {"busy", "closed"},
             MayEnter(row[e], obs[e], wf[e], v, next), Enter(e, att[e], v, next)
      PROVE  Turns'
  <2> DEFINE u == [v EXCEPT !.phase = next, !.n = 1]
             z == IF next \in Activities THEN [att[e] EXCEPT ![next][1] = "scheduled"] ELSE att[e]
  <2>1. TurnInv(row[e], obs[e], u, z)
    BY <1>0, <1>1, TurnEnter
  <2>2. wf' = [wf EXCEPT ![e] = u] /\ att' = [att EXCEPT ![e] = z]
    BY <1>1 DEF Enter
  <2> HIDE DEF u, z
  <2> QED BY <1>0, <2>1, <2>2, OneTurn
<1>2. CASE DeliverCancel(e)
  <2> DEFINE w == [wf[e] EXCEPT !.cancel = "delivered"]
             f == [w EXCEPT !.failed = TRUE]
             g == [w EXCEPT !.gaveUp = TRUE]
  <2>1. /\ w \in Workflow /\ w.phase = wf[e].phase /\ w.out = wf[e].out
        /\ w.cancel = "delivered" /\ w.failed = wf[e].failed /\ w.gaveUp = wf[e].gaveUp
    BY <1>0 DEF Workflow
  <2>2. /\ f \in Workflow /\ f.out = wf[e].out /\ f.cancel = "delivered" /\ f.failed
        /\ f.gaveUp = wf[e].gaveUp
        /\ g \in Workflow /\ g.out = wf[e].out /\ g.cancel = "delivered" /\ g.gaveUp
        /\ g.failed = wf[e].failed
    BY <2>1 DEF Workflow
  <2>3. wf[e].cancel = "requested"
    BY <1>2 DEF DeliverCancel
  <2> HIDE DEF f, g
  <2>4. CASE wf[e].phase = "prepare" /\ Enter(e, att[e], f, "fail")
    <3>1. MayEnter(row[e], obs[e], wf[e], f, "fail")
      BY <1>0, <2>2, <2>3, <2>4 DEF TurnInv, PhaseInv, MayEnter, Early
    <3> QED BY <1>1, <2>2, <2>4, <3>1 DEF Activities
  <2>5. CASE wf[e].phase = "busy" /\ Enter(e, att[e], f, "closed")
    <3>1. row[e].status \in Terminal
      BY <1>0, <2>3, <2>5 DEF TurnInv, RowInv, Tried, Early
    <3>2. MayEnter(row[e], obs[e], wf[e], f, "closed")
      BY <1>0, <2>2, <2>3, <2>5, <3>1 DEF TurnInv, PhaseInv, MayEnter, Over, Early
    <3> QED BY <1>1, <2>2, <2>5, <3>2
  <2>6. CASE wf' = [wf EXCEPT ![e] = w] /\ UNCHANGED att
    <3> HIDE DEF w
    <3>1. TurnInv(row[e], obs[e], w, att[e])
      BY <1>0, <2>1, <2>3 DEF TurnInv, PhaseInv, RowInv, EndInv
    <3>2. att' = [att EXCEPT ![e] = att[e]]
      BY <1>0, <2>6
    <3> QED BY <1>0, <2>6, <3>1, <3>2, OneTurn
  <2>7. CASE wf[e].phase = "fail" /\ Enter(e, att[e], g, "closed")
    <3>1. MayEnter(row[e], obs[e], wf[e], g, "closed")
      BY <1>0, <2>2, <2>3, <2>7 DEF TurnInv, PhaseInv, MayEnter, Early
    <3> QED BY <1>1, <2>2, <2>7, <3>1
  <2> QED BY <1>2, <2>4, <2>5, <2>6, <2>7 DEF DeliverCancel, f, g
<1>3. CASE LoseAttempt(e)
  <2> DEFINE a == wf[e].phase
             n == wf[e].n
  <2>1. a \in Activities /\ n \in AttemptIds
    BY <1>0, <1>3 DEF LoseAttempt, Workflow
  <2>2. CASE Enter(e, att[e], Broken(e, a), AfterError(a))
    <3>1. /\ MayEnter(row[e], obs[e], wf[e], Broken(e, a), AfterError(a))
          /\ Broken(e, a) \in Workflow /\ AfterError(a) \in Activities \cup {"closed"}
      BY <1>0, <2>1, BrokenEnters
    <3> QED BY <1>1, <2>2, <3>1
  <2>3. CASE ~LastTry(e, a, n)
    <3>1. n + 1 \in AttemptIds /\ wf' = [wf EXCEPT ![e].n = n + 1]
      BY <1>3, <2>3 DEF LoseAttempt, LastTry
    <3>2. att' = [att EXCEPT ![e] = [att[e] EXCEPT ![a][n + 1] = "scheduled"]]
      BY <1>3, <2>3 DEF LoseAttempt
    <3>3. TurnInv(row[e], obs[e], wf'[e], att'[e])
      BY <1>0, <2>1, <3>1, <3>2, TurnRetry
    <3>4. wf' = [wf EXCEPT ![e] = wf'[e]] /\ att' = [att EXCEPT ![e] = att'[e]]
      BY <1>0, <3>1, <3>2
    <3> QED BY <1>0, <3>3, <3>4, OneTurn
  <2> QED BY <1>3, <2>2, <2>3 DEF LoseAttempt
<1>4. CASE BusyWake(e)
  <2> DEFINE v == [wf[e] EXCEPT !.round = @ + 1]
  <2>1. /\ v \in Workflow /\ v.out = wf[e].out /\ v.cancel = wf[e].cancel
        /\ v.gaveUp = wf[e].gaveUp
    BY <1>0 DEF Workflow
  <2>2. Enter(e, att[e], v, "prepare") /\ wf[e].phase = "busy"
    BY <1>4 DEF BusyWake
  <2> HIDE DEF v
  <2>3. MayEnter(row[e], obs[e], wf[e], v, "prepare")
    BY <1>0, <2>1, <2>2 DEF TurnInv, PhaseInv, MayEnter, Early
  <2> QED BY <1>1, <2>1, <2>2, <2>3 DEF Activities
<1> QED BY <1>2, <1>3, <1>4

\* Every step keeps every turn's account.
LEMMA TurnsStep ==
    ASSUME RowsInv, Typed, TurnsInv, [Next]_vars
    PROVE  Turns'
<1>1. CASE Post \/ WorkerStart \/ UNCHANGED vars \/ (\E e \in Execs : GoStale(e))
  <2>1. UNCHANGED <<obs, wf, att>>
    BY <1>1 DEF Post, PostCheck, PostInsert, PostSignal, PostLost, WorkerStart, GoStale, vars
  <2> QED BY <2>1, NoTurn DEF TurnsInv
<1> QED BY <1>1, CancelTurns, ThreadTurns, TemporalTurns, WorkTurns DEF Next, TurnsInv

(* What was told of a run is told still, perhaps with another word. *)
LEMMA TriedStays ==
    ASSUME RowsInv, Typed, Turns, [Next]_vars, NEW f \in Execs, Tried(row[f], obs[f])
    PROVE  Tried(row'[f], obs'[f])
<1> DEFINE All == {"failed", "succeeded", "cancelled"}
<1>1. CASE row[f].status \in Terminal
  BY <1>1, StepStays DEF Stays, Tried
<1>2. CASE Told(obs[f], All)
  <2>1. PICK m \in AttemptIds : obs[f][m] \in All
    BY <1>2 DEF Told
  <2>2. ASSUME NEW e \in Execs, NEW n \in AttemptIds, Work(e, n)
        PROVE  UNCHANGED obs \/ \E k : \E status \in All : obs' = [obs EXCEPT ![e][k] = status]
    <3>1. CASE DraftClosed(e, n) \/ GenerateFail(e, n)
      <4>1. obs' = [obs EXCEPT ![e][n] = "failed"]
        BY <3>1 DEF DraftClosed, GenerateFail
      <4> QED BY <4>1
    <3>2. CASE FinalizeCommit(e, n) /\ obs' # obs
      <4>1. \E status \in {"cancelled", "succeeded"} : obs' = [obs EXCEPT ![e][wf[e].by] = status]
        BY <3>2 DEF FinalizeCommit
      <4> QED BY <4>1
    <3> QED BY <2>2, <3>1, <3>2
            DEF Work, PrepareClaim, PrepareRecover, PrepareReclaim, PrepareReturn, GenerateBegin,
                GenerateCanceled, Draft, Speak, GenerateRaise, GenerateReturn, FinalizeReturn,
                FailClose
  <2>3. ASSUME Post \/ CancelApi \/ ThreadRun \/ Temporal \/ WorkerStart
               \/ (\E e \in Execs : GoStale(e)) \/ UNCHANGED vars
        PROVE  UNCHANGED obs
    BY <2>3 DEF Post, PostCheck, PostInsert, PostSignal, PostLost, CancelApi, CancelClose,
                CancelDispatch, CancelLost, ThreadRun, ThreadWake, ThreadIdle, ThreadAsk,
                ThreadDrained, ThreadStart, ThreadChild, Temporal, DeliverCancel, LoseAttempt,
                BusyWake, WorkerStart, GoStale, vars
  <2>4. UNCHANGED obs \/ \E e \in Execs : \E k : \E status \in All :
                            obs' = [obs EXCEPT ![e][k] = status]
    BY <2>2, <2>3 DEF Next
  <2>5. obs'[f][m] \in All
    BY <2>1, <2>4 DEF Typed
  <2> QED BY <2>5 DEF Tried, Told
<1> QED BY <1>1, <1>2 DEF Tried

\* Every step preserves what a cancellation has tried.
LEMMA CancelsStep ==
    ASSUME RowsInv, Typed, TurnsInv, [Next]_vars
    PROVE  CancelsTried'
<1> USE DEF TurnsInv
<1>1. ASSUME NEW c \in Cancels, NEW e \in Execs, CancelClose(c, e), UNCHANGED scene
      PROVE  CancelsTried'
  <2>1. /\ can' = [can EXCEPT ![c] = [pc |-> "closed", exec |-> e]]
        /\ row' = IF MayCancel(row[e], Seen(e)) THEN [row EXCEPT ![e] = Cancel(@)] ELSE row
        /\ row[e].status # "absent" /\ obs' = obs
    BY <1>1 DEF CancelClose
  <2>2. Tried(row'[e], obs'[e])
    <3>1. row[e] \in Rows
      BY DEF RowsInv, Sound
    <3>2. CASE MayCancel(row[e], Seen(e))
      <4>1. row'[e] = Cancel(row[e])
        BY <2>1, <3>2 DEF RowsInv, Shaped
      <4>2. Cancel(row[e]).status = "canceled"
        BY <3>1 DEF Cancel, Touch, Rows
      <4> QED BY <4>1, <4>2 DEF Tried, Terminal
    <3>3. CASE ~MayCancel(row[e], Seen(e))
      <4>1. row[e].status = "running" => Seen(e) # {}
        BY <3>3 DEF MayCancel, Agrees
      <4>2. row[e].status = "running" => Told(obs[e], {"failed", "succeeded", "cancelled"})
        BY <4>1 DEF Seen, Told, Typed
      <4> QED BY <2>1, <3>1, <3>3, <4>2 DEF Tried, MayCancel, Rows, Statuses, Live, Terminal
    <3> QED BY <3>2, <3>3
  <2>3. \A d \in Cancels \ {c} : can'[d] = can[d]
    BY <2>1 DEF Typed
  <2>4. can'[c].exec = e
    BY <2>1 DEF Typed
  <2> QED BY <2>2, <2>3, <2>4, TriedStays DEF CancelsTried
<1>2. ASSUME NEW c \in Cancels, CancelDispatch(c) \/ CancelLost(c), UNCHANGED scene
      PROVE  CancelsTried'
  <2>1. PICK pc \in {"answered", "error"} : can' = [can EXCEPT ![c].pc = pc]
    BY <1>2 DEF CancelDispatch, CancelLost
  <2>2. can[c].pc # "new"
    BY <1>2 DEF CancelDispatch, CancelLost
  <2>3. \A d \in Cancels : can'[d].exec = can[d].exec /\ (can'[d].pc # "new" => can[d].pc # "new")
    BY <2>1, <2>2 DEF Typed, Cancellations
  <2> QED BY <2>3, TriedStays DEF CancelsTried
<1>3. CASE UNCHANGED can
  BY <1>3, TriedStays DEF CancelsTried
<1>4. CASE CancelApi /\ UNCHANGED scene
  BY <1>1, <1>2, <1>4 DEF CancelApi
<1>5. CASE Post \/ WorkerStart \/ UNCHANGED vars \/ (\E e \in Execs : GoStale(e))
  BY <1>3, <1>5 DEF Post, PostCheck, PostInsert, PostSignal, PostLost, WorkerStart, GoStale, vars
<1> QED BY <1>3, <1>4, <1>5, ThreadType, TemporalType, WorkType DEF Next

\* Every step keeps behind every announcement the row it tells of.
LEMMA ToldStep ==
    ASSUME RowsInv, Typed, TurnsInv, [Next]_vars
    PROVE  ToldIsThere'
<1> USE DEF TurnsInv
<1>0. thr \in Thread /\ \A e \in Execs : row[e].status # "absent" => row'[e].status # "absent"
  BY StepStays DEF Stays, Typed
<1>1. ASSUME thr' \in {thr, Signalled} PROVE ToldIsThere'
  BY <1>0, <1>1 DEF Signalled, Idle, ToldIsThere, Thread
<1>2. CASE ThreadAsk
  <2>1. PICK e \in IF QueuedExecs = {} THEN {NoExec} ELSE Oldest :
          thr' = [thr EXCEPT !.phase = "told", !.cur = e]
    BY <1>2 DEF ThreadAsk
  <2>2. thr'.cur = e
    BY <1>0, <2>1 DEF Thread
  <2>3. e = NoExec \/ (e \in Execs /\ row[e].status = "queued")
    BY <2>1 DEF Oldest, QueuedExecs
  <2> QED BY <1>0, <2>2, <2>3 DEF ToldIsThere
<1>3. CASE ThreadWake \/ ThreadIdle \/ ThreadDrained \/ ThreadStart \/ ThreadChild
  <2>1. thr'.phase # "told"
    <3>1. ASSUME ThreadChild PROVE thr'.phase # "told"
      <4>1. thr.served + 1 \in Nat
        BY <1>0 DEF Thread
      <4>2. AfterChild.phase \in {"asking", "waiting"}
        BY <1>0, <4>1 DEF AfterChild, Idle, Thread
      <4> QED BY <3>1, <4>2 DEF ThreadChild
    <3>2. ASSUME ThreadStart PROVE thr'.phase # "told"
      BY <1>0, <3>2 DEF ThreadStart, Thread
    <3>3. ASSUME ThreadWake \/ ThreadIdle \/ ThreadDrained PROVE thr'.phase # "told"
      BY <1>0, <3>3 DEF ThreadWake, ThreadIdle, ThreadDrained, Thread
    <3> QED BY <1>3, <3>1, <3>2, <3>3
  <2> QED BY <2>1 DEF ToldIsThere
<1>4. CASE ThreadRun
  BY <1>2, <1>3, <1>4 DEF ThreadRun
<1>5. CASE Post \/ WorkerStart \/ UNCHANGED vars \/ (\E e \in Execs : GoStale(e))
  BY <1>1, <1>5 DEF Post, PostCheck, PostInsert, PostSignal, PostLost, WorkerStart, GoStale, vars
<1> QED BY <1>1, <1>4, <1>5, CancelType, TemporalOnlyOpen, WorkOnlyOpen DEF Next

\* The accounts, types and the single open run hold in every state.
LEMMA TurnsInvariance == Spec => [](IntakeInv /\ Typed /\ OpenIsChild /\ TurnsInv)
<1>1. Init => IntakeInv /\ Typed /\ OpenIsChild
  BY IntakeInit, TypedInit DEF Init, OpenIsChild, Open
<1>2. Init => TurnsInv
  <2> SUFFICES ASSUME Init PROVE TurnsInv
    OBVIOUS
  <2>1. Turns
    BY DEF Init, NoRow, Turns, TurnInv, Plain, PhaseInv, RowInv, EndInv, Some, Told, Early,
           Activities
  <2>2. CancelsTried /\ ToldIsThere
    BY DEF Init, CancelsTried, ToldIsThere, Idle
  <2> QED BY <2>1, <2>2 DEF TurnsInv
<1>3. IntakeInv /\ Typed /\ OpenIsChild /\ TurnsInv /\ [Next]_vars
        => (IntakeInv /\ Typed /\ OpenIsChild /\ TurnsInv)'
  <2> SUFFICES ASSUME IntakeInv, Typed, OpenIsChild, TurnsInv, [Next]_vars
               PROVE  (IntakeInv /\ Typed /\ OpenIsChild /\ TurnsInv)'
    OBVIOUS
  <2>1. RowsInv
    BY DEF IntakeInv
  <2>2. IntakeInv' /\ Typed' /\ OpenIsChild'
    BY IntakeStep, TypedStep, OpenIsChildStep
  <2>3. TurnsInv'
    BY <2>1, TurnsStep, CancelsStep, ToldStep DEF TurnsInv
  <2> QED BY <2>2, <2>3
<1> QED BY <1>1, <1>2, <1>3, PTL DEF Spec

(* What the model had written when it was told to stop is in the thread once   *)
(* the workflow has ended, also when the cancel had closed the row before;     *)
(* only a row the lease took back misses it (chat_activities.py, finalize).    *)
THEOREM PartialAnswersReachTheThread == Spec => []PartialAnswerKept
<1>1. TurnsInv => PartialAnswerKept
  BY DEF TurnsInv, Turns, TurnInv, EndInv, PartialAnswerKept
<1> QED BY <1>1, TurnsInvariance, PTL

(* Whatever is lost, fails or is cancelled on the way, a workflow that closed  *)
(* leaves its row open only if its fail activity was given up, the lease took  *)
(* the row back, or it was cancelled without a text after a failed attempt     *)
(* (chat_workflows.py, ChatExecutionWorkflow).                                 *)
THEOREM ClosedWorkflowsCloseTheirRows == Spec => []OrphansExplained
<1>1. TurnsInv /\ Typed => OrphansExplained
  <2> SUFFICES ASSUME TurnsInv, Typed, NEW e \in Execs, wf[e].phase = "closed",
                      row[e].status \in Live
               PROVE  LeftOpen(e)
    BY DEF OrphansExplained
  <2>1. Over(row[e]) \/ wf[e].gaveUp \/ (wf[e].out = "blank" /\ Told(obs[e], {"failed"}))
    BY DEF TurnsInv, Turns, TurnInv, EndInv
  <2>2. row[e].status \notin Terminal
    BY DEF Live, Terminal
  <2>3. Told(obs[e], {"failed"}) => "failed" \in Seen(e)
    BY DEF Told, Seen
  <2> QED BY <2>1, <2>2, <2>3 DEF Over, LeftOpen
<1> QED BY <1>1, TurnsInvariance, PTL

------------------------------------------------------------------------------
(* The idle thread.                                                            *)

(* The thread goes on as a new run, whose wake flag is down. *)
Continues == ThreadChild /\ ~wf[thr.cur].failed /\ thr.served + 1 >= MaxChildren

(* The thread will look at the queue again before it goes to sleep. *)
Attends ==
    \/ thr.wake
    \/ thr.phase \in {"asking", "running"}
    \/ thr.phase = "told" /\ thr.cur \notin {NoExec, thr.failed}

Waits(r, e) == req[r] = [pc |-> "answered", exec |-> e] /\ row[e].status = "queued"

ThreadInv ==
    /\ thr.phase = "closed" => ~thr.wake
    /\ thr.failed # NoExec => wf[thr.failed].phase = "closed"
    /\ \A r \in Requests, e \in Execs : Waits(r, e) => Attends \/ Stuck

\* A closed run stays as it is.
LEMMA ClosedStays ==
    ASSUME Typed, [Next]_vars, NEW e \in Execs, wf[e].phase = "closed"
    PROVE  wf'[e] = wf[e]
<1>1. CASE OnlyOpen
  BY <1>1 DEF OnlyOpen, Open, Typed, RunsTyped
<1>2. CASE ThreadRun
  <2>1. \/ UNCHANGED wf
        \/ wf[thr.cur].phase = "none" /\ wf' = [wf EXCEPT ![thr.cur].phase = "prepare"]
    BY <1>2 DEF ThreadRun, ThreadWake, ThreadIdle, ThreadAsk, ThreadDrained, ThreadStart, ThreadChild
  <2> QED BY <2>1 DEF Typed, RunsTyped
<1>3. CASE Post \/ WorkerStart \/ UNCHANGED vars \/ (\E f \in Execs : GoStale(f))
  BY <1>3 DEF Post, PostCheck, PostInsert, PostSignal, PostLost, WorkerStart, GoStale, vars
<1> QED BY <1>1, <1>2, <1>3, CancelOnlyOpen, TemporalOnlyOpen, WorkOnlyOpen DEF Next

\* A stuck turn stays stuck.
LEMMA StuckStays ==
    ASSUME RowsInv, Typed, Turns, [Next]_vars, Stuck
    PROVE  Stuck'
<1>1. PICK e \in Execs : row[e].retaken \/ wf[e].gaveUp
  BY DEF Stuck
<1>2. CASE row[e].retaken
  <2>1. row'[e].retaken
    BY <1>2, StepStays DEF Stays
  <2> QED BY <2>1 DEF Stuck
<1>3. CASE wf[e].gaveUp
  <2>1. wf[e].phase = "closed"
    BY <1>3 DEF Turns, TurnInv, PhaseInv
  <2>2. wf'[e].gaveUp
    BY <1>3, <2>1, ClosedStays
  <2> QED BY <2>2 DEF Stuck
<1> QED BY <1>1, <1>2, <1>3

(* A turn that is in the queue again, or still, after its workflow. *)
LEMMA QueuedAfterIsStuck ==
    ASSUME Turns, NEW e \in Execs, row[e].status = "queued", wf[e].phase = "closed"
    PROVE  Stuck
BY DEF Turns, TurnInv, RowInv, EndInv, Over, Stuck, Terminal

(* A call that waits after the step waited before, is the step's own signal,   *)
(* or waits for a turn that was taken back.                                    *)
LEMMA WaitsFrom ==
    ASSUME IntakeInv, Turns, [Next]_vars, NEW r \in Requests, NEW e \in Execs, Waits(r, e)'
    PROVE  Waits(r, e) \/ thr'.wake \/ Stuck'
<1>1. CASE req'[r] = req[r]
  <2>1. row[e].status # "absent"
    BY <1>1 DEF Waits, IntakeInv, Answers, Served, Serves
  <2>2. row[e].status = "queued" \/ row'[e].retaken
    BY <2>1, StepStays DEF Stays, Waits, IntakeInv
  <2> QED BY <1>1, <2>2 DEF Waits, Stuck
<1>2. CASE req'[r] # req[r]
  <2>2. ASSUME NEW q \in Requests, NEW f, req' = [req EXCEPT ![q] = Existing(q, f)], UNCHANGED row
        PROVE  FALSE
    <3>1. req'[r] = Existing(q, f)
      BY <1>2, <2>2 DEF IntakeInv
    <3>2. e = f /\ row[f].status # "queued"
      BY <3>1 DEF Existing, Waits
    <3> QED BY <2>2, <3>2 DEF Waits
  <2>3. ASSUME NEW q \in Requests, PostCheck(q) PROVE FALSE
    <3>1. CASE KeyHolders(q) # {}
      BY <2>2, <2>3, <3>1 DEF PostCheck
    <3>2. CASE KeyHolders(q) = {}
      BY <1>2, <2>3, <3>2 DEF PostCheck, Waits, IntakeInv
    <3> QED BY <3>1, <3>2
  <2>4. ASSUME NEW q \in Requests, PostInsert(q) PROVE FALSE
    <3>1. CASE KeyHolders(q) # {}
      BY <2>2, <2>4, <3>1 DEF PostInsert
    <3>2. CASE KeyHolders(q) = {}
      BY <1>2, <2>4, <3>2 DEF PostInsert, Waits, IntakeInv
    <3> QED BY <3>1, <3>2
  <2>5. ASSUME NEW q \in Requests, PostSignal(q) PROVE thr'.wake
    BY <2>5 DEF PostSignal, Signalled, Idle
  <2>6. ASSUME NEW q \in Requests, PostLost(q) PROVE FALSE
    BY <1>2, <2>6 DEF PostLost, Waits, IntakeInv
  <2>7. Post
    <3>1. ASSUME NEW f \in Execs, NEW n \in AttemptIds, Work(f, n) PROVE UNCHANGED req
      BY <3>1 DEF Work, PrepareClaim, PrepareRecover, PrepareReclaim, PrepareReturn, GenerateBegin,
                  GenerateCanceled, Draft, Speak, DraftClosed, GenerateFail, GenerateRaise,
                  GenerateReturn, FinalizeCommit, FinalizeReturn, FailClose
    <3>2. CancelApi \/ ThreadRun \/ Temporal \/ WorkerStart \/ (\E f \in Execs : GoStale(f))
            \/ UNCHANGED vars => UNCHANGED req
      BY DEF CancelApi, CancelClose, CancelDispatch, CancelLost, ThreadRun, ThreadWake, ThreadIdle,
             ThreadAsk, ThreadDrained, ThreadStart, ThreadChild, Temporal, DeliverCancel,
             LoseAttempt, BusyWake, WorkerStart, GoStale, vars
    <3> QED BY <1>2, <3>1, <3>2 DEF Next
  <2> QED BY <1>2, <2>3, <2>4, <2>5, <2>6, <2>7 DEF Post
<1> QED BY <1>1, <1>2

(* The thread looks again, or has looked, found nothing and been left alone. *)
LEMMA AttendsOn ==
    ASSUME RowsInv, Typed, OpenIsChild, Turns, ThreadInv, ThreadRun, [Next]_vars, ~Continues,
           Attends \/ Stuck, NEW e \in Execs, row[e].status = "queued"
    PROVE  Attends' \/ Stuck'
<1>0. thr \in Thread /\ (Stuck => Stuck')
  BY StuckStays DEF Typed
<1>1. CASE ThreadWake
  BY <1>0, <1>1 DEF ThreadWake, Attends, Thread
<1>2. CASE ThreadIdle
  BY <1>0, <1>2 DEF ThreadIdle, Attends
<1>3. CASE ThreadAsk
  <2>1. PICK f \in Oldest : thr' = [thr EXCEPT !.phase = "told", !.cur = f]
    BY <1>3 DEF ThreadAsk, QueuedExecs
  <2>2. thr'.phase = "told" /\ thr'.cur = f /\ thr'.failed = thr.failed
    BY <1>0, <2>1 DEF Thread
  <2>3. f \in Execs /\ row[f].status = "queued" /\ f # NoExec
    BY NoExecAssumption DEF Oldest, QueuedExecs
  <2>4. CASE f # thr.failed
    BY <2>2, <2>3, <2>4 DEF Attends
  <2>5. CASE f = thr.failed
    <3>1. wf[f].phase = "closed"
      BY <2>3, <2>5 DEF ThreadInv
    <3> QED BY <1>0, <2>3, <3>1, QueuedAfterIsStuck
  <2> QED BY <2>4, <2>5
<1>4. CASE ThreadDrained
  <2>1. Attends => thr.wake
    BY <1>4 DEF ThreadDrained, Attends
  <2>2. thr'.wake = thr.wake
    BY <1>0, <1>4 DEF ThreadDrained, Thread
  <2> QED BY <1>0, <2>1, <2>2 DEF Attends
<1>5. CASE ThreadStart
  <2>1. thr'.phase \in {"asking", "running"}
    BY <1>0, <1>5 DEF ThreadStart, Thread
  <2> QED BY <2>1 DEF Attends
<1>6. CASE ThreadChild
  <2>1. thr.served + 1 \in Nat /\ MaxChildren \in Nat
    BY <1>0, BoundAssumption DEF Thread
  <2>2. AfterChild.phase = "asking"
    BY <1>0, <1>6, <2>1 DEF Continues, AfterChild, Thread
  <2> QED BY <1>6, <2>2 DEF ThreadChild, Attends
<1> QED BY <1>1, <1>2, <1>3, <1>4, <1>5, <1>6 DEF ThreadRun

\* What the thread's workflow keeps of its failed turns and its wake-up.
LEMMA FailedStep ==
    ASSUME Typed, OpenIsChild, ThreadInv, [Next]_vars
    PROVE  /\ thr'.phase = "closed" => ~thr'.wake
           /\ thr'.failed # NoExec => wf'[thr'.failed].phase = "closed"
<1>0. thr \in Thread /\ (thr.failed # NoExec => wf'[thr.failed].phase = "closed")
  BY ClosedStays DEF Typed, Thread, ThreadInv
<1>1. ASSUME thr' \in {thr, Signalled}
      PROVE  /\ thr'.phase = "closed" => ~thr'.wake
             /\ thr'.failed # NoExec => wf'[thr'.failed].phase = "closed"
  BY <1>0, <1>1 DEF Signalled, Idle, ThreadInv, Thread
<1>2. CASE ThreadWake \/ ThreadIdle \/ ThreadAsk \/ ThreadDrained
  BY <1>0, <1>2 DEF ThreadWake, ThreadIdle, ThreadAsk, ThreadDrained, ThreadInv, Thread
<1>3. CASE ThreadStart
  <2>1. ~Open(thr.cur) /\ thr.cur \in Execs
    BY <1>0, <1>3 DEF ThreadStart, OpenIsChild, Thread
  <2>2. CASE wf[thr.cur].phase = "none"
    BY <1>0, <1>3, <2>2 DEF ThreadStart, Thread
  <2>3. CASE wf[thr.cur].phase # "none"
    <3>1. wf' = wf /\ thr' = [thr EXCEPT !.phase = "asking", !.failed = thr.cur]
      BY <1>3, <2>3 DEF ThreadStart
    <3>2. thr'.failed = thr.cur /\ thr'.phase = "asking"
      BY <1>0, <3>1 DEF Thread
    <3> QED BY <2>1, <2>3, <3>1, <3>2 DEF Open
  <2> QED BY <2>2, <2>3
<1>4. CASE ThreadChild
  <2>1. thr.served + 1 \in Nat
    BY <1>0 DEF Thread
  <2>2. thr' = AfterChild /\ wf' = wf /\ wf[thr.cur].phase = "closed"
    BY <1>4 DEF ThreadChild
  <2>3. AfterChild.phase # "closed" /\ AfterChild.failed \in {thr.cur, NoExec}
    BY <1>0, <2>1 DEF AfterChild, Idle, Thread
  <2> QED BY <2>2, <2>3
<1>5. CASE Post \/ WorkerStart \/ UNCHANGED vars \/ (\E e \in Execs : GoStale(e))
  BY <1>1, <1>5 DEF Post, PostCheck, PostInsert, PostSignal, PostLost, WorkerStart, GoStale, vars
<1> QED BY <1>1, <1>2, <1>3, <1>4, <1>5, CancelType, TemporalOnlyOpen, WorkOnlyOpen
        DEF Next, ThreadRun

\* Every step short of a continuation preserves the thread's invariant.
LEMMA ThreadStep ==
    ASSUME IntakeInv, Typed, OpenIsChild, TurnsInv, ThreadInv, [Next]_vars, ~Continues
    PROVE  ThreadInv'
<1> USE DEF TurnsInv
<1>0. RowsInv /\ thr \in Thread /\ (Stuck => Stuck')
  BY StuckStays DEF IntakeInv, Typed
<1>1. ASSUME NEW r \in Requests, NEW e \in Execs, Waits(r, e)'
      PROVE  Attends' \/ Stuck'
  <2>1. CASE thr'.wake \/ Stuck'
    BY <2>1 DEF Attends
  <2>2. CASE Waits(r, e)
    <3>1. Attends \/ Stuck
      BY <2>2 DEF ThreadInv
    <3>2. ASSUME thr' \in {thr, Signalled} PROVE Attends' \/ Stuck'
      <4>1. CASE thr' = thr
        BY <1>0, <3>1, <4>1 DEF Attends
      <4>2. CASE thr' = Signalled
        BY <1>0, <4>2 DEF Signalled, Idle, Attends, Thread
      <4> QED BY <3>2, <4>1, <4>2
    <3>3. CASE ThreadRun
      BY <1>0, <2>2, <3>1, <3>3, AttendsOn DEF Waits
    <3>4. CASE Post \/ WorkerStart \/ UNCHANGED vars \/ (\E f \in Execs : GoStale(f))
      BY <3>2, <3>4 DEF Post, PostCheck, PostInsert, PostSignal, PostLost, WorkerStart, GoStale, vars
    <3> QED BY <3>2, <3>3, <3>4, CancelType, TemporalOnlyOpen, WorkOnlyOpen DEF Next
  <2> QED BY <1>1, <2>1, <2>2, WaitsFrom
<1> QED BY <1>1, FailedStep DEF ThreadInv

(* Unless the thread goes on as a new run, which starts with its wake flag     *)
(* down and may forget a turn, it never falls asleep behind a turn whose POST  *)
(* has signalled it, but behind a stuck one, however signals, asks, children   *)
(* and leases interleave (chat_workflows.py:138).                              *)
THEOREM IdleThreadIsDrained == Spec /\ [][~Continues]_vars => []IdleMeansDrained
<1> DEFINE J == IntakeInv /\ Typed /\ OpenIsChild /\ TurnsInv
<1>1. Init => ThreadInv
  BY DEF Init, ThreadInv, Waits, Idle, Thread
<1>2. J /\ ThreadInv /\ [Next]_vars /\ [~Continues]_vars => ThreadInv'
  <2>1. CASE UNCHANGED vars
    <3>1. ThreadInv => ThreadInv'
      BY <2>1 DEF vars, ThreadInv, Waits, Attends, Stuck
    <3> QED BY <3>1
  <2> QED BY <2>1, ThreadStep
<1>3. ThreadInv => IdleMeansDrained
  BY DEF ThreadInv, IdleMeansDrained, Waits, Attends
<1>4. Spec => []J
  BY TurnsInvariance
<1> HIDE DEF J
<1> QED BY <1>1, <1>2, <1>3, <1>4, PTL DEF Spec
==============================================================================
